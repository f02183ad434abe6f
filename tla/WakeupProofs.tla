---------------------------- MODULE WakeupProofs ----------------------------
(***************************************************************************)
(* The wakeups of the event loop of Lifecycle.  Work is what a pump of the *)
(* host would do something about: a delegated task, nodes that are all     *)
(* closed, a node that may be closed.  LoopsInv is inductive beside IInv   *)
(* and RestInv: while there is work the host is called, or it is about to  *)
(* look.                                                                   *)
(*                                                                         *)
(* The host is called when its callback has posted, and before that when   *)
(* some thread still has a request to make.  Between the start of a round  *)
(* and its end only a request counts that came after the start, because    *)
(* the host looks at the requests again when it arms the callback.         *)
(***************************************************************************)
EXTENDS SourceProofs

\* The host goes round by one list of steps at a time: what a round has to do
\* comes before its end, and nothing of a round comes after that.
LoopKinds == {"pump", "pumped", "again?", "wait", "done?", "more?", "idle?"}
EndKinds == {"pumped", "done?"}
BusyKinds == {"run", "process", "land", "flush", "release", "retire"}
RoundKinds == {"task", "ended", "close?", "close", "closing", "end"} \cup BusyKinds
LoopInv ==
    \A i \in 1 .. Len(todo[Host]) :
        /\ Kind(Host, i) \in RoundKinds =>
              \E j \in 1 .. Len(todo[Host]) : j > i /\ Kind(Host, j) \in EndKinds
        /\ Kind(Host, i) \in LoopKinds =>
              \A j \in 1 .. Len(todo[Host]) : j > i => Kind(Host, j) \notin RoundKinds \cup LoopKinds
        /\ Kind(Host, i) \in BusyKinds => moved

\* A cancel makes a request, and a request is made before its callback is called.
AskInv ==
    \A t \in Threads : \A i \in 1 .. Len(todo[t]) :
        /\ Kind(t, i) = "cancelled" =>
              \E j \in 1 .. Len(todo[t]) : j > i /\ Kind(t, j) = "request"
        /\ Kind(t, i) = "request" =>
              \E j \in 1 .. Len(todo[t]) : j > i /\ Kind(t, j) = "arm"

\* The workers run and close the source only.
OwnerKinds == {"run", "process", "land", "close?", "close", "closing"}
OwnInv ==
    \A w \in Workers : \A i \in 1 .. Len(todo[w]) :
        Kind(w, i) \in OwnerKinds => todo[w][i][2] = "source"

\* A callback that was called is not called again before the host has pumped.
Flags == [pending : BOOLEAN, requested : BOOLEAN, posted : BOOLEAN]
PendingInv ==
    /\ wakeup \in Flags
    /\ wakeup.pending => wakeup.posted \/ Has(Host, "pump") \/ Has(Host, "pumped")

\* A graph is started without a node that is closed.
NewInv ==
    /\ Fresh /\ ~Stopped => \A n \in Nodes : ~node[n].closeStarted
    /\ Has(Host, "running") => ~Stopped

Asks == \E t \in Threads : Has(t, "request") \/ Has(t, "end") \/ Has(t, "completed")
Pumps == Has(Host, "pumped") \/ Has(Host, "again?")
Called ==
    \/ Has(Host, "freed") \/ Has(Host, "pump") \/ Has(Host, "wait")
    \/ Asks
    \/ moved /\ (Has(Host, "pumped") \/ Has(Host, "done?"))
    \/ IF Pumps THEN wakeup.requested
       ELSE wakeup.posted \/ \E t \in Threads : Has(t, "arm")

Closable(n) ==
    /\ node[n].opened /\ ~node[n].closeStarted /\ node[n].line = <<>>
    /\ Stopped \/ Drained(n)
Looks(n) ==
    \/ Has(Host, "task")
    \/ \E i \in 1 .. Len(todo[Host]) :
          /\ Kind(Host, i) \in {"close?", "close"} /\ todo[Host][i][2] = n
          /\ Kind(Host, i) = "close" => todo[Host][i][3] \/ Drained(n)
WorkInv ==
    state \in Live =>
        /\ delegated > 0 => Called \/ Has(Host, "task")
        /\ AllClosed => Called \/ Has(Host, "ended")
        /\ \A n \in Nodes : Closable(n) => Called \/ Looks(n)

LoopsInv == LoopInv /\ AskInv /\ OwnInv /\ PendingInv /\ NewInv /\ WorkInv

---------------------------------------------------------------------------
(* Lists of steps for the host's rounds and for requests.                   *)

\* Who cancels requests, and who requests calls.
AskList(s) ==
    /\ s \in Seq(Steps)
    /\ \A i \in 1 .. Len(s) :
          /\ s[i][1] = "cancelled" => \E j \in 1 .. Len(s) : j > i /\ s[j][1] = "request"
          /\ s[i][1] = "request" => \E j \in 1 .. Len(s) : j > i /\ s[j][1] = "arm"

\* A round with its end, or one step of the loop.
RoundList(s) ==
    \A i \in 1 .. Len(s) :
        /\ s[i][1] \notin BusyKinds
        /\ s[i][1] \in RoundKinds => \E j \in 1 .. Len(s) : j > i /\ s[j][1] \in EndKinds
        /\ s[i][1] \in LoopKinds =>
              \A j \in 1 .. Len(s) : j > i => s[j][1] \notin RoundKinds \cup LoopKinds

\* What a thread may push.
HostFits(s) ==
    \/ \A i \in 1 .. Len(s) : s[i][1] \notin LoopKinds \cup RoundKinds
    \/ /\ Len(todo[Host]) >= 1 /\ Kind(Host, 1) \in RoundKinds
       /\ \A i \in 1 .. Len(s) : s[i][1] \notin LoopKinds /\ (s[i][1] \in BusyKinds => moved')
    \/ /\ Len(todo[Host]) = 0 \/ Kind(Host, 1) \in LoopKinds
       /\ RoundList(s)
Fits(t, s) ==
    /\ AskList(s)
    /\ t = Host => HostFits(s)
    /\ t \in Workers => \A i \in 1 .. Len(s) : s[i][1] \in OwnerKinds => s[i][2] = "source"
    /\ moved => moved' \/ (t = Host /\ Len(todo[Host]) >= 1 /\ Kind(Host, 1) \in LoopKinds)

LEMMA AskStep ==
    ASSUME ListsOK, AskInv, NEW t \in Threads, NEW steps, NEW r, Advances(t, steps, r), AskList(steps)
    PROVE  AskInv'
<1> DEFINE Follows(s, i, b) == \E j \in 1 .. Len(s) : j > i /\ s[j][1] = b
<1>1. \A u \in Threads \ {t} : todo'[u] = todo[u] BY Deeper
<1>2. /\ Len(steps) \in Nat /\ Len(todo[t]) \in Nat
      /\ \A k \in 1 .. Len(steps) : k \in 1 .. Len(todo'[t]) /\ todo'[t][k] = steps[k]
      /\ \A k \in 2 .. Len(todo[t]) :
            /\ k + Len(steps) - 1 \in 1 .. Len(todo'[t])
            /\ todo'[t][k + Len(steps) - 1] = todo[t][k]
  BY Deeper, Kept
<1>3. ASSUME NEW i \in 1 .. Len(todo'[t]), NEW a, NEW b, todo'[t][i][1] = a,
             \A k \in 1 .. Len(todo[t]) : todo[t][k][1] = a => Follows(todo[t], k, b),
             \A k \in 1 .. Len(steps) : steps[k][1] = a => Follows(steps, k, b)
      PROVE  Follows(todo'[t], i, b)
  <2>1. \/ i \in 1 .. Len(steps) /\ todo'[t][i] = steps[i]
        \/ \E j \in 2 .. Len(todo[t]) : todo'[t][i] = todo[t][j] /\ i = j + Len(steps) - 1
    BY Origins
  <2>2. CASE i \in 1 .. Len(steps) /\ todo'[t][i] = steps[i]
    <3>1. PICK j \in 1 .. Len(steps) : j > i /\ steps[j][1] = b BY <1>3, <2>2
    <3> QED BY <1>2, <3>1
  <2>3. ASSUME NEW k \in 2 .. Len(todo[t]), todo'[t][i] = todo[t][k], i = k + Len(steps) - 1
        PROVE  Follows(todo'[t], i, b)
    <3>1. k \in 1 .. Len(todo[t]) BY <1>2
    <3>2. PICK j \in 1 .. Len(todo[t]) : j > k /\ todo[t][j][1] = b BY <1>3, <2>3, <3>1
    <3>3. j \in 2 .. Len(todo[t]) /\ j + Len(steps) - 1 > i BY <1>2, <2>3, <3>2
    <3>4. j + Len(steps) - 1 \in 1 .. Len(todo'[t]) /\ todo'[t][j + Len(steps) - 1] = todo[t][j]
      BY <1>2, <3>3
    <3> QED BY <3>2, <3>3, <3>4
  <2> QED BY <2>1, <2>2, <2>3
<1>7. \A k \in 1 .. Len(todo[t]) : /\ todo[t][k][1] = "cancelled" => Follows(todo[t], k, "request")
                                   /\ todo[t][k][1] = "request" => Follows(todo[t], k, "arm")
  BY DEF AskInv, Kind
<1>8. \A k \in 1 .. Len(steps) : /\ steps[k][1] = "cancelled" => Follows(steps, k, "request")
                                 /\ steps[k][1] = "request" => Follows(steps, k, "arm")
  BY DEF AskList
<1>4. \A i \in 1 .. Len(todo'[t]) : todo'[t][i][1] = "cancelled" => Follows(todo'[t], i, "request")
  <2> HIDE DEF Follows
  <2> QED BY <1>3, <1>7, <1>8
<1>5. \A i \in 1 .. Len(todo'[t]) : todo'[t][i][1] = "request" => Follows(todo'[t], i, "arm")
  <2> HIDE DEF Follows
  <2> QED BY <1>3, <1>7, <1>8
<1>6. ASSUME NEW u \in Threads, NEW i \in 1 .. Len(todo'[u])
      PROVE  /\ todo'[u][i][1] = "cancelled" => Follows(todo'[u], i, "request")
             /\ todo'[u][i][1] = "request" => Follows(todo'[u], i, "arm")
  <2>1. CASE u # t
    <3>1. todo'[u] = todo[u] BY <1>1, <2>1
    <3> QED BY <3>1 DEF AskInv, Kind
  <2>2. CASE u = t BY <1>4, <1>5, <2>2
  <2> QED BY <2>1, <2>2
<1> QED BY <1>6 DEF AskInv, Kind

LEMMA OwnStep ==
    ASSUME ListsOK, OwnInv, NEW t \in Threads, NEW steps, NEW r, Advances(t, steps, r),
           t \in Workers => \A i \in 1 .. Len(steps) : steps[i][1] \in OwnerKinds => steps[i][2] = "source"
    PROVE  OwnInv'
<1>1. \A u \in Threads \ {t} : todo'[u] = todo[u] BY Deeper
<1> SUFFICES ASSUME NEW w \in Workers, NEW i \in 1 .. Len(todo'[w]), todo'[w][i][1] \in OwnerKinds
             PROVE  todo'[w][i][2] = "source"
  BY DEF OwnInv, Kind
<1>2. CASE w # t
  <2>1. todo'[w] = todo[w] BY <1>1, <1>2 DEF Threads
  <2> QED BY <2>1 DEF OwnInv, Kind
<1>3. CASE w = t
  <2>1. \/ i \in 1 .. Len(steps) /\ todo'[t][i] = steps[i]
        \/ \E j \in 2 .. Len(todo[t]) : todo'[t][i] = todo[t][j]
    BY <1>3, Origins
  <2>2. \A j \in 2 .. Len(todo[t]) : j \in 1 .. Len(todo[t]) BY Deeper
  <2> QED BY <1>3, <2>1, <2>2 DEF OwnInv, Kind
<1> QED BY <1>2, <1>3

LEMMA LoopStep ==
    ASSUME ListsOK, LoopInv, NEW t \in Threads, NEW steps, NEW r, Advances(t, steps, r), Fits(t, steps)
    PROVE  LoopInv'
<1>1. CASE t # Host
  <2>1. todo'[Host] = todo[Host] BY <1>1, Deeper DEF Threads
  <2> QED BY <1>1, <2>1 DEF LoopInv, Kind, Fits
<1>2. CASE t = Host
  <2> DEFINE m == Len(steps)
             New(j) == j + m - 1
  <2>0. m \in Nat /\ Len(todo[Host]) \in Nat BY <1>2, Deeper
  <2>1. /\ \A k \in 1 .. m : k \in 1 .. Len(todo'[Host]) /\ todo'[Host][k] = steps[k]
        /\ \A k \in 2 .. Len(todo[Host]) : New(k) \in 1 .. Len(todo'[Host]) /\ todo'[Host][New(k)] = todo[Host][k]
    BY <1>2, Kept
  <2>2. \A i \in 1 .. Len(todo'[Host]) :
           \/ i \in 1 .. m /\ todo'[Host][i] = steps[i]
           \/ \E k \in 2 .. Len(todo[Host]) : todo'[Host][i] = todo[Host][k] /\ i = New(k)
    BY <1>2, Origins
  <2>3. \A k \in 2 .. Len(todo[Host]) :
           /\ k \in 1 .. Len(todo[Host]) /\ New(k) \in Nat /\ New(k) > m /\ 1 < k /\ 1 \in 1 .. Len(todo[Host])
           /\ \A j \in 2 .. Len(todo[Host]) : j > k <=> New(j) > New(k)
    BY <2>0
  <2>4. ASSUME NEW k \in 2 .. Len(todo[Host]), Kind(Host, 1) \in LoopKinds
        PROVE  Kind(Host, k) \notin RoundKinds \cup LoopKinds
    BY <2>3, <2>4 DEF LoopInv
  <2> SUFFICES ASSUME NEW i \in 1 .. Len(todo'[Host])
               PROVE  /\ todo'[Host][i][1] \in RoundKinds =>
                            \E j \in 1 .. Len(todo'[Host]) : j > i /\ todo'[Host][j][1] \in EndKinds
                      /\ todo'[Host][i][1] \in LoopKinds =>
                            \A j \in 1 .. Len(todo'[Host]) :
                                j > i => todo'[Host][j][1] \notin RoundKinds \cup LoopKinds
                      /\ todo'[Host][i][1] \in BusyKinds => moved'
    BY DEF LoopInv, Kind
  <2>5. ASSUME NEW k \in 2 .. Len(todo[Host]), todo'[Host][i] = todo[Host][k], i = New(k)
        PROVE  /\ todo'[Host][i][1] \in RoundKinds =>
                     \E j \in 1 .. Len(todo'[Host]) : j > i /\ todo'[Host][j][1] \in EndKinds
               /\ todo'[Host][i][1] \in LoopKinds =>
                     \A j \in 1 .. Len(todo'[Host]) :
                         j > i => todo'[Host][j][1] \notin RoundKinds \cup LoopKinds
               /\ todo'[Host][i][1] \in BusyKinds => moved'
    <3>1. k \in 1 .. Len(todo[Host]) BY <2>3
    <3>2. ASSUME todo[Host][k][1] \in RoundKinds
          PROVE  \E j \in 1 .. Len(todo'[Host]) : j > i /\ todo'[Host][j][1] \in EndKinds
      <4>1. PICK j \in 1 .. Len(todo[Host]) : j > k /\ todo[Host][j][1] \in EndKinds
        BY <3>1, <3>2 DEF LoopInv, Kind
      <4>2. j \in 2 .. Len(todo[Host]) BY <2>0, <4>1
      <4> QED BY <2>1, <2>3, <2>5, <4>1, <4>2
    <3>3. ASSUME todo[Host][k][1] \in LoopKinds, NEW j \in 1 .. Len(todo'[Host]), j > i
          PROVE  todo'[Host][j][1] \notin RoundKinds \cup LoopKinds
      <4>1. ~(j \in 1 .. m) BY <2>0, <2>3, <2>5, <3>3
      <4>2. PICK l \in 2 .. Len(todo[Host]) : todo'[Host][j] = todo[Host][l] /\ j = New(l)
        BY <2>2, <4>1
      <4>3. l > k /\ l \in 1 .. Len(todo[Host]) BY <2>3, <2>5, <3>3, <4>2
      <4> QED BY <3>1, <3>3, <4>2, <4>3 DEF LoopInv, Kind
    <3>4. ASSUME todo[Host][k][1] \in BusyKinds PROVE moved'
      <4>1. moved BY <3>1, <3>4 DEF LoopInv, Kind
      <4>2. Kind(Host, 1) \notin LoopKinds BY <2>4, <3>4 DEF RoundKinds, Kind
      <4> QED BY <1>2, <4>1, <4>2 DEF Fits
    <3> QED BY <2>5, <3>2, <3>3, <3>4
  <2>6. ASSUME i \in 1 .. m, todo'[Host][i] = steps[i]
        PROVE  /\ todo'[Host][i][1] \in RoundKinds =>
                     \E j \in 1 .. Len(todo'[Host]) : j > i /\ todo'[Host][j][1] \in EndKinds
               /\ todo'[Host][i][1] \in LoopKinds =>
                     \A j \in 1 .. Len(todo'[Host]) :
                         j > i => todo'[Host][j][1] \notin RoundKinds \cup LoopKinds
               /\ todo'[Host][i][1] \in BusyKinds => moved'
    <3>1. CASE \A j \in 1 .. m : steps[j][1] \notin LoopKinds \cup RoundKinds
      BY <2>6, <3>1 DEF RoundKinds
    <3>2. CASE /\ Len(todo[Host]) >= 1 /\ Kind(Host, 1) \in RoundKinds
               /\ \A j \in 1 .. m : steps[j][1] \notin LoopKinds /\ (steps[j][1] \in BusyKinds => moved')
      <4>1. 1 \in 1 .. Len(todo[Host]) BY <2>0, <3>2
      <4>2. PICK j \in 1 .. Len(todo[Host]) : j > 1 /\ todo[Host][j][1] \in EndKinds
        BY <3>2, <4>1 DEF LoopInv, Kind
      <4>3. j \in 2 .. Len(todo[Host]) BY <4>2, <2>0
      <4>4. New(j) > i BY <2>0, <2>3, <2>6, <4>3
      <4> QED BY <2>1, <2>6, <3>2, <4>2, <4>3, <4>4
    <3>3. CASE (Len(todo[Host]) = 0 \/ Kind(Host, 1) \in LoopKinds) /\ RoundList(steps)
      <4>1. /\ steps[i][1] \notin BusyKinds
            /\ steps[i][1] \in RoundKinds => \E j \in 1 .. m : j > i /\ steps[j][1] \in EndKinds
            /\ steps[i][1] \in LoopKinds =>
                  \A j \in 1 .. m : j > i => steps[j][1] \notin RoundKinds \cup LoopKinds
        BY <2>6, <3>3 DEF RoundList
      <4>2. steps[i][1] \in RoundKinds =>
                \E j \in 1 .. Len(todo'[Host]) : j > i /\ todo'[Host][j][1] \in EndKinds
        BY <2>1, <4>1
      <4>3. ASSUME steps[i][1] \in LoopKinds, NEW j \in 1 .. Len(todo'[Host]), j > i
            PROVE  todo'[Host][j][1] \notin RoundKinds \cup LoopKinds
        <5>1. CASE j \in 1 .. m /\ todo'[Host][j] = steps[j] BY <4>1, <4>3, <5>1
        <5>2. ASSUME NEW l \in 2 .. Len(todo[Host]), todo'[Host][j] = todo[Host][l]
              PROVE  todo'[Host][j][1] \notin RoundKinds \cup LoopKinds
          <6>1. Len(todo[Host]) # 0 BY <2>0
          <6> QED BY <2>4, <3>3, <5>2, <6>1 DEF Kind
        <5> QED BY <2>2, <5>1, <5>2
      <4> QED BY <2>6, <4>1, <4>2, <4>3
    <3> QED BY <1>2, <3>1, <3>2, <3>3 DEF Fits, HostFits
  <2> QED BY <2>2, <2>5, <2>6
<1> QED BY <1>1, <1>2

---------------------------------------------------------------------------
(* Who has what to do.                                                      *)

LEMMA HasMoves ==
    ASSUME ListsOK, NEW t \in Threads, NEW steps, NEW r, Advances(t, steps, r), NEW u \in Threads, NEW k
    PROVE  /\ u # t => Has(u, k)' = Has(u, k)
           /\ Has(u, k) /\ (u = t => ~At(t, k)) => Has(u, k)'
           /\ (\E i \in 1 .. Len(steps) : steps[i][1] = k) => Has(t, k)'
           /\ Has(u, k)' /\ ~Has(u, k) => u = t /\ \E i \in 1 .. Len(steps) : steps[i][1] = k
<1>1. u # t => Has(u, k)' = Has(u, k)
  <2> SUFFICES ASSUME u # t PROVE Has(u, k)' = Has(u, k) OBVIOUS
  <2>1. todo'[u] = todo[u] BY Deeper
  <2> QED BY <2>1 DEF Has, Kind
<1>2. Has(t, k)' <=> \/ \E i \in 1 .. Len(steps) : steps[i][1] = k
                     \/ \E i \in 2 .. Len(todo[t]) : Kind(t, i) = k
  BY HasNext
<1>3. Has(t, k) <=> At(t, k) \/ \E i \in 2 .. Len(todo[t]) : Kind(t, i) = k BY HasNow
<1> QED BY <1>1, <1>2, <1>3

CalledKinds ==
    {"freed", "pump", "wait", "request", "end", "completed", "pumped", "done?", "again?", "arm"}

\* A step of none of these kinds leaves it as it is whether the host is called.
LEMMA CalledQuiet ==
    ASSUME ListsOK, NEW t \in Threads, NEW steps, NEW r, Advances(t, steps, r),
           wakeup'.requested = wakeup.requested, wakeup'.posted = wakeup.posted, moved => moved', \A k \in CalledKinds : ~At(t, k),
           \A i \in 1 .. Len(steps) : steps[i][1] \notin {"pumped", "again?"}
    PROVE  Called => Called'
<1>1. ASSUME NEW u \in Threads, NEW k \in CalledKinds, Has(u, k) PROVE Has(u, k)'
  BY <1>1, HasMoves
<1>2. ASSUME NEW k \in {"pumped", "again?"}, Has(Host, k)' PROVE Has(Host, k)
  <2>1. \A i \in 1 .. Len(steps) : steps[i][1] # k OBVIOUS
  <2>2. Host \in Threads BY DEF Threads
  <2> QED BY <1>2, <2>1, <2>2, HasMoves
<1>3. Pumps' <=> Pumps
  <2>1. Has(Host, "pumped") => Has(Host, "pumped")' BY <1>1 DEF Threads, CalledKinds
  <2>2. Has(Host, "again?") => Has(Host, "again?")' BY <1>1 DEF Threads, CalledKinds
  <2> QED BY <1>2, <2>1, <2>2 DEF Pumps
<1>4. Asks => Asks'
  <2> SUFFICES ASSUME NEW u \in Threads, NEW k \in {"request", "end", "completed"}, Has(u, k)
               PROVE  Asks'
    BY DEF Asks
  <2>1. Has(u, k)' BY <1>1 DEF CalledKinds
  <2> QED BY <2>1 DEF Asks
<1>5. ASSUME \E u \in Threads : Has(u, "arm") PROVE \E u \in Threads : Has(u, "arm")'
  BY <1>1, <1>5 DEF CalledKinds
<1>6. \A k \in {"freed", "pump", "wait", "pumped", "done?"} : Has(Host, k) => Has(Host, k)'
  BY <1>1 DEF Threads, CalledKinds
<1> QED BY <1>3, <1>4, <1>5, <1>6 DEF Called

LEMMA CalledWork ==
    ASSUME Called'
    PROVE  WorkInv'
BY DEF WorkInv

\* There is no more work than before.
NoMore ==
    /\ state' \in Live => state \in Live
    /\ delegated' > 0 => delegated > 0
    /\ AllClosed' => AllClosed
    /\ \A n \in Nodes : Closable(n)' => Closable(n) /\ (Drained(n) => Drained(n)')

LEMMA QuietWork ==
    ASSUME ListsOK, WorkInv, NoMore, Called => Called', NEW t \in Threads, NEW steps, NEW r,
           Advances(t, steps, r), t = Host => \A k \in {"task", "ended", "close?", "close"} : ~At(Host, k)
    PROVE  WorkInv'
<1>1. \A k \in {"task", "ended"} : Has(Host, k) => Has(Host, k)' BY HasMoves DEF Threads
<1>2. ASSUME NEW n \in Nodes, Closable(n)', Looks(n) PROVE Looks(n)'
  <2>1. Drained(n) => Drained(n)' BY <1>2 DEF NoMore
  <2>2. CASE Has(Host, "task") BY <1>1, <2>2 DEF Looks
  <2>3. ASSUME NEW i \in 1 .. Len(todo[Host]), Kind(Host, i) \in {"close?", "close"},
               todo[Host][i][2] = n, Kind(Host, i) = "close" => todo[Host][i][3] \/ Drained(n)
        PROVE  Looks(n)'
    <3>1. \E j \in 1 .. Len(todo'[Host]) : todo'[Host][j] = todo[Host][i]
      <4>1. CASE t # Host
        <5>1. todo'[Host] = todo[Host] BY <4>1, Deeper DEF Threads
        <5> QED BY <5>1
      <4>2. CASE t = Host
        <5>1. Len(todo[Host]) \in Nat BY <4>2, Deeper
        <5>2. i # 1
          <6>1. Len(todo[Host]) >= 1 BY <5>1
          <6>2. i = 1 => At(Host, Kind(Host, i)) BY <6>1, AtFirst DEF Threads
          <6> QED BY <2>3, <4>2, <6>2
        <5>3. i \in 2 .. Len(todo[Host]) BY <5>1, <5>2
        <5> QED BY <4>2, <5>3, Kept
      <4> QED BY <4>1, <4>2
    <3>2. PICK j \in 1 .. Len(todo'[Host]) : todo'[Host][j] = todo[Host][i] BY <3>1
    <3> QED BY <2>1, <2>3, <3>2 DEF Looks, Kind
  <2> QED BY <1>2, <2>2, <2>3 DEF Looks
<1>3. ASSUME state' \in Live
      PROVE  /\ delegated' > 0 => Called' \/ Has(Host, "task")'
             /\ AllClosed' => Called' \/ Has(Host, "ended")'
             /\ \A n \in Nodes : Closable(n)' => Called' \/ Looks(n)'
  <2>1. delegated' > 0 => Called' \/ Has(Host, "task")' BY <1>1, <1>3 DEF WorkInv, NoMore
  <2>2. AllClosed' => Called' \/ Has(Host, "ended")' BY <1>1, <1>3 DEF WorkInv, NoMore
  <2>3. ASSUME NEW n \in Nodes, Closable(n)' PROVE Called' \/ Looks(n)'
    <3>1. Called \/ Looks(n) BY <1>3, <2>3 DEF WorkInv, NoMore
    <3> QED BY <1>2, <2>3, <3>1
  <2> QED BY <2>1, <2>2, <2>3
<1> QED BY <1>3 DEF WorkInv

LEMMA PendingSame ==
    ASSUME ListsOK, PendingInv, NEW t \in Threads, NEW steps, NEW r, Advances(t, steps, r),
           (wakeup' \in Flags /\ ~wakeup'.pending) \/ wakeup' = wakeup, t = Host => ~At(Host, "pump") /\ ~At(Host, "pumped")
    PROVE  PendingInv'
<1>1. \A k \in {"pump", "pumped"} : Has(Host, k) => Has(Host, k)' BY HasMoves DEF Threads
<1> QED BY <1>1 DEF PendingInv

LEMMA NewStep ==
    ASSUME IInv, IInv', StartInv, NewInv, NEW t \in Threads, NEW steps, NEW r, Advances(t, steps, r),
           \A i \in 1 .. Len(steps) : steps[i][1] \notin {"initialized", "running"},
           t = Host /\ Len(todo[Host]) >= 1 => Kind(Host, 1) # "renew",
           state' = "Initialized" => state = "Initialized",
           Fresh /\ Stopped => Stopped',
           Fresh /\ ~Stopped' => \A n \in Nodes : node'[n].closeStarted => node[n].closeStarted,
           Stopped' /\ ~Stopped => todo[Host] \notin StartTails
    PROVE  NewInv'
<1>1. ListsOK BY DEF IInv
<1>2. Fresh' => Fresh BY FreshStep
<1>3. Fresh' /\ ~Stopped' => \A n \in Nodes : ~node'[n].closeStarted BY <1>2 DEF NewInv
<1>4. Has(Host, "running")' => Has(Host, "running")
  <2>1. \A i \in 1 .. Len(steps) : steps[i][1] # "running" OBVIOUS
  <2>2. Host \in Threads BY DEF Threads
  <2> QED BY <1>1, <2>1, <2>2, HasMoves
<1>5. Has(Host, "running") => todo[Host] \in StartTails
  <2> SUFFICES ASSUME Has(Host, "running") PROVE todo[Host] \in StartTails OBVIOUS
  <2>1. DOMAIN todo[Host] = 1 .. Len(todo[Host]) BY <1>1, LenProperties DEF ListsOK, Threads
  <2>2. PICK i \in 1 .. Len(todo[Host]) : Kind(Host, i) = "running" BY <2>1 DEF Has
  <2> QED BY <2>2, StartList
<1> QED BY <1>3, <1>4, <1>5 DEF NewInv

LEMMA Joins ==
    ASSUME ListsOK, LoopsInv, NEW t \in Threads, NEW steps, NEW r, Advances(t, steps, r), Fits(t, steps),
           PendingInv', NewInv', WorkInv'
    PROVE  LoopsInv'
<1>1. LoopInv' BY LoopStep DEF LoopsInv
<1>2. AskInv' BY AskStep DEF LoopsInv, Fits
<1>3. OwnInv' BY OwnStep DEF LoopsInv, Fits
<1> QED BY <1>1, <1>2, <1>3 DEF LoopsInv

---------------------------------------------------------------------------
(* Steps after which the host is called.                                    *)

\* Lists that are put together.
LEMMA TwoLists ==
    ASSUME NEW x \in Steps, NEW y \in Steps
    PROVE  <<x>> \o <<y>> = <<x, y>>
<1>1. PICK s : s = <<x>> OBVIOUS
<1>2. PICK u : u = <<y>> OBVIOUS
<1>3. PICK p : p = <<x, y>> OBVIOUS
<1>4. s \in Seq(Steps) /\ u \in Seq(Steps) /\ p \in Seq(Steps) BY <1>1, <1>2, <1>3, Lists
<1>5. Len(s) = 1 /\ Len(u) = 1 /\ Len(p) = 2 /\ s[1] = x /\ u[1] = y /\ p[1] = x /\ p[2] = y
  BY <1>1, <1>2, <1>3
<1>6. /\ Len(s \o u) = 2 /\ s \o u \in Seq(Steps)
      /\ \A i \in 1 .. 2 : (s \o u)[i] = IF i <= 1 THEN s[i] ELSE u[i - 1]
  BY <1>4, <1>5, ConcatProperties
<1>7. (s \o u)[1] = x /\ (s \o u)[2] = y BY <1>5, <1>6
<1>8. \A i \in 1 .. 2 : i = 1 \/ i = 2 OBVIOUS
<1>9. \A i \in 1 .. Len(p) : (s \o u)[i] = p[i] BY <1>5, <1>7, <1>8
<1>10. s \o u = p BY <1>4, <1>5, <1>6, <1>9, SeqEqual
<1> QED BY <1>1, <1>2, <1>3, <1>10

LEMMA ThreeLists ==
    ASSUME NEW x \in Steps, NEW y \in Steps, NEW z \in Steps
    PROVE  <<x, y>> \o <<z>> = <<x, y, z>>
<1>1. PICK s : s = <<x, y>> OBVIOUS
<1>2. PICK u : u = <<z>> OBVIOUS
<1>3. PICK p : p = <<x, y, z>> OBVIOUS
<1>4. s \in Seq(Steps) /\ u \in Seq(Steps) /\ p \in Seq(Steps) BY <1>1, <1>2, <1>3, Lists
<1>5. /\ Len(s) = 2 /\ Len(u) = 1 /\ Len(p) = 3 /\ s[1] = x /\ s[2] = y /\ u[1] = z
      /\ p[1] = x /\ p[2] = y /\ p[3] = z
  BY <1>1, <1>2, <1>3
<1>6. /\ Len(s \o u) = 3 /\ s \o u \in Seq(Steps)
      /\ \A i \in 1 .. 3 : (s \o u)[i] = IF i <= 2 THEN s[i] ELSE u[i - 2]
  <2>1. /\ Len(s \o u) = Len(s) + Len(u) /\ s \o u \in Seq(Steps)
        /\ \A i \in 1 .. Len(s) + Len(u) : (s \o u)[i] = IF i <= Len(s) THEN s[i] ELSE u[i - Len(s)]
    BY <1>4, ConcatProperties
  <2>2. Len(s) + Len(u) = 3 BY <1>5
  <2> QED BY <1>5, <2>1, <2>2
<1>7. (s \o u)[1] = x /\ (s \o u)[2] = y /\ (s \o u)[3] = z BY <1>5, <1>6
<1>8. \A i \in 1 .. 3 : i = 1 \/ i = 2 \/ i = 3 OBVIOUS
<1>9. \A i \in 1 .. Len(p) : (s \o u)[i] = p[i] BY <1>5, <1>7, <1>8
<1>10. s \o u = p BY <1>4, <1>5, <1>6, <1>9, SeqEqual
<1> QED BY <1>1, <1>2, <1>3, <1>10

LEMMA MildAsk ==
    ASSUME NEW K, NEW s, Only(s, K), K \cap {"request", "cancelled"} = {}
    PROVE  AskList(s)
<1>1. \A i \in 1 .. Len(s) : s[i][1] # "request" /\ s[i][1] # "cancelled" BY DEF Only
<1> QED BY <1>1 DEF AskList, Only

LEMMA WakeupAsk == AskList(RequestWakeup)
<1>1. /\ RequestWakeup \in Seq(Steps) /\ Len(RequestWakeup) = 2
      /\ RequestWakeup[1] = <<"request">> /\ RequestWakeup[2] = <<"arm">>
  BY WakeupSteps DEF RequestWakeup
<1>2. <<"request">>[1] = "request" /\ <<"arm">>[1] = "arm" OBVIOUS
<1>3. \A i \in 1 .. 2 : i = 1 \/ i = 2 OBVIOUS
<1>4. 2 \in 1 .. Len(RequestWakeup) /\ 2 > 1 BY <1>1
<1> QED BY <1>1, <1>2, <1>3, <1>4 DEF AskList

LEMMA ConcatPlaces ==
    ASSUME NEW s \in Seq(Steps), NEW u \in Seq(Steps)
    PROVE  /\ Len(s) \in Nat /\ Len(u) \in Nat /\ s \o u \in Seq(Steps)
           /\ \A i \in 1 .. Len(s) : i \in 1 .. Len(s \o u) /\ (s \o u)[i] = s[i]
           /\ \A j \in 1 .. Len(u) :
                 Len(s) + j \in 1 .. Len(s \o u) /\ (s \o u)[Len(s) + j] = u[j]
           /\ \A i \in 1 .. Len(s \o u) : \/ i \in 1 .. Len(s)
                                          \/ \E j \in 1 .. Len(u) : i = Len(s) + j
<1>1. Len(s) \in Nat /\ Len(u) \in Nat BY LenProperties
<1>2. s \o u \in Seq(Steps) /\ Len(s \o u) = Len(s) + Len(u) BY Concats
<1>3. \A i \in 1 .. Len(s) : i \in 1 .. Len(s \o u) BY <1>1, <1>2
<1>4. \A j \in 1 .. Len(u) : Len(s) + j \in 1 .. Len(s \o u) BY <1>1, <1>2
<1>5. \A i \in 1 .. Len(s) : (s \o u)[i] = s[i] BY Concats
<1>6. \A i \in 1 .. Len(s \o u) :
         \/ \E j \in 1 .. Len(s) : i = j /\ (s \o u)[i] = s[j]
         \/ \E j \in 1 .. Len(u) : i = Len(s) + j /\ (s \o u)[i] = u[j]
  BY Concats
<1>7. ASSUME NEW j \in 1 .. Len(u) PROVE (s \o u)[Len(s) + j] = u[j]
  <2>1. \A i \in 1 .. Len(s) : i # Len(s) + j BY <1>1
  <2>2. \A i \in 1 .. Len(u) : Len(s) + i = Len(s) + j => i = j BY <1>1
  <2> QED BY <1>4, <1>6, <2>1, <2>2
<1> QED BY <1>1, <1>2, <1>3, <1>4, <1>5, <1>6, <1>7

LEMMA ConcatAsk ==
    ASSUME NEW s, NEW u, AskList(s), AskList(u)
    PROVE  AskList(s \o u)
<1> DEFINE Follows(l, i, b) == \E j \in 1 .. Len(l) : j > i /\ l[j][1] = b
           New(j) == Len(s) + j
<1>1. s \in Seq(Steps) /\ u \in Seq(Steps) BY DEF AskList
<1>2. Len(s) \in Nat /\ Len(u) \in Nat BY <1>1, LenProperties
<1>3. /\ s \o u \in Seq(Steps)
      /\ \A i \in 1 .. Len(s) : i \in 1 .. Len(s \o u) /\ (s \o u)[i] = s[i]
      /\ \A j \in 1 .. Len(u) : New(j) \in 1 .. Len(s \o u) /\ (s \o u)[New(j)] = u[j]
      /\ \A i \in 1 .. Len(s \o u) : \/ i \in 1 .. Len(s)
                                     \/ \E j \in 1 .. Len(u) : i = New(j)
  BY <1>1, ConcatPlaces
<1>4. \A j, k \in 1 .. Len(u) : j > k => New(j) > New(k) BY <1>2
<1>5. ASSUME NEW a, NEW b, NEW i \in 1 .. Len(s \o u), (s \o u)[i][1] = a,
             \A k \in 1 .. Len(s) : s[k][1] = a => Follows(s, k, b),
             \A k \in 1 .. Len(u) : u[k][1] = a => Follows(u, k, b)
      PROVE  Follows(s \o u, i, b)
  <2>1. CASE i \in 1 .. Len(s)
    <3>1. PICK j \in 1 .. Len(s) : j > i /\ s[j][1] = b BY <1>3, <1>5, <2>1
    <3> QED BY <1>3, <3>1
  <2>2. ASSUME NEW k \in 1 .. Len(u), i = New(k) PROVE Follows(s \o u, i, b)
    <3>1. PICK j \in 1 .. Len(u) : j > k /\ u[j][1] = b BY <1>3, <1>5, <2>2
    <3> QED BY <1>3, <1>4, <2>2, <3>1
  <2> QED BY <1>3, <2>1, <2>2
<1>6. \A k \in 1 .. Len(s) : /\ s[k][1] = "cancelled" => Follows(s, k, "request")
                             /\ s[k][1] = "request" => Follows(s, k, "arm")
  BY DEF AskList
<1>7. \A k \in 1 .. Len(u) : /\ u[k][1] = "cancelled" => Follows(u, k, "request")
                             /\ u[k][1] = "request" => Follows(u, k, "arm")
  BY DEF AskList
<1>8. \A i \in 1 .. Len(s \o u) : /\ (s \o u)[i][1] = "cancelled" => Follows(s \o u, i, "request")
                                  /\ (s \o u)[i][1] = "request" => Follows(s \o u, i, "arm")
  <2> HIDE DEF Follows
  <2> QED BY <1>5, <1>6, <1>7
<1> QED BY <1>3, <1>8 DEF AskList

LEMMA ConcatSome ==
    ASSUME NEW s \in Seq(Steps), NEW u \in Seq(Steps), NEW j \in 1 .. Len(u)
    PROVE  \E i \in 1 .. Len(s \o u) : (s \o u)[i] = u[j]
<1>1. Len(s) + j \in 1 .. Len(s \o u) /\ (s \o u)[Len(s) + j] = u[j] BY ConcatPlaces
<1> QED BY <1>1

\* A worker asks when its task is completed.
LEMMA WorkerCalls ==
    ASSUME IInv, NEW w \in Workers, NEW steps, NEW r, Advances(w, steps, r), NEW k, At(w, k),
           k \notin AfterTask \cup {"completed"}
    PROVE  Called'
<1>1. ListsOK /\ WorkerInv /\ w \in Threads BY DEF IInv, ShapeInv, Threads
<1>2. Len(todo[w]) \in Nat /\ Len(todo[w]) >= 1 /\ Kind(w, 1) = k BY <1>1, AtFirst
<1>3. 1 \in 1 .. Len(todo[w]) BY <1>2
<1>4. Kind(w, Len(todo[w])) = "completed"
  <2>1. ~(\A i \in 1 .. Len(todo[w]) : Kind(w, i) \in AfterTask)
    <3>1. Kind(w, 1) \notin AfterTask BY <1>2
    <3> QED BY <1>3, <3>1
  <2> QED BY <1>1, <2>1 DEF WorkerInv
<1>5. Len(todo[w]) \in 2 .. Len(todo[w]) BY <1>2, <1>4
<1>6. Has(w, "completed")' BY <1>1, <1>4, <1>5, HasNext
<1> QED BY <1>1, <1>6 DEF Called, Asks

\* A host that does something in a round goes round again.
LEMMA RoundCalls ==
    ASSUME ListsOK, LoopInv, NEW steps, NEW r, Advances(Host, steps, r), NEW k \in RoundKinds,
           At(Host, k), moved'
    PROVE  Called'
<1>1. Host \in Threads BY DEF Threads
<1>2. Len(todo[Host]) \in Nat /\ Len(todo[Host]) >= 1 /\ Kind(Host, 1) = k BY <1>1, AtFirst
<1>3. 1 \in 1 .. Len(todo[Host]) BY <1>2
<1>4. PICK j \in 1 .. Len(todo[Host]) : j > 1 /\ Kind(Host, j) \in EndKinds
  BY <1>2, <1>3 DEF LoopInv
<1>5. j \in 2 .. Len(todo[Host]) BY <1>2, <1>4
<1>6. \A e : Kind(Host, j) = e => Has(Host, e)' BY <1>1, <1>5, HasNext
<1>7. Has(Host, "pumped")' \/ Has(Host, "done?")'
  <2>1. Kind(Host, j) = "pumped" \/ Kind(Host, j) = "done?" BY <1>4 DEF EndKinds
  <2> QED BY <1>6, <2>1
<1> QED BY <1>7 DEF Called

LEMMA RequestCalls ==
    ASSUME ListsOK, NEW t \in Threads, NEW steps, NEW r, Advances(t, steps, r),
           \E i \in 1 .. Len(steps) : steps[i][1] \in {"request", "end", "completed"}
    PROVE  Called'
<1>1. PICK k \in {"request", "end", "completed"} : \E i \in 1 .. Len(steps) : steps[i][1] = k OBVIOUS
<1>2. Has(t, k)' BY <1>1, HasMoves
<1> QED BY <1>2 DEF Called, Asks

\* The list of a start belongs to a graph that is not started.
LEMMA StartsNew ==
    ASSUME IInv, StartInv, todo[Host] \in StartTails
    PROVE  state = "Initialized" /\ Fresh /\ ~Idle(Host)
           /\ \A k : At(Host, k) => k \in {"open", "running"}
<1>1. ListsOK /\ Host \in Threads BY DEF IInv, Threads
<1>2. /\ Len(todo[Host]) >= 1 /\ Kind(Host, 1) \in {"open", "running"}
      /\ \E i \in 1 .. Len(todo[Host]) : Kind(Host, i) = "running"
  <2>1. CASE todo[Host] = <<<<"open", "source">>, <<"open", "sink">>, <<"running">>, <<"try", "source">>>>
    <3>1. Len(todo[Host]) = 4 /\ todo[Host][1] = <<"open", "source">> /\ todo[Host][3] = <<"running">>
      BY <2>1
    <3>2. todo[Host][1][1] = "open" /\ todo[Host][3][1] = "running" /\ 3 \in 1 .. Len(todo[Host])
      BY <3>1
    <3> QED BY <3>1, <3>2 DEF Kind
  <2>2. CASE todo[Host] = <<<<"open", "sink">>, <<"running">>, <<"try", "source">>>>
    <3>1. Len(todo[Host]) = 3 /\ todo[Host][1] = <<"open", "sink">> /\ todo[Host][2] = <<"running">>
      BY <2>2
    <3>2. todo[Host][1][1] = "open" /\ todo[Host][2][1] = "running" /\ 2 \in 1 .. Len(todo[Host])
      BY <3>1
    <3> QED BY <3>1, <3>2 DEF Kind
  <2>3. CASE todo[Host] = <<<<"running">>, <<"try", "source">>>>
    <3>1. Len(todo[Host]) = 2 /\ todo[Host][1] = <<"running">> BY <2>3
    <3>2. todo[Host][1][1] = "running" /\ 1 \in 1 .. Len(todo[Host]) BY <3>1
    <3> QED BY <3>1, <3>2 DEF Kind
  <2> QED BY <2>1, <2>2, <2>3 DEF StartTails
<1>3. state = "Initialized" BY <1>2 DEF StartInv
<1>4. Len(todo[Host]) # 0 BY <1>2
<1> QED BY <1>1, <1>2, <1>3, <1>4, AtFirst DEF Fresh

LEMMA GoLoops ==
    ASSUME IInv, IInv', RestInv, LoopsInv, NEW t \in Threads, NEW k, At(t, k),
           t = Host => k \notin {"renew", "pump", "pumped"},
           NEW steps, AskList(steps), Go(t, steps), t = Host => HostFits(steps),
           \A i \in 1 .. Len(steps) :
               /\ steps[i][1] \notin {"initialized", "running"}
               /\ t \in Workers => (steps[i][1] \in OwnerKinds => steps[i][2] = "source"),
           wakeup' = wakeup, moved => moved' \/ (t = Host /\ k \in LoopKinds),
           state' = state \/ state' = "Terminated", Stopped => Stopped',
           Fresh /\ ~Stopped' => \A n \in Nodes : node'[n].closeStarted => node[n].closeStarted,
           Stopped' /\ ~Stopped => todo[Host] \notin StartTails,
           WorkInv'
    PROVE  LoopsInv'
<1>1. ListsOK /\ steps \in Seq(Steps) BY DEF IInv, AskList
<1>2. Advances(t, steps, Len(todo[t]) - 1) /\ Len(todo[t]) >= 1 /\ Kind(t, 1) = k
  BY <1>1, GoAdvances
<1>3. Fits(t, steps) BY <1>2 DEF Fits
<1>4. PendingInv'
  <2>1. t = Host => ~At(Host, "pump") /\ ~At(Host, "pumped") BY DEF At
  <2> QED BY <1>1, <1>2, <2>1, PendingSame DEF LoopsInv
<1>5. NewInv' BY <1>2, NewStep DEF LoopsInv, RestInv
<1> QED BY <1>1, <1>2, <1>3, <1>4, <1>5, Joins

\* A worker in its task, or a host in its round, that leaves the flags.
LEMMA BusyGo ==
    ASSUME IInv, IInv', RestInv, LoopsInv, NEW t \in Threads, NEW k, At(t, k),
           k \notin AfterTask \cup {"completed"}, t = Host => k \in RoundKinds /\ moved',
           NEW steps, AskList(steps), Go(t, steps),
           \A i \in 1 .. Len(steps) :
               /\ steps[i][1] \notin LoopKinds \cup {"initialized", "running"}
               /\ t \in Workers => (steps[i][1] \in OwnerKinds => steps[i][2] = "source"),
           UNCHANGED <<state, wakeup>>, moved => moved', Stopped => Stopped',
           Fresh /\ ~Stopped' => \A n \in Nodes : node'[n].closeStarted => node[n].closeStarted
    PROVE  LoopsInv'
<1>1. ListsOK /\ steps \in Seq(Steps) BY DEF IInv, AskList
<1>2. Advances(t, steps, Len(todo[t]) - 1) /\ Len(todo[t]) >= 1 /\ Kind(t, 1) = k
  BY <1>1, GoAdvances
<1>3. t = Host => HostFits(steps) BY <1>2 DEF HostFits
<1>4. Called'
  <2>1. CASE t = Host BY <1>1, <1>2, <2>1, RoundCalls DEF LoopsInv
  <2>2. CASE t # Host BY <1>2, <2>2, WorkerCalls DEF Threads
  <2> QED BY <2>1, <2>2
<1>5. WorkInv' BY <1>4, CalledWork
<1>6. t = Host => k \notin {"renew", "pump", "pumped"} BY DEF RoundKinds, BusyKinds
<1>7. todo[Host] \notin StartTails
  <2>1. CASE t = Host
    <3>1. k \notin {"open", "running"} BY <2>1 DEF RoundKinds, BusyKinds
    <3> QED BY <2>1, <3>1, StartsNew DEF RestInv
  <2>2. CASE t # Host
    <3>1. t \in Workers BY <2>2 DEF Threads
    <3>2. ~Fresh BY <3>1, WorkerAwake
    <3> QED BY <3>2, StartsNew DEF RestInv
  <2> QED BY <2>1, <2>2
<1> QED BY <1>1, <1>3, <1>5, <1>6, <1>7, GoLoops

---------------------------------------------------------------------------
(* The steps of calls.                                                      *)

LEMMA OwnArg ==
    ASSUME ListsOK, OwnInv, NEW w \in Workers, NEW k \in OwnerKinds, At(w, k)
    PROVE  Arg(w) = "source"
<1>1. /\ Len(todo[w]) \in Nat /\ Len(todo[w]) >= 1 /\ Kind(w, 1) = k /\ Arg(w) = todo[w][1][2]
  BY AtFirst DEF Threads
<1>2. 1 \in 1 .. Len(todo[w]) BY <1>1
<1> QED BY <1>1, <1>2 DEF OwnInv

LEMMA BusyMoved ==
    ASSUME ListsOK, LoopInv, NEW k \in BusyKinds, At(Host, k)
    PROVE  moved /\ k \in RoundKinds
<1>1. Len(todo[Host]) \in Nat /\ Len(todo[Host]) >= 1 /\ Kind(Host, 1) = k BY AtFirst DEF Threads
<1>2. 1 \in 1 .. Len(todo[Host]) BY <1>1
<1> QED BY <1>1, <1>2 DEF LoopInv, RoundKinds

\* Lists of one or two steps.
LEMMA OneStep ==
    ASSUME NEW a \in Steps, a[1] \notin {"request", "cancelled"}
    PROVE  AskList(<<a>>) /\ \A i \in 1 .. Len(<<a>>) : <<a>>[i] = a
<1>1. Only(<<a>>, {a[1]}) BY OnlyOne
<1>2. AskList(<<a>>) BY <1>1, MildAsk
<1> QED BY <1>2

LEMMA TwoSteps ==
    ASSUME NEW a \in Steps, NEW b \in Steps, {a[1], b[1]} \cap {"request", "cancelled"} = {}
    PROVE  AskList(<<a, b>>) /\ \A i \in 1 .. Len(<<a, b>>) : <<a, b>>[i] \in {a, b}
<1>1. Only(<<a, b>>, {a[1], b[1]}) BY OnlyTwo
<1>2. AskList(<<a, b>>) BY <1>1, MildAsk
<1> QED BY <1>2

Nothing == <<>>

LEMMA NothingAsks == AskList(Nothing) /\ Len(Nothing) = 0
<1>1. Only(Nothing, {}) BY OnlyNil DEF Nothing
<1>2. {} \cap {"request", "cancelled"} = {} OBVIOUS
<1>3. AskList(Nothing) BY <1>1, <1>2, MildAsk
<1>4. Len(Nothing) = 0 BY DEF Nothing
<1> QED BY <1>3, <1>4

\* What is left to do after a call is all of its node.
AllOf(s, n) == s \in Seq(Steps) /\ \A i \in 1 .. Len(s) : s[i][2] = n

LEMMA FinishOf ==
    ASSUME NEW n \in Nodes
    PROVE  AllOf(Finish(n), n)
<1>1. ASSUME NEW k \in {"resume?", "try", "close?"} PROVE AllOf(<<<<k, n>>>>, n)
  <2>1. <<k, n>> \in Steps /\ <<k, n>>[2] = n BY StepForms DEF NodeKinds
  <2>2. <<<<k, n>>>> \in Seq(Steps) BY <2>1, Lists
  <2>3. \A i \in 1 .. Len(<<<<k, n>>>>) : <<<<k, n>>>>[i] = <<k, n>> OBVIOUS
  <2> QED BY <2>1, <2>2, <2>3 DEF AllOf
<1>2. AllOf(<<>>, n)
  <2>1. AllOf(Nothing, n) BY NothingAsks DEF AllOf, AskList
  <2> QED BY <2>1 DEF Nothing
<1>3. ASSUME NEW s, NEW u, AllOf(s, n), AllOf(u, n) PROVE AllOf(s \o u, n)
  <2>1. s \in Seq(Steps) /\ u \in Seq(Steps) BY <1>3 DEF AllOf
  <2>2. s \o u \in Seq(Steps) BY <2>1, Concats
  <2>3. ASSUME NEW i \in 1 .. Len(s \o u) PROVE (s \o u)[i][2] = n
    <3>1. \/ \E j \in 1 .. Len(s) : (s \o u)[i] = s[j]
          \/ \E j \in 1 .. Len(u) : (s \o u)[i] = u[j]
      BY <2>1, Concats
    <3> QED BY <1>3, <3>1 DEF AllOf
  <2> QED BY <2>2, <2>3 DEF AllOf
<1>4. AllOf(<<<<"resume?", n>>>>, n) /\ AllOf(<<<<"try", n>>>>, n) /\ AllOf(<<<<"close?", n>>>>, n) BY <1>1
<1>5. AllOf(IF n = "source" THEN <<<<"resume?", n>>>> ELSE <<>>, n) BY <1>2, <1>4
<1> QED BY <1>3, <1>4, <1>5 DEF Finish, MaybeClose

LEMMA LoopsRun ==
    ASSUME IInv, IInv', RestInv, LoopsInv, NEW t \in Threads, Run(t)
    PROVE  LoopsInv'
<1> DEFINE n == Arg(t)
           step == IF Stopped THEN <<"land", n, "landed">> ELSE <<"process", n>>
<1>1. At(t, "run") /\ n \in Nodes BY ArgNode DEF Run, NodeKinds
<1>2. step \in Steps /\ step[1] \in {"land", "process"} /\ step[2] = n
  BY <1>1, StepForms DEF NodeKinds
<1>3. Go(t, <<step>>) /\ UNCHANGED <<state, wakeup, moved, shared>> BY DEF Run
<1>4. t \in Workers => n = "source" BY <1>1, OwnArg DEF IInv, LoopsInv, OwnerKinds
<1>5. t = Host => moved' /\ "run" \in RoundKinds BY <1>1, <1>3, BusyMoved DEF IInv, LoopsInv, BusyKinds
<1>6. \A m \in Nodes : node'[m].closeStarted = node[m].closeStarted
  <2> DEFINE l == [node[n].line EXCEPT ![FirstClaimed(n)] = t]
  <2>1. node' = [node EXCEPT ![n].line = l] BY <1>1 DEF Run
  <2>2. node \in [Nodes -> [opened : BOOLEAN, closeStarted : BOOLEAN, closed : BOOLEAN,
                            line : Seq(Entries), flushing : BOOLEAN]]
    BY DEF IInv, TypeOK
  <2> HIDE DEF l
  <2> QED BY <1>1, <2>1, <2>2
<1> HIDE DEF step, n
<1>7. AskList(<<step>>) /\ \A i \in 1 .. Len(<<step>>) : <<step>>[i] = step BY <1>2, OneStep
<1>8. {"land", "process"} \cap (LoopKinds \cup {"initialized", "running"}) = {} BY DEF LoopKinds
<1>9. "run" \notin AfterTask \cup {"completed"} BY DEF AfterTask
<1> DEFINE L == <<step>>
<1>10. \A i \in 1 .. Len(L) : /\ L[i][1] \notin LoopKinds \cup {"initialized", "running"}
                              /\ t \in Workers => (L[i][1] \in OwnerKinds => L[i][2] = "source")
  BY <1>2, <1>4, <1>7, <1>8
<1>11. AskList(L) /\ Go(t, L) BY <1>3, <1>7
<1> HIDE DEF L
<1> QED BY <1>1, <1>3, <1>5, <1>6, <1>9, <1>10, <1>11, BusyGo DEF Stopped

LEMMA LoopsFail ==
    ASSUME IInv, IInv', RestInv, LoopsInv, NEW t \in Threads, Fail(t)
    PROVE  LoopsInv'
<1> DEFINE n == Arg(t)
           step == <<"land", n, "landed">>
<1>1. At(t, "process") /\ n \in Nodes BY ArgNode DEF Fail, NodeKinds
<1>2. step \in Steps /\ step[1] = "land" /\ step[2] = n BY <1>1, StepForms
<1>3. Go(t, <<step>>) /\ UNCHANGED <<state, wakeup, moved, node>> BY DEF Fail
<1>4. t \in Workers => n = "source" BY <1>1, OwnArg DEF IInv, LoopsInv, OwnerKinds
<1>5. t = Host => moved' /\ "process" \in RoundKinds BY <1>1, <1>3, BusyMoved DEF IInv, LoopsInv, BusyKinds
<1>6. Stopped' BY DEF Fail, IInv, TypeOK, Stopped
<1> HIDE DEF step, n
<1>7. AskList(<<step>>) /\ \A i \in 1 .. Len(<<step>>) : <<step>>[i] = step BY <1>2, OneStep
<1>9. "process" \notin AfterTask \cup {"completed"} BY DEF AfterTask
<1> DEFINE L == <<step>>
<1>10. \A i \in 1 .. Len(L) : /\ L[i][1] \notin LoopKinds \cup {"initialized", "running"}
                              /\ t \in Workers => (L[i][1] \in OwnerKinds => L[i][2] = "source")
  BY <1>2, <1>4, <1>7 DEF LoopKinds
<1>11. AskList(L) /\ Go(t, L) BY <1>3, <1>7
<1> HIDE DEF L
<1> QED BY <1>1, <1>3, <1>5, <1>6, <1>9, <1>10, <1>11, BusyGo

LEMMA LoopsLand ==
    ASSUME IInv, IInv', RestInv, LoopsInv, NEW t \in Threads, Land(t)
    PROVE  LoopsInv'
<1> DEFINE n == Arg(t)
           K == {"flush", "resume?", "try", "close?"}
<1>1. At(t, "land") /\ n \in Nodes BY ArgNode DEF Land
<1>2. PICK first : /\ Only(first, {"flush"}) /\ Go(t, first \o Finish(n))
  <2>1. Only(<<<<"flush", n>>>>, {"flush"}) BY <1>1, OnlyOne, StepForms DEF NodeKinds
  <2>2. Only(<<>>, {"flush"}) BY OnlyNil
  <2> QED BY <2>1, <2>2 DEF Land
<1>3. UNCHANGED <<state, wakeup, moved, shared>> BY DEF Land
<1>4. t \in Workers => n = "source" BY <1>1, OwnArg DEF IInv, LoopsInv, OwnerKinds
<1>5. t = Host => moved' /\ "land" \in RoundKinds BY <1>1, <1>3, BusyMoved DEF IInv, LoopsInv, BusyKinds
<1>6. \A m \in Nodes : node'[m].closeStarted = node[m].closeStarted
  <2> DEFINE l == [node[n].line EXCEPT ![CHOOSE i \in DOMAIN node[n].line : node[n].line[i] = t]
                       = Head(todo[t])[3]]
  <2>1. node' = [node EXCEPT ![n].line = l, ![n].flushing = TRUE] BY DEF Land
  <2>2. node \in [Nodes -> [opened : BOOLEAN, closeStarted : BOOLEAN, closed : BOOLEAN,
                            line : Seq(Entries), flushing : BOOLEAN]]
    BY DEF IInv, TypeOK
  <2> HIDE DEF l
  <2> QED BY <1>1, <2>1, <2>2
<1>7. /\ Only(Finish(n), K)
      /\ \A i \in 1 .. Len(Finish(n)) : Finish(n)[i][1] = "close?" => Finish(n)[i][2] = n
  <2>1. Only(Finish(n), {"resume?", "try", "close?"}) BY <1>1, OnlyFinish
  <2>2. Only(Finish(n), K) BY <2>1, OnlyMore
  <2>3. \A i \in 1 .. Len(Finish(n)) : Finish(n)[i][2] = n BY <1>1, FinishOf DEF AllOf
  <2> QED BY <2>2, <2>3
<1>8. Only(first, K) BY <1>2, OnlyMore
<1> DEFINE L == first \o Finish(n)
<1>9. /\ Only(L, K) /\ Go(t, L)
      /\ \A i \in 1 .. Len(L) : L[i][1] = "close?" => L[i][2] = n
  <2>1. Only(L, K) BY <1>7, <1>8, OnlyConcat
  <2>2. first \in Seq(Steps) /\ Finish(n) \in Seq(Steps) BY <1>7, <1>8 DEF Only
  <2> SUFFICES ASSUME NEW i \in 1 .. Len(L), L[i][1] = "close?" PROVE L[i][2] = n
    BY <1>2, <2>1
  <2> HIDE DEF n
  <2>3. \/ \E j \in 1 .. Len(first) : L[i] = first[j]
        \/ \E j \in 1 .. Len(Finish(n)) : L[i] = Finish(n)[j]
    BY <2>2, Concats
  <2>4. \A j \in 1 .. Len(first) : first[j][1] # "close?" BY <1>2 DEF Only
  <2> QED BY <1>7, <2>3, <2>4
<1> HIDE DEF L, n
<1>10. AskList(L) BY <1>9, MildAsk
<1>11. \A i \in 1 .. Len(L) : /\ L[i][1] \notin LoopKinds \cup {"initialized", "running"}
                              /\ t \in Workers => (L[i][1] \in OwnerKinds => L[i][2] = "source")
  <2>1. \A k \in K : k \notin LoopKinds \cup {"initialized", "running"} /\ (k \in OwnerKinds => k = "close?")
    BY DEF LoopKinds, OwnerKinds
  <2> HIDE DEF K
  <2> QED BY <1>4, <1>9, <2>1 DEF Only
<1>12. "land" \notin AfterTask \cup {"completed"} BY DEF AfterTask
<1> QED BY <1>1, <1>3, <1>5, <1>6, <1>9, <1>10, <1>11, <1>12, BusyGo DEF Stopped

\* A step that leaves the lists.
LEMMA LoopsStay ==
    ASSUME IInv, LoopsInv, UNCHANGED <<todo, wakeup, moved>>, WorkInv',
           Fresh' => Fresh, Stopped' = Stopped,
           \A n \in Nodes : node'[n].closeStarted = node[n].closeStarted
    PROVE  LoopsInv'
<1>1. LoopInv' BY DEF LoopsInv, LoopInv, Kind
<1>2. AskInv' BY DEF LoopsInv, AskInv, Kind
<1>3. OwnInv' BY DEF LoopsInv, OwnInv, Kind
<1>4. PendingInv' BY DEF LoopsInv, PendingInv, Has, Kind
<1>5. NewInv' BY DEF LoopsInv, NewInv, Has, Kind
<1> QED BY <1>1, <1>2, <1>3, <1>4, <1>5 DEF LoopsInv

LEMMA CalledStays ==
    ASSUME UNCHANGED <<todo, wakeup, moved>>
    PROVE  Called' = Called
<1>1. \A t \in Threads : \A k : Has(t, k)' = Has(t, k) BY DEF Has, Kind
<1>2. Host \in Threads BY DEF Threads
<1>3. Asks' = Asks BY <1>1 DEF Asks
<1>4. Pumps' = Pumps BY <1>1, <1>2 DEF Pumps
<1>5. (\E t \in Threads : Has(t, "arm"))' = (\E t \in Threads : Has(t, "arm")) BY <1>1
<1> QED BY <1>1, <1>2, <1>3, <1>4, <1>5 DEF Called

LEMMA BusyCalled ==
    ASSUME IInv, LoopInv, NEW t \in Threads, NEW k \in BusyKinds, At(t, k)
    PROVE  Called
<1>1. ListsOK /\ WorkerInv BY DEF IInv, ShapeInv
<1>2. Len(todo[t]) \in Nat /\ Len(todo[t]) >= 1 /\ Kind(t, 1) = k BY <1>1, AtFirst
<1>3. 1 \in 1 .. Len(todo[t]) /\ DOMAIN todo[t] = 1 .. Len(todo[t])
  BY <1>1, <1>2, LenProperties DEF ListsOK
<1>4. CASE t = Host
  <2>1. moved /\ k \in RoundKinds BY <1>1, <1>4, BusyMoved
  <2>2. PICK j \in 1 .. Len(todo[Host]) : j > 1 /\ Kind(Host, j) \in EndKinds
    BY <1>2, <1>3, <1>4, <2>1 DEF LoopInv
  <2>3. Has(Host, "pumped") \/ Has(Host, "done?") BY <1>3, <1>4, <2>2 DEF Has, EndKinds
  <2> QED BY <2>1, <2>3 DEF Called
<1>5. CASE t # Host
  <2>1. t \in Workers BY <1>5 DEF Threads
  <2>2. k \notin AfterTask BY DEF BusyKinds, AfterTask
  <2>3. ~(\A i \in 1 .. Len(todo[t]) : Kind(t, i) \in AfterTask) BY <1>2, <1>3, <2>2
  <2>4. Kind(t, Len(todo[t])) = "completed" BY <1>1, <2>1, <2>3 DEF WorkerInv
  <2>5. Len(todo[t]) \in DOMAIN todo[t] BY <1>2, <1>3
  <2>6. Has(t, "completed") BY <2>4, <2>5 DEF Has
  <2> QED BY <2>6 DEF Called, Asks
<1> QED BY <1>4, <1>5

LEMMA LoopsFlush ==
    ASSUME IInv, IInv', RestInv, LoopsInv, NEW t \in Threads, Flush(t)
    PROVE  LoopsInv'
<1> DEFINE n == Arg(t)
<1>1. At(t, "flush") /\ n \in Nodes BY ArgNode DEF Flush, NodeKinds
<1>2. UNCHANGED <<state, wakeup, moved, shared>> BY DEF Flush
<1>3. t = Host => moved' /\ "flush" \in RoundKinds BY <1>1, <1>2, BusyMoved DEF IInv, LoopsInv, BusyKinds
<1>4. "flush" \notin AfterTask \cup {"completed"} /\ "flush" \in BusyKinds BY DEF AfterTask, BusyKinds
<1>5. node \in [Nodes -> [opened : BOOLEAN, closeStarted : BOOLEAN, closed : BOOLEAN,
                          line : Seq(Entries), flushing : BOOLEAN]]
  BY DEF IInv, TypeOK
<1>6. CASE node' = node /\ Go(t, <<<<"try", "sink">>, <<"release", n>>>>)
  <2> DEFINE a == <<"try", "sink">>
             b == <<"release", n>>
             L == <<a, b>>
  <2>1. /\ a \in Steps /\ a[1] = "try" /\ b \in Steps /\ b[1] = "release"
    BY <1>1, StepForms DEF NodeKinds, Nodes
  <2> HIDE DEF a, b
  <2>2. AskList(L) /\ \A i \in 1 .. Len(L) : L[i] \in {a, b} BY <2>1, TwoSteps
  <2>3. Go(t, L) BY <1>6 DEF a, b
  <2> HIDE DEF L
  <2>4. \A i \in 1 .. Len(L) : /\ L[i][1] \notin LoopKinds \cup {"initialized", "running"}
                               /\ t \in Workers => (L[i][1] \in OwnerKinds => L[i][2] = "source")
    BY <2>1, <2>2 DEF LoopKinds, OwnerKinds
  <2> QED BY <1>1, <1>2, <1>3, <1>4, <1>6, <2>2, <2>3, <2>4, BusyGo DEF Stopped
<1>7. CASE /\ node[n].line # <<>> /\ node' = [node EXCEPT ![n].line = Tail(node[n].line)]
           /\ UNCHANGED todo
  <2>1. Called' BY <1>1, <1>2, <1>4, <1>7, BusyCalled, CalledStays DEF LoopsInv
  <2>2. WorkInv' BY <2>1, CalledWork
  <2>3. \A m \in Nodes : node'[m].closeStarted = node[m].closeStarted BY <1>1, <1>5, <1>7
  <2>4. Fresh' = Fresh BY <1>2, <1>7 DEF Fresh, At, Idle
  <2> QED BY <1>2, <1>7, <2>2, <2>3, <2>4, LoopsStay DEF Stopped
<1>8. CASE node' = [node EXCEPT ![n].flushing = FALSE] /\ Go(t, <<>>)
  <2>1. \A m \in Nodes : node'[m].closeStarted = node[m].closeStarted
    BY <1>1, <1>8, FlushingChange DEF IInv
  <2>2. Go(t, Nothing) BY <1>8 DEF Nothing
  <2>3. AskList(Nothing) /\ Len(Nothing) = 0 BY NothingAsks
  <2> QED BY <1>1, <1>2, <1>3, <1>4, <2>1, <2>2, <2>3, BusyGo DEF Stopped
<1> QED BY <1>1, <1>6, <1>7, <1>8 DEF Flush

LEMMA LoopsRelease ==
    ASSUME IInv, IInv', RestInv, LoopsInv, NEW t \in Threads, Release(t)
    PROVE  LoopsInv'
<1> DEFINE n == Arg(t)
           a == <<"flush", n>>
           L == <<a>>
<1>1. At(t, "release") /\ n \in Nodes BY ArgNode DEF Release, NodeKinds
<1>2. UNCHANGED <<state, wakeup, moved, shared>> BY DEF Release
<1>3. t = Host => moved' /\ "release" \in RoundKinds
  BY <1>1, <1>2, BusyMoved DEF IInv, LoopsInv, BusyKinds
<1>4. "release" \notin AfterTask \cup {"completed"} BY DEF AfterTask
<1>5. \A m \in Nodes : node'[m].closeStarted = node[m].closeStarted
  <2>1. node \in [Nodes -> [opened : BOOLEAN, closeStarted : BOOLEAN, closed : BOOLEAN,
                            line : Seq(Entries), flushing : BOOLEAN]]
    BY DEF IInv, TypeOK
  <2> QED BY <1>1, <2>1 DEF Release
<1>6. a \in Steps /\ a[1] = "flush" BY <1>1, StepForms DEF NodeKinds
<1>7. Go(t, L) BY DEF Release
<1> HIDE DEF a
<1>8. AskList(L) /\ \A i \in 1 .. Len(L) : L[i] = a BY <1>6, OneStep
<1> HIDE DEF L
<1>9. \A i \in 1 .. Len(L) : /\ L[i][1] \notin LoopKinds \cup {"initialized", "running"}
                             /\ t \in Workers => (L[i][1] \in OwnerKinds => L[i][2] = "source")
  BY <1>6, <1>8 DEF LoopKinds, OwnerKinds
<1> QED BY <1>1, <1>2, <1>3, <1>4, <1>5, <1>7, <1>8, <1>9, BusyGo DEF Stopped

LEMMA LoopsClose ==
    ASSUME IInv, IInv', RestInv, LoopsInv, NEW t \in Threads, Close(t)
    PROVE  LoopsInv'
<1> DEFINE n == Arg(t)
           a == <<"end">>
<1>1. At(t, "closing") /\ n \in Nodes BY ArgNode DEF Close, NodeKinds
<1>2. UNCHANGED <<state, wakeup>> /\ moved' = (moved \/ t = Host) BY DEF Close
<1>3. "closing" \in RoundKinds /\ "closing" \notin AfterTask \cup {"completed"}
  BY DEF RoundKinds, AfterTask
<1>4. \A m \in Nodes : node'[m].closeStarted = node[m].closeStarted
  BY <1>1, ClosedChange DEF Close, IInv
<1>5. Stopped => Stopped' BY DEF Close, Stopped, IInv, TypeOK
<1>6. a \in Steps /\ a[1] = "end" BY StepForms DEF PlainKinds
<1>7. Go(t, <<a>>) \/ Go(t, <<>>) BY DEF Close
<1> HIDE DEF a
<1>8. PICK L : /\ Go(t, L) /\ AskList(L) /\ \A i \in 1 .. Len(L) : L[i] = a
  <2>1. CASE Go(t, <<a>>)
    <3>1. PICK L : L = <<a>> OBVIOUS
    <3>2. Go(t, L) BY <2>1, <3>1
    <3>3. AskList(L) /\ \A i \in 1 .. Len(L) : L[i] = a BY <1>6, <3>1, OneStep
    <3> QED BY <3>2, <3>3
  <2>2. CASE Go(t, <<>>)
    <3>1. Go(t, Nothing) BY <2>2 DEF Nothing
    <3>2. AskList(Nothing) /\ Len(Nothing) = 0 BY NothingAsks
    <3> QED BY <3>1, <3>2
  <2> QED BY <1>7, <2>1, <2>2
<1>9. \A i \in 1 .. Len(L) : /\ L[i][1] \notin LoopKinds \cup {"initialized", "running"}
                             /\ t \in Workers => (L[i][1] \in OwnerKinds => L[i][2] = "source")
  BY <1>6, <1>8 DEF LoopKinds, OwnerKinds
<1> QED BY <1>1, <1>2, <1>3, <1>4, <1>5, <1>8, <1>9, BusyGo

---------------------------------------------------------------------------
(* The steps that only look, claim or ask.                                  *)

\* A thread goes on with steps of certain kinds, a worker with those of the
\* source.
Sent(t, K) ==
    \E L : /\ Go(t, L) /\ AskList(L)
           /\ \A i \in 1 .. Len(L) :
                 /\ L[i][1] \in K
                 /\ t \in Workers => (L[i][1] \in OwnerKinds => L[i][2] = "source")

LEMMA SentNone ==
    ASSUME NEW t, Go(t, <<>>), NEW K
    PROVE  Sent(t, K)
<1>1. Go(t, Nothing) BY DEF Nothing
<1> QED BY <1>1, NothingAsks DEF Sent

LEMMA SentOne ==
    ASSUME NEW t, NEW a \in Steps, Go(t, <<a>>), NEW K, a[1] \in K, a[1] \notin {"request", "cancelled"},
           t \in Workers /\ a[1] \in OwnerKinds => a[2] = "source"
    PROVE  Sent(t, K)
<1> DEFINE L == <<a>>
<1>1. AskList(L) /\ \A i \in 1 .. Len(L) : L[i] = a BY OneStep
<1>2. Go(t, L) OBVIOUS
<1> HIDE DEF L
<1> QED BY <1>1, <1>2 DEF Sent

LEMMA SentTwo ==
    ASSUME NEW t, NEW a \in Steps, NEW b \in Steps, Go(t, <<a, b>>), NEW K, {a[1], b[1]} \subseteq K,
           {a[1], b[1]} \cap ({"request", "cancelled"} \cup OwnerKinds) = {}
    PROVE  Sent(t, K)
<1> DEFINE L == <<a, b>>
<1>1. AskList(L) /\ \A i \in 1 .. Len(L) : L[i] \in {a, b} BY TwoSteps
<1>2. Go(t, L) OBVIOUS
<1> HIDE DEF L
<1> QED BY <1>1, <1>2 DEF Sent

LEMMA SentWakeup ==
    ASSUME NEW t, Go(t, RequestWakeup), NEW K, AfterTask \subseteq K
    PROVE  Sent(t, K)
<1>1. \A i \in 1 .. Len(RequestWakeup) : RequestWakeup[i][1] \in AfterTask BY WakeupSteps
<1>2. AfterTask \cap OwnerKinds = {} BY DEF AfterTask, OwnerKinds
<1> QED BY <1>1, <1>2, WakeupAsk DEF Sent

LEMMA WakeupCalls ==
    ASSUME ListsOK, NEW t \in Threads, NEW k, At(t, k), Go(t, RequestWakeup)
    PROVE  Called'
<1>1. RequestWakeup \in Seq(Steps) /\ Len(RequestWakeup) = 2 BY WakeupSteps
<1>2. Advances(t, RequestWakeup, Len(todo[t]) - 1) BY <1>1, GoAdvances
<1>3. 1 \in 1 .. Len(RequestWakeup) /\ RequestWakeup[1][1] = "request" BY <1>1 DEF RequestWakeup
<1> QED BY <1>2, <1>3, RequestCalls

LEMMA SentLoops ==
    ASSUME IInv, IInv', RestInv, LoopsInv, NEW t \in Threads, NEW k, At(t, k), NEW K, Sent(t, K),
           K \cap (LoopKinds \cup {"initialized", "running"}) = {},
           t = Host => /\ k \notin {"renew", "pump", "pumped"}
                       /\ K \cap RoundKinds = {} \/ (k \in RoundKinds /\ K \cap BusyKinds = {}),
           wakeup' = wakeup, moved' = moved, state' = state \/ state' = "Terminated", Stopped' = Stopped,
           Fresh /\ ~Stopped => \A n \in Nodes : node'[n].closeStarted => node[n].closeStarted,
           WorkInv'
    PROVE  LoopsInv'
<1>1. PICK L : /\ Go(t, L) /\ AskList(L)
               /\ \A i \in 1 .. Len(L) :
                     /\ L[i][1] \in K
                     /\ t \in Workers => (L[i][1] \in OwnerKinds => L[i][2] = "source")
  BY DEF Sent
<1>2. ListsOK /\ L \in Seq(Steps) BY <1>1 DEF IInv, AskList
<1>3. Len(todo[t]) >= 1 /\ Kind(t, 1) = k BY <1>1, <1>2, GoAdvances
<1>4. t = Host => HostFits(L)
  <2>1. CASE K \cap RoundKinds = {} BY <1>1, <2>1 DEF HostFits
  <2>2. CASE k \in RoundKinds /\ K \cap BusyKinds = {} BY <1>1, <1>3, <2>2 DEF HostFits
  <2> QED BY <2>1, <2>2
<1>5. \A i \in 1 .. Len(L) :
         /\ L[i][1] \notin {"initialized", "running"}
         /\ t \in Workers => (L[i][1] \in OwnerKinds => L[i][2] = "source")
  BY <1>1
<1> QED BY <1>1, <1>4, <1>5, GoLoops

\* A worker in its task: the host will be called.
LEMMA WorkerLoops ==
    ASSUME IInv, IInv', RestInv, LoopsInv, NEW w \in Workers, NEW k, At(w, k),
           k \notin AfterTask \cup {"completed"}, NEW K, Sent(w, K),
           K \cap (LoopKinds \cup {"initialized", "running"}) = {},
           UNCHANGED <<state, shared, wakeup, moved>>
    PROVE  LoopsInv'
<1>1. PICK L : Go(w, L) /\ AskList(L) BY DEF Sent
<1>2. ListsOK /\ L \in Seq(Steps) /\ w \in Threads BY <1>1 DEF IInv, AskList, Threads
<1>3. Advances(w, L, Len(todo[w]) - 1) BY <1>1, <1>2, GoAdvances
<1>4. Called' BY <1>3, WorkerCalls
<1>5. WorkInv' BY <1>4, CalledWork
<1>6. w # Host /\ ~Fresh BY WorkerAwake
<1> QED BY <1>2, <1>5, <1>6, SentLoops DEF Stopped

\* A step after which there is no more work than before.
LEMMA EasyLoops ==
    ASSUME IInv, IInv', RestInv, LoopsInv, NEW t \in Threads, NEW k, At(t, k), NEW K, Sent(t, K),
           k \notin CalledKinds \cup {"task", "ended", "close?", "close", "renew"},
           K \cap (LoopKinds \cup RoundKinds \cup {"initialized", "running"}) = {},
           wakeup' = wakeup, moved' = moved, state' = state \/ state' = "Terminated", Stopped' = Stopped,
           Fresh /\ ~Stopped => \A n \in Nodes : node'[n].closeStarted => node[n].closeStarted,
           NoMore
    PROVE  LoopsInv'
<1>1. PICK L : Go(t, L) /\ AskList(L) /\ \A i \in 1 .. Len(L) : L[i][1] \in K BY DEF Sent
<1>2. ListsOK /\ L \in Seq(Steps) BY <1>1 DEF IInv, AskList
<1>3. Advances(t, L, Len(todo[t]) - 1) BY <1>1, <1>2, GoAdvances
<1>4. \A j : At(t, j) => j = k BY DEF At
<1>5. \A j \in CalledKinds \cup {"task", "ended", "close?", "close"} : ~At(t, j) BY <1>4
<1>6. \A i \in 1 .. Len(L) : L[i][1] \notin {"pumped", "again?"} BY <1>1 DEF LoopKinds
<1>7. Called => Called' BY <1>2, <1>3, <1>5, <1>6, CalledQuiet
<1>8. WorkInv' BY <1>2, <1>3, <1>5, <1>7, QuietWork DEF LoopsInv
<1>9. k \notin {"renew", "pump", "pumped"} BY DEF CalledKinds
<1> QED BY <1>8, <1>9, SentLoops

LEMMA SameWork ==
    ASSUME UNCHANGED <<state, shared, node, sink, delegated>>,
           source'.done = source.done
    PROVE  NoMore
BY DEF NoMore, AllClosed, Closable, Drained, Stopped

LEMMA LoopsTry ==
    ASSUME IInv, IInv', RestInv, LoopsInv, NEW t \in Threads, Try(t)
    PROVE  LoopsInv'
<1>1. At(t, "try") /\ Arg(t) \in Nodes BY ArgNode DEF Try, NodeKinds
<1>2. UNCHANGED <<state, shared, node, source, sink, delegated, wakeup, moved>> BY DEF Try
<1>3. Sent(t, {"claim"})
  <2>1. CASE Go(t, <<>>) BY <2>1, SentNone
  <2>2. CASE Go(t, <<<<"claim", Arg(t)>>>>)
    <3>1. <<"claim", Arg(t)>> \in Steps /\ <<"claim", Arg(t)>>[1] = "claim"
      BY <1>1, StepForms DEF NodeKinds
    <3> QED BY <2>2, <3>1, SentOne DEF OwnerKinds
  <2> QED BY <2>1, <2>2 DEF Try
<1>4. /\ "try" \notin CalledKinds \cup {"task", "ended", "close?", "close", "renew"}
      /\ {"claim"} \cap (LoopKinds \cup RoundKinds \cup {"initialized", "running"}) = {}
  BY DEF CalledKinds, LoopKinds, RoundKinds, BusyKinds
<1>5. NoMore BY <1>2, SameWork
<1> QED BY <1>1, <1>2, <1>3, <1>4, <1>5, EasyLoops DEF Stopped

\* A claim takes work away: the line of its node is not empty.
LEMMA LoopsClaim ==
    ASSUME IInv, IInv', RestInv, LoopsInv, NEW t \in Threads, Claim(t)
    PROVE  LoopsInv'
<1> DEFINE n == Arg(t)
<1>1. At(t, "claim") /\ n \in Nodes BY ArgNode DEF Claim, NodeKinds
<1>2. UNCHANGED <<state, shared, source, delegated, wakeup, moved>> BY DEF Claim
<1>3. Sent(t, {"submit", "try"})
  <2>1. CASE Go(t, <<>>) BY <2>1, SentNone
  <2>2. CASE Go(t, <<<<"submit", n>>, <<"try", n>>>>)
    <3>1. <<"submit", n>> \in Steps /\ <<"try", n>> \in Steps BY <1>1, StepForms DEF NodeKinds
    <3>2. <<"submit", n>>[1] = "submit" /\ <<"try", n>>[1] = "try" OBVIOUS
    <3> QED BY <2>2, <3>1, <3>2, SentTwo DEF OwnerKinds
  <2> QED BY <2>1, <2>2 DEF Claim
<1>4. /\ "claim" \notin CalledKinds \cup {"task", "ended", "close?", "close", "renew"}
      /\ {"submit", "try"} \cap (LoopKinds \cup RoundKinds \cup {"initialized", "running"}) = {}
  BY DEF CalledKinds, LoopKinds, RoundKinds, BusyKinds
<1>5. CASE UNCHANGED <<node, sink>>
  <2>1. NoMore BY <1>2, <1>5, SameWork
  <2> QED BY <1>1, <1>2, <1>3, <1>4, <1>5, <2>1, EasyLoops DEF Stopped
<1>6. CASE /\ node' = [node EXCEPT ![n].line = Append(node[n].line, "claimed")]
           /\ sink' = IF n = "sink" THEN [sink EXCEPT !.backlog = sink.backlog - 1] ELSE sink
  <2> DEFINE l == Append(node[n].line, "claimed")
  <2>1. l \in Seq(Entries) /\ l # <<>>
    <3>1. node[n].line \in Seq(Entries) /\ "claimed" \in Entries BY <1>1 DEF IInv, TypeOK, Entries
    <3> QED BY <3>1, AppendProperties
  <2> HIDE DEF l
  <2>2. \A m \in Nodes : /\ node'[m].opened = node[m].opened
                         /\ node'[m].closeStarted = node[m].closeStarted
                         /\ node'[m].closed = node[m].closed
                         /\ node'[m].line = IF m = n THEN l ELSE node[m].line
    <3>1. node' = [node EXCEPT ![n].line = l] BY <1>6 DEF l
    <3> QED BY <1>1, <2>1, <3>1, LineChange DEF IInv
  <2>3. Stopped' = Stopped BY <1>2 DEF Stopped
  <2>4. \A m \in Nodes \ {n} : Drained(m)' = Drained(m) BY <1>2, <1>6, <1>1 DEF Drained, Nodes
  <2>5. \A m \in Nodes : Closable(m)' => Closable(m) /\ (Drained(m) => Drained(m)')
    BY <2>1, <2>2, <2>3, <2>4 DEF Closable
  <2>6. AllClosed' => AllClosed BY <2>2 DEF AllClosed
  <2>7. NoMore BY <1>2, <2>5, <2>6 DEF NoMore
  <2> QED BY <1>1, <1>2, <1>3, <1>4, <2>2, <2>3, <2>7, EasyLoops
<1> QED BY <1>5, <1>6 DEF Claim

LEMMA LoopsSubmit ==
    ASSUME IInv, IInv', RestInv, LoopsInv, NEW t \in Threads, Submit(t)
    PROVE  LoopsInv'
<1>1. At(t, "submit") BY DEF Submit
<1>2. UNCHANGED <<state, shared, node, source, sink, wakeup, moved>> BY DEF Submit
<1>3. ListsOK BY DEF IInv
<1>4. /\ "submit" \notin CalledKinds \cup {"task", "ended", "close?", "close", "renew"}
      /\ AfterTask \cap (LoopKinds \cup RoundKinds \cup {"initialized", "running"}) = {}
  BY DEF CalledKinds, LoopKinds, RoundKinds, BusyKinds, AfterTask
<1>5. CASE Go(t, RequestWakeup)
  <2>1. Sent(t, AfterTask) BY <1>5, SentWakeup
  <2>2. Called' BY <1>1, <1>3, <1>5, WakeupCalls
  <2>3. WorkInv' BY <2>2, CalledWork
  <2>4. "submit" \notin {"renew", "pump", "pumped"} OBVIOUS
  <2> QED BY <1>1, <1>2, <1>4, <2>1, <2>3, <2>4, SentLoops DEF Stopped
<1>6. CASE Go(t, <<>>) /\ UNCHANGED delegated
  <2>1. Sent(t, AfterTask) BY <1>6, SentNone
  <2>2. NoMore BY <1>2, <1>6, SameWork
  <2> QED BY <1>1, <1>2, <1>4, <2>1, <2>2, EasyLoops DEF Stopped
<1> QED BY <1>5, <1>6 DEF Submit

LEMMA LoopsEndOfStream ==
    ASSUME IInv, IInv', RestInv, LoopsInv, NEW t \in Threads, EndOfStream(t)
    PROVE  LoopsInv'
<1> DEFINE a == <<"try", "sink">>
           K == {"try"} \cup AfterTask
<1>1. At(t, "end") BY DEF EndOfStream
<1>2. UNCHANGED <<state, shared, node, source, wakeup, moved>> BY DEF EndOfStream
<1>3. ListsOK BY DEF IInv
<1>4. a \in Steps /\ a[1] = "try" BY StepForms DEF NodeKinds, Nodes
<1>5. Go(t, <<a>> \o RequestWakeup) BY DEF EndOfStream
<1> HIDE DEF a
<1>6. AskList(<<a>>) /\ (\A i \in 1 .. Len(<<a>>) : <<a>>[i] = a) /\ <<a>> \in Seq(Steps)
  BY <1>4, OneStep, Lists
<1>7. AskList(<<a>> \o RequestWakeup) BY <1>6, ConcatAsk, WakeupAsk
<1>8. Only(<<a>> \o RequestWakeup, K)
  <2>1. Only(<<a>>, K) BY <1>4, OnlyOne
  <2>2. Only(RequestWakeup, K) BY OnlyWakeup, OnlyMore
  <2> QED BY <2>1, <2>2, OnlyConcat
<1> DEFINE L == <<a>> \o RequestWakeup
<1>9. 1 \in 1 .. Len(RequestWakeup) /\ RequestWakeup[1][1] = "request"
  <2>1. Len(RequestWakeup) = 2 BY WakeupSteps
  <2> QED BY <2>1 DEF RequestWakeup
<1>10. \E i \in 1 .. Len(L) : L[i][1] = "request" BY <1>6, <1>9, WakeupSteps, ConcatSome
<1>11. Go(t, L) /\ AskList(L) /\ \A i \in 1 .. Len(L) : L[i][1] \in K BY <1>5, <1>7, <1>8 DEF Only
<1> HIDE DEF L
<1>12. K \cap (LoopKinds \cup RoundKinds \cup OwnerKinds \cup {"initialized", "running"}) = {}
  BY DEF LoopKinds, RoundKinds, BusyKinds, OwnerKinds, AfterTask
<1>13. Sent(t, K) BY <1>11, <1>12 DEF Sent
<1>14. Called'
  <2>1. L \in Seq(Steps) BY <1>11 DEF AskList
  <2>2. Advances(t, L, Len(todo[t]) - 1) BY <1>1, <1>3, <1>11, <2>1, GoAdvances
  <2> QED BY <1>3, <1>10, <2>2, RequestCalls
<1>15. WorkInv' BY <1>14, CalledWork
<1>16. "end" \notin {"renew", "pump", "pumped"} OBVIOUS
<1> HIDE DEF K
<1> QED BY <1>1, <1>2, <1>12, <1>13, <1>15, <1>16, SentLoops DEF Stopped

---------------------------------------------------------------------------
(* What the host looks at first.                                            *)

FrontLook(n) ==
    \/ At(Host, "task")
    \/ At(Host, "close?") /\ Arg(Host) = n
    \/ At(Host, "close") /\ Arg(Host) = n /\ (Head(todo[Host])[3] \/ Drained(n))

LEMMA LooksStep ==
    ASSUME ListsOK, NEW steps, NEW r, Advances(Host, steps, r), NEW n, Looks(n), Drained(n) => Drained(n)'
    PROVE  Looks(n)' \/ FrontLook(n)
<1>0. Host \in Threads BY DEF Threads
<1>1. CASE Has(Host, "task")
  <2>1. At(Host, "task") \/ Has(Host, "task")' BY <1>0, <1>1, HasMoves
  <2> QED BY <2>1 DEF Looks, FrontLook
<1>2. ASSUME NEW i \in 1 .. Len(todo[Host]), Kind(Host, i) \in {"close?", "close"},
             todo[Host][i][2] = n, Kind(Host, i) = "close" => todo[Host][i][3] \/ Drained(n)
      PROVE  Looks(n)' \/ FrontLook(n)
  <2>1. Len(todo[Host]) \in Nat BY <1>0, Deeper
  <2>2. CASE i = 1
    <3>1. Len(todo[Host]) >= 1 BY <2>1, <2>2
    <3>2. At(Host, Kind(Host, 1)) /\ Arg(Host) = todo[Host][1][2] /\ Head(todo[Host]) = todo[Host][1]
      BY <1>0, <3>1, AtFirst
    <3> QED BY <1>2, <2>2, <3>2 DEF FrontLook
  <2>3. CASE i # 1
    <3>1. i \in 2 .. Len(todo[Host]) BY <2>1, <2>3
    <3>2. PICK j \in 1 .. Len(todo'[Host]) : todo'[Host][j] = todo[Host][i] BY <1>0, <3>1, Kept
    <3> QED BY <1>2, <3>2 DEF Looks, Kind
  <2> QED BY <2>2, <2>3
<1> QED BY <1>1, <1>2 DEF Looks

\* A step that the host does in its look: it may close what it looked at, but
\* nothing else becomes work.
LEMMA FrontWork ==
    ASSUME ListsOK, WorkInv, NoMore, Called => Called', NEW steps, NEW r, Advances(Host, steps, r),
           At(Host, "task") => delegated' = 0 \/ Called',
           At(Host, "ended") => ~AllClosed' \/ Called',
           \A n \in Nodes : Closable(n)' /\ FrontLook(n) => Called' \/ Looks(n)'
    PROVE  WorkInv'
<1>0. Host \in Threads BY DEF Threads
<1>1. \A k : Has(Host, k) => Has(Host, k)' \/ At(Host, k) BY <1>0, HasMoves
<1> SUFFICES ASSUME state' \in Live
             PROVE  /\ delegated' > 0 => Called' \/ Has(Host, "task")'
                    /\ AllClosed' => Called' \/ Has(Host, "ended")'
                    /\ \A n \in Nodes : Closable(n)' => Called' \/ Looks(n)'
  BY DEF WorkInv
<1>2. delegated' > 0 => Called' \/ Has(Host, "task")'
  <2>1. delegated' > 0 => Called \/ Has(Host, "task") BY DEF WorkInv, NoMore
  <2> QED BY <1>1, <2>1
<1>3. AllClosed' => Called' \/ Has(Host, "ended")' BY <1>1 DEF WorkInv, NoMore
<1>4. ASSUME NEW n \in Nodes, Closable(n)' PROVE Called' \/ Looks(n)'
  <2>1. Called \/ Looks(n) BY <1>4 DEF WorkInv, NoMore
  <2>2. Drained(n) => Drained(n)' BY <1>4 DEF NoMore
  <2>3. Looks(n) => Looks(n)' \/ FrontLook(n) BY <2>2, LooksStep
  <2> QED BY <1>4, <2>1, <2>3
<1> QED BY <1>2, <1>3, <1>4

LEMMA LoopsCloseLook ==
    ASSUME IInv, IInv', RestInv, LoopsInv, NEW t \in Threads, CloseLook(t)
    PROVE  LoopsInv'
<1> DEFINE n == Arg(t)
           a == <<"close", n, Stopped>>
           L == <<a>>
<1>1. At(t, "close?") /\ n \in Nodes BY ArgNode DEF CloseLook, NodeKinds
<1>2. UNCHANGED <<state, shared, node, source, sink, delegated, wakeup, moved>> BY DEF CloseLook
<1>3. Stopped \in BOOLEAN BY DEF Stopped, IInv, TypeOK
<1>4. a \in Steps /\ a[1] = "close" /\ a[2] = n /\ a[3] = Stopped BY <1>1, <1>3, StepForms
<1>5. Go(t, L) BY DEF CloseLook
<1>6. t \in Workers => n = "source" BY <1>1, OwnArg DEF IInv, LoopsInv, OwnerKinds
<1>7. ListsOK BY DEF IInv
<1> HIDE DEF a
<1>8. Sent(t, {"close"}) BY <1>4, <1>5, <1>6, SentOne
<1>9. {"close"} \cap (LoopKinds \cup BusyKinds \cup {"initialized", "running"}) = {}
  BY DEF LoopKinds, BusyKinds
<1>10. CASE t \in Workers
  <2>1. "close?" \notin AfterTask \cup {"completed"} BY DEF AfterTask
  <2>2. {"close"} \cap (LoopKinds \cup {"initialized", "running"}) = {} BY DEF LoopKinds
  <2> QED BY <1>1, <1>2, <1>8, <1>10, <2>1, <2>2, WorkerLoops
<1>11. CASE t = Host
  <2>1. L \in Seq(Steps) BY <1>4, Lists
  <2>2. Advances(Host, L, Len(todo[Host]) - 1) BY <1>1, <1>5, <1>7, <1>11, <2>1, GoAdvances
  <2>3. NoMore BY <1>2, SameWork
  <2>4. 1 \in 1 .. Len(L) /\ L[1] = a /\ \A i \in 1 .. Len(L) : L[i] = a OBVIOUS
  <2> HIDE DEF L
  <2>5. \A k : At(Host, k) => k = "close?" BY <1>1, <1>11 DEF At
  <2>6. Called => Called'
    <3>1. \A k \in CalledKinds : ~At(Host, k) BY <2>5 DEF CalledKinds
    <3>2. \A i \in 1 .. Len(L) : L[i][1] \notin {"pumped", "again?"} BY <1>4, <2>4
    <3> QED BY <1>2, <1>7, <1>11, <2>2, <3>1, <3>2, CalledQuiet
  <2>7. ASSUME NEW m \in Nodes, Closable(m)', FrontLook(m) PROVE Looks(m)'
    <3>1. m = n BY <1>11, <2>5, <2>7 DEF FrontLook
    <3>2. 1 \in 1 .. Len(todo'[Host]) /\ todo'[Host][1] = a BY <1>7, <1>11, <2>2, <2>4, Kept
    <3>3. Stopped \/ Drained(m)'
      <4>1. Stopped' \/ Drained(m)' BY <2>7 DEF Closable
      <4> QED BY <1>2, <4>1 DEF Stopped
    <3> QED BY <1>4, <3>1, <3>2, <3>3 DEF Looks, Kind
  <2>8. ~At(Host, "task") /\ ~At(Host, "ended") BY <2>5
  <2>9. WorkInv' BY <1>7, <2>2, <2>3, <2>6, <2>7, <2>8, FrontWork DEF LoopsInv
  <2>10. "close?" \in RoundKinds /\ "close?" \notin {"renew", "pump", "pumped"} BY DEF RoundKinds
  <2> QED BY <1>1, <1>2, <1>8, <1>9, <1>11, <2>9, <2>10, SentLoops DEF Stopped
<1> QED BY <1>10, <1>11 DEF Threads

\* A node that is not stopped is not closed by force before it is started.
LEMMA NewClose ==
    ASSUME IInv, At(Host, "close"), Fresh, ~Stopped, NEW n \in Nodes
    PROVE  Head(todo[Host])[3] = FALSE /\ ~Drained(n)
<1>1. Host \in Threads /\ ListsOK BY DEF Threads, IInv
<1>2. /\ Len(todo[Host]) \in Nat /\ Len(todo[Host]) >= 1 /\ Kind(Host, 1) = "close"
      /\ Head(todo[Host]) = todo[Host][1]
  BY <1>1, AtFirst
<1>3. \A k : At(Host, k) => k = "close" BY DEF At
<1>4. state = "Initialized" /\ ~At(Host, "initialized") BY <1>3 DEF Fresh
<1>5. todo[Host] \notin StartTails
  <2>1. todo[Host] \in StartTails => Kind(Host, 1) \in {"open", "running"} BY DEF StartTails, Kind
  <2> QED BY <1>2, <2>1
<1>6. Calm(todo[Host][1], Stopped)
  <2>1. 1 \in 1 .. Len(todo[Host]) BY <1>2
  <2> QED BY <1>4, <1>5, <2>1 DEF IInv, PhaseInv, CalmInv
<1>7. todo[Host][1][3] = FALSE BY <1>2, <1>6 DEF Calm, Kind
<1>8. ~source.done /\ ~sink.inputClosed BY <1>4 DEF IInv, PhaseInv, FreshInv
<1> QED BY <1>2, <1>7, <1>8 DEF Drained

LEMMA LoopsCloseClaim ==
    ASSUME IInv, IInv', RestInv, LoopsInv, NEW t \in Threads, CloseClaim(t)
    PROVE  LoopsInv'
<1> DEFINE n == Arg(t)
           force == Head(todo[t])[3]
           Shuts == /\ ~node[n].closeStarted /\ node[n].line = <<>> /\ node[n].opened
                    /\ force \/ Drained(n)
<1>1. At(t, "close") /\ n \in Nodes BY ArgNode DEF CloseClaim
<1>2. UNCHANGED <<state, shared, source, delegated, wakeup, moved>> BY DEF CloseClaim
<1>3. t \in Workers => n = "source" BY <1>1, OwnArg DEF IInv, LoopsInv, OwnerKinds
<1>4. ListsOK BY DEF IInv
<1>5. PICK L : /\ Go(t, L) /\ AskList(L)
               /\ \A i \in 1 .. Len(L) : L[i][1] = "closing" /\ L[i][2] = n
  <2>1. CASE Go(t, <<<<"closing", n>>>>)
    <3> DEFINE a == <<"closing", n>>
    <3>1. a \in Steps /\ a[1] = "closing" /\ a[2] = n BY <1>1, StepForms DEF NodeKinds
    <3>2. Go(t, <<a>>) BY <2>1
    <3> HIDE DEF a, n
    <3>3. AskList(<<a>>) /\ \A i \in 1 .. Len(<<a>>) : <<a>>[i] = a BY <3>1, OneStep
    <3> QED BY <3>1, <3>2, <3>3
  <2>2. CASE Go(t, <<>>)
    <3>1. Go(t, Nothing) BY <2>2 DEF Nothing
    <3> QED BY <3>1, NothingAsks
  <2> QED BY <2>1, <2>2 DEF CloseClaim
<1>6. Sent(t, {"closing"}) BY <1>3, <1>5 DEF Sent
<1>7. {"closing"} \cap (LoopKinds \cup BusyKinds \cup {"initialized", "running"}) = {}
  BY DEF LoopKinds, BusyKinds
<1>8. CASE t \in Workers
  <2>1. "close" \notin AfterTask \cup {"completed"} BY DEF AfterTask
  <2>2. {"closing"} \cap (LoopKinds \cup {"initialized", "running"}) = {} BY DEF LoopKinds
  <2> QED BY <1>1, <1>2, <1>6, <1>8, <2>1, <2>2, WorkerLoops
<1>9. CASE t = Host
  <2>1. L \in Seq(Steps) BY <1>5 DEF AskList
  <2>2. Advances(Host, L, Len(todo[Host]) - 1) BY <1>1, <1>4, <1>5, <1>9, <2>1, GoAdvances
  <2>3. \A k : At(Host, k) => k = "close" BY <1>1, <1>9 DEF At
  <2>4. Called => Called'
    <3>1. \A k \in CalledKinds : ~At(Host, k) BY <2>3 DEF CalledKinds
    <3>2. \A i \in 1 .. Len(L) : L[i][1] \notin {"pumped", "again?"} BY <1>5
    <3> QED BY <1>2, <1>4, <1>9, <2>2, <3>1, <3>2, CalledQuiet
  <2>5. /\ \A m \in Nodes : /\ node'[m].opened = node[m].opened
                            /\ node'[m].closed = node[m].closed
                            /\ node'[m].line = node[m].line
                            /\ m # n => node'[m].closeStarted = node[m].closeStarted
                            /\ m # n => Drained(m)' = Drained(m)
        /\ node'[n].closeStarted <=> node[n].closeStarted \/ Shuts
        /\ ~Shuts => UNCHANGED node /\ \A m \in Nodes : Drained(m)' = Drained(m)
    <3>1. CASE Shuts
      <4>1. node' = [node EXCEPT ![n].closeStarted = TRUE] BY <3>1 DEF CloseClaim
      <4>2. sink' = IF force /\ n = "sink" THEN [sink EXCEPT !.backlog = 0] ELSE sink
        BY <3>1 DEF CloseClaim
      <4>3. \A m \in Nodes : m # n => Drained(m)' = Drained(m)
        BY <1>1, <1>2, <4>2 DEF Drained, Nodes
      <4> HIDE DEF n, force
      <4>4. /\ \A m \in Nodes : /\ node'[m].opened = node[m].opened
                                /\ node'[m].closed = node[m].closed
                                /\ node'[m].line = node[m].line
                                /\ m # n => node'[m].closeStarted = node[m].closeStarted
            /\ node'[n].closeStarted = TRUE
        BY <1>1, <4>1, StartedChange DEF IInv
      <4> HIDE DEF Shuts
      <4> QED BY <3>1, <4>3, <4>4
    <3>2. CASE ~Shuts
      <4>1. UNCHANGED <<node, sink>> BY <3>2 DEF CloseClaim
      <4>2. \A m : Drained(m)' = Drained(m) BY <1>2, <4>1 DEF Drained
      <4>3. node'[n].closeStarted = node[n].closeStarted BY <4>1
      <4> HIDE DEF Shuts, n
      <4> QED BY <3>2, <4>1, <4>2, <4>3
    <3> QED BY <3>1, <3>2
  <2>6. Stopped' = Stopped BY <1>2 DEF Stopped
  <2>7. \A m \in Nodes : Closable(m)' => Closable(m) /\ (Drained(m) => Drained(m)') /\ (m = n => ~Shuts)
    <3>1. ASSUME NEW m \in Nodes, Closable(m)', m = n
          PROVE  Closable(m) /\ (Drained(m) => Drained(m)') /\ ~Shuts
      <4>1. ~node'[n].closeStarted BY <3>1 DEF Closable
      <4>2. ~Shuts BY <2>5, <4>1
      <4> HIDE DEF Shuts
      <4>3. Drained(m)' = Drained(m) /\ node'[m].closeStarted = node[m].closeStarted
        BY <1>1, <2>5, <3>1, <4>1, <4>2
      <4> QED BY <2>5, <2>6, <3>1, <4>1, <4>2, <4>3 DEF Closable
    <3>2. ASSUME NEW m \in Nodes, Closable(m)', m # n
          PROVE  Closable(m) /\ (Drained(m) => Drained(m)')
      BY <2>5, <2>6, <3>2 DEF Closable
    <3> QED BY <3>1, <3>2
  <2>8. AllClosed' => AllClosed BY <2>5 DEF AllClosed
  <2>9. NoMore BY <1>2, <2>7, <2>8 DEF NoMore
  <2>10. \A m \in Nodes : Closable(m)' => ~FrontLook(m)
    <3> SUFFICES ASSUME NEW m \in Nodes, Closable(m)', FrontLook(m) PROVE FALSE OBVIOUS
    <3>1. m = n /\ (force \/ Drained(n)) BY <1>9, <2>3 DEF FrontLook
    <3>2. ~Shuts /\ Closable(n) BY <2>7, <3>1
    <3> QED BY <3>1, <3>2 DEF Closable
  <2>11. ~At(Host, "task") /\ ~At(Host, "ended") BY <2>3
  <2>12. WorkInv' BY <1>4, <2>2, <2>4, <2>9, <2>10, <2>11, FrontWork DEF LoopsInv
  <2>13. "close" \in RoundKinds /\ "close" \notin {"renew", "pump", "pumped"} BY DEF RoundKinds
  <2>14. Fresh /\ ~Stopped => \A m \in Nodes : node'[m].closeStarted => node[m].closeStarted
    <3>1. Fresh /\ ~Stopped => ~Shuts BY <1>1, <1>9, NewClose
    <3> HIDE DEF Shuts
    <3>2. ~Shuts => \A m \in Nodes : node'[m].closeStarted => node[m].closeStarted BY <2>5
    <3> QED BY <3>1, <3>2
  <2> HIDE DEF n
  <2> QED BY <1>1, <1>2, <1>6, <1>7, <1>9, <2>6, <2>12, <2>13, <2>14, SentLoops
<1> QED BY <1>8, <1>9 DEF Threads

---------------------------------------------------------------------------
(* The steps of the workers.                                                *)

LEMMA LoopsWake ==
    ASSUME IInv, IInv', RestInv, LoopsInv, NEW w \in Workers, Wake(w)
    PROVE  LoopsInv'
<1>1. At(w, "wake") BY DEF Wake
<1>2. UNCHANGED <<state, shared, wakeup, moved>> BY DEF Wake
<1>3. Sent(w, {"woken"})
  <2>1. CASE Go(w, <<>>) BY <2>1, SentNone
  <2>2. CASE Go(w, <<<<"woken", "source">>>>)
    <3> DEFINE a == <<"woken", "source">>
    <3>1. a \in Steps /\ a[1] = "woken" BY StepForms DEF NodeKinds, Nodes
    <3>2. Go(w, <<a>>) BY <2>2
    <3> HIDE DEF a
    <3> QED BY <3>1, <3>2, SentOne DEF OwnerKinds
  <2> QED BY <2>1, <2>2 DEF Wake
<1>4. /\ "wake" \notin AfterTask \cup {"completed"}
      /\ {"woken"} \cap (LoopKinds \cup {"initialized", "running"}) = {}
  BY DEF AfterTask, LoopKinds
<1> QED BY <1>1, <1>2, <1>3, <1>4, WorkerLoops

LEMMA LoopsWoken ==
    ASSUME IInv, IInv', RestInv, LoopsInv, NEW w \in Workers, Woken(w)
    PROVE  LoopsInv'
<1>1. At(w, "woken") BY DEF Woken
<1>2. UNCHANGED <<state, shared, wakeup, moved>> BY DEF Woken
<1>3. Sent(w, {"try", "close?"})
  <2>1. CASE Go(w, <<<<"try", "source">>>>)
    <3> DEFINE a == <<"try", "source">>
    <3>1. a \in Steps /\ a[1] = "try" /\ a[2] = "source" BY StepForms DEF NodeKinds, Nodes
    <3>2. Go(w, <<a>>) BY <2>1
    <3> HIDE DEF a
    <3> QED BY <3>1, <3>2, SentOne
  <2>2. CASE Go(w, <<<<"close?", "source">>>>)
    <3> DEFINE a == <<"close?", "source">>
    <3>1. a \in Steps /\ a[1] = "close?" /\ a[2] = "source" BY StepForms DEF NodeKinds, Nodes
    <3>2. Go(w, <<a>>) BY <2>2
    <3> HIDE DEF a
    <3> QED BY <3>1, <3>2, SentOne
  <2> QED BY <2>1, <2>2 DEF Woken, MaybeClose
<1>4. /\ "woken" \notin AfterTask \cup {"completed"}
      /\ {"try", "close?"} \cap (LoopKinds \cup {"initialized", "running"}) = {}
  BY DEF AfterTask, LoopKinds
<1> QED BY <1>1, <1>2, <1>3, <1>4, WorkerLoops

LEMMA LoopsReturn ==
    ASSUME IInv, IInv', RestInv, LoopsInv, NEW w \in Workers, Return(w)
    PROVE  LoopsInv'
<1>1. At(w, "process") BY DEF Return
<1>2. UNCHANGED <<state, shared, wakeup, moved>> BY DEF Return
<1>3. Sent(w, {"land"})
  <2>1. PICK result \in {"landed", "emitted"} : Go(w, <<<<"land", "source", result>>>>) BY DEF Return
  <2> DEFINE a == <<"land", "source", result>>
  <2>2. a \in Steps /\ a[1] = "land" /\ a[2] = "source" BY StepForms DEF Nodes
  <2>3. Go(w, <<a>>) BY <2>1
  <2> HIDE DEF a
  <2> QED BY <2>2, <2>3, SentOne
<1>4. /\ "process" \notin AfterTask \cup {"completed"}
      /\ {"land"} \cap (LoopKinds \cup {"initialized", "running"}) = {}
  BY DEF AfterTask, LoopKinds
<1> QED BY <1>1, <1>2, <1>3, <1>4, WorkerLoops

LEMMA LoopsLastReturn ==
    ASSUME IInv, IInv', RestInv, LoopsInv, NEW w \in Workers, LastReturn(w)
    PROVE  LoopsInv'
<1>1. At(w, "process") BY DEF LastReturn
<1>2. UNCHANGED <<state, shared, wakeup, moved>> BY DEF LastReturn
<1>3. Sent(w, {"land"})
  <2>1. PICK result \in {"landed", "emitted"} : Go(w, <<<<"land", "source", result>>>>) BY DEF LastReturn
  <2> DEFINE a == <<"land", "source", result>>
  <2>2. a \in Steps /\ a[1] = "land" /\ a[2] = "source" BY StepForms DEF Nodes
  <2>3. Go(w, <<a>>) BY <2>1
  <2> HIDE DEF a
  <2> QED BY <2>2, <2>3, SentOne
<1>4. /\ "process" \notin AfterTask \cup {"completed"}
      /\ {"land"} \cap (LoopKinds \cup {"initialized", "running"}) = {}
  BY DEF AfterTask, LoopKinds
<1> QED BY <1>1, <1>2, <1>3, <1>4, WorkerLoops

LEMMA LoopsResumption ==
    ASSUME IInv, IInv', RestInv, LoopsInv, NEW w \in Workers, Resumption(w)
    PROVE  LoopsInv'
<1>1. At(w, "resume?") BY DEF Resumption
<1>2. UNCHANGED <<state, shared, wakeup, moved>> BY DEF Resumption
<1>3. Sent(w, {"reschedule"})
  <2>1. CASE Go(w, <<>>) BY <2>1, SentNone
  <2>2. CASE Go(w, <<<<"reschedule">>>>)
    <3> DEFINE a == <<"reschedule">>
    <3>1. a \in Steps /\ a[1] = "reschedule" BY StepForms DEF PlainKinds
    <3>2. Go(w, <<a>>) BY <2>2
    <3> HIDE DEF a
    <3> QED BY <3>1, <3>2, SentOne DEF OwnerKinds
  <2> QED BY <2>1, <2>2 DEF Resumption
<1>4. /\ "resume?" \notin AfterTask \cup {"completed"}
      /\ {"reschedule"} \cap (LoopKinds \cup {"initialized", "running"}) = {}
  BY DEF AfterTask, LoopKinds
<1> QED BY <1>1, <1>2, <1>3, <1>4, WorkerLoops

LEMMA LoopsReschedule ==
    ASSUME IInv, IInv', RestInv, LoopsInv, NEW w \in Workers, Reschedule(w)
    PROVE  LoopsInv'
<1>1. At(w, "reschedule") BY DEF Reschedule
<1>2. UNCHANGED <<state, shared, wakeup, moved>> BY DEF Reschedule
<1>3. Sent(w, {"generation"})
  <2>1. CASE Go(w, <<>>) BY <2>1, SentNone
  <2>2. CASE Go(w, <<<<"generation">>>>)
    <3> DEFINE a == <<"generation">>
    <3>1. a \in Steps /\ a[1] = "generation" BY StepForms DEF PlainKinds
    <3>2. Go(w, <<a>>) BY <2>2
    <3> HIDE DEF a
    <3> QED BY <3>1, <3>2, SentOne DEF OwnerKinds
  <2> QED BY <2>1, <2>2 DEF Reschedule
<1>4. /\ "reschedule" \notin AfterTask \cup {"completed"}
      /\ {"generation"} \cap (LoopKinds \cup {"initialized", "running"}) = {}
  BY DEF AfterTask, LoopKinds
<1> QED BY <1>1, <1>2, <1>3, <1>4, WorkerLoops

LEMMA LoopsGeneration ==
    ASSUME IInv, IInv', RestInv, LoopsInv, NEW w \in Workers, Generation(w)
    PROVE  LoopsInv'
<1>1. At(w, "generation") BY DEF Generation
<1>2. UNCHANGED <<state, shared, wakeup, moved>> BY DEF Generation
<1>3. Sent(w, {"delay"})
  <2> DEFINE a == <<"delay", source.generation + 1>>
  <2>1. source.generation + 1 \in Nat \ {0} BY DEF IInv, TypeOK
  <2>2. a \in Steps /\ a[1] = "delay" BY <2>1, StepForms
  <2>3. Go(w, <<a>>) BY DEF Generation
  <2> HIDE DEF a
  <2> QED BY <2>2, <2>3, SentOne DEF OwnerKinds
<1>4. /\ "generation" \notin AfterTask \cup {"completed"}
      /\ {"delay"} \cap (LoopKinds \cup {"initialized", "running"}) = {}
  BY DEF AfterTask, LoopKinds
<1> QED BY <1>1, <1>2, <1>3, <1>4, WorkerLoops

LEMMA LoopsDelay ==
    ASSUME IInv, IInv', RestInv, LoopsInv, NEW w \in Workers, Delay(w)
    PROVE  LoopsInv'
<1>1. At(w, "delay") BY DEF Delay
<1>2. UNCHANGED <<state, shared, wakeup, moved>> BY DEF Delay
<1>3. Sent(w, {"delay"})
  BY SentNone DEF Delay
<1>4. /\ "delay" \notin AfterTask \cup {"completed"}
      /\ {"delay"} \cap (LoopKinds \cup {"initialized", "running"}) = {}
  BY DEF AfterTask, LoopKinds
<1> QED BY <1>1, <1>2, <1>3, <1>4, WorkerLoops

LEMMA LoopsTake ==
    ASSUME IInv, IInv', RestInv, LoopsInv, NEW w \in Workers, Take(w)
    PROVE  LoopsInv'
<1>0. TypeOK /\ ListsOK /\ w \in Threads /\ w # Host BY ThreadsAssumption DEF IInv, Threads
<1>1. PICK due \in Due :
         /\ pool.ready \o due # <<>>
         /\ pool' = [pool EXCEPT !.ready = Tail(pool.ready \o due), !.running = @ + 1,
                                 !.delayed = @ \ {due[i] : i \in DOMAIN due}]
         /\ Call(w, StepsOf(Head(pool.ready \o due)))
  BY DEF Take
<1>2. PICK ready : ready = pool.ready \o due OBVIOUS
<1>3. Head(ready) = ready[1] /\ ready[1] \in Nat BY <1>0, <1>1, <1>2, TakenPool
<1> DEFINE steps == StepsOf(ready[1])
<1>4. /\ steps \in Seq(Steps) /\ Len(steps) = 2
      /\ steps[2][1] = "completed" /\ steps[1][1] \in {"run", "wake"}
      /\ steps[1][1] = "run" => steps[1][2] = "source"
  <2>1. steps[1][1] = "run" => ready[1] = RunTask BY <1>3, TaskSteps
  <2>2. ready[1] = RunTask => steps[1] = <<"run", "source">> BY <1>3, TaskSteps
  <2> HIDE DEF steps
  <2>3. steps[1][1] = "run" => steps[1][2] = "source" BY <2>1, <2>2
  <2> QED BY <1>3, <2>3, TakenSteps DEF steps
<1>5. Idle(w) /\ Call(w, steps) BY <1>1, <1>2, <1>3 DEF Take
<1>6. UNCHANGED <<state, shared, node, wakeup, moved>> BY DEF Take
<1> HIDE DEF steps
<1>7. Advances(w, steps, 0) BY <1>0, <1>4, <1>5, CallAdvances
<1>8. \A i \in 1 .. Len(steps) : \/ i = 1
                                 \/ i = 2 /\ steps[i][1] = "completed"
  BY <1>4
<1>9. \A i \in 1 .. Len(steps) : /\ steps[i][1] \notin {"request", "cancelled", "initialized", "running"}
                                 /\ steps[i][1] \in OwnerKinds => steps[i][2] = "source"
  BY <1>4, <1>8 DEF OwnerKinds
<1>10. AskList(steps) BY <1>4, <1>9 DEF AskList
<1>11. Fits(w, steps) BY <1>0, <1>6, <1>9, <1>10 DEF Fits
<1>12. PendingInv' BY <1>0, <1>6, <1>7, PendingSame DEF LoopsInv
<1>13. NewInv' BY <1>0, <1>6, <1>7, <1>9, NewStep DEF LoopsInv, RestInv, Stopped
<1>14. WorkInv'
  <2>1. 2 \in 1 .. Len(steps) BY <1>4
  <2>2. Called' BY <1>0, <1>4, <1>7, <2>1, RequestCalls
  <2> QED BY <2>2, CalledWork
<1> QED BY <1>0, <1>7, <1>11, <1>12, <1>13, <1>14, Joins

LEMMA LoopsCompleted ==
    ASSUME IInv, IInv', RestInv, LoopsInv, NEW w \in Workers, Completed(w)
    PROVE  LoopsInv'
<1>1. At(w, "completed") /\ Go(w, RequestWakeup) BY DEF Completed
<1>2. UNCHANGED <<state, shared, node, wakeup, moved>> BY DEF Completed
<1>3. w \in Threads /\ w # Host /\ ListsOK BY ThreadsAssumption DEF IInv, Threads
<1>4. Sent(w, AfterTask) BY <1>1, SentWakeup
<1>5. Called' BY <1>1, <1>3, WakeupCalls
<1>6. WorkInv' BY <1>5, CalledWork
<1>7. AfterTask \cap (LoopKinds \cup {"initialized", "running"}) = {} BY DEF LoopKinds, AfterTask
<1> QED BY <1>1, <1>2, <1>3, <1>4, <1>6, <1>7, SentLoops DEF Stopped

LEMMA WorkStays ==
    ASSUME WorkInv, UNCHANGED <<todo, wakeup, moved, state, shared, node, source, sink, delegated>>
    PROVE  WorkInv'
<1>1. Called' = Called BY CalledStays
<1>2. \A k : Has(Host, k)' = Has(Host, k) BY DEF Has, Kind
<1>3. \A n \in Nodes : Looks(n)' = Looks(n) BY <1>2 DEF Looks, Kind, Drained
<1>4. \A n \in Nodes : Closable(n)' = Closable(n) BY DEF Closable, Drained, Stopped
<1>5. AllClosed' = AllClosed BY DEF AllClosed
<1> QED BY <1>1, <1>2, <1>3, <1>4, <1>5 DEF WorkInv

\* The threads that exit, and a graph that is paused.
LEMMA LoopsQuiet ==
    ASSUME IInv, LoopsInv,
           UNCHANGED <<todo, wakeup, moved, state, shared, node, source, sink, delegated>>
    PROVE  LoopsInv'
<1>1. WorkInv' BY WorkStays DEF LoopsInv
<1>2. Fresh' = Fresh BY DEF Fresh, At, Idle
<1> QED BY <1>1, <1>2, LoopsStay DEF Stopped

---------------------------------------------------------------------------
(* Requests, and the callback.                                              *)

\* A request is followed by its call.
LEMMA LoopsRequest ==
    ASSUME IInv, IInv', RestInv, LoopsInv, NEW t \in Threads, Request(t)
    PROVE  LoopsInv'
<1>1. At(t, "request") /\ Go(t, Nothing) BY DEF Request, Nothing
<1>2. UNCHANGED <<state, shared, node, source, sink, delegated, moved>> BY DEF Request
<1>3. /\ wakeup' \in Flags /\ wakeup'.requested
      /\ wakeup'.pending = wakeup.pending /\ wakeup'.posted = wakeup.posted
  BY DEF Request, LoopsInv, PendingInv, Flags
<1>4. ListsOK /\ AskList(Nothing) /\ Len(Nothing) = 0 /\ Nothing \in Seq(Steps)
  BY NothingAsks DEF IInv, AskList
<1>5. /\ Advances(t, Nothing, Len(todo[t]) - 1)
      /\ Len(todo[t]) \in Nat /\ Len(todo[t]) >= 1 /\ Kind(t, 1) = "request"
  BY <1>1, <1>4, GoAdvances
<1>6. Fits(t, Nothing) BY <1>2, <1>4 DEF Fits, HostFits
<1>7. \A k : At(t, k) => k = "request" BY <1>1 DEF At
<1>8. PendingInv'
  <2>1. \A k \in {"pump", "pumped"} : Has(Host, k) => Has(Host, k)'
    BY <1>4, <1>5, <1>7, HasMoves DEF Threads
  <2> QED BY <1>3, <2>1 DEF PendingInv, LoopsInv
<1>9. NewInv' BY <1>2, <1>4, <1>5, NewStep DEF LoopsInv, RestInv, Stopped
<1>10. Has(t, "arm")'
  <2>1. 1 \in 1 .. Len(todo[t]) BY <1>5
  <2>2. PICK j \in 1 .. Len(todo[t]) : j > 1 /\ Kind(t, j) = "arm"
    BY <1>5, <2>1 DEF LoopsInv, AskInv
  <2>3. j \in 2 .. Len(todo[t]) BY <1>5, <2>2
  <2> QED BY <1>4, <1>5, <2>2, <2>3, HasNext
<1>11. Called'
  <2>1. (\E u \in Threads : Has(u, "arm"))' BY <1>10
  <2> QED BY <1>3, <2>1 DEF Called
<1>12. WorkInv' BY <1>11, CalledWork
<1> QED BY <1>4, <1>5, <1>6, <1>8, <1>9, <1>12, Joins

\* The callback posts, unless it was called and has not been answered.
LEMMA LoopsArm ==
    ASSUME IInv, IInv', RestInv, LoopsInv, NEW t \in Threads, Arm(t)
    PROVE  LoopsInv'
<1>1. At(t, "arm") /\ Go(t, Nothing) BY DEF Arm, Nothing
<1>2. UNCHANGED <<state, shared, node, source, sink, delegated, moved>> BY DEF Arm
<1>3. /\ wakeup' \in Flags /\ wakeup'.requested = wakeup.requested
      /\ wakeup'.posted = (wakeup.posted \/ ~wakeup.pending)
  BY DEF Arm, LoopsInv, PendingInv, Flags
<1>4. ListsOK /\ AskList(Nothing) /\ Len(Nothing) = 0 /\ Nothing \in Seq(Steps)
  BY NothingAsks DEF IInv, AskList
<1>5. /\ Advances(t, Nothing, Len(todo[t]) - 1)
      /\ Len(todo[t]) \in Nat /\ Len(todo[t]) >= 1 /\ Kind(t, 1) = "arm"
  BY <1>1, <1>4, GoAdvances
<1>6. Fits(t, Nothing) BY <1>2, <1>4 DEF Fits, HostFits
<1>7. \A k : At(t, k) => k = "arm" BY <1>1 DEF At
<1>8. \A u \in Threads : \A k : k # "arm" /\ Has(u, k) => Has(u, k)' BY <1>4, <1>5, <1>7, HasMoves
<1>9. \A u \in Threads : \A k : Has(u, k)' => Has(u, k) BY <1>4, <1>5, HasMoves
<1>10. Host \in Threads BY DEF Threads
<1>11. wakeup'.posted \/ Has(Host, "pump")' \/ Has(Host, "pumped")'
  BY <1>3, <1>8, <1>10 DEF LoopsInv, PendingInv
<1>12. PendingInv' BY <1>3, <1>11 DEF PendingInv
<1>13. NewInv' BY <1>2, <1>4, <1>5, NewStep DEF LoopsInv, RestInv, Stopped
<1>14. Called => Called'
  <2>1. Pumps' <=> Pumps BY <1>8, <1>9, <1>10 DEF Pumps
  <2>2. Asks => Asks' BY <1>8 DEF Asks
  <2>3. CASE Pumps BY <1>2, <1>3, <1>8, <1>10, <2>1, <2>2, <2>3 DEF Called
  <2>4. CASE ~Pumps
    <3>1. ~Has(Host, "pumped")' BY <2>1, <2>4 DEF Pumps
    <3> QED BY <1>11, <2>1, <2>4, <3>1 DEF Called
  <2> QED BY <2>3, <2>4
<1>15. WorkInv'
  <2>1. NoMore BY <1>2, SameWork
  <2>2. t = Host => \A k \in {"task", "ended", "close?", "close"} : ~At(Host, k) BY <1>7
  <2> QED BY <1>4, <1>5, <1>14, <2>1, <2>2, QuietWork DEF LoopsInv
<1> QED BY <1>4, <1>5, <1>6, <1>12, <1>13, <1>15, Joins

---------------------------------------------------------------------------
(* The rounds of the host.                                                  *)

LEMMA LoopsSinkReturn ==
    ASSUME IInv, IInv', RestInv, LoopsInv, SinkReturn
    PROVE  LoopsInv'
<1> DEFINE a == <<"land", Arg(Host), "landed">>
           L == <<a>>
<1>1. At(Host, "process") /\ Host \in Threads /\ Arg(Host) \in Nodes
  BY ArgNode DEF SinkReturn, NodeKinds, Threads
<1>2. UNCHANGED <<state, shared, node, wakeup, moved>> BY DEF SinkReturn
<1>3. a \in Steps /\ a[1] = "land" BY <1>1, StepForms
<1>4. Go(Host, L) BY DEF SinkReturn
<1> HIDE DEF a
<1>5. AskList(L) /\ \A i \in 1 .. Len(L) : L[i] = a BY <1>3, OneStep
<1> HIDE DEF L
<1>6. moved /\ "process" \in RoundKinds BY <1>1, BusyMoved DEF IInv, LoopsInv, BusyKinds
<1>7. "process" \notin AfterTask \cup {"completed"} BY DEF AfterTask
<1>8. Host \notin Workers BY ThreadsAssumption
<1>9. \A i \in 1 .. Len(L) : /\ L[i][1] \notin LoopKinds \cup {"initialized", "running"}
                             /\ Host \in Workers => (L[i][1] \in OwnerKinds => L[i][2] = "source")
  BY <1>3, <1>5, <1>8 DEF LoopKinds
<1> QED BY <1>1, <1>2, <1>4, <1>5, <1>6, <1>7, <1>9, BusyGo DEF Stopped

LEMMA LoopsRetire ==
    ASSUME IInv, IInv', RestInv, LoopsInv, Retire
    PROVE  LoopsInv'
<1>1. At(Host, "retire") /\ Host \in Threads BY DEF Retire, Threads
<1>2. UNCHANGED <<state, shared, node, wakeup, moved>> BY DEF Retire
<1>3. Go(Host, Nothing) BY DEF Retire, Nothing
<1>4. moved /\ "retire" \in RoundKinds BY <1>1, BusyMoved DEF IInv, LoopsInv, BusyKinds
<1>5. "retire" \notin AfterTask \cup {"completed"} BY DEF AfterTask
<1> QED BY <1>1, <1>2, <1>3, <1>4, <1>5, NothingAsks, BusyGo DEF Stopped

LEMMA LoopsTask ==
    ASSUME IInv, IInv', RestInv, LoopsInv, Task
    PROVE  LoopsInv'
<1>1. At(Host, "task") /\ Host \in Threads /\ Host \notin Workers /\ ListsOK
  BY ThreadsAssumption DEF Task, Threads, IInv
<1>2. UNCHANGED <<state, shared, node, source, sink, wakeup>> BY DEF Task
<1>3. "task" \in RoundKinds /\ "task" \notin AfterTask \cup {"completed"} BY DEF RoundKinds, AfterTask
<1>4. delegated \in Nat BY DEF IInv, TypeOK
<1>5. CASE delegated > 0
  <2> DEFINE a == <<"run", "sink">>
             b == <<"retire">>
             L == <<a, b>>
  <2>1. a \in Steps /\ a[1] = "run" /\ b \in Steps /\ b[1] = "retire"
    BY StepForms DEF NodeKinds, PlainKinds, Nodes
  <2>2. Go(Host, L) /\ moved' = TRUE BY <1>5 DEF Task
  <2> HIDE DEF a, b
  <2>3. AskList(L) /\ \A i \in 1 .. Len(L) : L[i] \in {a, b} BY <2>1, TwoSteps
  <2> HIDE DEF L
  <2>4. \A i \in 1 .. Len(L) : /\ L[i][1] \notin LoopKinds \cup {"initialized", "running"}
                               /\ Host \in Workers => (L[i][1] \in OwnerKinds => L[i][2] = "source")
    BY <1>1, <2>1, <2>3 DEF LoopKinds
  <2> QED BY <1>1, <1>2, <1>3, <2>2, <2>3, <2>4, BusyGo DEF Stopped
<1>6. CASE ~(delegated > 0)
  <2> DEFINE a == <<"close?", "source">>
             b == <<"close?", "sink">>
             L == <<a, b>>
  <2>1. /\ a \in Steps /\ a[1] = "close?" /\ a[2] = "source"
        /\ b \in Steps /\ b[1] = "close?" /\ b[2] = "sink"
    BY StepForms DEF NodeKinds, Nodes
  <2> HIDE DEF a, b
  <2>2. Go(Host, L) /\ UNCHANGED <<delegated, moved>>
    <3>1. <<a>> \o <<b>> = L BY <2>1, TwoLists
    <3>2. /\ Go(Host, <<a>> \o <<b>>) /\ UNCHANGED <<delegated, moved>>
      BY <1>6 DEF Task, MaybeClose, a, b
    <3> HIDE DEF L
    <3> QED BY <3>1, <3>2
  <2>3. AskList(L) /\ L \in Seq(Steps) /\ \A i \in 1 .. Len(L) : L[i] \in {a, b}
    BY <2>1, TwoSteps, Lists
  <2>4. 1 \in 1 .. Len(L) /\ 2 \in 1 .. Len(L) /\ L[1] = a /\ L[2] = b OBVIOUS
  <2> HIDE DEF L
  <2>5. Advances(Host, L, Len(todo[Host]) - 1) BY <1>1, <2>2, <2>3, GoAdvances
  <2>6. \A k : At(Host, k) => k = "task" BY <1>1 DEF At
  <2>7. Called => Called'
    <3>1. \A k \in CalledKinds : ~At(Host, k) BY <2>6 DEF CalledKinds
    <3>2. \A i \in 1 .. Len(L) : L[i][1] \notin {"pumped", "again?"} BY <2>1, <2>3
    <3> QED BY <1>1, <1>2, <2>2, <2>5, <3>1, <3>2, CalledQuiet
  <2>8. \A n \in Nodes : Looks(n)'
    <3>1. /\ 1 \in 1 .. Len(todo'[Host]) /\ todo'[Host][1] = a
          /\ 2 \in 1 .. Len(todo'[Host]) /\ todo'[Host][2] = b
      BY <1>1, <2>4, <2>5, Kept
    <3> SUFFICES ASSUME NEW n \in Nodes PROVE Looks(n)' OBVIOUS
    <3>2. \E i \in 1 .. Len(todo'[Host]) : todo'[Host][i][1] = "close?" /\ todo'[Host][i][2] = n
      BY <2>1, <3>1 DEF Nodes
    <3> QED BY <3>2 DEF Looks, Kind
  <2>9. NoMore BY <1>2, <2>2, SameWork
  <2>10. delegated' = 0 BY <1>4, <1>6, <2>2
  <2>11. ~At(Host, "ended") BY <2>6
  <2>12. WorkInv' BY <1>1, <2>5, <2>7, <2>8, <2>9, <2>10, <2>11, FrontWork DEF LoopsInv
  <2>13. Sent(Host, {"close?"}) BY <1>1, <2>1, <2>2, <2>3 DEF Sent
  <2>14. /\ {"close?"} \cap (LoopKinds \cup BusyKinds \cup {"initialized", "running"}) = {}
         /\ "task" \notin {"renew", "pump", "pumped"}
    BY DEF LoopKinds, BusyKinds
  <2> QED BY <1>1, <1>2, <1>3, <2>2, <2>12, <2>13, <2>14, SentLoops DEF Stopped
<1> QED BY <1>5, <1>6

LEMMA LoopsEnded ==
    ASSUME IInv, IInv', RestInv, LoopsInv, Ended
    PROVE  LoopsInv'
<1>1. At(Host, "ended") /\ Host \in Threads /\ ListsOK BY DEF Ended, Threads, IInv
<1>2. UNCHANGED <<shared, node, source, sink, delegated, wakeup, moved>> BY DEF Ended
<1>3. Go(Host, Nothing) /\ AskList(Nothing) /\ Len(Nothing) = 0 /\ Nothing \in Seq(Steps)
  BY NothingAsks DEF Ended, Nothing, AskList
<1>4. Advances(Host, Nothing, Len(todo[Host]) - 1) BY <1>1, <1>3, GoAdvances
<1>5. \A k : At(Host, k) => k = "ended" BY <1>1 DEF At
<1>6. state' = state \/ state' = "Terminated" BY DEF Ended
<1>7. Called => Called'
  <2>1. \A k \in CalledKinds : ~At(Host, k) BY <1>5 DEF CalledKinds
  <2> QED BY <1>1, <1>2, <1>3, <1>4, <2>1, CalledQuiet
<1>8. "ended" \in RoundKinds BY DEF RoundKinds
<1>9. WorkInv'
  <2>1. CASE ~moved /\ AllClosed
    <3>1. state' \notin Live BY <2>1 DEF Ended, Live
    <3> QED BY <3>1 DEF WorkInv
  <2>2. CASE moved
    <3>1. Called' BY <1>1, <1>2, <1>4, <1>8, <2>2, RoundCalls DEF LoopsInv
    <3> QED BY <3>1, CalledWork
  <2>3. CASE ~moved /\ ~AllClosed
    <3>1. state' = state BY <2>3 DEF Ended
    <3>2. NoMore BY <1>2, <3>1, SameWork
    <3>3. ~AllClosed' BY <1>2, <2>3 DEF AllClosed
    <3>4. ~At(Host, "task") /\ \A n : ~FrontLook(n) BY <1>5 DEF FrontLook
    <3> QED BY <1>1, <1>4, <1>7, <3>2, <3>3, <3>4, FrontWork DEF LoopsInv
  <2> QED BY <2>1, <2>2, <2>3
<1>10. Sent(Host, {}) BY <1>3 DEF Sent
<1>11. {} \cap (LoopKinds \cup {"initialized", "running"}) = {} /\ {} \cap RoundKinds = {} OBVIOUS
<1>12. "ended" \notin {"renew", "pump", "pumped"} OBVIOUS
<1> QED BY <1>1, <1>2, <1>6, <1>9, <1>10, <1>11, <1>12, SentLoops DEF Stopped

---------------------------------------------------------------------------
(* The loops of the host.                                                   *)

\* The host begins a round, or comes to the next step of its loop.
LEMMA HostLoops ==
    ASSUME IInv, IInv', RestInv, LoopsInv, NEW steps, NEW r, Advances(Host, steps, r),
           AskList(steps), Len(todo[Host]) = 0 \/ Kind(Host, 1) \in LoopKinds, RoundList(steps),
           \A i \in 1 .. Len(steps) : steps[i][1] \notin {"initialized", "running"},
           Stopped' = Stopped, UNCHANGED node, state' = state \/ state' = "Terminated",
           PendingInv', WorkInv', moved => moved' \/ (Len(todo[Host]) >= 1 /\ Kind(Host, 1) \in LoopKinds)
    PROVE  LoopsInv'
<1>1. ListsOK /\ Host \in Threads /\ Host \notin Workers BY ThreadsAssumption DEF IInv, Threads
<1>2. HostFits(steps) BY DEF HostFits
<1>3. Fits(Host, steps) BY <1>1, <1>2 DEF Fits
<1>4. "renew" \notin LoopKinds BY DEF LoopKinds
<1>5. Len(todo[Host]) \in Nat BY <1>1, Deeper
<1>6. Len(todo[Host]) >= 1 => Kind(Host, 1) # "renew" BY <1>4, <1>5
<1>7. NewInv' BY <1>1, <1>6, NewStep DEF LoopsInv, RestInv
<1> QED BY <1>1, <1>3, <1>7, Joins

\* One step of the loop.
LEMMA LoneLoop ==
    ASSUME NEW a \in Steps, a[1] \in LoopKinds
    PROVE  /\ RoundList(<<a>>) /\ AskList(<<a>>) /\ <<a>> \in Seq(Steps)
           /\ \A i \in 1 .. Len(<<a>>) : <<a>>[i] = a
           /\ 1 \in 1 .. Len(<<a>>) /\ <<a>>[1] = a
<1>1. a[1] \notin RoundKinds \cup {"request", "cancelled"} BY DEF LoopKinds, RoundKinds, BusyKinds
<1>2. AskList(<<a>>) /\ \A i \in 1 .. Len(<<a>>) : <<a>>[i] = a BY <1>1, OneStep
<1>3. Len(<<a>>) = 1 OBVIOUS
<1> DEFINE L == <<a>>
<1>4. \A i, j \in 1 .. Len(L) : ~(j > i) BY <1>3
<1>5. \A i \in 1 .. Len(L) : L[i] = a BY <1>2
<1> HIDE DEF L
<1>6. RoundList(L) BY <1>1, <1>4, <1>5 DEF RoundList, RoundKinds
<1> QED BY <1>2, <1>3, <1>6, Lists DEF L

\* No more steps, or the steps of a wakeup, are no round.
LEMMA NoRound ==
    ASSUME NEW K, NEW s, Only(s, K), K \cap (LoopKinds \cup RoundKinds) = {}
    PROVE  RoundList(s)
<1>1. BusyKinds \subseteq RoundKinds BY DEF RoundKinds
<1> QED BY <1>1 DEF RoundList, Only

\* The round of a pump, with its end.
LEMMA PumpRound ==
    ASSUME NEW e \in {"pumped", "done?"}, NEW L, L = PumpStep \o <<<<e>>>>
    PROVE  /\ RoundList(L) /\ AskList(L) /\ L \in Seq(Steps) /\ Len(L) = 3
           /\ L[1][1] = "task" /\ L[2][1] = "ended" /\ L[3][1] = e
           /\ \A i \in 1 .. 3 : i = 1 \/ i = 2 \/ i = 3
<1>1. <<"task">> \in Steps /\ <<"ended">> \in Steps /\ <<e>> \in Steps BY StepForms DEF PlainKinds
<1>2. L = <<<<"task">>, <<"ended">>, <<e>>>> BY <1>1, ThreeLists DEF PumpStep
<1>3. L \in Seq(Steps) BY <1>1, <1>2, Lists
<1>4. Len(L) = 3 /\ L[1][1] = "task" /\ L[2][1] = "ended" /\ L[3][1] = e
  <2> HIDE DEF PumpStep
  <2>1. PICK l : l = <<<<"task">>, <<"ended">>, <<e>>>> OBVIOUS
  <2>2. Len(l) = 3 /\ l[1][1] = "task" /\ l[2][1] = "ended" /\ l[3][1] = e BY <2>1
  <2> QED BY <1>2, <2>1, <2>2
<1>5. \A i \in 1 .. 3 : i = 1 \/ i = 2 \/ i = 3 OBVIOUS
<1>6. \A i \in 1 .. Len(L) : L[i][1] \notin {"request", "cancelled"} BY <1>4, <1>5
<1>7. AskList(L) BY <1>3, <1>6 DEF AskList
<1>8. \A i \in 1 .. Len(L) : L[i][1] \in LoopKinds => i = 3 BY <1>4, <1>5 DEF LoopKinds
<1>9. \A i \in 1 .. Len(L) : L[i][1] \in RoundKinds => i < 3 BY <1>4, <1>5 DEF RoundKinds, BusyKinds
<1>10. \A i \in 1 .. Len(L) : L[i][1] \notin BusyKinds BY <1>4, <1>5 DEF BusyKinds
<1>11. RoundList(L)
  <2>1. ASSUME NEW i \in 1 .. Len(L), L[i][1] \in RoundKinds
        PROVE  \E j \in 1 .. Len(L) : j > i /\ L[j][1] \in EndKinds
    <3>1. 3 \in 1 .. Len(L) /\ 3 > i BY <1>4, <1>9, <2>1
    <3> QED BY <1>4, <3>1 DEF EndKinds
  <2>2. ASSUME NEW i \in 1 .. Len(L), L[i][1] \in LoopKinds, NEW j \in 1 .. Len(L), j > i PROVE FALSE
    BY <1>4, <1>8, <2>2
  <2> QED BY <1>10, <2>1, <2>2 DEF RoundList
<1> QED BY <1>3, <1>4, <1>5, <1>7, <1>11

\* The host is at its loop, or has nothing to do, and is to do these steps.
Begins(steps) ==
    /\ \E r : Advances(Host, steps, r)
    /\ Len(todo[Host]) = 0 \/ (Len(todo[Host]) >= 1 /\ Kind(Host, 1) \in LoopKinds)
    /\ AskList(steps) /\ RoundList(steps)
    /\ \A i \in 1 .. Len(steps) : steps[i][1] \notin {"initialized", "running"}

LEMMA BeginsGo ==
    ASSUME ListsOK, NEW k \in LoopKinds, At(Host, k), NEW steps, Go(Host, steps),
           AskList(steps), RoundList(steps),
           \A i \in 1 .. Len(steps) : steps[i][1] \notin {"initialized", "running"}
    PROVE  Begins(steps)
<1>1. Host \in Threads /\ steps \in Seq(Steps) BY DEF Threads, AskList
<1>2. Advances(Host, steps, Len(todo[Host]) - 1) /\ Len(todo[Host]) >= 1 /\ Kind(Host, 1) = k
  BY <1>1, GoAdvances
<1> QED BY <1>2 DEF Begins

LEMMA BeginsCall ==
    ASSUME ListsOK, Idle(Host), NEW steps, Call(Host, steps), AskList(steps), RoundList(steps),
           \A i \in 1 .. Len(steps) : steps[i][1] \notin {"initialized", "running"}
    PROVE  Begins(steps)
<1>1. Host \in Threads /\ steps \in Seq(Steps) BY DEF Threads, AskList
<1>2. Advances(Host, steps, 0) /\ Len(todo[Host]) = 0 BY <1>1, CallAdvances
<1> QED BY <1>2 DEF Begins

\* To do one step of the loop.
LEMMA BeginsOne ==
    ASSUME ListsOK, NEW j \in LoopKinds,
           \/ Idle(Host) /\ Call(Host, <<<<j>>>>)
           \/ \E k \in LoopKinds : At(Host, k) /\ Go(Host, <<<<j>>>>)
    PROVE  \E L : Begins(L) /\ (\A i \in 1 .. Len(L) : L[i][1] = j) /\ Has(Host, j)'
<1> DEFINE a == <<j>>
           L == <<a>>
<1>1. a \in Steps /\ a[1] = j BY StepForms DEF LoopKinds, PlainKinds
<1>2. \/ Idle(Host) /\ Call(Host, L)
      \/ \E k \in LoopKinds : At(Host, k) /\ Go(Host, L)
  OBVIOUS
<1> HIDE DEF a
<1>3. /\ RoundList(L) /\ AskList(L) /\ \A i \in 1 .. Len(L) : L[i] = a
      /\ 1 \in 1 .. Len(L)
  BY <1>1, LoneLoop
<1> HIDE DEF L
<1>4. \A i \in 1 .. Len(L) : L[i][1] \notin {"initialized", "running"} BY <1>1, <1>3 DEF LoopKinds
<1>5. Begins(L) BY <1>2, <1>3, <1>4, BeginsGo, BeginsCall
<1>6. Has(Host, j)'
  <2>1. Host \in Threads BY DEF Threads
  <2>2. PICK r : Advances(Host, L, r) BY <1>5 DEF Begins
  <2>3. \E i \in 1 .. Len(L) : L[i][1] = j BY <1>1, <1>3
  <2> QED BY <2>1, <2>2, <2>3, HasMoves
<1> QED BY <1>1, <1>3, <1>5, <1>6

LEMMA BeginsLoops ==
    ASSUME IInv, IInv', RestInv, LoopsInv, NEW steps, Begins(steps),
           Stopped' = Stopped, UNCHANGED node, state' = state \/ state' = "Terminated",
           PendingInv', WorkInv',
           moved' = moved \/ \E k \in LoopKinds : At(Host, k)
    PROVE  LoopsInv'
<1>1. PICK r : Advances(Host, steps, r) BY DEF Begins
<1>2. ListsOK /\ Host \in Threads BY DEF IInv, Threads
<1>3. \A k : At(Host, k) => Len(todo[Host]) >= 1 /\ Kind(Host, 1) = k BY <1>2, AtFirst
<1>4. moved => moved' \/ (Len(todo[Host]) >= 1 /\ Kind(Host, 1) \in LoopKinds) BY <1>3
<1> QED BY <1>1, <1>4, HostLoops DEF Begins

\* The loop leaves what it leaves.
LEMMA BeginsHas ==
    ASSUME ListsOK, NEW steps, Begins(steps), NEW u \in Threads, NEW k
    PROVE  /\ Has(u, k) /\ ~(u = Host /\ At(Host, k)) => Has(u, k)'
           /\ (\E i \in 1 .. Len(steps) : steps[i][1] = k) => Has(Host, k)'
           /\ Has(u, k)' /\ ~Has(u, k) => u = Host /\ \E i \in 1 .. Len(steps) : steps[i][1] = k
<1>1. PICK r : Advances(Host, steps, r) BY DEF Begins
<1>2. Host \in Threads BY DEF Threads
<1> QED BY <1>1, <1>2, HasMoves

LEMMA BeginsWork ==
    ASSUME ListsOK, WorkInv, NoMore, Called => Called', NEW steps, Begins(steps)
    PROVE  WorkInv'
<1>1. PICK r : Advances(Host, steps, r) BY DEF Begins
<1>2. Host \in Threads BY DEF Threads
<1>3. \A k \in {"task", "ended", "close?", "close"} : ~At(Host, k)
  <2> SUFFICES ASSUME NEW k \in {"task", "ended", "close?", "close"}, At(Host, k) PROVE FALSE OBVIOUS
  <2>1. Len(todo[Host]) \in Nat /\ Len(todo[Host]) >= 1 /\ Kind(Host, 1) = k BY <1>2, AtFirst
  <2>2. k \in LoopKinds BY <2>1 DEF Begins
  <2> QED BY <2>2 DEF LoopKinds
<1> QED BY <1>1, <1>2, <1>3, QuietWork

LEMMA LoopsEventLoop ==
    ASSUME IInv, IInv', RestInv, LoopsInv, EventLoop
    PROVE  LoopsInv'
<1>1. ListsOK /\ Host \in Threads /\ "pump" \in LoopKinds BY DEF IInv, Threads, LoopKinds
<1>2. UNCHANGED <<state, shared, node, moved>> BY DEF EventLoop
<1>3. PICK L : Begins(L) /\ Has(Host, "pump")' BY <1>1, BeginsOne DEF EventLoop
<1>4. PendingInv' BY <1>3 DEF PendingInv, LoopsInv, EventLoop, Flags
<1>5. Called' BY <1>3 DEF Called
<1>6. WorkInv' BY <1>5, CalledWork
<1> QED BY <1>2, <1>3, <1>4, <1>6, BeginsLoops DEF Stopped

LEMMA LoopsWaitDone ==
    ASSUME IInv, IInv', RestInv, LoopsInv, WaitDone
    PROVE  LoopsInv'
<1>1. ListsOK /\ Host \in Threads /\ "wait" \in LoopKinds BY DEF IInv, Threads, LoopKinds
<1>2. UNCHANGED <<state, shared, node, moved, wakeup>> BY DEF WaitDone
<1>3. PICK L : Begins(L) /\ Has(Host, "wait")' BY <1>1, BeginsOne DEF WaitDone, Wait
<1>4. PendingInv'
  <2>1. \A k : ~At(Host, k) BY DEF WaitDone, At
  <2>2. \A k : Has(Host, k) => Has(Host, k)' BY <1>1, <1>3, <2>1, BeginsHas
  <2> QED BY <1>2, <2>2 DEF PendingInv, LoopsInv
<1>5. Called' BY <1>3 DEF Called
<1>6. WorkInv' BY <1>5, CalledWork
<1> QED BY <1>2, <1>3, <1>4, <1>6, BeginsLoops DEF Stopped

\* A pump looks at all there is.
LEMMA FullRound ==
    ASSUME Has(Host, "task")', Has(Host, "ended")'
    PROVE  WorkInv'
BY DEF WorkInv, Looks

LEMMA LoopsPump ==
    ASSUME IInv, IInv', RestInv, LoopsInv, Pump
    PROVE  LoopsInv'
<1>1. ListsOK /\ Host \in Threads /\ "pump" \in LoopKinds /\ At(Host, "pump")
  BY DEF IInv, Threads, LoopKinds, Pump
<1>2. UNCHANGED <<state, shared, node>> BY DEF Pump
<1>3. PICK L : L = PumpStep \o <<<<"pumped">>>> OBVIOUS
<1>4. /\ RoundList(L) /\ AskList(L) /\ Len(L) = 3
      /\ L[1][1] = "task" /\ L[2][1] = "ended" /\ L[3][1] = "pumped"
      /\ \A i \in 1 .. 3 : i = 1 \/ i = 2 \/ i = 3
  BY <1>3, PumpRound
<1>5. Go(Host, L) BY <1>3 DEF Pump
<1>6. Begins(L) BY <1>1, <1>4, <1>5, BeginsGo
<1>7. 1 \in 1 .. Len(L) /\ 2 \in 1 .. Len(L) /\ 3 \in 1 .. Len(L) BY <1>4
<1>8. Has(Host, "task")' /\ Has(Host, "ended")' /\ Has(Host, "pumped")'
  BY <1>1, <1>4, <1>6, <1>7, BeginsHas
<1>9. PendingInv' BY <1>8 DEF PendingInv, LoopsInv, Pump, Flags
<1>10. WorkInv' BY <1>8, FullRound
<1> QED BY <1>1, <1>2, <1>6, <1>9, <1>10, BeginsLoops DEF Stopped

LEMMA LoopsWaitStep ==
    ASSUME IInv, IInv', RestInv, LoopsInv, WaitStep
    PROVE  LoopsInv'
<1>1. ListsOK /\ Host \in Threads /\ "wait" \in LoopKinds /\ At(Host, "wait")
  BY DEF IInv, Threads, LoopKinds, WaitStep
<1>2. UNCHANGED <<state, shared, node, wakeup>> BY DEF WaitStep
<1>3. PICK L : L = PumpStep \o <<<<"done?">>>> OBVIOUS
<1>4. /\ RoundList(L) /\ AskList(L) /\ Len(L) = 3
      /\ L[1][1] = "task" /\ L[2][1] = "ended" /\ L[3][1] = "done?"
      /\ \A i \in 1 .. 3 : i = 1 \/ i = 2 \/ i = 3
  BY <1>3, PumpRound
<1>5. Go(Host, L) BY <1>3 DEF WaitStep
<1>6. Begins(L) BY <1>1, <1>4, <1>5, BeginsGo
<1>7. 1 \in 1 .. Len(L) /\ 2 \in 1 .. Len(L) BY <1>4
<1>8. Has(Host, "task")' /\ Has(Host, "ended")' BY <1>1, <1>4, <1>6, <1>7, BeginsHas
<1>9. PendingInv'
  <2>1. ~At(Host, "pump") /\ ~At(Host, "pumped") BY <1>1 DEF At
  <2> QED BY <1>1, <1>2, <1>6, <2>1, BeginsHas DEF PendingInv, LoopsInv
<1>10. WorkInv' BY <1>8, FullRound
<1> QED BY <1>1, <1>2, <1>6, <1>9, <1>10, BeginsLoops DEF Stopped

\* A host that has a step of the loop first has no round left.
LEMMA LoopsPumped ==
    ASSUME IInv, IInv', RestInv, LoopsInv, Pumped
    PROVE  LoopsInv'
<1>1. /\ ListsOK /\ Host \in Threads /\ {"pumped", "pump", "again?"} \subseteq LoopKinds
      /\ At(Host, "pumped")
  BY DEF IInv, Threads, LoopKinds, Pumped
<1>2. UNCHANGED <<state, shared, node, source, sink, delegated, moved>> BY DEF Pumped
<1>3. \A k : At(Host, k) => k = "pumped" BY <1>1 DEF At
<1>4. CASE moved
  <2>1. wakeup' = wakeup /\ Go(Host, <<<<"pump">>>>) BY <1>4 DEF Pumped
  <2>2. PICK L : Begins(L) /\ Has(Host, "pump")' BY <1>1, <2>1, BeginsOne
  <2>3. PendingInv' BY <2>1, <2>2 DEF PendingInv, LoopsInv
  <2>4. Called' BY <2>2 DEF Called
  <2>5. WorkInv' BY <2>4, CalledWork
  <2> QED BY <1>2, <2>2, <2>3, <2>5, BeginsLoops DEF Stopped
<1>5. CASE ~moved
  <2>1. Go(Host, <<<<"again?">>>>) BY <1>5 DEF Pumped
  <2>2. PICK L : Begins(L) /\ Has(Host, "again?")' BY <1>1, <2>1, BeginsOne
  <2>3. /\ wakeup' \in Flags /\ ~wakeup'.pending
        /\ wakeup'.requested = wakeup.requested /\ wakeup'.posted = wakeup.posted
    BY <1>5 DEF Pumped, LoopsInv, PendingInv, Flags
  <2>4. PendingInv' BY <2>3 DEF PendingInv
  <2>5. Called => Called'
    <3>1. \A u \in Threads : \A k : Has(u, k) /\ k # "pumped" => Has(u, k)'
      BY <1>1, <1>3, <2>2, BeginsHas
    <3>2. Asks => Asks' BY <3>1 DEF Asks
    <3>3. Pumps' BY <2>2 DEF Pumps
    <3>4. Pumps
      <4>1. /\ Len(todo[Host]) \in Nat /\ Len(todo[Host]) >= 1 /\ Kind(Host, 1) = "pumped"
            /\ todo[Host] \in Seq(Steps)
        BY <1>1, AtFirst DEF ListsOK
      <4>2. 1 \in DOMAIN todo[Host] BY <4>1, LenProperties
      <4> QED BY <4>1, <4>2 DEF Pumps, Has
    <3> QED BY <1>1, <1>5, <2>3, <3>1, <3>2, <3>3, <3>4 DEF Called
  <2>6. NoMore BY <1>2, SameWork
  <2>7. WorkInv' BY <1>1, <2>2, <2>5, <2>6, BeginsWork DEF LoopsInv
  <2> QED BY <1>2, <2>2, <2>4, <2>7, BeginsLoops DEF Stopped
<1> QED BY <1>4, <1>5

\* The steps of a wakeup, or none, are no round.
LEMMA WakeupRound ==
    /\ AskList(RequestWakeup) /\ RoundList(RequestWakeup)
    /\ \A i \in 1 .. Len(RequestWakeup) : RequestWakeup[i][1] \notin {"initialized", "running"}
    /\ 1 \in 1 .. Len(RequestWakeup) /\ RequestWakeup[1][1] = "request"
<1>1. AfterTask \cap (LoopKinds \cup RoundKinds) = {}
  BY DEF AfterTask, LoopKinds, RoundKinds, BusyKinds
<1>2. RoundList(RequestWakeup) BY <1>1, OnlyWakeup, NoRound
<1>3. \A i \in 1 .. Len(RequestWakeup) : RequestWakeup[i][1] \notin {"initialized", "running"}
  BY OnlyWakeup DEF Only, AfterTask
<1>4. 1 \in 1 .. Len(RequestWakeup) BY WakeupSteps
<1>5. RequestWakeup[1][1] = "request" BY DEF RequestWakeup
<1> QED BY <1>2, <1>3, <1>4, <1>5, WakeupAsk

LEMMA NothingRound == RoundList(Nothing) /\ AskList(Nothing) /\ Len(Nothing) = 0
BY NothingAsks DEF RoundList

LEMMA LoopsRearm ==
    ASSUME IInv, IInv', RestInv, LoopsInv, Rearm
    PROVE  LoopsInv'
<1>1. /\ ListsOK /\ Host \in Threads /\ "again?" \in LoopKinds /\ At(Host, "again?")
  BY DEF IInv, Threads, LoopKinds, Rearm
<1>2. UNCHANGED <<state, shared, node, source, sink, delegated, wakeup, moved>> BY DEF Rearm
<1>3. \A k : At(Host, k) => k = "again?" BY <1>1 DEF At
<1>4. ASSUME NEW L, Begins(L), WorkInv' PROVE LoopsInv'
  <2>1. PendingInv'
    <3>1. ~At(Host, "pump") /\ ~At(Host, "pumped") BY <1>3
    <3> QED BY <1>1, <1>2, <1>4, <3>1, BeginsHas DEF PendingInv, LoopsInv
  <2> QED BY <1>2, <1>4, <2>1, BeginsLoops DEF Stopped
<1>5. CASE wakeup.requested \/ delegated > 0
  <2>1. Go(Host, RequestWakeup) BY <1>5 DEF Rearm
  <2>2. Begins(RequestWakeup) BY <1>1, <2>1, WakeupRound, BeginsGo
  <2>3. Called' BY <1>1, <2>1, WakeupCalls
  <2>4. WorkInv' BY <2>3, CalledWork
  <2> QED BY <1>4, <2>2, <2>4
<1>6. CASE ~(wakeup.requested \/ delegated > 0)
  <2>1. Go(Host, Nothing) BY <1>6 DEF Rearm, Nothing
  <2>2. Begins(Nothing) BY <1>1, <2>1, NothingRound, BeginsGo
  <2>3. Called => Called'
    <3>1. \A u \in Threads : \A k : Has(u, k) /\ k # "again?" => Has(u, k)'
      BY <1>1, <1>3, <2>2, BeginsHas
    <3>2. Asks => Asks' BY <3>1 DEF Asks
    <3>3. Pumps
      <4>1. /\ Len(todo[Host]) \in Nat /\ Len(todo[Host]) >= 1 /\ Kind(Host, 1) = "again?"
            /\ todo[Host] \in Seq(Steps)
        BY <1>1, AtFirst DEF ListsOK
      <4>2. 1 \in DOMAIN todo[Host] BY <4>1, LenProperties
      <4> QED BY <4>1, <4>2 DEF Pumps, Has
    <3> QED BY <1>1, <1>2, <1>6, <3>1, <3>2, <3>3 DEF Called
  <2>4. NoMore BY <1>2, SameWork
  <2>5. WorkInv' BY <1>1, <2>2, <2>3, <2>4, BeginsWork DEF LoopsInv
  <2> QED BY <1>4, <2>2, <2>5
<1> QED BY <1>5, <1>6

LEMMA LoopsSetCallback ==
    ASSUME IInv, IInv', RestInv, LoopsInv, SetCallback
    PROVE  LoopsInv'
<1>1. ListsOK /\ Host \in Threads /\ Idle(Host) BY DEF IInv, Threads, SetCallback
<1>2. UNCHANGED <<state, shared, node, source, sink, delegated, moved>> BY DEF SetCallback
<1>3. /\ wakeup' \in Flags /\ ~wakeup'.pending
      /\ wakeup'.requested = wakeup.requested /\ wakeup'.posted = wakeup.posted
  BY DEF SetCallback, LoopsInv, PendingInv, Flags
<1>4. PendingInv' BY <1>3 DEF PendingInv
<1>5. ASSUME NEW L, Begins(L), WorkInv' PROVE LoopsInv' BY <1>2, <1>4, <1>5, BeginsLoops DEF Stopped
<1>6. CASE Call(Host, RequestWakeup)
  <2>1. Begins(RequestWakeup) BY <1>1, <1>6, WakeupRound, BeginsCall
  <2>2. Has(Host, "request")' BY <1>1, <2>1, WakeupRound, BeginsHas
  <2>3. Called' BY <1>1, <2>2 DEF Called, Asks
  <2>4. WorkInv' BY <2>3, CalledWork
  <2> QED BY <1>5, <2>1, <2>4
<1>7. CASE Call(Host, <<>>)
  <2>1. Call(Host, Nothing) BY <1>7 DEF Nothing
  <2>2. Begins(Nothing) BY <1>1, <2>1, NothingRound, BeginsCall
  <2>3. PICK r : Advances(Host, Nothing, r) BY <2>2 DEF Begins
  <2>4. \A k : ~At(Host, k) BY <1>1 DEF At
  <2>5. Called => Called' BY <1>1, <1>2, <1>3, <2>3, <2>4, NothingAsks, CalledQuiet
  <2>6. NoMore BY <1>2, SameWork
  <2>7. WorkInv' BY <1>1, <2>2, <2>5, <2>6, BeginsWork DEF LoopsInv
  <2> QED BY <1>5, <2>2, <2>7
<1> QED BY <1>6, <1>7 DEF SetCallback

LEMMA LoopsWaitLook ==
    ASSUME IInv, IInv', RestInv, LoopsInv, WaitLook
    PROVE  LoopsInv'
<1>1. /\ ListsOK /\ Host \in Threads /\ {"done?", "wait", "idle?", "more?"} \subseteq LoopKinds
      /\ At(Host, "done?")
  BY DEF IInv, Threads, LoopKinds, WaitLook
<1>2. UNCHANGED <<state, shared, node, source, sink, delegated, wakeup, moved>> BY DEF WaitLook
<1>3. \A k : At(Host, k) => k = "done?" BY <1>1 DEF At
<1>4. ASSUME NEW L, Begins(L), WorkInv' PROVE LoopsInv'
  <2>1. PendingInv'
    <3>1. ~At(Host, "pump") /\ ~At(Host, "pumped") BY <1>3
    <3> QED BY <1>1, <1>2, <1>4, <3>1, BeginsHas DEF PendingInv, LoopsInv
  <2> QED BY <1>2, <1>4, <2>1, BeginsLoops DEF Stopped
<1>5. CASE moved
  <2>1. Go(Host, <<<<"wait">>>>) BY <1>5 DEF WaitLook, Wait
  <2>2. PICK L : Begins(L) /\ Has(Host, "wait")' BY <1>1, <2>1, BeginsOne
  <2>3. Called' BY <2>2 DEF Called
  <2>4. WorkInv' BY <2>3, CalledWork
  <2> QED BY <1>4, <2>2, <2>4
<1>6. CASE ~moved
  <2>1. PICK j \in {"idle?", "more?"} : Go(Host, <<<<j>>>>) BY <1>6 DEF WaitLook
  <2>2. PICK L : Begins(L) /\ \A i \in 1 .. Len(L) : L[i][1] = j BY <1>1, <2>1, BeginsOne
  <2>3. Called => Called'
    <3>1. \A u \in Threads : \A k : Has(u, k) /\ k # "done?" => Has(u, k)'
      BY <1>1, <1>3, <2>2, BeginsHas
    <3>2. Asks => Asks' BY <3>1 DEF Asks
    <3>3. \A k : Has(Host, k)' => Has(Host, k) \/ k = j BY <1>1, <2>2, BeginsHas
    <3>4. Pumps' <=> Pumps BY <1>1, <3>1, <3>3 DEF Pumps
    <3> QED BY <1>1, <1>2, <1>6, <3>1, <3>2, <3>4 DEF Called
  <2>4. NoMore BY <1>2, SameWork
  <2>5. WorkInv' BY <1>1, <2>2, <2>3, <2>4, BeginsWork DEF LoopsInv
  <2> QED BY <1>4, <2>2, <2>5
<1> QED BY <1>5, <1>6

\* The rest of the loop of wait_done only goes on or ends.
LEMMA WaitsOn ==
    ASSUME IInv, IInv', RestInv, LoopsInv, NEW k \in {"idle?", "more?"}, At(Host, k),
           NEW L, Begins(L), \A i \in 1 .. Len(L) : L[i][1] \notin {"pumped", "again?"},
           UNCHANGED <<shared, node, source, sink, delegated, wakeup, moved>>,
           state' = state \/ state' = "Terminated"
    PROVE  LoopsInv'
<1>1. ListsOK /\ Host \in Threads BY DEF IInv, Threads
<1>2. \A j : At(Host, j) => j = k BY DEF At
<1>3. PendingInv'
  <2>1. ~At(Host, "pump") /\ ~At(Host, "pumped") BY <1>2
  <2> QED BY <1>1, <2>1, BeginsHas DEF PendingInv, LoopsInv
<1>4. PICK r : Advances(Host, L, r) BY DEF Begins
<1>5. Called => Called'
  <2>1. \A j \in CalledKinds : ~At(Host, j) BY <1>2 DEF CalledKinds
  <2> QED BY <1>1, <1>4, <2>1, CalledQuiet
<1>6. NoMore
  <2>1. state' \in Live => state \in Live BY DEF Live
  <2> QED BY <2>1 DEF NoMore, AllClosed, Closable, Drained, Stopped
<1>7. WorkInv' BY <1>1, <1>5, <1>6, BeginsWork DEF LoopsInv
<1> QED BY <1>3, <1>7, BeginsLoops DEF Stopped

LEMMA LoopsWaitIdle ==
    ASSUME IInv, IInv', RestInv, LoopsInv, WaitIdle
    PROVE  LoopsInv'
<1>1. /\ ListsOK /\ {"idle?", "more?"} \subseteq LoopKinds /\ At(Host, "idle?")
  BY DEF IInv, LoopKinds, WaitIdle
<1>2. /\ UNCHANGED <<shared, node, source, sink, delegated, wakeup, moved>>
      /\ state' = state \/ state' = "Terminated"
  BY DEF WaitIdle
<1>3. CASE PoolIdle
  <2>1. Go(Host, Nothing) BY <1>3 DEF WaitIdle, Nothing
  <2>2. Begins(Nothing) BY <1>1, <2>1, NothingRound, BeginsGo
  <2> QED BY <1>1, <1>2, <2>2, NothingRound, WaitsOn
<1>4. CASE ~PoolIdle
  <2>1. Go(Host, <<<<"more?">>>>) BY <1>4 DEF WaitIdle
  <2>2. PICK L : Begins(L) /\ \A i \in 1 .. Len(L) : L[i][1] = "more?" BY <1>1, <2>1, BeginsOne
  <2> QED BY <1>1, <1>2, <2>2, WaitsOn
<1> QED BY <1>3, <1>4

LEMMA LoopsWaitMore ==
    ASSUME IInv, IInv', RestInv, LoopsInv, WaitMore
    PROVE  LoopsInv'
<1>1. /\ ListsOK /\ {"more?", "wait"} \subseteq LoopKinds /\ At(Host, "more?")
  BY DEF IInv, LoopKinds, WaitMore
<1>2. UNCHANGED <<state, shared, node, source, sink, delegated, wakeup, moved>> BY DEF WaitMore
<1>3. CASE Go(Host, <<>>)
  <2>1. Go(Host, Nothing) BY <1>3 DEF Nothing
  <2>2. Begins(Nothing) BY <1>1, <2>1, NothingRound, BeginsGo
  <2> QED BY <1>1, <1>2, <2>2, NothingRound, WaitsOn
<1>4. CASE Go(Host, Wait)
  <2>1. Go(Host, <<<<"wait">>>>) BY <1>4 DEF Wait
  <2>2. PICK L : Begins(L) /\ \A i \in 1 .. Len(L) : L[i][1] = "wait" BY <1>1, <2>1, BeginsOne
  <2> QED BY <1>1, <1>2, <2>2, WaitsOn
<1> QED BY <1>3, <1>4 DEF WaitMore

---------------------------------------------------------------------------
(* Resume, cancel and the end.                                              *)

LEMMA LoopsResume ==
    ASSUME IInv, IInv', RestInv, LoopsInv, Resume
    PROVE  LoopsInv'
<1>1. ListsOK /\ Host \in Threads /\ Idle(Host) BY DEF IInv, Threads, Resume
<1>2. UNCHANGED <<state, shared, node, source, sink, delegated, wakeup, moved>> BY DEF Resume
<1> DEFINE a == <<"try", "source">>
           b == <<"try", "sink">>
           L == <<a, b>>
<1>3. a \in Steps /\ b \in Steps /\ a[1] = "try" /\ b[1] = "try" BY StepForms DEF NodeKinds, Nodes
<1>4. Call(Host, L) BY DEF Resume
<1> HIDE DEF a, b
<1>5. AskList(L) /\ \A i \in 1 .. Len(L) : L[i] \in {a, b} BY <1>3, TwoSteps
<1> HIDE DEF L
<1>6. \A i \in 1 .. Len(L) : L[i][1] = "try" BY <1>3, <1>5
<1>7. "try" \notin LoopKinds \cup RoundKinds \cup {"initialized", "running"}
  BY DEF LoopKinds, RoundKinds, BusyKinds
<1>8. RoundList(L)
  <2>1. "try" \notin BusyKinds BY DEF BusyKinds
  <2> QED BY <1>6, <1>7, <2>1 DEF RoundList
<1>9. Begins(L) BY <1>1, <1>4, <1>5, <1>6, <1>7, <1>8, BeginsCall
<1>10. PICK r : Advances(Host, L, r) BY <1>9 DEF Begins
<1>11. \A k : ~At(Host, k) BY <1>1 DEF At
<1>12. Called => Called' BY <1>1, <1>2, <1>6, <1>10, <1>11, CalledQuiet
<1>13. NoMore BY <1>2, SameWork
<1>14. WorkInv' BY <1>1, <1>9, <1>12, <1>13, BeginsWork DEF LoopsInv
<1>15. PendingInv' BY <1>1, <1>2, <1>9, <1>11, BeginsHas DEF PendingInv, LoopsInv
<1> QED BY <1>2, <1>9, <1>14, <1>15, BeginsLoops DEF Stopped

\* Steps of the host that leave what a pump would do something about.
LEMMA LoopsEasy ==
    ASSUME IInv, IInv', RestInv, LoopsInv, Invalidate \/ Forget \/ StopPool \/ Join
    PROVE  LoopsInv'
<1>1. PICK k \in {"invalidate", "forget", "stop", "join"} : At(Host, k)
  BY DEF Invalidate, Forget, StopPool, Join
<1>2. Go(Host, <<>>) BY DEF Invalidate, Forget, StopPool, Join
<1>3. UNCHANGED <<state, shared, node, sink, delegated, wakeup, moved>>
  BY DEF Invalidate, Forget, StopPool, Join
<1>4. source'.done = source.done BY DEF Invalidate, Forget, StopPool, Join, IInv, TypeOK
<1>5. Sent(Host, {}) BY <1>2, SentNone
<1>6. NoMore BY <1>3, <1>4, SameWork
<1>7. k \notin CalledKinds \cup {"task", "ended", "close?", "close", "renew"} BY DEF CalledKinds
<1>8. {} \cap (LoopKinds \cup RoundKinds \cup {"initialized", "running"}) = {} OBVIOUS
<1>9. Host \in Threads BY DEF Threads
<1> QED BY <1>1, <1>3, <1>5, <1>6, <1>7, <1>8, <1>9, EasyLoops DEF Stopped

\* A list of steps before one that ends with a request.
LEMMA AskBefore ==
    ASSUME NEW s \in Seq(Steps), NEW u, AskList(u), \E i \in 1 .. Len(u) : u[i][1] = "request",
           \A i \in 1 .. Len(s) : s[i][1] # "request"
    PROVE  AskList(s \o u)
<1> DEFINE L == s \o u
<1>1. u \in Seq(Steps) BY DEF AskList
<1>2. /\ Len(s) \in Nat /\ Len(u) \in Nat /\ L \in Seq(Steps)
      /\ \A i \in 1 .. Len(s) : i \in 1 .. Len(L) /\ L[i] = s[i]
      /\ \A j \in 1 .. Len(u) : Len(s) + j \in 1 .. Len(L) /\ L[Len(s) + j] = u[j]
      /\ \A i \in 1 .. Len(L) : i \in 1 .. Len(s) \/ \E j \in 1 .. Len(u) : i = Len(s) + j
  BY <1>1, ConcatPlaces
<1> HIDE DEF L
<1>3. \A j, k \in 1 .. Len(u) : j > k => Len(s) + j > Len(s) + k BY <1>2
<1>4. \A i \in 1 .. Len(s), j \in 1 .. Len(u) : Len(s) + j > i BY <1>2
<1>5. ASSUME NEW i \in 1 .. Len(L), L[i][1] = "cancelled"
      PROVE  \E j \in 1 .. Len(L) : j > i /\ L[j][1] = "request"
  <2>1. CASE i \in 1 .. Len(s)
    <3>1. PICK j \in 1 .. Len(u) : u[j][1] = "request" OBVIOUS
    <3>2. Len(s) + j \in 1 .. Len(L) /\ L[Len(s) + j][1] = "request" BY <1>2, <3>1
    <3>3. Len(s) + j > i BY <1>4, <2>1
    <3> QED BY <3>2, <3>3
  <2>2. ASSUME NEW k \in 1 .. Len(u), i = Len(s) + k
        PROVE  \E j \in 1 .. Len(L) : j > i /\ L[j][1] = "request"
    <3>1. PICK j \in 1 .. Len(u) : j > k /\ u[j][1] = "request" BY <1>2, <1>5, <2>2 DEF AskList
    <3>2. Len(s) + j \in 1 .. Len(L) /\ L[Len(s) + j][1] = "request" BY <1>2, <3>1
    <3>3. Len(s) + j > i BY <1>3, <2>2, <3>1
    <3> QED BY <3>2, <3>3
  <2> QED BY <1>2, <2>1, <2>2
<1>6. ASSUME NEW i \in 1 .. Len(L), L[i][1] = "request"
      PROVE  \E j \in 1 .. Len(L) : j > i /\ L[j][1] = "arm"
  <2>1. PICK k \in 1 .. Len(u) : i = Len(s) + k BY <1>2, <1>6
  <2>2. PICK j \in 1 .. Len(u) : j > k /\ u[j][1] = "arm" BY <1>2, <1>6, <2>1 DEF AskList
  <2>3. Len(s) + j \in 1 .. Len(L) /\ L[Len(s) + j][1] = "arm" BY <1>2, <2>2
  <2>4. Len(s) + j > i BY <1>3, <2>1, <2>2
  <2> QED BY <2>3, <2>4
<1>7. AskList(L) BY <1>2, <1>5, <1>6 DEF AskList
<1> QED BY <1>7 DEF L

LEMMA RoundConcat ==
    ASSUME NEW s \in Seq(Steps), NEW u \in Seq(Steps), RoundList(s), RoundList(u),
           \/ \A i \in 1 .. Len(s) : s[i][1] \notin LoopKinds
           \/ \A i \in 1 .. Len(u) : u[i][1] \notin LoopKinds \cup RoundKinds
    PROVE  RoundList(s \o u)
<1> DEFINE L == s \o u
<1>2. /\ Len(s) \in Nat /\ Len(u) \in Nat
      /\ \A i \in 1 .. Len(s) : i \in 1 .. Len(L) /\ L[i] = s[i]
      /\ \A j \in 1 .. Len(u) : Len(s) + j \in 1 .. Len(L) /\ L[Len(s) + j] = u[j]
      /\ \A i \in 1 .. Len(L) : i \in 1 .. Len(s) \/ \E j \in 1 .. Len(u) : i = Len(s) + j
  BY ConcatPlaces
<1> HIDE DEF L
<1>3. \A j, k \in 1 .. Len(u) : j > k <=> Len(s) + j > Len(s) + k BY <1>2
<1>4. \A i \in 1 .. Len(s), j \in 1 .. Len(u) : ~(i > Len(s) + j) BY <1>2
<1>5. ASSUME NEW i \in 1 .. Len(L) PROVE L[i][1] \notin BusyKinds
  <2>1. CASE i \in 1 .. Len(s)
    <3>1. L[i] = s[i] /\ s[i][1] \notin BusyKinds BY <1>2, <2>1 DEF RoundList
    <3> QED BY <3>1
  <2>2. ASSUME NEW k \in 1 .. Len(u), i = Len(s) + k PROVE L[i][1] \notin BusyKinds
    <3>1. L[i] = u[k] /\ u[k][1] \notin BusyKinds BY <1>2, <2>2 DEF RoundList
    <3> QED BY <3>1
  <2> QED BY <1>2, <2>1, <2>2
<1>6. ASSUME NEW i \in 1 .. Len(L), L[i][1] \in RoundKinds
      PROVE  \E j \in 1 .. Len(L) : j > i /\ L[j][1] \in EndKinds
  <2>1. CASE i \in 1 .. Len(s)
    <3>1. PICK j \in 1 .. Len(s) : j > i /\ s[j][1] \in EndKinds BY <1>2, <1>6, <2>1 DEF RoundList
    <3> QED BY <1>2, <3>1
  <2>2. ASSUME NEW k \in 1 .. Len(u), i = Len(s) + k
        PROVE  \E j \in 1 .. Len(L) : j > i /\ L[j][1] \in EndKinds
    <3>1. PICK j \in 1 .. Len(u) : j > k /\ u[j][1] \in EndKinds BY <1>2, <1>6, <2>2 DEF RoundList
    <3> QED BY <1>2, <1>3, <2>2, <3>1
  <2> QED BY <1>2, <2>1, <2>2
<1>7. ASSUME NEW i \in 1 .. Len(L), L[i][1] \in LoopKinds, NEW j \in 1 .. Len(L), j > i
      PROVE  L[j][1] \notin RoundKinds \cup LoopKinds
  <2>1. CASE i \in 1 .. Len(s)
    <3>1. CASE j \in 1 .. Len(s) BY <1>2, <1>7, <2>1, <3>1 DEF RoundList
    <3>2. ASSUME NEW k \in 1 .. Len(u), j = Len(s) + k PROVE L[j][1] \notin RoundKinds \cup LoopKinds
      BY <1>2, <1>7, <2>1, <3>2
    <3> QED BY <1>2, <3>1, <3>2
  <2>2. ASSUME NEW k \in 1 .. Len(u), i = Len(s) + k PROVE L[j][1] \notin RoundKinds \cup LoopKinds
    <3>1. PICK l \in 1 .. Len(u) : j = Len(s) + l BY <1>2, <1>4, <1>7, <2>2
    <3>2. l > k BY <1>3, <1>7, <2>2, <3>1
    <3> QED BY <1>2, <1>7, <2>2, <3>1, <3>2 DEF RoundList
  <2> QED BY <1>2, <2>1, <2>2
<1>8. RoundList(L) BY <1>5, <1>6, <1>7 DEF RoundList
<1> QED BY <1>8 DEF L

\* The lists of a cancel, and of the end of a graph.
LEMMA CancelAsks ==
    /\ AskList(CancelSteps) /\ RoundList(CancelSteps)
    /\ \E i \in 1 .. Len(CancelSteps) : CancelSteps[i][1] = "request"
    /\ \A i \in 1 .. Len(CancelSteps) : CancelSteps[i][1] \notin LoopKinds \cup {"initialized", "running"}
<1> DEFINE K == {"cancelled", "invalidate", "forget"} \cup AfterTask
<1>1. PICK s : s = <<<<"cancelled">>, <<"invalidate">>, <<"forget">>>> OBVIOUS
<1>2. s \in Seq(Steps)
  <2>1. <<"cancelled">> \in Steps /\ <<"invalidate">> \in Steps /\ <<"forget">> \in Steps
    BY StepForms DEF PlainKinds
  <2> QED BY <1>1, <2>1, Lists
<1>3. \A i \in 1 .. Len(s) : s[i][1] \in {"cancelled", "invalidate", "forget"}
  <2>1. /\ Len(s) = 3 /\ s[1][1] = "cancelled" /\ s[2][1] = "invalidate" /\ s[3][1] = "forget"
        /\ \A i \in 1 .. 3 : i = 1 \/ i = 2 \/ i = 3
    BY <1>1
  <2> QED BY <2>1
<1>4. CancelSteps = s \o RequestWakeup BY <1>1 DEF CancelSteps
<1>5. Only(CancelSteps, K)
  <2>1. Only(s, K) BY <1>2, <1>3 DEF Only
  <2>2. Only(RequestWakeup, K) BY OnlyWakeup, OnlyMore
  <2> QED BY <1>4, <2>1, <2>2, OnlyConcat
<1>6. \E i \in 1 .. Len(RequestWakeup) : RequestWakeup[i][1] = "request" BY WakeupRound
<1>7. AskList(CancelSteps) BY <1>2, <1>3, <1>4, <1>6, WakeupRound, AskBefore
<1>8. \E i \in 1 .. Len(CancelSteps) : CancelSteps[i][1] = "request"
  <2>1. RequestWakeup \in Seq(Steps) BY WakeupSteps
  <2>2. PICK j \in 1 .. Len(RequestWakeup) : RequestWakeup[j][1] = "request" BY <1>6
  <2>3. PICK i \in 1 .. Len(s \o RequestWakeup) : (s \o RequestWakeup)[i] = RequestWakeup[j]
    BY <1>2, <2>1, ConcatSome
  <2> QED BY <1>4, <2>2, <2>3
<1>9. K \cap (LoopKinds \cup RoundKinds \cup {"initialized", "running"}) = {}
  BY DEF LoopKinds, RoundKinds, BusyKinds, AfterTask
<1> HIDE DEF K
<1>10. RoundList(CancelSteps) BY <1>5, <1>9, NoRound
<1> QED BY <1>5, <1>7, <1>8, <1>9, <1>10 DEF Only

LEMMA LoopsCancel ==
    ASSUME IInv, IInv', RestInv, LoopsInv, Cancel
    PROVE  LoopsInv'
<1>1. ListsOK /\ Host \in Threads /\ Idle(Host) BY DEF IInv, Threads, Cancel
<1>2. UNCHANGED <<state, shared, node, wakeup, moved>> BY DEF Cancel
<1>3. Begins(CancelSteps) BY <1>1, CancelAsks, BeginsCall DEF Cancel
<1>4. Has(Host, "request")' BY <1>1, <1>3, CancelAsks, BeginsHas
<1>5. Called' BY <1>1, <1>4 DEF Called, Asks
<1>6. WorkInv' BY <1>5, CalledWork
<1>7. \A k : ~At(Host, k) BY <1>1 DEF At
<1>8. PendingInv' BY <1>1, <1>2, <1>3, <1>7, BeginsHas DEF PendingInv, LoopsInv
<1> QED BY <1>2, <1>3, <1>6, <1>8, BeginsLoops DEF Stopped

LEMMA LoopsFree ==
    ASSUME IInv, IInv', RestInv, LoopsInv, Free
    PROVE  LoopsInv'
<1>1. ListsOK /\ Host \in Threads /\ Idle(Host) BY DEF IInv, Threads, Free
<1>2. UNCHANGED <<state, shared, node, wakeup, moved>> BY DEF Free
<1> DEFINE E == <<<<"stop">>, <<"join">>, <<"drop">>, <<"freed">>>>
           K == {"stop", "join", "drop", "freed"}
           Apt(s) == /\ s \in Seq(Steps) /\ AskList(s) /\ RoundList(s)
                     /\ \A i \in 1 .. Len(s) : s[i][1] \notin {"initialized", "running"}
<1>3. PICK p : Call(Host, p \o E) /\ (p = Nothing \/ p = CancelSteps \o Wait) BY DEF Free, Nothing
<1>4. PICK e : e = E OBVIOUS
<1>5. Only(e, K) /\ 4 \in 1 .. Len(e) /\ e[4][1] = "freed"
  <2>1. <<"stop">> \in Steps /\ <<"join">> \in Steps /\ <<"drop">> \in Steps /\ <<"freed">> \in Steps
    BY StepForms DEF PlainKinds
  <2>2. E \in Seq(Steps) BY <2>1, Lists
  <2>3. /\ Len(e) = 4 /\ e[1][1] = "stop" /\ e[2][1] = "join" /\ e[3][1] = "drop" /\ e[4][1] = "freed"
        /\ \A i \in 1 .. 4 : i = 1 \/ i = 2 \/ i = 3 \/ i = 4
    BY <1>4
  <2> HIDE DEF E
  <2> QED BY <1>4, <2>2, <2>3 DEF Only
<1>6. K \cap (LoopKinds \cup RoundKinds \cup {"request", "cancelled", "initialized", "running"}) = {}
  BY DEF LoopKinds, RoundKinds, BusyKinds
<1>7. Call(Host, p \o e) BY <1>3, <1>4
<1> HIDE DEF E, K
<1>8. Apt(e) /\ \A i \in 1 .. Len(e) : e[i][1] \notin LoopKinds \cup RoundKinds
  <2>1. RoundList(e) BY <1>5, <1>6, NoRound
  <2>2. AskList(e) BY <1>5, <1>6, MildAsk
  <2> QED BY <1>5, <1>6, <2>1, <2>2 DEF Only
<1>9. ASSUME NEW s, NEW u, Apt(s), Apt(u),
             \/ \A i \in 1 .. Len(s) : s[i][1] \notin LoopKinds
             \/ \A i \in 1 .. Len(u) : u[i][1] \notin LoopKinds \cup RoundKinds
      PROVE  Apt(s \o u)
  <2>1. AskList(s \o u) BY <1>9, ConcatAsk
  <2>2. RoundList(s \o u) BY <1>9, RoundConcat
  <2>3. \A i \in 1 .. Len(s \o u) : (s \o u)[i][1] \notin {"initialized", "running"}
    <3> SUFFICES ASSUME NEW i \in 1 .. Len(s \o u)
                 PROVE  (s \o u)[i][1] \notin {"initialized", "running"}
      OBVIOUS
    <3>1. \/ \E j \in 1 .. Len(s) : (s \o u)[i] = s[j]
          \/ \E j \in 1 .. Len(u) : (s \o u)[i] = u[j]
      BY <1>9, Concats
    <3> QED BY <1>9, <3>1
  <2> QED BY <2>1, <2>2, <2>3 DEF AskList
<1>10. Apt(p)
  <2>1. Apt(Nothing) BY NothingRound DEF AskList
  <2>2. Apt(CancelSteps) /\ \A i \in 1 .. Len(CancelSteps) : CancelSteps[i][1] \notin LoopKinds
    BY CancelAsks DEF AskList
  <2>3. Apt(Wait)
    <3>1. <<"wait">> \in Steps /\ <<"wait">>[1] \in LoopKinds /\ <<"wait">>[1] = "wait"
      BY StepForms DEF LoopKinds, PlainKinds
    <3> DEFINE a == <<"wait">>
    <3>2. Wait = <<a>> BY DEF Wait
    <3> HIDE DEF a
    <3>3. a \in Steps /\ a[1] \in LoopKinds /\ a[1] = "wait" BY <3>1 DEF a
    <3>4. /\ RoundList(<<a>>) /\ AskList(<<a>>) /\ <<a>> \in Seq(Steps)
          /\ \A i \in 1 .. Len(<<a>>) : <<a>>[i] = a
      BY <3>3, LoneLoop
    <3> QED BY <3>2, <3>3, <3>4
  <2> HIDE DEF Apt
  <2>4. Apt(CancelSteps \o Wait) BY <1>9, <2>2, <2>3
  <2> QED BY <1>3, <2>1, <2>4
<1>11. Apt(p \o e)
  <2> HIDE DEF Apt
  <2> QED BY <1>8, <1>9, <1>10
<1>12. Begins(p \o e) BY <1>1, <1>7, <1>11, BeginsCall
<1>13. \E i \in 1 .. Len(p \o e) : (p \o e)[i][1] = "freed"
  <2>1. p \in Seq(Steps) /\ e \in Seq(Steps) BY <1>8, <1>10
  <2> HIDE DEF Apt
  <2>2. \E i \in 1 .. Len(p \o e) : (p \o e)[i] = e[4] BY <1>5, <2>1, ConcatSome
  <2> QED BY <1>5, <2>2
<1>14. Has(Host, "freed")' BY <1>1, <1>12, <1>13, BeginsHas
<1>15. Called' BY <1>14 DEF Called
<1>16. WorkInv' BY <1>15, CalledWork
<1>17. \A k : ~At(Host, k) BY <1>1 DEF At
<1>18. PendingInv' BY <1>1, <1>2, <1>12, <1>17, BeginsHas DEF PendingInv, LoopsInv
<1> QED BY <1>2, <1>12, <1>16, <1>18, BeginsLoops DEF Stopped

\* A graph that is dropped is freed next.
LEMMA LoopsDrop ==
    ASSUME IInv, IInv', RestInv, LoopsInv, Drop
    PROVE  LoopsInv'
<1>1. At(Host, "drop") /\ Host \in Threads /\ ListsOK /\ DropInv
  BY DEF Drop, Threads, IInv, ShapeInv
<1>2. UNCHANGED <<state, shared, wakeup, moved>> BY DEF Drop
<1>3. Go(Host, <<>>) /\ Go(Host, Nothing) BY DEF Drop, Nothing
<1>4. Sent(Host, {}) BY <1>3, SentNone
<1>5. /\ Len(todo[Host]) \in Nat /\ Len(todo[Host]) >= 1 /\ Kind(Host, 1) = "drop"
  BY <1>1, AtFirst
<1>6. 1 \in 1 .. Len(todo[Host]) BY <1>5
<1>7. Len(todo[Host]) = 2 /\ todo[Host][2] = <<"freed">>
  <2>1. 1 = Len(todo[Host]) - 1 /\ todo[Host][1 + 1] = <<"freed">> BY <1>1, <1>5, <1>6 DEF DropInv
  <2> QED BY <1>5, <2>1
<1>8. Kind(Host, 2) = "freed" /\ 2 \in 2 .. Len(todo[Host]) BY <1>7 DEF Kind
<1>9. Nothing \in Seq(Steps) BY NothingAsks DEF AskList
<1>10. Advances(Host, Nothing, Len(todo[Host]) - 1) BY <1>1, <1>3, <1>9, GoAdvances
<1>11. Has(Host, "freed")' BY <1>1, <1>8, <1>10, HasNext
<1>12. Called' BY <1>11 DEF Called
<1>13. WorkInv' BY <1>12, CalledWork
<1>14. \A n \in Nodes : node'[n].closeStarted = node[n].closeStarted BY DroppedChange DEF Drop, IInv
<1>15. {} \cap (LoopKinds \cup {"initialized", "running"}) = {} /\ {} \cap RoundKinds = {} OBVIOUS
<1>16. "drop" \notin {"renew", "pump", "pumped"} OBVIOUS
<1> QED BY <1>1, <1>2, <1>4, <1>13, <1>14, <1>15, <1>16, SentLoops DEF Stopped

\* The flag of a cancel is set before the request for its wakeup.
LEMMA LoopsSetCancelled ==
    ASSUME IInv, IInv', RestInv, LoopsInv, SetCancelled
    PROVE  LoopsInv'
<1>1. At(Host, "cancelled") /\ Host \in Threads /\ ListsOK /\ Host \notin Workers
  BY ThreadsAssumption DEF SetCancelled, Threads, IInv
<1>2. UNCHANGED <<state, node, wakeup, moved>> BY DEF SetCancelled
<1>3. Go(Host, Nothing) BY DEF SetCancelled, Nothing
<1>4. AskList(Nothing) /\ Len(Nothing) = 0 /\ Nothing \in Seq(Steps) BY NothingAsks DEF AskList
<1>5. /\ Advances(Host, Nothing, Len(todo[Host]) - 1)
      /\ Len(todo[Host]) \in Nat /\ Len(todo[Host]) >= 1 /\ Kind(Host, 1) = "cancelled"
  BY <1>1, <1>3, <1>4, GoAdvances
<1>6. 1 \in 1 .. Len(todo[Host]) BY <1>5
<1>7. PICK j \in 1 .. Len(todo[Host]) : j > 1 /\ Kind(Host, j) = "request"
  BY <1>1, <1>5, <1>6 DEF LoopsInv, AskInv
<1>8. j \in 2 .. Len(todo[Host]) BY <1>5, <1>7
<1>9. Has(Host, "request")' BY <1>1, <1>5, <1>7, <1>8, HasNext
<1>10. Called' BY <1>1, <1>9 DEF Called, Asks
<1>11. WorkInv' BY <1>10, CalledWork
<1>12. Stopped' BY DEF SetCancelled, Stopped, IInv, TypeOK
<1>13. todo[Host] \notin StartTails
  <2>1. \A k : At(Host, k) => k = "cancelled" BY <1>1 DEF At
  <2>2. "cancelled" \notin {"open", "running"} OBVIOUS
  <2> QED BY <1>1, <2>1, <2>2, StartsNew DEF RestInv
<1>14. HostFits(Nothing) BY <1>4 DEF HostFits
<1>15. "cancelled" \notin {"renew", "pump", "pumped"} OBVIOUS
<1> QED BY <1>1, <1>2, <1>3, <1>4, <1>11, <1>12, <1>13, <1>14, <1>15, GoLoops

---------------------------------------------------------------------------
(* Start and reset.                                                         *)

\* Steps of the host between the runs of a graph.
LEMMA DullLoops ==
    ASSUME IInv, LoopsInv, NEW steps, NEW r, Advances(Host, steps, r), AskList(steps),
           \A i \in 1 .. Len(steps) : steps[i][1] \notin LoopKinds \cup RoundKinds,
           moved' = moved, NewInv', WorkInv', ~At(Host, "pump") /\ ~At(Host, "pumped"),
           (wakeup' \in Flags /\ ~wakeup'.pending) \/ wakeup' = wakeup
    PROVE  LoopsInv'
<1>1. ListsOK /\ Host \in Threads /\ Host \notin Workers BY ThreadsAssumption DEF IInv, Threads
<1>2. Fits(Host, steps) BY <1>1 DEF Fits, HostFits
<1>3. PendingInv' BY <1>1, PendingSame DEF LoopsInv
<1> QED BY <1>1, <1>2, <1>3, Joins

LEMMA LoopsStart ==
    ASSUME IInv, IInv', RestInv, LoopsInv, Start
    PROVE  LoopsInv'
<1> DEFINE L == <<<<"open", "source">>, <<"open", "sink">>, <<"running">>, <<"try", "source">>>>
           K == {"open", "running", "try"}
<1>1. ListsOK /\ Host \in Threads /\ Idle(Host) BY DEF IInv, Threads, Start
<1>2. state = "Initialized" /\ ~Stopped /\ UNCHANGED <<state, shared, node, wakeup, moved>> BY DEF Start
<1>3. L \in Seq(Steps)
  <2>1. /\ <<"open", "source">> \in Steps /\ <<"open", "sink">> \in Steps
        /\ <<"running">> \in Steps /\ <<"try", "source">> \in Steps
    BY StepForms DEF PlainKinds, NodeKinds, Nodes
  <2> QED BY <2>1, Lists
<1>4. L \in StartTails BY DEF StartTails
<1>5. Call(Host, L) BY DEF Start
<1> HIDE DEF L
<1>6. Only(L, K) BY <1>3, <1>4, StartShape DEF Only
<1>7. K \cap (LoopKinds \cup RoundKinds \cup {"request", "cancelled"}) = {}
  BY DEF LoopKinds, RoundKinds, BusyKinds
<1> HIDE DEF K
<1>8. AskList(L) BY <1>6, <1>7, MildAsk
<1>9. Advances(Host, L, 0) BY <1>1, <1>3, <1>5, CallAdvances
<1>10. WorkInv' BY <1>2 DEF WorkInv, Live
<1>11. NewInv' BY <1>2 DEF LoopsInv, NewInv, Fresh, Stopped
<1>12. ~At(Host, "pump") /\ ~At(Host, "pumped") BY <1>1 DEF At
<1>13. \A i \in 1 .. Len(L) : L[i][1] \notin LoopKinds \cup RoundKinds BY <1>6, <1>7 DEF Only
<1> QED BY <1>2, <1>8, <1>9, <1>10, <1>11, <1>12, <1>13, DullLoops

\* A start that goes on, or that has failed and is given up.
LEMMA LoopsOpen ==
    ASSUME IInv, IInv', RestInv, LoopsInv, Open
    PROVE  LoopsInv'
<1>1. ListsOK /\ Host \in Threads /\ Workers \subseteq Threads /\ Host \notin Workers /\ Threads = Workers \cup {Host}
  BY ThreadsAssumption DEF IInv, Threads
<1>2. At(Host, "open") /\ UNCHANGED <<state, wakeup, moved>> BY DEF Open
<1>3. PICK fails \in BOOLEAN :
         /\ shared' = [shared EXCEPT !.error = @ \/ fails]
         /\ node' = [node EXCEPT ![Arg(Host)].opened = @ \/ ~fails]
         /\ IF fails THEN Call(Host, <<>>) ELSE Go(Host, <<>>)
  BY DEF Open
<1>4. Arg(Host) \in Nodes /\ state = "Initialized" /\ todo[Host] \in StartTails BY <1>2, OpenWhere
<1>5. \A n \in Nodes : node'[n].closeStarted = node[n].closeStarted
  BY <1>3, <1>4, OpenedChange DEF IInv
<1>6. WorkInv' BY <1>2, <1>4 DEF WorkInv, Live
<1>7. \A k \in {"pump", "pumped"} : ~Has(Host, k)
  <2> SUFFICES ASSUME NEW k \in {"pump", "pumped"}, Has(Host, k) PROVE FALSE OBVIOUS
  <2>1. DOMAIN todo[Host] = 1 .. Len(todo[Host]) BY <1>1, LenProperties DEF ListsOK
  <2>2. PICK i \in 1 .. Len(todo[Host]) : Kind(Host, i) = k BY <2>1 DEF Has
  <2>3. todo[Host][i][1] \in {"open", "running", "try"} BY <1>4, StartShape
  <2> QED BY <2>2, <2>3 DEF Kind
<1>8. CASE ~fails
  <2>1. Go(Host, <<>>) /\ Go(Host, Nothing) BY <1>3, <1>8 DEF Nothing
  <2>2. AskList(Nothing) /\ Len(Nothing) = 0 BY NothingAsks
  <2>3. Nothing \in Seq(Steps) BY <2>2 DEF AskList
  <2>4. Advances(Host, Nothing, Len(todo[Host]) - 1) BY <1>1, <1>2, <2>1, <2>3, GoAdvances
  <2>5. \A i \in 1 .. Len(Nothing) : FALSE BY <2>2
  <2>6. shared' = shared BY <1>3, <1>8 DEF IInv, TypeOK
  <2>7. Has(Host, "running")' => Has(Host, "running") BY <1>1, <2>4, <2>5, HasMoves
  <2>8. NewInv' BY <1>2, <1>4, <1>5, <2>6, <2>7 DEF LoopsInv, NewInv, Fresh, Stopped
  <2>9. ~At(Host, "pump") /\ ~At(Host, "pumped") BY <1>2 DEF At
  <2> QED BY <1>2, <1>6, <2>2, <2>4, <2>5, <2>8, <2>9, DullLoops
<1>9. CASE fails
  <2>1. Call(Host, <<>>) BY <1>3, <1>9
  <2>2. todo'[Host] = <<>> /\ \A w \in Workers : todo'[w] = todo[w] BY <1>1, <2>1 DEF Call, ListsOK
  <2>3. Len(todo'[Host]) = 0 /\ \A i \in 1 .. Len(todo'[Host]) : FALSE BY <2>2, NoSteps
  <2>4. DOMAIN todo'[Host] = {} BY <2>2
  <2>5. \A k : ~Has(Host, k)' BY <2>4 DEF Has
  <2>6. LoopInv' BY <2>3 DEF LoopInv
  <2>7. AskInv' BY <1>1, <2>2, <2>3 DEF LoopsInv, AskInv, Kind
  <2>8. OwnInv' BY <2>2 DEF LoopsInv, OwnInv, Kind
  <2>9. PendingInv' BY <1>2, <1>7 DEF LoopsInv, PendingInv
  <2>10. shared'.error BY <1>3, <1>9 DEF IInv, TypeOK
  <2>11. NewInv' BY <2>5, <2>10 DEF NewInv, Stopped
  <2> QED BY <1>6, <2>6, <2>7, <2>8, <2>9, <2>11 DEF LoopsInv
<1> QED BY <1>8, <1>9

\* A graph that starts has no work yet.
LEMMA LoopsRunning ==
    ASSUME IInv, IInv', RestInv, LoopsInv, Running
    PROVE  LoopsInv'
<1>1. ListsOK /\ Host \in Threads /\ At(Host, "running") BY DEF IInv, Threads, Running
<1>2. UNCHANGED <<shared, node, source, sink, delegated, wakeup, moved>> /\ state' = "Running"
  BY DEF Running
<1>3. Go(Host, Nothing) BY DEF Running, Nothing
<1>4. AskList(Nothing) /\ Len(Nothing) = 0 BY NothingAsks
<1>5. Nothing \in Seq(Steps) BY <1>4 DEF AskList
<1>6. Advances(Host, Nothing, Len(todo[Host]) - 1) BY <1>1, <1>3, <1>5, GoAdvances
<1>7. \A i \in 1 .. Len(Nothing) : FALSE BY <1>4
<1>8. Has(Host, "running") /\ ~Stopped BY <1>1, HasNow DEF LoopsInv, NewInv
<1>9. Fresh
  <2>1. 1 \in 1 .. Len(todo[Host]) /\ Kind(Host, 1) = "running" BY <1>1, AtFirst
  <2> QED BY <2>1, StartList DEF RestInv, Fresh
<1>10. ~Fresh'
  <2> SUFFICES ASSUME At(Host, "initialized")' PROVE FALSE BY <1>2 DEF Fresh
  <2>1. Has(Host, "initialized")' BY HostLists DEF IInv
  <2> QED BY <1>2, <2>1 DEF IInv, PhaseInv, ResetInv
<1>11. NewInv' BY <1>2, <1>8, <1>10 DEF NewInv, Stopped
<1>12. delegated' = 0 /\ ~source'.done /\ ~sink'.inputClosed
  BY <1>2, <1>8, <1>9 DEF IInv, PhaseInv, FreshInv
<1>13. ~AllClosed'
  <2>1. \A n \in Nodes : ~node[n].closeStarted BY <1>8, <1>9 DEF LoopsInv, NewInv
  <2>2. ~At(Host, "freed") BY <1>1 DEF At
  <2>3. \A n \in Nodes : ~node[n].closed BY <2>1, <2>2 DEF IInv, CloseInv, ClosedInv
  <2> QED BY <1>2, <2>3 DEF AllClosed, Nodes
<1>14. \A n \in Nodes : ~Closable(n)' BY <1>2, <1>8, <1>12 DEF Closable, Drained, Stopped, Nodes
<1>15. ~(delegated' > 0) BY <1>12
<1>16. WorkInv' BY <1>13, <1>14, <1>15 DEF WorkInv
<1>17. ~At(Host, "pump") /\ ~At(Host, "pumped") BY <1>1 DEF At
<1> QED BY <1>2, <1>4, <1>6, <1>7, <1>11, <1>16, <1>17, DullLoops

LEMMA LoopsReset ==
    ASSUME IInv, IInv', RestInv, LoopsInv, Reset
    PROVE  LoopsInv'
<1> DEFINE L == <<<<"clear">>, <<"renew">>, <<"initialized">>>>
           K == {"clear", "renew", "initialized"}
<1>1. ListsOK /\ Host \in Threads /\ Idle(Host) BY DEF IInv, Threads, Reset
<1>2. state = "Terminated" /\ UNCHANGED <<state, shared, node, wakeup, moved>> BY DEF Reset, Quiescent
<1>3. L \in Seq(Steps)
  <2>1. <<"clear">> \in Steps /\ <<"renew">> \in Steps /\ <<"initialized">> \in Steps
    BY StepForms DEF PlainKinds
  <2> QED BY <2>1, Lists
<1>4. L \in ResetTails /\ L[1][1] = "clear" BY DEF ResetTails
<1>5. Call(Host, L) BY DEF Reset
<1> HIDE DEF L
<1>6. Only(L, K) BY <1>3, <1>4, ResetShape DEF Only
<1>7. K \cap (LoopKinds \cup RoundKinds \cup {"request", "cancelled"}) = {}
  BY DEF LoopKinds, RoundKinds, BusyKinds
<1>8. Advances(Host, L, 0) BY <1>1, <1>3, <1>5, CallAdvances
<1>9. todo'[Host] = L BY <1>1, <1>3, <1>5, CallPushes
<1>10. ~Fresh'
  <2>1. ~At(Host, "initialized")' BY <1>1, <1>4, <1>9, AtFirstNext DEF IInv
  <2> QED BY <1>2, <2>1 DEF Fresh
<1>11. ~Has(Host, "running")'
  <2>1. Has(Host, "running")' => \E i \in 1 .. Len(L) : L[i][1] = "running"
    BY <1>9, HostLists DEF IInv
  <2> QED BY <1>6, <2>1 DEF Only
<1> HIDE DEF K
<1>12. AskList(L) BY <1>6, <1>7, MildAsk
<1>13. WorkInv' BY <1>2 DEF WorkInv, Live
<1>14. NewInv' BY <1>10, <1>11 DEF NewInv
<1>15. ~At(Host, "pump") /\ ~At(Host, "pumped") BY <1>1 DEF At
<1>16. \A i \in 1 .. Len(L) : L[i][1] \notin LoopKinds \cup RoundKinds BY <1>6, <1>7 DEF Only
<1> QED BY <1>2, <1>8, <1>12, <1>13, <1>14, <1>15, <1>16, DullLoops

\* A step of a reset.
LEMMA ResetLoops ==
    ASSUME IInv, IInv', RestInv, LoopsInv, NEW k \in {"clear", "renew", "initialized"}, At(Host, k),
           Go(Host, <<>>), moved' = moved, state' \notin Live,
           (wakeup' \in Flags /\ ~wakeup'.pending) \/ wakeup' = wakeup,
           Fresh' /\ ~Stopped' => \A n \in Nodes : ~node'[n].closeStarted
    PROVE  LoopsInv'
<1>1. ListsOK /\ Host \in Threads BY DEF IInv, Threads
<1>2. state = "Terminated" BY ResetGoes
<1>3. Go(Host, Nothing) BY DEF Nothing
<1>4. AskList(Nothing) /\ Len(Nothing) = 0 BY NothingAsks
<1>5. Nothing \in Seq(Steps) BY <1>4 DEF AskList
<1>6. Advances(Host, Nothing, Len(todo[Host]) - 1) BY <1>1, <1>3, <1>5, GoAdvances
<1>7. \A i \in 1 .. Len(Nothing) : FALSE BY <1>4
<1>8. ~Has(Host, "running")
  <2> SUFFICES ASSUME Has(Host, "running") PROVE FALSE OBVIOUS
  <2>1. DOMAIN todo[Host] = 1 .. Len(todo[Host]) BY <1>1, LenProperties DEF ListsOK
  <2>2. PICK i \in 1 .. Len(todo[Host]) : Kind(Host, i) = "running" BY <2>1 DEF Has
  <2> QED BY <1>2, <2>2, StartList DEF RestInv
<1>9. ~Has(Host, "running")' BY <1>1, <1>6, <1>7, <1>8, HasMoves
<1>10. NewInv' BY <1>9 DEF NewInv
<1>11. WorkInv' BY DEF WorkInv
<1>12. ~At(Host, "pump") /\ ~At(Host, "pumped") BY DEF At
<1> QED BY <1>4, <1>6, <1>7, <1>10, <1>11, <1>12, DullLoops

LEMMA LoopsClears ==
    ASSUME IInv, IInv', RestInv, LoopsInv, ClearShared
    PROVE  LoopsInv'
<1>1. At(Host, "clear") /\ Go(Host, <<>>) /\ UNCHANGED <<state, node, wakeup, moved>> BY DEF ClearShared
<1>2. state = "Terminated" /\ ~At(Host, "initialized")' BY <1>1, ResetGoes
<1>3. ~Fresh' /\ state' \notin Live BY <1>1, <1>2 DEF Fresh, Live
<1> QED BY <1>1, <1>3, ResetLoops

LEMMA LoopsRenew ==
    ASSUME IInv, IInv', RestInv, LoopsInv, Renew
    PROVE  LoopsInv'
<1>1. At(Host, "renew") /\ Go(Host, <<>>) /\ UNCHANGED <<state, moved>> BY DEF Renew
<1>2. state = "Terminated" BY <1>1, ResetGoes
<1>3. state' \notin Live BY <1>1, <1>2 DEF Live
<1>4. wakeup' \in Flags /\ ~wakeup'.pending BY DEF Renew, LoopsInv, PendingInv, Flags
<1>5. \A n \in Nodes : ~node'[n].closeStarted BY DEF Renew, NewSched
<1> QED BY <1>1, <1>3, <1>4, <1>5, ResetLoops

LEMMA LoopsInitialized ==
    ASSUME IInv, IInv', RestInv, LoopsInv, Initialized
    PROVE  LoopsInv'
<1>1. /\ At(Host, "initialized") /\ Go(Host, <<>>) /\ UNCHANGED <<shared, node, wakeup, moved>>
      /\ state' = "Initialized"
  BY DEF Initialized
<1>2. Fresh BY <1>1 DEF Fresh
<1>3. ~Stopped' => \A n \in Nodes : ~node'[n].closeStarted
  BY <1>1, <1>2 DEF LoopsInv, NewInv, Stopped
<1>4. state' \notin Live BY <1>1 DEF Live
<1> QED BY <1>1, <1>3, <1>4, ResetLoops

---------------------------------------------------------------------------
(* The host is called.                                                      *)

LEMMA LoopsFirst == Init => LoopsInv
<1> SUFFICES ASSUME Init PROVE LoopsInv
  OBVIOUS
<1>1. Host \in Threads /\ Workers \subseteq Threads BY DEF Threads
<1>2. \A t \in Threads : todo[t] = <<>> BY DEF Init
<1>3. \A t \in Threads : DOMAIN todo[t] = {} /\ \A i \in 1 .. Len(todo[t]) : FALSE BY <1>2, NoSteps
<1>4. LoopInv /\ AskInv /\ OwnInv BY <1>1, <1>3 DEF LoopInv, AskInv, OwnInv
<1>5. PendingInv BY DEF Init, PendingInv, Flags
<1>6. \A n \in Nodes : ~node[n].closeStarted BY DEF Init, NewSched
<1>7. NewInv BY <1>1, <1>3, <1>6 DEF NewInv, Has
<1>8. WorkInv BY DEF Init, WorkInv, Live
<1> QED BY <1>4, <1>5, <1>7, <1>8 DEF LoopsInv

LEMMA LoopsNext == IInv /\ RestInv /\ LoopsInv /\ [Next]_vars => LoopsInv'
<1> SUFFICES ASSUME IInv, RestInv, LoopsInv, [Next]_vars PROVE LoopsInv'
  OBVIOUS
<1>0. IInv' BY NextInvariant
<1>1. ASSUME NEW t \in Threads, Step(t) PROVE LoopsInv'
  <2>1. CASE Try(t) BY <1>0, <2>1, LoopsTry
  <2>2. CASE Claim(t) BY <1>0, <2>2, LoopsClaim
  <2>3. CASE Submit(t) BY <1>0, <2>3, LoopsSubmit
  <2>4. CASE Request(t) BY <1>0, <2>4, LoopsRequest
  <2>5. CASE Arm(t) BY <1>0, <2>5, LoopsArm
  <2>6. CASE Run(t) BY <1>0, <2>6, LoopsRun
  <2>7. CASE Fail(t) BY <1>0, <2>7, LoopsFail
  <2>8. CASE Land(t) BY <1>0, <2>8, LoopsLand
  <2>9. CASE Flush(t) BY <1>0, <2>9, LoopsFlush
  <2>10. CASE Release(t) BY <1>0, <2>10, LoopsRelease
  <2>11. CASE CloseLook(t) BY <1>0, <2>11, LoopsCloseLook
  <2>12. CASE CloseClaim(t) BY <1>0, <2>12, LoopsCloseClaim
  <2>13. CASE Close(t) BY <1>0, <2>13, LoopsClose
  <2>14. CASE EndOfStream(t) BY <1>0, <2>14, LoopsEndOfStream
  <2> QED
    BY <1>1, <2>1, <2>2, <2>3, <2>4, <2>5, <2>6, <2>7, <2>8, <2>9, <2>10, <2>11, <2>12, <2>13, <2>14
    DEF Step
<1>2. ASSUME NEW w \in Workers, WorkerStep(w) PROVE LoopsInv'
  <2>1. CASE Take(w) BY <1>0, <2>1, LoopsTake
  <2>2. CASE Exit(w) BY <1>0, <2>2, LoopsQuiet DEF Exit
  <2>3. CASE Completed(w) BY <1>0, <2>3, LoopsCompleted
  <2>4. CASE Wake(w) BY <1>0, <2>4, LoopsWake
  <2>5. CASE Woken(w) BY <1>0, <2>5, LoopsWoken
  <2>6. CASE Return(w) BY <1>0, <2>6, LoopsReturn
  <2>7. CASE LastReturn(w) BY <1>0, <2>7, LoopsLastReturn
  <2>8. CASE Resumption(w) BY <1>0, <2>8, LoopsResumption
  <2>9. CASE Reschedule(w) BY <1>0, <2>9, LoopsReschedule
  <2>10. CASE Generation(w) BY <1>0, <2>10, LoopsGeneration
  <2>11. CASE Delay(w) BY <1>0, <2>11, LoopsDelay
  <2> QED BY <1>2, <2>1, <2>2, <2>3, <2>4, <2>5, <2>6, <2>7, <2>8, <2>9, <2>10, <2>11 DEF WorkerStep
<1>3. ASSUME HostStep PROVE LoopsInv'
  <2>1. CASE Start \/ Open \/ Running BY <1>0, <2>1, LoopsStart, LoopsOpen, LoopsRunning
  <2>2. CASE EventLoop \/ Pump \/ Task \/ Ended \/ Pumped \/ Rearm
    BY <1>0, <2>2, LoopsEventLoop, LoopsPump, LoopsTask, LoopsEnded, LoopsPumped, LoopsRearm
  <2>3. CASE SetCallback \/ SinkReturn \/ Retire
    BY <1>0, <2>3, LoopsSetCallback, LoopsSinkReturn, LoopsRetire
  <2>4. CASE WaitDone \/ WaitStep \/ WaitLook \/ WaitIdle \/ WaitMore
    BY <1>0, <2>4, LoopsWaitDone, LoopsWaitStep, LoopsWaitLook, LoopsWaitIdle, LoopsWaitMore
  <2>5. CASE Reset \/ ClearShared \/ Renew \/ Initialized
    BY <1>0, <2>5, LoopsReset, LoopsClears, LoopsRenew, LoopsInitialized
  <2>6. CASE Cancel \/ SetCancelled BY <1>0, <2>6, LoopsCancel, LoopsSetCancelled
  <2>7. CASE Invalidate \/ Forget \/ StopPool \/ Join BY <1>0, <2>7, LoopsEasy
  <2>8. CASE Resume \/ Free \/ Drop BY <1>0, <2>8, LoopsResume, LoopsFree, LoopsDrop
  <2>9. CASE Pause BY <1>0, <2>9, LoopsQuiet DEF Pause
  <2> QED BY <1>3, <2>1, <2>2, <2>3, <2>4, <2>5, <2>6, <2>7, <2>8, <2>9 DEF HostStep
<1>4. CASE UNCHANGED vars BY <1>0, <1>4, LoopsQuiet DEF vars
<1> QED BY <1>1, <1>2, <1>3, <1>4 DEF Next

(***************************************************************************)
(* LoopsInv is inductive beside IInv and RestInv: while there is work for  *)
(* a pump, the host is called or it is about to look.                      *)
(***************************************************************************)
THEOREM LoopsInvariance == Spec => [](IInv /\ RestInv /\ LoopsInv)
<1>1. Init => IInv /\ RestInv /\ LoopsInv BY InitInvariant, RestFirst, LoopsFirst
<1>2. IInv /\ RestInv /\ LoopsInv /\ [Next]_vars => (IInv /\ RestInv /\ LoopsInv)'
  BY NextInvariant, RestNext, LoopsNext
<1> QED BY <1>1, <1>2, PTL DEF Spec

LEMMA Calls == IInv /\ LoopsInv => HostIsCalled
<1> SUFFICES ASSUME IInv, LoopsInv, Quiet, state \in Live, PumpHasWork PROVE wakeup.posted
  BY DEF HostIsCalled
<1>1. Host \in Threads BY DEF Threads
<1>2. \A t \in Threads : DOMAIN todo[t] = {} /\ \A i \in 1 .. Len(todo[t]) : FALSE
  BY NoSteps DEF Quiet, Idle
<1>3. \A t \in Threads : \A k : ~Has(t, k) BY <1>2 DEF Has
<1>4. Called
  <2>1. ~Has(Host, "task") /\ ~Has(Host, "ended") BY <1>1, <1>3
  <2>2. \A n \in Nodes : ~Looks(n) BY <1>1, <1>2, <2>1 DEF Looks
  <2>3. delegated > 0 \/ AllClosed \/ \E n \in Nodes : Closable(n) BY DEF PumpHasWork, Closable
  <2> QED BY <2>1, <2>2, <2>3 DEF LoopsInv, WorkInv
<1>5. ~Asks /\ ~Pumps BY <1>1, <1>3 DEF Asks, Pumps
<1> QED BY <1>1, <1>3, <1>4, <1>5 DEF Called

(***************************************************************************)
(* The event loop is never left asleep, for any number of workers and of   *)
(* calls in flight: when all threads are idle and a pump would find a      *)
(* task, an end or a node to close, the callback has posted since the last *)
(* look (request_wakeup of scheduler.rs, pump_step_pub of api.rs).          *)
(***************************************************************************)
THEOREM HostIsAlwaysCalled == Spec => []HostIsCalled
<1> QED BY Calls, LoopsInvariance, PTL
=============================================================================
