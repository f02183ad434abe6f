--------------------------- MODULE IngressProofs ---------------------------
(***************************************************************************)
(* Safety of the graph inputs for every number of threads, inputs and      *)
(* nested calls: IInv is inductive and implies the safety properties.      *)
(***************************************************************************)
EXTENDS Ingress, SequenceTheorems, TLAPS

USE IngressAssumption

\* What a step of another thread does to a call: nothing, or wake it up.
Same(f, g) ==
    /\ g.op = f.op /\ g.edge = f.edge /\ g.last = f.last
    /\ g.blocking = f.blocking /\ g.ts = f.ts
    /\ \/ g.pc = f.pc
       \/ f.pc = "asleep" /\ g.pc = "enter"
       \/ f.pc = "await" /\ g.pc = "awake"

\* The running call of t becomes g; the others at most wake up.
Moved(t, g) ==
    /\ frame' \in [Threads -> [Depths -> Frames]]
    /\ frame'[t][depth[t]] = g
    /\ \A u \in Threads, d \in Depths :
          u # t \/ d # depth[t] => Same(frame[u][d], frame'[u][d])

\* The call returns, or goes on.
Pops(t) == depth' = [depth EXCEPT ![t] = @ - 1]

KindOK(g) ==
    /\ g.op = "send" => g.pc \in SendPCs
    /\ g.op = "close" => g.pc \in ClosePCs
    /\ g.op = "none" => g.pc = "none"

LEMMA NoFrameType == NoFrame \in Frames
BY DEF NoFrame, Frames, Edges

\* A thread at a label is inside a call.
LEMMA AtLabel ==
    ASSUME TypeOK, StackInv, NEW t \in Threads, NEW labels, At(t, labels), "none" \notin labels
    PROVE  /\ depth[t] \in Depths /\ Top(t) = frame[t][depth[t]] /\ Top(t) \in Frames
           /\ Top(t).pc \in labels /\ Top(t).op # "none" /\ Top(t).edge \in Edges
<1>1. depth[t] # 0 BY DEF At, Top, NoFrame
<1>2. depth[t] \in Depths BY <1>1 DEF TypeOK, Depths
<1>3. Top(t) = frame[t][depth[t]] BY <1>1 DEF Top
<1>4. Top(t) \in Frames BY <1>2, <1>3 DEF TypeOK
<1>5. Top(t).edge \in Edges BY <1>4 DEF Frames
<1>6. Top(t).op # "none" BY <1>2, <1>3 DEF StackInv, Depths
<1> QED BY <1>2, <1>3, <1>4, <1>5, <1>6 DEF At

LEMMA JumpType ==
    ASSUME NEW f \in Frames, NEW label \in SendPCs \cup ClosePCs
    PROVE  LET g == [f EXCEPT !.pc = label] IN
           /\ g \in Frames /\ g.op = f.op /\ g.edge = f.edge /\ g.last = f.last
           /\ g.ts = f.ts /\ g.pc = label
BY DEF Frames

\* Writing the running call, with or without a notification, moves it.
LEMMA MovedBy ==
    ASSUME TypeOK, NEW t \in Threads, depth[t] \in Depths, NEW g \in Frames,
           frame' = [frame EXCEPT ![t][depth[t]] = g]
    PROVE  Moved(t, g)
BY DEF TypeOK, Moved, Same

LEMMA NotifyType ==
    ASSUME TypeOK, NEW e \in Edges
    PROVE  /\ NotifyAll(e) \in [Threads -> [Depths -> Frames]]
           /\ \A u \in Threads, d \in Depths :
                 /\ Same(frame[u][d], NotifyAll(e)[u][d])
                 /\ NotifyAll(e)[u][d].pc \in {"asleep", "await"}
                    => NotifyAll(e)[u][d].edge # e
<1> SUFFICES ASSUME NEW u \in Threads, NEW d \in Depths
             PROVE  /\ NotifyAll(e)[u][d] \in Frames
                    /\ Same(frame[u][d], NotifyAll(e)[u][d])
                    /\ NotifyAll(e)[u][d].pc \in {"asleep", "await"}
                       => NotifyAll(e)[u][d].edge # e
  BY DEF NotifyAll
<1> DEFINE f == frame[u][d]
           n == NotifyAll(e)[u][d]
<1>1. f \in Frames BY DEF TypeOK
<1>2. n = IF f.edge = e /\ f.pc = "asleep" THEN [f EXCEPT !.pc = "enter"]
          ELSE IF f.edge = e /\ f.pc = "await" THEN [f EXCEPT !.pc = "awake"] ELSE f
  BY DEF NotifyAll
<1>3. /\ "enter" \in SendPCs \cup ClosePCs /\ "awake" \in SendPCs \cup ClosePCs
  BY DEF SendPCs, ClosePCs
<1>4. CASE f.edge = e /\ f.pc = "asleep"
  BY <1>1, <1>2, <1>3, <1>4, JumpType DEF Same, Frames
<1>5. CASE f.edge = e /\ f.pc = "await"
  BY <1>1, <1>2, <1>3, <1>5, JumpType DEF Same, Frames
<1>6. CASE ~(f.edge = e /\ f.pc \in {"asleep", "await"})
  BY <1>1, <1>2, <1>6 DEF Same
<1> QED BY <1>4, <1>5, <1>6

LEMMA MovedByNotify ==
    ASSUME TypeOK, NEW t \in Threads, depth[t] \in Depths, NEW g \in Frames, NEW e \in Edges,
           frame' = [NotifyAll(e) EXCEPT ![t][depth[t]] = g]
    PROVE  /\ Moved(t, g)
           /\ \A u \in Threads, d \in Depths :
                 u # t \/ d # depth[t] =>
                    (frame'[u][d].pc \in {"asleep", "await"} => frame'[u][d].edge # e)
BY NotifyType DEF Moved

---------------------------------------------------------------------------
(* What a step of the running call owes to each part of the invariant.     *)

\* g is a legal continuation of the running call of t, or its end.
Continues(t, g) ==
    /\ g.op \in {Top(t).op, "none"} /\ KindOK(g)
    /\ depth' = IF g.op = "none" THEN [depth EXCEPT ![t] = @ - 1] ELSE depth
    /\ g.op = "send" => /\ g.pc # "check" /\ g.edge = Top(t).edge
                        /\ Top(t).pc = "check" => owner[g.edge] # t

LEMMA StackStep ==
    ASSUME TypeOK, StackInv, KindInv, NestInv, OneDispatcher, NEW t \in Threads,
           depth[t] \in Depths, NEW g \in Frames, Moved(t, g), Continues(t, g)
    PROVE  StackInv' /\ KindInv' /\ NestInv' /\ depth' \in [Threads -> 0 .. MaxDepth]
<1> DEFINE k == depth[t]
<1>0. /\ Top(t) = frame[t][k] /\ frame[t][k].op # "none" /\ frame'[t][k] = g
  BY DEF Top, StackInv, Depths, Moved
<1>1. /\ depth' \in [Threads -> 0 .. MaxDepth]
      /\ depth'[t] = IF g.op = "none" THEN k - 1 ELSE k
      /\ \A u \in Threads \ {t} : depth'[u] = depth[u]
  BY DEF Continues, TypeOK, Depths
<1>2. \A u \in Threads, d \in Depths : u # t \/ d # k => Same(frame[u][d], frame'[u][d])
  BY DEF Moved
<1>3. StackInv'
  <2> SUFFICES ASSUME NEW u \in Threads, NEW d \in Depths
               PROVE  /\ d > depth'[u] <=> frame'[u][d].op = "none"
                      /\ d < depth'[u] => Pumping(frame'[u][d]) \/ InCallback(frame'[u][d])
    BY DEF StackInv
  <2>1. CASE u = t /\ d = k
    BY <1>0, <1>1, <2>1 DEF TypeOK, Depths
  <2>2. CASE u # t \/ d # k
    <3>1. Same(frame[u][d], frame'[u][d]) BY <1>2, <2>2
    <3>2. frame'[u][d].op = "none" <=> frame[u][d].op = "none" BY <3>1 DEF Same
    <3>3. d > depth'[u] <=> d > depth[u]
      BY <1>1, <2>2 DEF TypeOK, Depths
    <3>4. d < depth'[u] => d < depth[u]
      BY <1>1, <2>2 DEF TypeOK, Depths
    <3>5. Pumping(frame[u][d]) \/ InCallback(frame[u][d])
          => Pumping(frame'[u][d]) \/ InCallback(frame'[u][d])
      BY <3>1 DEF Same, Pumping, InCallback
    <3> QED BY <3>2, <3>3, <3>4, <3>5 DEF StackInv
  <2> QED BY <2>1, <2>2
<1>4. KindInv'
  <2> SUFFICES ASSUME NEW u \in Threads, NEW d \in Depths PROVE KindOK(frame'[u][d])
    BY DEF KindInv, KindOK
  <2>1. CASE u = t /\ d = k BY <1>0, <2>1 DEF Continues
  <2>2. CASE u # t \/ d # k
    <3>1. Same(frame[u][d], frame'[u][d]) BY <1>2, <2>2
    <3> QED BY <3>1 DEF Same, KindInv, KindOK, SendPCs, ClosePCs
  <2> QED BY <2>1, <2>2
<1>5. NestInv'
  <2> SUFFICES ASSUME NEW u \in Threads, NEW c \in Depths, NEW d \in Depths,
                      c < d, frame'[u][d].op = "send"
               PROVE  \/ Pumping(frame'[u][c])
                      \/ /\ frame'[u][d].pc = "check"
                         /\ \/ c < d - 1
                            \/ /\ InCallback(frame'[u][c])
                               /\ frame'[u][c].edge = frame'[u][d].edge
    BY DEF NestInv
  <2>1. CASE u # t \/ (d # k /\ c # k)
    <3>1. Same(frame[u][d], frame'[u][d]) /\ Same(frame[u][c], frame'[u][c])
      BY <1>2, <2>1
    <3>2. frame[u][d].op = "send" BY <3>1 DEF Same
    <3> QED BY <3>1, <3>2 DEF Same, NestInv, Pumping, InCallback
  <2>2. CASE u = t /\ c = k
    <3>1. d > depth[t] /\ Same(frame[t][d], frame'[t][d]) BY <1>2, <2>2 DEF Depths
    <3> QED BY <3>1, <2>2 DEF StackInv, Same
  <2>3. CASE u = t /\ d = k
    <3>1. Same(frame[t][c], frame'[t][c]) BY <1>2, <2>3 DEF Depths
    <3>2. frame[t][k].op = "send" /\ g.pc # "check" /\ g.edge = frame[t][k].edge
      BY <1>0, <2>3 DEF Continues
    <3>3. CASE Pumping(frame[t][c]) BY <3>1, <3>3, <2>3 DEF Same, Pumping
    <3>4. CASE ~Pumping(frame[t][c])
      <4>1. frame[t][k].pc = "check" BY <3>2, <3>4, <2>3 DEF NestInv
      <4>2. owner[g.edge] # t BY <1>0, <2>3, <3>2, <4>1 DEF Continues
      <4>3. \A b \in Depths : b = k - 1 => ~(InCallback(frame[t][b]) /\ frame[t][b].edge = g.edge)
        BY <4>2 DEF InCallback, Owning, OneDispatcher
      <4>4. k - 1 \in Depths BY <2>3 DEF Depths
      <4>5. Pumping(frame[t][k - 1])
        BY <4>3, <4>4, <3>2 DEF NestInv, Depths
      <4>6. c < k - 1 BY <4>5, <3>4, <2>3 DEF Depths
      <4>7. frame[t][k - 1].op = "send"
        <5>1. frame[t][k - 1].op # "none" BY <4>4 DEF StackInv, Depths
        <5>2. frame[t][k - 1] \in Frames BY <4>4 DEF TypeOK
        <5>3. frame[t][k - 1].op \in {"send", "close", "none"} BY <5>2 DEF Frames
        <5>4. frame[t][k - 1].op # "close" BY <4>5, <4>4 DEF KindInv, Pumping, ClosePCs
        <5> QED BY <5>1, <5>3, <5>4
      <4>8. frame[t][k - 1].pc # "check" BY <4>5 DEF Pumping
      <4>9. Pumping(frame[t][c]) BY <4>4, <4>6, <4>7, <4>8 DEF NestInv
      <4> QED BY <4>9, <3>4
    <3> QED BY <3>3, <3>4
  <2> QED BY <2>1, <2>2, <2>3
<1> QED BY <1>1, <1>3, <1>4, <1>5

\* How a step of t may change the owner of its input.
Keeps(t, g) ==
    /\ owner' = owner
    /\ Owning(g) <=> Owning(Top(t))
    /\ Owning(g) => g.edge = Top(t).edge
Takes(t, g) ==
    /\ owner[g.edge] = Nobody
    /\ owner' = [owner EXCEPT ![g.edge] = t]
    /\ ~Owning(Top(t)) /\ Owning(g)
Gives(t, g) ==
    /\ Owning(Top(t)) /\ ~Owning(g)
    /\ owner' = [owner EXCEPT ![Top(t).edge] = Nobody]
    /\ \A u \in Threads, d \in Depths :
          u # t \/ d # depth[t] =>
             (frame'[u][d].pc \in {"asleep", "await"} => frame'[u][d].edge # Top(t).edge)

\* g sleeps only for an owner, and as a closer only if t owns nothing.
Sleeps(t, g) ==
    /\ g.pc \in {"asleep", "await"} => owner'[g.edge] # Nobody
    /\ g.pc \in {"await", "awake"} => \A c \in Depths : ~Owning(frame[t][c])

LEMMA OwnerStep ==
    ASSUME TypeOK, StackInv, KindInv, OneDispatcher, OwnerInv, SleepInv, NEW t \in Threads,
           depth[t] \in Depths, NEW g \in Frames, Moved(t, g), Sleeps(t, g),
           Keeps(t, g) \/ Takes(t, g) \/ Gives(t, g)
    PROVE  /\ OneDispatcher' /\ OwnerInv' /\ SleepInv'
           /\ owner' \in [Edges -> Threads \cup {Nobody}]
<1> DEFINE k == depth[t]
           f == frame[t][k]
<1>0. /\ Top(t) = f /\ f \in Frames /\ f.edge \in Edges /\ g.edge \in Edges
      /\ frame'[t][k] = g /\ t # Nobody
  <2>1. Top(t) = f BY DEF Top, Depths
  <2>2. f \in Frames BY DEF TypeOK
  <2>3. f.edge \in Edges /\ g.edge \in Edges BY <2>2 DEF Frames
  <2>4. frame'[t][k] = g BY DEF Moved
  <2>5. t # Nobody OBVIOUS
  <2> QED BY <2>1, <2>2, <2>3, <2>4, <2>5
<1>1. owner' \in [Edges -> Threads \cup {Nobody}]
  BY <1>0 DEF Keeps, Takes, Gives, TypeOK
<1>2. \A u \in Threads, d \in Depths : u # t \/ d # k => Same(frame[u][d], frame'[u][d])
  BY DEF Moved
<1>3. \A u \in Threads, d \in Depths : u # t \/ d # k =>
         /\ Owning(frame'[u][d]) <=> Owning(frame[u][d])
         /\ frame'[u][d].edge = frame[u][d].edge
  BY <1>2 DEF Same, Owning
<1>4. \A u \in Threads, d \in Depths : frame[u][d].edge \in Edges
  BY DEF TypeOK, Frames
<1>5. OneDispatcher'
  <2>1. CASE Keeps(t, g)
    <3>1. \A u \in Threads, d \in Depths : Owning(frame'[u][d]) =>
             Owning(frame[u][d]) /\ frame'[u][d].edge = frame[u][d].edge
      BY <1>0, <1>3, <2>1 DEF Keeps
    <3> QED BY <1>4, <2>1, <3>1 DEF Keeps, OneDispatcher
  <2>2. CASE Takes(t, g)
    <3>1. \A u \in Threads, d \in Depths :
             Owning(frame[u][d]) => frame[u][d].edge # g.edge
      BY <2>2 DEF Takes, OneDispatcher
    <3>2. \A u \in Threads, d \in Depths : u # t \/ d # k =>
             (Owning(frame'[u][d]) => frame'[u][d].edge # g.edge)
      BY <1>3, <3>1
    <3>3. owner'[g.edge] = t /\ \A e \in Edges : e # g.edge => owner'[e] = owner[e]
      BY <1>0, <2>2 DEF Takes, TypeOK
    <3>4. \A u \in Threads, d \in Depths :
             Owning(frame'[u][d]) => owner'[frame'[u][d].edge] = u
      <4> SUFFICES ASSUME NEW u \in Threads, NEW d \in Depths, Owning(frame'[u][d])
                   PROVE  owner'[frame'[u][d].edge] = u
        OBVIOUS
      <4>1. CASE u = t /\ d = k BY <1>0, <3>3, <4>1
      <4>2. CASE u # t \/ d # k
        BY <1>3, <1>4, <3>2, <3>3, <4>2 DEF OneDispatcher
      <4> QED BY <4>1, <4>2
    <3>5. ASSUME NEW u \in Threads, NEW c \in Depths, NEW d \in Depths,
                 Owning(frame'[u][c]), Owning(frame'[u][d]),
                 frame'[u][c].edge = frame'[u][d].edge
          PROVE  c = d
      <4>1. CASE u # t \/ (c # k /\ d # k) BY <1>3, <3>5, <4>1 DEF OneDispatcher
      <4>2. CASE u = t /\ (c = k \/ d = k) BY <1>0, <3>2, <3>5, <4>2
      <4> QED BY <4>1, <4>2
    <3> QED BY <3>4, <3>5 DEF OneDispatcher
  <2>3. CASE Gives(t, g)
    <3>1. \A u \in Threads, d \in Depths :
             Owning(frame'[u][d]) => frame'[u][d].edge # f.edge
      BY <1>0, <1>3, <2>3 DEF Gives, OneDispatcher
    <3>2. \A e \in Edges : e # f.edge => owner'[e] = owner[e]
      BY <1>0, <2>3 DEF Gives, TypeOK
    <3>3. \A u \in Threads, d \in Depths : Owning(frame'[u][d]) => u # t \/ d # k
      BY <1>0, <2>3 DEF Gives
    <3> QED BY <1>3, <1>4, <3>1, <3>2, <3>3 DEF OneDispatcher
  <2> QED BY <2>1, <2>2, <2>3
<1>6. OwnerInv'
  <2> SUFFICES ASSUME NEW e \in Edges, owner'[e] # Nobody
               PROVE  \E d \in Depths : /\ Owning(frame'[owner'[e]][d])
                                        /\ frame'[owner'[e]][d].edge = e
    BY DEF OwnerInv
  <2>1. CASE owner'[e] = owner[e]
    <3>1. PICK d \in Depths : Owning(frame[owner[e]][d]) /\ frame[owner[e]][d].edge = e
      BY <2>1 DEF OwnerInv
    <3>2. owner[e] \in Threads BY <2>1 DEF TypeOK
    <3>3. CASE owner[e] # t \/ d # k BY <1>3, <2>1, <3>1, <3>2, <3>3
    <3>4. CASE owner[e] = t /\ d = k
      <4>1. Owning(f) /\ f.edge = e BY <3>1, <3>4
      <4>2. ~Gives(t, g) BY <1>0, <2>1, <3>4, <4>1 DEF Gives, TypeOK
      <4>3. Keeps(t, g) BY <1>0, <4>1, <4>2 DEF Takes
      <4> QED BY <1>0, <2>1, <3>4, <4>1, <4>3 DEF Keeps
    <3> QED BY <3>3, <3>4
  <2>2. CASE owner'[e] # owner[e]
    <3>1. Takes(t, g) /\ e = g.edge /\ owner'[e] = t
      BY <1>0, <2>2 DEF Keeps, Takes, Gives, TypeOK
    <3> QED BY <1>0, <3>1 DEF Takes
  <2> QED BY <2>1, <2>2
<1>7. SleepInv'
  <2> SUFFICES ASSUME NEW u \in Threads, NEW d \in Depths
               PROVE  /\ frame'[u][d].pc \in {"asleep", "await"}
                         => owner'[frame'[u][d].edge] # Nobody
                      /\ frame'[u][d].pc \in {"await", "awake"}
                         => \A c \in Depths : ~Owning(frame'[u][c])
    BY DEF SleepInv
  <2>1. CASE u = t /\ d = k
    <3>1. g.pc \in {"await", "awake"} => ~Owning(g) BY DEF Owning
    <3> QED BY <1>0, <1>3, <2>1, <3>1 DEF Sleeps
  <2>2. CASE u # t \/ d # k
    <3>1. Same(frame[u][d], frame'[u][d]) BY <1>2, <2>2
    <3>2. frame'[u][d].pc \in {"asleep", "await"} =>
             /\ frame[u][d].pc \in {"asleep", "await"}
             /\ owner[frame[u][d].edge] # Nobody
      BY <3>1 DEF Same, SleepInv
    <3>3. ASSUME frame'[u][d].pc \in {"asleep", "await"}
          PROVE  owner'[frame'[u][d].edge] # Nobody
      <4>1. frame'[u][d].edge = frame[u][d].edge /\ frame[u][d].edge \in Edges
        BY <1>4, <3>1 DEF Same
      <4>2. CASE Keeps(t, g) BY <3>2, <3>3, <4>1, <4>2 DEF Keeps
      <4>3. CASE Takes(t, g) BY <1>0, <3>2, <3>3, <4>1, <4>3 DEF Takes, TypeOK
      <4>4. CASE Gives(t, g)
        <5>1. frame'[u][d].edge # f.edge BY <1>0, <2>2, <3>3, <4>4 DEF Gives
        <5>2. owner'[frame[u][d].edge] = owner[frame[u][d].edge]
          BY <1>0, <4>1, <4>4, <5>1 DEF Gives, TypeOK
        <5> QED BY <3>2, <3>3, <4>1, <5>2
      <4> QED BY <4>2, <4>3, <4>4
    <3>4. frame'[u][d].pc \in {"await", "awake"} => frame[u][d].pc \in {"await", "awake"}
      BY <3>1 DEF Same
    <3>5. ASSUME frame'[u][d].pc \in {"await", "awake"}, NEW c \in Depths
          PROVE  ~Owning(frame'[u][c])
      <4>1. \A b \in Depths : ~Owning(frame[u][b]) BY <3>4, <3>5 DEF SleepInv
      <4>2. CASE u # t \/ c # k BY <1>3, <4>1, <4>2
      <4>3. CASE u = t /\ c = k
        <5>1. d # k /\ frame[t][d].pc \in {"await", "awake"} BY <2>2, <3>4, <3>5, <4>3
        <5>2. d < k \/ d > k BY <5>1 DEF Depths
        <5>3. CASE d < k
          BY <5>1, <5>3 DEF StackInv, Pumping, InCallback
        <5>4. CASE d > k
          BY <5>1, <5>4 DEF StackInv, KindInv
        <5> QED BY <5>2, <5>3, <5>4
      <4> QED BY <4>2, <4>3
    <3> QED BY <3>3, <3>5
  <2> QED BY <2>1, <2>2
<1> QED BY <1>1, <1>5, <1>6, <1>7

\* The invariants of the call stacks and of ownership together.
Control == StackInv /\ KindInv /\ NestInv /\ OneDispatcher /\ OwnerInv /\ SleepInv

LEMMA ControlStep ==
    ASSUME IInv, NEW t \in Threads, depth[t] \in Depths, NEW g \in Frames, Moved(t, g),
           Continues(t, g), Sleeps(t, g), Keeps(t, g) \/ Takes(t, g) \/ Gives(t, g)
    PROVE  /\ Control'
           /\ frame' \in [Threads -> [Depths -> Frames]]
           /\ depth' \in [Threads -> 0 .. MaxDepth]
           /\ owner' \in [Edges -> Threads \cup {Nobody}]
<1>1. StackInv' /\ KindInv' /\ NestInv' /\ depth' \in [Threads -> 0 .. MaxDepth]
  BY StackStep DEF IInv
<1>2. /\ OneDispatcher' /\ OwnerInv' /\ SleepInv'
      /\ owner' \in [Edges -> Threads \cup {Nobody}]
  BY OwnerStep DEF IInv
<1> QED BY <1>1, <1>2 DEF Control, Moved

\* What calls at the labels of a dispatch or of a close know.
Knows(f) ==
    /\ f.pc \in {"observing", "advance", "publish"} =>
          /\ ~closed[f.edge] /\ f.ts = lastSent[f.edge]
          /\ \A i \in 1 .. Len(events[f.edge]) : events[f.edge][i] <= PacketEvent(f.ts)
    /\ f.pc = "observing" => inputBound[f.edge] <= f.ts
    /\ f.pc = "sealed" => closed[f.edge]

\* What has been told about one input.
Told(e) ==
    /\ Increasing(events[e])
    /\ ~closed[e] =>
          /\ lastBound[e] <= lastSent[e] + 1
          /\ inputBound[e] <= lastSent[e] + 1
          /\ \A i \in 1 .. Len(events[e]) : events[e][i] <= BoundEvent(lastSent[e])

LEMMA EventParts ==
    EventInv <=> /\ \A e \in Edges : Told(e)
                 /\ \A t \in Threads, d \in Depths : Knows(frame[t][d])
BY DEF EventInv, EventsOrdered, Told, Knows

LEMMA EventPartsNext ==
    EventInv' <=> /\ \A e \in Edges : Told(e)'
                  /\ \A t \in Threads, d \in Depths : Knows(frame[t][d])'
BY DEF EventInv, EventsOrdered, Told, Knows

(***************************************************************************)
(* A step of t on input e changes what is told about e only; calls that    *)
(* know something about e own it, so they are t's own running call.        *)
(***************************************************************************)
TouchesOnly(e) ==
    \A x \in Edges \ {e} :
        /\ closed'[x] = closed[x] /\ lastSent'[x] = lastSent[x]
        /\ events'[x] = events[x] /\ lastBound'[x] = lastBound[x]
        /\ inputBound'[x] = inputBound[x]

LEMMA EventStep ==
    ASSUME IInv, NEW t \in Threads, NEW k \in Depths, k = depth[t],
           NEW e \in Edges, e = Top(t).edge, NEW g \in Frames, Moved(t, g),
           Owning(Top(t)), TouchesOnly(e), Told(e)', Knows(frame[t][k])'
    PROVE  EventInv'
<1>0. /\ Top(t) = frame[t][k]
      /\ \A u \in Threads, d \in Depths : frame[u][d].edge \in Edges
      /\ (\A x \in Edges : Told(x)) /\ \A u \in Threads, d \in Depths : Knows(frame[u][d])
  <2>1. Top(t) = frame[t][k] BY DEF Top, Depths
  <2>2. \A u \in Threads, d \in Depths : frame[u][d].edge \in Edges
    BY DEF IInv, TypeOK, Frames
  <2> QED BY <2>1, <2>2, EventParts DEF IInv
<1>1. ASSUME NEW x \in Edges PROVE Told(x)'
  <2>1. CASE x = e BY <2>1
  <2>2. CASE x # e BY <1>0, <2>2 DEF Told, TouchesOnly
  <2> QED BY <2>1, <2>2
<1>2. ASSUME NEW u \in Threads, NEW d \in Depths PROVE Knows(frame[u][d])'
  <2>1. CASE u = t /\ d = k
    BY <2>1
  <2>2. CASE u # t \/ d # k
    <3>1. Same(frame[u][d], frame'[u][d]) BY <2>2 DEF Moved
    <3>2. Knows(frame[u][d]) BY <1>0
    <3>3. CASE frame'[u][d].pc \in {"observing", "advance", "publish", "sealed"}
      <4>1. frame[u][d].pc = frame'[u][d].pc /\ Owning(frame[u][d])
        BY <3>1, <3>3 DEF Same, Owning
      <4>2. frame[u][d].edge # e
        BY <1>0, <2>2, <4>1 DEF IInv, OneDispatcher
      <4>3. frame'[u][d].edge = frame[u][d].edge /\ frame'[u][d].ts = frame[u][d].ts
        BY <3>1 DEF Same
      <4> QED BY <1>0, <3>2, <4>1, <4>2, <4>3 DEF Knows, TouchesOnly
    <3>4. CASE frame'[u][d].pc \notin {"observing", "advance", "publish", "sealed"}
      BY <3>4 DEF Knows
    <3> QED BY <3>3, <3>4
  <2> QED BY <2>1, <2>2
<1> QED BY <1>1, <1>2, EventPartsNext

\* A step that tells nobody anything.
LEMMA SilentStep ==
    ASSUME IInv, NEW t \in Threads, depth[t] \in Depths, NEW g \in Frames, Moved(t, g),
           g.pc \notin {"observing", "advance", "publish", "sealed"},
           UNCHANGED <<closed, lastSent, observer, inputBound>>
    PROVE  EventInv'
<1>0. (\A x \in Edges : Told(x)) /\ \A u \in Threads, d \in Depths : Knows(frame[u][d])
  BY EventParts DEF IInv
<1>1. \A x \in Edges : Told(x)' BY <1>0 DEF Told, observer
<1>2. ASSUME NEW u \in Threads, NEW d \in Depths PROVE Knows(frame[u][d])'
  <2>1. CASE u = t /\ d = depth[t] BY <2>1 DEF Knows, Moved
  <2>2. CASE u # t \/ d # depth[t]
    <3>1. Same(frame[u][d], frame'[u][d]) BY <2>2 DEF Moved
    <3> QED BY <1>0, <3>1 DEF Knows, Same, observer
  <2> QED BY <2>1, <2>2
<1> QED BY <1>1, <1>2, EventPartsNext

\* A call that will look at the state of the graph still will.
LEMMA SettleStep ==
    ASSUME IInv, NEW t \in Threads, depth[t] \in Depths, NEW g \in Frames, Moved(t, g),
           WillSettle(Top(t)) => WillSettle(g), UNCHANGED <<state, closed>>
    PROVE  SettleInv'
<1> SUFFICES ASSUME AllClosed, state = "Running"
             PROVE  \E u \in Threads, d \in Depths : WillSettle(frame'[u][d])
  BY DEF SettleInv, AllClosed
<1>1. PICK u \in Threads, d \in Depths : WillSettle(frame[u][d]) BY DEF IInv, SettleInv
<1>2. CASE u = t /\ d = depth[t]
  BY <1>1, <1>2 DEF Top, Depths, Moved
<1>3. CASE u # t \/ d # depth[t]
  <2>1. Same(frame[u][d], frame'[u][d]) BY <1>3 DEF Moved
  <2>2. WillSettle(frame'[u][d]) BY <1>1, <2>1 DEF WillSettle, Same
  <2> QED BY <2>2
<1> QED BY <1>2, <1>3

\* All of it, for the steps that only move calls and change owners.
LEMMA QuietStep ==
    ASSUME IInv, NEW t \in Threads, depth[t] \in Depths, NEW g \in Frames, Moved(t, g),
           Continues(t, g), Sleeps(t, g), Keeps(t, g) \/ Takes(t, g) \/ Gives(t, g),
           g.pc \notin {"observing", "advance", "publish", "sealed"},
           WillSettle(Top(t)) => WillSettle(g),
           closing' \in [Edges -> BOOLEAN], calls' = calls,
           UNCHANGED <<state, stopped, closed, lastSent, observer, consumer>>
    PROVE  IInv'
<1>1. /\ Control'
      /\ frame' \in [Threads -> [Depths -> Frames]]
      /\ depth' \in [Threads -> 0 .. MaxDepth]
      /\ owner' \in [Edges -> Threads \cup {Nobody}]
  BY ControlStep
<1>2. TypeOK' BY <1>1 DEF IInv, TypeOK, observer, consumer
<1>3. EventInv' BY SilentStep DEF consumer
<1>4. SettleInv' BY SettleStep
<1>5. DrainInv' BY DEF IInv, DrainInv, consumer
<1> QED BY <1>1, <1>2, <1>3, <1>4, <1>5 DEF IInv, Control

---------------------------------------------------------------------------
(* The actions of send.                                                    *)

LEMMA GotoMoves ==
    ASSUME TypeOK, NEW t \in Threads, depth[t] \in Depths, Top(t) \in Frames,
           NEW label \in SendPCs \cup ClosePCs, Goto(t, label)
    PROVE  LET g == [Top(t) EXCEPT !.pc = label] IN
           /\ g \in Frames /\ Moved(t, g) /\ depth' = depth /\ calls' = calls
           /\ g.op = Top(t).op /\ g.edge = Top(t).edge /\ g.last = Top(t).last
           /\ g.ts = Top(t).ts /\ g.pc = label
<1> DEFINE g == [Top(t) EXCEPT !.pc = label]
<1>1. /\ g \in Frames /\ g.op = Top(t).op /\ g.edge = Top(t).edge /\ g.last = Top(t).last
      /\ g.ts = Top(t).ts /\ g.pc = label
  BY JumpType
<1>2. frame' = [frame EXCEPT ![t][depth[t]] = g] /\ depth' = depth /\ calls' = calls
  BY DEF Goto, Jump
<1>3. Moved(t, g) BY <1>1, <1>2, MovedBy
<1> QED BY <1>1, <1>2, <1>3

LEMMA ReturnMoves ==
    ASSUME TypeOK, NEW t \in Threads, depth[t] \in Depths, Return(t)
    PROVE  Moved(t, NoFrame) /\ depth' = [depth EXCEPT ![t] = @ - 1] /\ calls' = calls
BY NoFrameType, MovedBy DEF Return

EarlyPCs == {"check", "watermark", "pumping", "enter"}

\* A send that owns nothing yet gives up.
LEMMA EarlyReturn ==
    ASSUME IInv, NEW t \in Threads, At(t, EarlyPCs), Return(t),
           UNCHANGED <<state, stopped, ingress, closed, lastSent, observer, consumer>>
    PROVE  IInv'
<1>1. TypeOK /\ StackInv /\ KindInv /\ "none" \notin EarlyPCs BY DEF IInv, EarlyPCs
<1>2. /\ depth[t] \in Depths /\ Top(t) = frame[t][depth[t]] /\ Top(t) \in Frames
      /\ Top(t).pc \in EarlyPCs /\ Top(t).op # "none"
  BY <1>1, AtLabel
<1>3. Moved(t, NoFrame) /\ depth' = [depth EXCEPT ![t] = @ - 1] /\ calls' = calls
  BY <1>1, <1>2, ReturnMoves
<1>4. Continues(t, NoFrame) BY <1>3 DEF Continues, KindOK, NoFrame
<1>5. Sleeps(t, NoFrame) BY DEF Sleeps, NoFrame
<1>6. Keeps(t, NoFrame) BY <1>2 DEF Keeps, Owning, NoFrame, EarlyPCs, ingress
<1>7. ~WillSettle(Top(t))
  BY <1>1, <1>2 DEF WillSettle, KindInv, EarlyPCs, ClosePCs
<1>8. NoFrame.pc \notin {"observing", "advance", "publish", "sealed"} BY DEF NoFrame
<1>9. closing' \in [Edges -> BOOLEAN] BY <1>1 DEF TypeOK, ingress
<1> QED BY <1>2, <1>3, <1>4, <1>5, <1>6, <1>7, <1>8, <1>9, NoFrameType, QuietStep

\* It goes on without owning anything, past its check only if it may.
LEMMA EarlyGoto ==
    ASSUME IInv, NEW t \in Threads, At(t, EarlyPCs), NEW label \in EarlyPCs \ {"check"},
           Top(t).pc = "check" => owner[Top(t).edge] # t, Goto(t, label),
           UNCHANGED <<state, stopped, ingress, closed, lastSent, observer, consumer>>
    PROVE  IInv'
<1> DEFINE g == [Top(t) EXCEPT !.pc = label]
<1>1. TypeOK /\ StackInv /\ KindInv /\ "none" \notin EarlyPCs BY DEF IInv, EarlyPCs
<1>2. /\ depth[t] \in Depths /\ Top(t) = frame[t][depth[t]] /\ Top(t) \in Frames
      /\ Top(t).pc \in EarlyPCs /\ Top(t).op # "none"
  BY <1>1, AtLabel
<1>3. label \in SendPCs BY DEF EarlyPCs, SendPCs
<1>4. /\ g \in Frames /\ Moved(t, g) /\ depth' = depth /\ calls' = calls
      /\ g.op = Top(t).op /\ g.edge = Top(t).edge /\ g.pc = label
  BY <1>1, <1>2, <1>3, GotoMoves
<1>5. Top(t).op # "close" BY <1>1, <1>2 DEF KindInv, EarlyPCs, ClosePCs
<1> HIDE DEF g
<1>6. Continues(t, g) BY <1>2, <1>3, <1>4, <1>5 DEF Continues, KindOK, EarlyPCs
<1>7. Sleeps(t, g) BY <1>4 DEF Sleeps, EarlyPCs
<1>8. Keeps(t, g) BY <1>2, <1>4 DEF Keeps, Owning, EarlyPCs, ingress
<1>9. ~WillSettle(Top(t)) BY <1>2, <1>5 DEF WillSettle, EarlyPCs
<1>10. g.pc \notin {"observing", "advance", "publish", "sealed"} BY <1>4 DEF EarlyPCs
<1>11. closing' \in [Edges -> BOOLEAN] BY <1>1 DEF TypeOK, ingress
<1> QED BY <1>2, <1>4, <1>6, <1>7, <1>8, <1>9, <1>10, <1>11, QuietStep

LEMMA CheckStep == ASSUME IInv, NEW t \in Threads, Check(t) PROVE IInv'
<1>1. At(t, EarlyPCs) /\ Top(t).pc = "check" BY DEF Check, At, EarlyPCs
<1>2. CASE Return(t) BY <1>1, <1>2, EarlyReturn DEF Check
<1>3. CASE owner[Top(t).edge] # t /\ Goto(t, "watermark")
  BY <1>1, <1>3, EarlyGoto DEF Check, EarlyPCs
<1> QED BY <1>2, <1>3 DEF Check

LEMMA WatermarkStep == ASSUME IInv, NEW t \in Threads, Watermark(t) PROVE IInv'
<1>1. At(t, EarlyPCs) /\ Top(t).pc = "watermark" BY DEF Watermark, At, EarlyPCs
<1>2. CASE Return(t) BY <1>1, <1>2, EarlyReturn DEF Watermark
<1>3. CASE Goto(t, "enter") BY <1>1, <1>3, EarlyGoto DEF Watermark, EarlyPCs
<1>4. CASE Goto(t, "pumping") BY <1>1, <1>4, EarlyGoto DEF Watermark, EarlyPCs
<1> QED BY <1>2, <1>3, <1>4 DEF Watermark

LEMMA PumpStep == ASSUME IInv, NEW t \in Threads, Pump(t) PROVE IInv'
<1>1. At(t, EarlyPCs) /\ Top(t).pc = "pumping" BY DEF Pump, At, EarlyPCs
<1>2. CASE Return(t) BY <1>1, <1>2, EarlyReturn DEF Pump
<1>3. CASE Goto(t, "watermark") BY <1>1, <1>3, EarlyGoto DEF Pump, EarlyPCs
<1> QED BY <1>2, <1>3 DEF Pump

LEMMA EnterStep == ASSUME IInv, NEW t \in Threads, Enter(t) PROVE IInv'
<1> DEFINE e == Top(t).edge
           G(label) == [Top(t) EXCEPT !.pc = label]
<1>1. TypeOK /\ StackInv /\ KindInv /\ NestInv /\ At(t, EarlyPCs)
  BY DEF IInv, Enter, At, EarlyPCs
<1>2. /\ depth[t] \in Depths /\ Top(t) = frame[t][depth[t]] /\ Top(t) \in Frames
      /\ Top(t).pc = "enter" /\ Top(t).op # "none" /\ e \in Edges
  BY <1>1, AtLabel DEF Enter
<1>3. Top(t).op = "send"
  BY <1>1, <1>2 DEF KindInv, ClosePCs, Frames
<1>4. ~Owning(Top(t)) /\ ~WillSettle(Top(t)) BY <1>2, <1>3 DEF Owning, WillSettle
<1>5. closing' \in [Edges -> BOOLEAN] BY <1>1 DEF TypeOK, Enter
<1>6. CASE /\ owner[e] = Nobody
           /\ owner' = [owner EXCEPT ![e] = t]
           /\ Goto(t, "commit")
  <2> DEFINE g == G("commit")
  <2>1. /\ g \in Frames /\ Moved(t, g) /\ depth' = depth /\ calls' = calls
        /\ g.op = Top(t).op /\ g.edge = e /\ g.pc = "commit"
    BY <1>1, <1>2, <1>6, GotoMoves DEF SendPCs
  <2> HIDE DEF g
  <2>2. Continues(t, g) BY <1>2, <1>3, <2>1 DEF Continues, KindOK, SendPCs
  <2>3. Sleeps(t, g) BY <2>1 DEF Sleeps
  <2>4. Takes(t, g) BY <1>4, <1>6, <2>1 DEF Takes, Owning
  <2>5. g.pc \notin {"observing", "advance", "publish", "sealed"} BY <2>1
  <2> QED BY <1>2, <1>4, <1>5, <2>1, <2>2, <2>3, <2>4, <2>5, QuietStep DEF Enter
<1>7. CASE /\ owner[e] \notin {Nobody, t} /\ owner' = owner
           /\ Goto(t, "asleep")
  <2> DEFINE g == G("asleep")
  <2>1. /\ g \in Frames /\ Moved(t, g) /\ depth' = depth /\ calls' = calls
        /\ g.op = Top(t).op /\ g.edge = e /\ g.pc = "asleep"
    BY <1>1, <1>2, <1>7, GotoMoves DEF SendPCs
  <2> HIDE DEF g
  <2>2. Continues(t, g) BY <1>2, <1>3, <2>1 DEF Continues, KindOK, SendPCs
  <2>3. Sleeps(t, g) BY <1>7, <2>1 DEF Sleeps
  <2>4. Keeps(t, g) BY <1>4, <1>7, <2>1 DEF Keeps, Owning
  <2>5. g.pc \notin {"observing", "advance", "publish", "sealed"} BY <2>1
  <2> QED BY <1>2, <1>4, <1>5, <2>1, <2>2, <2>3, <2>4, <2>5, QuietStep DEF Enter
<1>8. CASE Return(t) /\ owner' = owner
  BY <1>1, <1>8, EarlyReturn DEF Enter, ingress
<1> QED BY <1>6, <1>7, <1>8 DEF Enter

\* A larger number at the end keeps a sequence increasing.
LEMMA AppendIncreasing ==
    ASSUME NEW s \in Seq(1 .. DoneEvent), NEW n \in 1 .. DoneEvent, Increasing(s),
           \A i \in 1 .. Len(s) : s[i] < n
    PROVE  /\ Append(s, n) \in Seq(1 .. DoneEvent) /\ Increasing(Append(s, n))
           /\ \A i \in 1 .. Len(Append(s, n)) : Append(s, n)[i] <= n
<1>0. DoneEvent \in Nat BY DEF DoneEvent, Done
<1>1. /\ Append(s, n) \in Seq(1 .. DoneEvent) /\ Len(Append(s, n)) = Len(s) + 1
      /\ \A i \in 1 .. Len(s) : Append(s, n)[i] = s[i]
      /\ Append(s, n)[Len(s) + 1] = n
  OBVIOUS
<1>2. \A i \in 1 .. Len(s) : s[i] \in 1 .. DoneEvent BY ElementOfSeq
<1>3. Len(s) \in Nat OBVIOUS
<1>4. \A i \in 1 .. Len(Append(s, n)) : Append(s, n)[i] <= n BY <1>0, <1>1, <1>2, <1>3
<1>5. ASSUME NEW i \in 1 .. Len(Append(s, n)), NEW j \in 1 .. Len(Append(s, n)), i < j
      PROVE  Append(s, n)[i] < Append(s, n)[j]
  <2>1. CASE j = Len(s) + 1 BY <1>1, <1>3, <1>5, <2>1
  <2>2. CASE j # Len(s) + 1 BY <1>1, <1>3, <1>5, <2>2 DEF Increasing
  <2> QED BY <2>1, <2>2
<1> QED BY <1>1, <1>4, <1>5 DEF Increasing

DispatchPCs == {"commit", "observing", "advance", "publish", "announced", "release"}

\* A send that owns its input goes on, and keeps it.
LEMMA DispatchGoto ==
    ASSUME IInv, NEW t \in Threads, At(t, DispatchPCs),
           NEW label \in (DispatchPCs \ {"commit"}) \cup {"swap"}, Goto(t, label), owner' = owner
    PROVE  LET g == [Top(t) EXCEPT !.pc = label] IN
           /\ depth[t] \in Depths /\ Top(t) = frame[t][depth[t]] /\ Top(t) \in Frames
           /\ Top(t).edge \in Edges /\ Top(t).ts \in 1 .. LastTimestamp
           /\ Owning(Top(t)) /\ ~WillSettle(Top(t))
           /\ g \in Frames /\ Moved(t, g) /\ calls' = calls
           /\ g.edge = Top(t).edge /\ g.ts = Top(t).ts /\ g.pc = label
           /\ Control'
           /\ frame' \in [Threads -> [Depths -> Frames]]
           /\ depth' \in [Threads -> 0 .. MaxDepth]
           /\ owner' \in [Edges -> Threads \cup {Nobody}]
<1> DEFINE g == [Top(t) EXCEPT !.pc = label]
<1>1. TypeOK /\ StackInv /\ KindInv /\ "none" \notin DispatchPCs BY DEF IInv, DispatchPCs
<1>2. /\ depth[t] \in Depths /\ Top(t) = frame[t][depth[t]] /\ Top(t) \in Frames
      /\ Top(t).pc \in DispatchPCs /\ Top(t).op # "none" /\ Top(t).edge \in Edges
  BY <1>1, AtLabel
<1>3. Top(t).op = "send" /\ Top(t).ts \in 1 .. LastTimestamp
  BY <1>1, <1>2 DEF KindInv, ClosePCs, DispatchPCs, Frames
<1>4. label \in SendPCs BY DEF SendPCs, DispatchPCs
<1>5. /\ g \in Frames /\ Moved(t, g) /\ depth' = depth /\ calls' = calls
      /\ g.op = Top(t).op /\ g.edge = Top(t).edge /\ g.ts = Top(t).ts /\ g.pc = label
  BY <1>1, <1>2, <1>4, GotoMoves
<1> HIDE DEF g
<1>6. Owning(Top(t)) /\ Owning(g) BY <1>2, <1>5 DEF Owning, DispatchPCs
<1>7. ~WillSettle(Top(t)) BY <1>2, <1>3 DEF WillSettle, DispatchPCs
<1>8. Continues(t, g) BY <1>2, <1>3, <1>4, <1>5 DEF Continues, KindOK, DispatchPCs
<1>9. Sleeps(t, g) BY <1>5 DEF Sleeps, DispatchPCs
<1>10. Keeps(t, g) BY <1>5, <1>6 DEF Keeps
<1>11. /\ Control'
       /\ frame' \in [Threads -> [Depths -> Frames]]
       /\ depth' \in [Threads -> 0 .. MaxDepth]
       /\ owner' \in [Edges -> Threads \cup {Nobody}]
  BY <1>2, <1>5, <1>8, <1>9, <1>10, ControlStep
<1> QED BY <1>2, <1>3, <1>5, <1>6, <1>7, <1>11 DEF g

LEMMA CommitStep == ASSUME IInv, NEW t \in Threads, Commit(t) PROVE IInv'
<1>1. At(t, DispatchPCs) /\ TypeOK /\ owner' = owner
  BY DEF Commit, At, DispatchPCs, IInv, ingress
<1>2. CASE Goto(t, "release") /\ UNCHANGED <<lastSent, events>>
  <2> DEFINE g == [Top(t) EXCEPT !.pc = "release"]
  <2>1. /\ depth[t] \in Depths /\ ~WillSettle(Top(t))
        /\ g \in Frames /\ Moved(t, g) /\ calls' = calls /\ g.pc = "release"
        /\ Control'
        /\ frame' \in [Threads -> [Depths -> Frames]]
        /\ depth' \in [Threads -> 0 .. MaxDepth]
        /\ owner' \in [Edges -> Threads \cup {Nobody}]
    BY <1>1, <1>2, DispatchGoto DEF DispatchPCs
  <2> HIDE DEF g
  <2>2. UNCHANGED <<state, stopped, closing, closed, lastSent, observer, consumer>>
    BY <1>2 DEF Commit, ingress, observer
  <2>3. EventInv' BY <2>1, <2>2, SilentStep DEF consumer
  <2>4. SettleInv' BY <2>1, <2>2, SettleStep
  <2>5. DrainInv' BY <2>2 DEF IInv, DrainInv, consumer
  <2>6. TypeOK' BY <1>1, <2>1, <2>2 DEF TypeOK, observer, consumer
  <2> QED BY <2>1, <2>3, <2>4, <2>5, <2>6 DEF IInv, Control
<1>3. CASE /\ ~closed[Top(t).edge] /\ Top(t).ts > lastSent[Top(t).edge]
           /\ lastSent' = [lastSent EXCEPT ![Top(t).edge] = Top(t).ts]
           /\ events' = [events EXCEPT ![Top(t).edge] = Append(@, PacketEvent(Top(t).ts))]
           /\ Goto(t, "observing")
  <2> DEFINE g == [Top(t) EXCEPT !.pc = "observing"]
  <2>1. /\ depth[t] \in Depths /\ Owning(Top(t)) /\ ~WillSettle(Top(t))
        /\ Top(t).edge \in Edges /\ Top(t).ts \in 1 .. LastTimestamp
        /\ g \in Frames /\ Moved(t, g) /\ calls' = calls /\ g.pc = "observing"
        /\ g.edge = Top(t).edge /\ g.ts = Top(t).ts
        /\ Control'
        /\ frame' \in [Threads -> [Depths -> Frames]]
        /\ depth' \in [Threads -> 0 .. MaxDepth]
        /\ owner' \in [Edges -> Threads \cup {Nobody}]
    BY <1>1, <1>3, DispatchGoto DEF DispatchPCs
  <2> HIDE DEF g
  <2>2. PICK e \in Edges : e = Top(t).edge BY <2>1
  <2>3. PICK ts \in 1 .. LastTimestamp : ts = Top(t).ts BY <2>1
  <2>4. PICK k \in Depths : k = depth[t] BY <2>1
  <2>5. /\ ~closed[e] /\ ts > lastSent[e]
        /\ lastSent' = [lastSent EXCEPT ![e] = ts]
        /\ events' = [events EXCEPT ![e] = Append(@, PacketEvent(ts))]
        /\ UNCHANGED <<state, stopped, closing, closed, lastBound, consumer>>
    BY <1>3, <2>2, <2>3 DEF Commit, ingress
  <2>6. Told(e) BY EventParts DEF IInv
  <2>7. /\ PacketEvent(ts) \in 1 .. DoneEvent
        /\ \A i \in 1 .. Len(events[e]) : events[e][i] < PacketEvent(ts)
        /\ events[e] \in Seq(1 .. DoneEvent) /\ lastSent[e] \in 0 .. LastTimestamp
    <3>1. PacketEvent(ts) \in 1 .. DoneEvent BY DEF PacketEvent, DoneEvent, Done
    <3>2. events[e] \in Seq(1 .. DoneEvent) /\ lastSent[e] \in 0 .. LastTimestamp
      BY <1>1 DEF TypeOK
    <3>3. ASSUME NEW i \in 1 .. Len(events[e]) PROVE events[e][i] < PacketEvent(ts)
      <4>1. events[e][i] \in 1 .. DoneEvent BY <3>2, ElementOfSeq
      <4>2. events[e][i] <= BoundEvent(lastSent[e]) BY <2>5, <2>6 DEF Told
      <4> QED BY <2>5, <3>2, <4>1, <4>2 DEF PacketEvent, BoundEvent
    <3> QED BY <3>1, <3>2, <3>3
  <2>8. /\ events'[e] \in Seq(1 .. DoneEvent) /\ Increasing(events'[e])
        /\ \A i \in 1 .. Len(events'[e]) : events'[e][i] <= PacketEvent(ts)
        /\ lastSent'[e] = ts
    BY <1>1, <2>5, <2>6, <2>7, AppendIncreasing DEF Told, TypeOK
  <2>9. /\ lastBound'[e] <= ts + 1 /\ inputBound'[e] <= ts
    BY <1>1, <2>5, <2>6, <2>7 DEF Told, TypeOK, consumer
  <2>10. Told(e)'
    <3>1. \A i \in 1 .. Len(events'[e]) : events'[e][i] <= BoundEvent(ts)
      BY <2>8, <2>7 DEF PacketEvent, BoundEvent, DoneEvent, Done
    <3> QED BY <1>1, <2>5, <2>8, <2>9, <3>1 DEF Told, TypeOK, consumer
  <2>11. Knows(frame[t][k])'
    <3>1. frame'[t][k] = g BY <2>1, <2>4 DEF Moved
    <3>2. g.edge = e /\ g.ts = ts BY <2>1, <2>2, <2>3
    <3> QED BY <2>1, <2>5, <2>8, <2>9, <3>1, <3>2 DEF Knows
  <2>12. TouchesOnly(e) BY <1>1, <2>5 DEF TouchesOnly, TypeOK, consumer
  <2>13. EventInv' BY <2>1, <2>2, <2>4, <2>10, <2>11, <2>12, EventStep
  <2>14. SettleInv' BY <2>1, <2>5, SettleStep
  <2>15. DrainInv' BY <2>5 DEF IInv, DrainInv, consumer
  <2>16. TypeOK'
    <3>1. lastSent' \in [Edges -> 0 .. LastTimestamp] BY <1>1, <2>5 DEF TypeOK
    <3>2. events' \in [Edges -> Seq(1 .. DoneEvent)] BY <1>1, <2>5, <2>8 DEF TypeOK
    <3> QED BY <1>1, <2>1, <2>5, <3>1, <3>2 DEF TypeOK, consumer
  <2> QED BY <2>1, <2>13, <2>14, <2>15, <2>16 DEF IInv, Control
<1> QED BY <1>2, <1>3 DEF Commit

LEMMA EnqueueStep == ASSUME IInv, NEW t \in Threads, Enqueue(t) PROVE IInv'
<1>1. At(t, DispatchPCs) /\ TypeOK /\ owner' = owner /\ Top(t).pc = "observing"
  BY DEF Enqueue, At, DispatchPCs, IInv, ingress
<1>2. PICK label \in {"advance", "publish"} :
         /\ Goto(t, label)
         /\ \/ UNCHANGED <<queue, total>>
            \/ /\ ~stopped /\ total' = total + 1
               /\ queue' = [queue EXCEPT ![Top(t).edge] = Append(@, Top(t).ts)]
  BY DEF Enqueue
<1> DEFINE g == [Top(t) EXCEPT !.pc = label]
<1>3. /\ depth[t] \in Depths /\ Top(t) = frame[t][depth[t]]
      /\ Owning(Top(t)) /\ ~WillSettle(Top(t))
      /\ Top(t).edge \in Edges /\ Top(t).ts \in 1 .. LastTimestamp
      /\ g \in Frames /\ Moved(t, g) /\ calls' = calls /\ g.pc = label
      /\ g.edge = Top(t).edge /\ g.ts = Top(t).ts
      /\ Control'
      /\ frame' \in [Threads -> [Depths -> Frames]]
      /\ depth' \in [Threads -> 0 .. MaxDepth]
      /\ owner' \in [Edges -> Threads \cup {Nobody}]
  BY <1>1, <1>2, DispatchGoto DEF DispatchPCs
<1> HIDE DEF g
<1>4. PICK e \in Edges : e = Top(t).edge BY <1>3
<1>5. PICK k \in Depths : k = depth[t] BY <1>3
<1>6. UNCHANGED <<state, stopped, closing, closed, lastSent, events, lastBound,
                  inputBound, inputClosed, drained>>
  BY DEF Enqueue, ingress, observer
<1>7. Told(e) /\ Knows(Top(t)) BY <1>3, EventParts DEF IInv
<1>8. Told(e)' BY <1>6, <1>7 DEF Told
<1>9. Knows(frame[t][k])'
  <2>1. frame'[t][k] = g BY <1>3, <1>5 DEF Moved
  <2> QED BY <1>1, <1>3, <1>4, <1>6, <1>7, <2>1 DEF Knows
<1>10. TouchesOnly(e) BY <1>6 DEF TouchesOnly
<1>11. EventInv' BY <1>3, <1>4, <1>5, <1>8, <1>9, <1>10, EventStep
<1>12. SettleInv' BY <1>3, <1>6, SettleStep
<1>13. DrainInv' BY <1>2, <1>6 DEF IInv, DrainInv
<1>14. queue' \in [Edges -> Seq(1 .. LastTimestamp)] /\ total' \in Nat
  <2>1. /\ queue \in [Edges -> Seq(1 .. LastTimestamp)] /\ total \in Nat
        /\ queue[e] \in Seq(1 .. LastTimestamp)
    BY <1>1 DEF TypeOK
  <2>2. Append(queue[e], Top(t).ts) \in Seq(1 .. LastTimestamp) BY <1>3, <2>1
  <2>3. CASE UNCHANGED <<queue, total>> BY <2>1, <2>3
  <2>4. CASE /\ total' = total + 1
             /\ queue' = [queue EXCEPT ![e] = Append(@, Top(t).ts)]
    <3>1. total' \in Nat BY <2>1, <2>4
    <3>2. queue' = [queue EXCEPT ![e] = Append(queue[e], Top(t).ts)] BY <2>4
    <3> HIDE <2>4
    <3>3. queue' \in [Edges -> Seq(1 .. LastTimestamp)] BY <2>1, <2>2, <3>2
    <3> QED BY <3>1, <3>3
  <2> QED BY <1>2, <1>4, <2>3, <2>4
<1>15. TypeOK' BY <1>1, <1>3, <1>6, <1>14 DEF TypeOK
<1> QED BY <1>3, <1>11, <1>12, <1>13, <1>15 DEF IInv, Control

\* A bound that is raised takes the larger of the two values.
LEMMA RaiseFacts ==
    ASSUME NEW b \in [Edges -> 0 .. Done], NEW e \in Edges, NEW n \in 0 .. Done
    PROVE  /\ Raise(b, e, n) \in [Edges -> 0 .. Done]
           /\ Raise(b, e, n)[e] = IF n > b[e] THEN n ELSE b[e]
           /\ \A x \in Edges \ {e} : Raise(b, e, n)[x] = b[x]
BY DEF Raise, Done

LEMMA AdvanceStep == ASSUME IInv, NEW t \in Threads, Advance(t) PROVE IInv'
<1>1. At(t, DispatchPCs) /\ TypeOK /\ owner' = owner /\ Top(t).pc = "advance"
  BY DEF Advance, At, DispatchPCs, IInv, ingress
<1> DEFINE g == [Top(t) EXCEPT !.pc = "publish"]
<1>3. /\ depth[t] \in Depths /\ Top(t) = frame[t][depth[t]]
      /\ Owning(Top(t)) /\ ~WillSettle(Top(t))
      /\ Top(t).edge \in Edges /\ Top(t).ts \in 1 .. LastTimestamp
      /\ g \in Frames /\ Moved(t, g) /\ calls' = calls /\ g.pc = "publish"
      /\ g.edge = Top(t).edge /\ g.ts = Top(t).ts
      /\ Control'
      /\ frame' \in [Threads -> [Depths -> Frames]]
      /\ depth' \in [Threads -> 0 .. MaxDepth]
      /\ owner' \in [Edges -> Threads \cup {Nobody}]
  BY <1>1, DispatchGoto DEF DispatchPCs, Advance
<1> HIDE DEF g
<1>4. PICK e \in Edges : e = Top(t).edge BY <1>3
<1>5. PICK k \in Depths : k = depth[t] BY <1>3
<1>6. /\ UNCHANGED <<state, stopped, closing, closed, lastSent, events, lastBound,
                     queue, total, inputClosed, drained>>
      /\ inputBound' = Raise(inputBound, e, Top(t).ts + 1)
  BY <1>4 DEF Advance, ingress, observer
<1>7. Told(e) /\ Knows(Top(t)) BY <1>3, EventParts DEF IInv
<1>8. /\ inputBound' \in [Edges -> 0 .. Done]
      /\ inputBound'[e] = IF Top(t).ts + 1 > inputBound[e] THEN Top(t).ts + 1 ELSE inputBound[e]
      /\ \A x \in Edges \ {e} : inputBound'[x] = inputBound[x]
  <2>1. Top(t).ts + 1 \in 0 .. Done BY <1>3 DEF Done
  <2>2. inputBound \in [Edges -> 0 .. Done] BY <1>1 DEF TypeOK
  <2> QED BY <1>6, <2>1, <2>2, RaiseFacts
<1>9. Told(e)'
  <2>1. Top(t).ts = lastSent[e] /\ lastSent[e] \in Nat /\ inputBound[e] \in Int
    BY <1>1, <1>4, <1>7 DEF Knows, TypeOK
  <2>2. ~closed[e] => inputBound'[e] <= lastSent[e] + 1
    BY <1>7, <1>8, <2>1 DEF Told
  <2> QED BY <1>6, <1>7, <2>2 DEF Told
<1>10. Knows(frame[t][k])'
  <2>1. frame'[t][k] = g BY <1>3, <1>5 DEF Moved
  <2> QED BY <1>1, <1>3, <1>4, <1>6, <1>7, <2>1 DEF Knows
<1>11. TouchesOnly(e) BY <1>6, <1>8 DEF TouchesOnly
<1>12. EventInv' BY <1>3, <1>4, <1>5, <1>9, <1>10, <1>11, EventStep
<1>13. SettleInv' BY <1>3, <1>6, SettleStep
<1>14. DrainInv' BY <1>6 DEF IInv, DrainInv
<1>15. TypeOK' BY <1>1, <1>3, <1>6, <1>8 DEF TypeOK
<1> QED BY <1>3, <1>12, <1>13, <1>14, <1>15 DEF IInv, Control

\* What an announcement adds: an event above all earlier ones, or nothing.
LEMMA AnnounceFacts ==
    ASSUME TypeOK, NEW e \in Edges, NEW bound \in 0 .. Done, NEW event \in 1 .. DoneEvent,
           Announce(e, bound, event), Increasing(events[e]),
           \A i \in 1 .. Len(events[e]) : events[e][i] < event
    PROVE  /\ events' \in [Edges -> Seq(1 .. DoneEvent)] /\ lastBound' \in [Edges -> 0 .. Done]
           /\ Increasing(events'[e]) /\ lastBound'[e] \in {lastBound[e], bound}
           /\ \A i \in 1 .. Len(events'[e]) : events'[e][i] <= event
           /\ \A x \in Edges \ {e} : events'[x] = events[x] /\ lastBound'[x] = lastBound[x]
<1>0. /\ DoneEvent \in Nat /\ events[e] \in Seq(1 .. DoneEvent)
      /\ \A i \in 1 .. Len(events[e]) : events[e][i] \in 1 .. DoneEvent
  BY ElementOfSeq DEF DoneEvent, Done, TypeOK
<1>1. CASE bound > lastBound[e]
  <2>1. /\ Append(events[e], event) \in Seq(1 .. DoneEvent)
        /\ Increasing(Append(events[e], event))
        /\ \A i \in 1 .. Len(Append(events[e], event)) : Append(events[e], event)[i] <= event
    BY <1>0, AppendIncreasing
  <2>2. /\ lastBound' = [lastBound EXCEPT ![e] = bound]
        /\ events' = [events EXCEPT ![e] = Append(@, event)]
    BY <1>1 DEF Announce
  <2>3. lastBound' \in [Edges -> 0 .. Done] /\ lastBound'[e] = bound
    BY <2>2 DEF TypeOK
  <2>4. events'[e] = Append(events[e], event) BY <2>2 DEF TypeOK
  <2>5. events' \in [Edges -> Seq(1 .. DoneEvent)] BY <2>1, <2>2 DEF TypeOK
  <2>6. \A x \in Edges \ {e} : events'[x] = events[x] /\ lastBound'[x] = lastBound[x]
    BY <2>2 DEF TypeOK
  <2> QED BY <2>1, <2>3, <2>4, <2>5, <2>6
<1>2. CASE ~(bound > lastBound[e])
  <2>1. UNCHANGED <<events, lastBound>> BY <1>2 DEF Announce, observer
  <2>2. \A i \in 1 .. Len(events[e]) : events[e][i] <= event BY <1>0
  <2> QED BY <2>1, <2>2 DEF TypeOK
<1> QED BY <1>1, <1>2

LEMMA PublishStep == ASSUME IInv, NEW t \in Threads, Publish(t) PROVE IInv'
<1>1. At(t, DispatchPCs) /\ TypeOK /\ owner' = owner /\ Top(t).pc = "publish"
  BY DEF Publish, At, DispatchPCs, IInv, ingress
<1> DEFINE g == [Top(t) EXCEPT !.pc = "announced"]
<1>3. /\ depth[t] \in Depths /\ Top(t) = frame[t][depth[t]]
      /\ Owning(Top(t)) /\ ~WillSettle(Top(t))
      /\ Top(t).edge \in Edges /\ Top(t).ts \in 1 .. LastTimestamp
      /\ g \in Frames /\ Moved(t, g) /\ calls' = calls /\ g.pc = "announced"
      /\ Control'
      /\ frame' \in [Threads -> [Depths -> Frames]]
      /\ depth' \in [Threads -> 0 .. MaxDepth]
      /\ owner' \in [Edges -> Threads \cup {Nobody}]
  BY <1>1, DispatchGoto DEF DispatchPCs, Publish
<1> HIDE DEF g
<1>4. PICK e \in Edges : e = Top(t).edge BY <1>3
<1>5. PICK k \in Depths : k = depth[t] BY <1>3
<1>6. PICK ts \in 1 .. LastTimestamp : ts = Top(t).ts BY <1>3
<1>7. /\ UNCHANGED <<state, stopped, closing, closed, lastSent,
                     queue, total, inputBound, inputClosed, drained>>
      /\ Announce(e, ts + 1, BoundEvent(ts))
  BY <1>4, <1>6 DEF Publish, ingress, consumer
<1>8. Told(e) /\ Knows(Top(t)) BY <1>3, EventParts DEF IInv
<1>9. ts + 1 \in 0 .. Done /\ BoundEvent(ts) \in 1 .. DoneEvent
  BY DEF Done, BoundEvent, DoneEvent
<1>10. \A i \in 1 .. Len(events[e]) : events[e][i] < BoundEvent(ts)
  <2> SUFFICES ASSUME NEW i \in 1 .. Len(events[e]) PROVE events[e][i] < BoundEvent(ts)
    OBVIOUS
  <2>1. events[e][i] \in 1 .. DoneEvent BY <1>1, ElementOfSeq DEF TypeOK
  <2>2. events[e][i] <= PacketEvent(ts) BY <1>1, <1>4, <1>6, <1>8 DEF Knows
  <2> QED BY <2>1, <2>2 DEF PacketEvent, BoundEvent
<1>11. ~closed[e] /\ ts = lastSent[e] BY <1>1, <1>4, <1>6, <1>8 DEF Knows
<1>12. /\ events' \in [Edges -> Seq(1 .. DoneEvent)] /\ lastBound' \in [Edges -> 0 .. Done]
       /\ Increasing(events'[e]) /\ lastBound'[e] \in {lastBound[e], ts + 1}
       /\ \A i \in 1 .. Len(events'[e]) : events'[e][i] <= BoundEvent(ts)
       /\ \A x \in Edges \ {e} : events'[x] = events[x] /\ lastBound'[x] = lastBound[x]
  BY <1>1, <1>7, <1>8, <1>9, <1>10, AnnounceFacts DEF Told
<1>13. Told(e)' BY <1>1, <1>7, <1>8, <1>11, <1>12 DEF Told, TypeOK
<1>14. Knows(frame[t][k])'
  <2>1. frame'[t][k] = g BY <1>3, <1>5 DEF Moved
  <2> QED BY <1>3, <2>1 DEF Knows
<1>15. TouchesOnly(e) BY <1>7, <1>12 DEF TouchesOnly
<1>16. EventInv' BY <1>3, <1>4, <1>5, <1>13, <1>14, <1>15, EventStep
<1>17. SettleInv' BY <1>3, <1>7, SettleStep
<1>18. DrainInv' BY <1>7 DEF IInv, DrainInv
<1>19. TypeOK' BY <1>1, <1>3, <1>7, <1>12 DEF TypeOK
<1> QED BY <1>3, <1>16, <1>17, <1>18, <1>19 DEF IInv, Control

LEMMA ReleaseStep == ASSUME IInv, NEW t \in Threads, Release(t) PROVE IInv'
<1>1. At(t, DispatchPCs) /\ TypeOK /\ StackInv /\ KindInv /\ "none" \notin DispatchPCs
  BY DEF Release, At, DispatchPCs, IInv
<1>2. CASE Goto(t, "swap") /\ UNCHANGED owner
  <2> DEFINE g == [Top(t) EXCEPT !.pc = "swap"]
  <2>1. /\ depth[t] \in Depths /\ ~WillSettle(Top(t))
        /\ g \in Frames /\ Moved(t, g) /\ calls' = calls /\ g.pc = "swap"
        /\ Control'
        /\ frame' \in [Threads -> [Depths -> Frames]]
        /\ depth' \in [Threads -> 0 .. MaxDepth]
        /\ owner' \in [Edges -> Threads \cup {Nobody}]
    BY <1>1, <1>2, DispatchGoto
  <2> HIDE DEF g
  <2>2. UNCHANGED <<state, stopped, closing, closed, lastSent, observer, consumer>>
    BY DEF Release
  <2>3. EventInv' BY <2>1, <2>2, SilentStep DEF consumer
  <2>4. SettleInv' BY <2>1, <2>2, SettleStep
  <2>5. DrainInv' BY <2>2 DEF IInv, DrainInv, consumer
  <2>6. TypeOK' BY <1>1, <2>1, <2>2 DEF TypeOK, observer, consumer
  <2> QED BY <2>1, <2>3, <2>4, <2>5, <2>6 DEF IInv, Control
<1>3. CASE /\ owner' = [owner EXCEPT ![Top(t).edge] = Nobody]
           /\ frame' = [NotifyAll(Top(t).edge) EXCEPT ![t][depth[t]] = NoFrame]
           /\ depth' = [depth EXCEPT ![t] = @ - 1]
           /\ UNCHANGED calls
  <2>1. /\ depth[t] \in Depths /\ Top(t) = frame[t][depth[t]] /\ Top(t) \in Frames
        /\ Top(t).pc \in {"announced", "release"} /\ Top(t).op # "none" /\ Top(t).edge \in Edges
    BY <1>1, AtLabel DEF Release, At
  <2>2. /\ Moved(t, NoFrame)
        /\ \A u \in Threads, d \in Depths : u # t \/ d # depth[t] =>
              (frame'[u][d].pc \in {"asleep", "await"} => frame'[u][d].edge # Top(t).edge)
    BY <1>1, <1>3, <2>1, NoFrameType, MovedByNotify
  <2>3. Continues(t, NoFrame) BY <1>3 DEF Continues, KindOK, NoFrame
  <2>4. Sleeps(t, NoFrame) BY DEF Sleeps, NoFrame
  <2>5. Gives(t, NoFrame) BY <1>3, <2>1, <2>2 DEF Gives, Owning, NoFrame
  <2>6. ~WillSettle(Top(t))
    BY <1>1, <2>1 DEF WillSettle, KindInv, ClosePCs
  <2>7. closing' \in [Edges -> BOOLEAN] BY <1>1 DEF TypeOK, Release
  <2>8. NoFrame.pc \notin {"observing", "advance", "publish", "sealed"} BY DEF NoFrame
  <2> QED BY <1>3, <2>1, <2>2, <2>3, <2>4, <2>5, <2>6, <2>7, <2>8, NoFrameType, QuietStep
      DEF Release
<1> QED BY <1>2, <1>3 DEF Release

---------------------------------------------------------------------------
(* The actions of close.                                                   *)

LEMMA NextInputFacts ==
    ASSUME NEW f \in Frames, f.op = "close"
    PROVE  /\ NextInput(f) \in Frames /\ NextInput(f).op = "close"
           /\ NextInput(f).pc \in {"request", "settle"}
<1>1. /\ f.edge \in Edges /\ f.last \in Edges /\ f.op \in {"send", "close", "none"}
      /\ f.blocking \in BOOLEAN /\ f.ts \in 1 .. LastTimestamp
  BY DEF Frames
<1>2. f.edge < f.last => f.edge + 1 \in Edges BY <1>1 DEF Edges
<1>3. CASE f.edge < f.last
  <2>1. NextInput(f) = [f EXCEPT !.edge = f.edge + 1, !.pc = "request"]
    BY <1>3 DEF NextInput
  <2> QED BY <1>2, <1>3, <2>1 DEF Frames, ClosePCs
<1>4. CASE ~(f.edge < f.last)
  <2>1. NextInput(f) = [f EXCEPT !.pc = "settle"] BY <1>4 DEF NextInput
  <2> QED BY <2>1 DEF Frames, ClosePCs
<1> QED BY <1>3, <1>4

LEMMA RequestStep == ASSUME IInv, NEW t \in Threads, Request(t) PROVE IInv'
<1> DEFINE e == Top(t).edge
<1>1. TypeOK /\ StackInv /\ KindInv /\ OneDispatcher /\ At(t, {"request"})
  BY DEF IInv, Request
<1>2. /\ depth[t] \in Depths /\ Top(t) = frame[t][depth[t]] /\ Top(t) \in Frames
      /\ Top(t).pc = "request" /\ Top(t).op # "none" /\ e \in Edges
  BY <1>1, AtLabel
<1>3. Top(t).op = "close"
  BY <1>1, <1>2 DEF KindInv, SendPCs, Frames
<1>4. ~Owning(Top(t)) BY <1>2 DEF Owning
<1>5. closing' \in [Edges -> BOOLEAN] BY <1>1, <1>2 DEF TypeOK, Request
<1>6. PICK g \in Frames :
         /\ g.op = "close" /\ g.pc \in {"swap", "request", "settle", "await"}
         /\ frame' = [NotifyAll(e) EXCEPT ![t][depth[t]] = g]
         /\ depth' = depth /\ calls' = calls
         /\ \/ /\ g.edge = e /\ g.pc = "swap" /\ owner[e] = Nobody
               /\ owner' = [owner EXCEPT ![e] = t]
            \/ g.pc \in {"request", "settle"} /\ owner' = owner
            \/ /\ g.edge = e /\ g.pc = "await" /\ owner[e] # Nobody /\ ~Defers(t)
               /\ owner' = owner
  <2>1. CASE /\ owner[e] = Nobody /\ owner' = [owner EXCEPT ![e] = t]
             /\ Jump(t, NotifyAll(e), "swap")
    <3> DEFINE h == [Top(t) EXCEPT !.pc = "swap"]
    <3>1. /\ h \in Frames /\ h.op = "close" /\ h.edge = e /\ h.pc = "swap"
      BY <1>2, <1>3, JumpType DEF ClosePCs
    <3>2. /\ frame' = [NotifyAll(e) EXCEPT ![t][depth[t]] = h]
          /\ depth' = depth /\ calls' = calls
      BY <2>1 DEF Jump
    <3> HIDE DEF h
    <3> QED BY <2>1, <3>1, <3>2
  <2>2. CASE /\ owner[e] # Nobody /\ ~Defers(t) /\ owner' = owner
             /\ Jump(t, NotifyAll(e), "await")
    <3> DEFINE h == [Top(t) EXCEPT !.pc = "await"]
    <3>1. /\ h \in Frames /\ h.op = "close" /\ h.edge = e /\ h.pc = "await"
      BY <1>2, <1>3, JumpType DEF ClosePCs
    <3>2. /\ frame' = [NotifyAll(e) EXCEPT ![t][depth[t]] = h]
          /\ depth' = depth /\ calls' = calls
      BY <2>2 DEF Jump
    <3> HIDE DEF h
    <3> QED BY <2>2, <3>1, <3>2
  <2>3. CASE /\ frame' = [NotifyAll(e) EXCEPT ![t][depth[t]] = NextInput(Top(t))]
             /\ UNCHANGED <<owner, depth, calls>>
    BY <1>2, <1>3, <2>3, NextInputFacts
  <2> QED BY <2>1, <2>2, <2>3 DEF Request
<1>7. Moved(t, g) BY <1>1, <1>2, <1>6, MovedByNotify
<1>8. Continues(t, g) BY <1>3, <1>6 DEF Continues, KindOK, ClosePCs
<1>9. Sleeps(t, g)
  <2>1. ~Defers(t) => \A c \in Depths : ~Owning(frame[t][c])
    <3> SUFFICES ASSUME NEW c \in Depths, Owning(frame[t][c]) PROVE Defers(t) OBVIOUS
    <3>1. frame[t][c].edge \in Edges BY <1>1 DEF TypeOK, Frames
    <3> QED BY <1>1, <3>1 DEF OneDispatcher, Defers
  <2> QED BY <1>6, <2>1 DEF Sleeps
<1>10. Keeps(t, g) \/ Takes(t, g)
  BY <1>3, <1>4, <1>6 DEF Keeps, Takes, Owning
<1>11. g.pc \notin {"observing", "advance", "publish", "sealed"} BY <1>6
<1>12. WillSettle(g) BY <1>6 DEF WillSettle
<1> QED BY <1>2, <1>5, <1>6, <1>7, <1>8, <1>9, <1>10, <1>11, <1>12, QuietStep DEF Request

LEMMA AwaitStep == ASSUME IInv, NEW t \in Threads, Await(t) PROVE IInv'
<1> DEFINE e == Top(t).edge
<1>1. TypeOK /\ StackInv /\ KindInv /\ SleepInv /\ At(t, {"awake"})
  BY DEF IInv, Await
<1>2. /\ depth[t] \in Depths /\ Top(t) = frame[t][depth[t]] /\ Top(t) \in Frames
      /\ Top(t).pc = "awake" /\ Top(t).op # "none" /\ e \in Edges
  BY <1>1, AtLabel
<1>3. Top(t).op = "close"
  BY <1>1, <1>2 DEF KindInv, SendPCs, Frames
<1>4. ~Owning(Top(t)) BY <1>2 DEF Owning
<1>5. closing' \in [Edges -> BOOLEAN] BY <1>1 DEF TypeOK, Await
<1>6. PICK label \in {"swap", "await"} :
         /\ Goto(t, label)
         /\ \/ label = "swap" /\ owner[e] = Nobody /\ owner' = [owner EXCEPT ![e] = t]
            \/ label = "await" /\ owner[e] # Nobody /\ owner' = owner
  BY DEF Await
<1> DEFINE g == [Top(t) EXCEPT !.pc = label]
<1>7. /\ g \in Frames /\ Moved(t, g) /\ depth' = depth /\ calls' = calls
      /\ g.op = "close" /\ g.edge = e /\ g.pc = label
  BY <1>1, <1>2, <1>3, <1>6, GotoMoves DEF ClosePCs
<1> HIDE DEF g
<1>8. Continues(t, g) BY <1>3, <1>6, <1>7 DEF Continues, KindOK, ClosePCs
<1>9. Sleeps(t, g) BY <1>1, <1>2, <1>6, <1>7 DEF Sleeps, SleepInv
<1>10. Keeps(t, g) \/ Takes(t, g)
  BY <1>3, <1>4, <1>6, <1>7 DEF Keeps, Takes, Owning
<1>11. g.pc \notin {"observing", "advance", "publish", "sealed"} BY <1>6, <1>7
<1>12. WillSettle(g) BY <1>7 DEF WillSettle
<1> QED BY <1>2, <1>5, <1>7, <1>8, <1>9, <1>10, <1>11, <1>12, QuietStep DEF Await

LEMMA DropStep == ASSUME IInv, NEW t \in Threads, Drop(t) PROVE IInv'
<1> DEFINE e == Top(t).edge
<1>1. TypeOK /\ StackInv /\ At(t, {"drop"}) BY DEF IInv, Drop
<1>2. /\ depth[t] \in Depths /\ Top(t) = frame[t][depth[t]] /\ Top(t) \in Frames
      /\ Top(t).pc = "drop" /\ Top(t).op \in {"send", "close"} /\ e \in Edges
  BY <1>1, AtLabel DEF Frames
<1>3. PICK g \in Frames :
         /\ frame' = [NotifyAll(e) EXCEPT ![t][depth[t]] = g]
         /\ \/ /\ Top(t).op = "send" /\ g = NoFrame
               /\ depth' = [depth EXCEPT ![t] = @ - 1]
            \/ /\ Top(t).op = "close" /\ g.op = "close" /\ depth' = depth
               /\ g.pc \in {"request", "settle"}
  <2>1. CASE Top(t).op = "send" BY <2>1, NoFrameType DEF Drop
  <2>2. CASE Top(t).op = "close" BY <1>2, <2>2, NextInputFacts DEF Drop
  <2> QED BY <1>2, <2>1, <2>2
<1>4. /\ Moved(t, g)
      /\ \A u \in Threads, d \in Depths : u # t \/ d # depth[t] =>
            (frame'[u][d].pc \in {"asleep", "await"} => frame'[u][d].edge # e)
  BY <1>1, <1>2, <1>3, MovedByNotify
<1>5. g.op \in {"close", "none"} /\ g.pc \in {"request", "settle", "none"}
      /\ (g.op = "none" <=> g.pc = "none") /\ ~Owning(g)
  BY <1>3 DEF NoFrame, Owning
<1>6. Continues(t, g) BY <1>2, <1>3, <1>5 DEF Continues, KindOK, NoFrame, ClosePCs
<1>7. Sleeps(t, g) BY <1>5 DEF Sleeps
<1>8. Gives(t, g) BY <1>2, <1>4, <1>5 DEF Gives, Owning, Drop
<1>9. WillSettle(Top(t)) => WillSettle(g)
  BY <1>2, <1>3 DEF WillSettle
<1>10. closing' \in [Edges -> BOOLEAN] /\ calls' = calls BY <1>1 DEF TypeOK, Drop
<1>11. g.pc \notin {"observing", "advance", "publish", "sealed"} BY <1>5
<1> QED BY <1>2, <1>4, <1>6, <1>7, <1>8, <1>9, <1>10, <1>11, QuietStep DEF Drop

\* A call that is committing a close goes on, and keeps the input.
LEMMA CloserGoto ==
    ASSUME IInv, NEW t \in Threads, NEW from \in {"swap", "sealed"}, At(t, {from}),
           NEW label \in {"sealed", AfterClose(t)}, Goto(t, label), owner' = owner
    PROVE  LET g == [Top(t) EXCEPT !.pc = label] IN
           /\ depth[t] \in Depths /\ Top(t) = frame[t][depth[t]] /\ Top(t).pc = from
           /\ Top(t).edge \in Edges /\ Top(t).op \in {"send", "close"} /\ Owning(Top(t))
           /\ g \in Frames /\ Moved(t, g) /\ calls' = calls
           /\ g.edge = Top(t).edge /\ g.pc = label /\ g.op = Top(t).op
           /\ Continues(t, g) /\ Sleeps(t, g) /\ Keeps(t, g)
           /\ Control'
           /\ frame' \in [Threads -> [Depths -> Frames]]
           /\ depth' \in [Threads -> 0 .. MaxDepth]
           /\ owner' \in [Edges -> Threads \cup {Nobody}]
<1> DEFINE g == [Top(t) EXCEPT !.pc = label]
<1>1. TypeOK /\ StackInv BY DEF IInv
<1>2. /\ depth[t] \in Depths /\ Top(t) = frame[t][depth[t]] /\ Top(t) \in Frames
      /\ Top(t).pc = from /\ Top(t).op # "none" /\ Top(t).edge \in Edges
  BY <1>1, AtLabel
<1>3. Top(t).op \in {"send", "close"} BY <1>2 DEF Frames
<1>4. /\ label \in {"sealed", "settle", "drop"} /\ (label = "settle" => Top(t).op = "send")
  BY <1>3 DEF AfterClose
<1>5. /\ g \in Frames /\ Moved(t, g) /\ depth' = depth /\ calls' = calls
      /\ g.op = Top(t).op /\ g.edge = Top(t).edge /\ g.pc = label
  BY <1>1, <1>2, <1>4, GotoMoves DEF SendPCs
<1> HIDE DEF g
<1>6. Owning(Top(t)) /\ Owning(g) BY <1>2, <1>4, <1>5 DEF Owning
<1>7. Continues(t, g)
  BY <1>2, <1>3, <1>4, <1>5 DEF Continues, KindOK, SendPCs, ClosePCs
<1>8. Sleeps(t, g) BY <1>4, <1>5 DEF Sleeps
<1>9. Keeps(t, g) BY <1>5, <1>6 DEF Keeps
<1>10. /\ Control'
       /\ frame' \in [Threads -> [Depths -> Frames]]
       /\ depth' \in [Threads -> 0 .. MaxDepth]
       /\ owner' \in [Edges -> Threads \cup {Nobody}]
  BY <1>2, <1>5, <1>7, <1>8, <1>9, ControlStep
<1> QED BY <1>2, <1>3, <1>5, <1>6, <1>7, <1>8, <1>9, <1>10 DEF g

LEMMA SwapStep == ASSUME IInv, NEW t \in Threads, Swap(t) PROVE IInv'
<1>1. TypeOK /\ owner' = owner /\ At(t, {"swap"}) BY DEF Swap, IInv, ingress
<1>2. CASE Goto(t, AfterClose(t)) /\ UNCHANGED <<closed, observer>>
  <2> DEFINE g == [Top(t) EXCEPT !.pc = AfterClose(t)]
  <2>1. /\ depth[t] \in Depths /\ Top(t).pc = "swap" /\ Top(t).op \in {"send", "close"}
        /\ g \in Frames /\ Moved(t, g) /\ calls' = calls
        /\ g.pc = AfterClose(t) /\ g.op = Top(t).op
        /\ Continues(t, g) /\ Sleeps(t, g) /\ Keeps(t, g)
    BY <1>1, <1>2, CloserGoto
  <2> HIDE DEF g
  <2>2. g.pc \in {"settle", "drop"} BY <2>1 DEF AfterClose
  <2>3. WillSettle(Top(t)) => WillSettle(g) BY <2>1 DEF WillSettle
  <2>4. closing' \in [Edges -> BOOLEAN] BY <1>1 DEF TypeOK, Swap, ingress
  <2> QED BY <1>2, <2>1, <2>2, <2>3, <2>4, QuietStep DEF Swap
<1>3. CASE /\ ~closed[Top(t).edge]
           /\ closed' = [closed EXCEPT ![Top(t).edge] = TRUE]
           /\ Announce(Top(t).edge, Done, DoneEvent)
           /\ Goto(t, "sealed")
  <2> DEFINE g == [Top(t) EXCEPT !.pc = "sealed"]
  <2>1. /\ depth[t] \in Depths /\ Top(t).op \in {"send", "close"} /\ Owning(Top(t))
        /\ Top(t).edge \in Edges /\ g \in Frames /\ Moved(t, g) /\ calls' = calls
        /\ g.edge = Top(t).edge /\ g.pc = "sealed" /\ g.op = Top(t).op
        /\ Control'
        /\ frame' \in [Threads -> [Depths -> Frames]]
        /\ depth' \in [Threads -> 0 .. MaxDepth]
        /\ owner' \in [Edges -> Threads \cup {Nobody}]
    BY <1>1, <1>3, CloserGoto
  <2> HIDE DEF g
  <2>2. PICK e \in Edges : e = Top(t).edge BY <2>1
  <2>3. PICK k \in Depths : k = depth[t] BY <2>1
  <2>4. /\ ~closed[e] /\ closed' = [closed EXCEPT ![e] = TRUE]
        /\ Announce(e, Done, DoneEvent)
        /\ UNCHANGED <<state, stopped, closing, lastSent, consumer>>
    BY <1>3, <2>2 DEF Swap, ingress
  <2>5. Told(e) BY EventParts DEF IInv
  <2>6. \A i \in 1 .. Len(events[e]) : events[e][i] < DoneEvent
    <3> SUFFICES ASSUME NEW i \in 1 .. Len(events[e]) PROVE events[e][i] < DoneEvent
      OBVIOUS
    <3>1. events[e][i] \in 1 .. DoneEvent /\ lastSent[e] \in 0 .. LastTimestamp
      BY <1>1, ElementOfSeq DEF TypeOK
    <3>2. events[e][i] <= BoundEvent(lastSent[e]) BY <2>4, <2>5 DEF Told
    <3> QED BY <3>1, <3>2 DEF BoundEvent, DoneEvent, Done
  <2>7. Done \in 0 .. Done /\ DoneEvent \in 1 .. DoneEvent BY DEF Done, DoneEvent
  <2>8. /\ events' \in [Edges -> Seq(1 .. DoneEvent)] /\ lastBound' \in [Edges -> 0 .. Done]
        /\ Increasing(events'[e])
        /\ \A x \in Edges \ {e} : events'[x] = events[x] /\ lastBound'[x] = lastBound[x]
    BY <1>1, <2>4, <2>5, <2>6, <2>7, AnnounceFacts DEF Told
  <2>9. closed'[e] /\ closed' \in [Edges -> BOOLEAN]
        /\ \A x \in Edges \ {e} : closed'[x] = closed[x]
    BY <1>1, <2>4 DEF TypeOK
  <2>10. Told(e)' BY <2>8, <2>9 DEF Told
  <2>11. Knows(frame[t][k])'
    <3>1. frame'[t][k] = g /\ g.edge = e BY <2>1, <2>2, <2>3 DEF Moved
    <3> QED BY <2>1, <2>9, <3>1 DEF Knows
  <2>12. TouchesOnly(e) BY <2>4, <2>8, <2>9 DEF TouchesOnly, consumer
  <2>13. EventInv' BY <2>1, <2>2, <2>3, <2>10, <2>11, <2>12, EventStep
  <2>14. SettleInv'
    <3>1. frame'[t][k] = g BY <2>1, <2>3 DEF Moved
    <3>2. WillSettle(g) BY <2>1 DEF WillSettle
    <3> QED BY <3>1, <3>2 DEF SettleInv
  <2>15. DrainInv' BY <2>4 DEF IInv, DrainInv, consumer
  <2>16. TypeOK' BY <1>1, <2>1, <2>4, <2>8, <2>9 DEF TypeOK, consumer
  <2> QED BY <2>1, <2>13, <2>14, <2>15, <2>16 DEF IInv, Control
<1> QED BY <1>2, <1>3 DEF Swap

LEMMA SealStep == ASSUME IInv, NEW t \in Threads, Seal(t) PROVE IInv'
<1>1. TypeOK /\ owner' = owner /\ At(t, {"sealed"}) BY DEF Seal, IInv, ingress
<1> DEFINE g == [Top(t) EXCEPT !.pc = AfterClose(t)]
<1>2. /\ depth[t] \in Depths /\ Top(t) = frame[t][depth[t]] /\ Top(t).pc = "sealed"
      /\ Top(t).op \in {"send", "close"} /\ Owning(Top(t))
      /\ Top(t).edge \in Edges /\ g \in Frames /\ Moved(t, g) /\ calls' = calls
      /\ g.edge = Top(t).edge /\ g.pc = AfterClose(t) /\ g.op = Top(t).op
      /\ Control'
      /\ frame' \in [Threads -> [Depths -> Frames]]
      /\ depth' \in [Threads -> 0 .. MaxDepth]
      /\ owner' \in [Edges -> Threads \cup {Nobody}]
  BY <1>1, CloserGoto DEF Seal
<1> HIDE DEF g
<1>3. PICK e \in Edges : e = Top(t).edge BY <1>2
<1>4. PICK k \in Depths : k = depth[t] BY <1>2
<1>5. /\ UNCHANGED <<state, stopped, closing, closed, lastSent, events, lastBound,
                     queue, total, drained>>
      /\ inputBound' = Raise(inputBound, e, Done)
      /\ inputClosed' = [inputClosed EXCEPT ![e] = TRUE]
  BY <1>3 DEF Seal, ingress, observer
<1>6. Told(e) /\ closed[e] BY <1>2, <1>3, EventParts DEF IInv, Knows
<1>7. /\ inputBound' \in [Edges -> 0 .. Done]
      /\ \A x \in Edges \ {e} : inputBound'[x] = inputBound[x]
  <2>1. Done \in 0 .. Done /\ inputBound \in [Edges -> 0 .. Done]
    BY <1>1 DEF Done, TypeOK
  <2> QED BY <1>5, <2>1, RaiseFacts
<1>8. Told(e)' BY <1>5, <1>6 DEF Told
<1>9. g.pc \in {"settle", "drop"} /\ WillSettle(g) BY <1>2 DEF AfterClose, WillSettle
<1>10. Knows(frame[t][k])'
  <2>1. frame'[t][k] = g BY <1>2, <1>4 DEF Moved
  <2> QED BY <1>9, <2>1 DEF Knows
<1>11. TouchesOnly(e) BY <1>5, <1>7 DEF TouchesOnly
<1>12. EventInv' BY <1>2, <1>3, <1>4, <1>8, <1>10, <1>11, EventStep
<1>13. SettleInv' BY <1>2, <1>5, <1>9, SettleStep
<1>14. DrainInv' BY <1>5 DEF IInv, DrainInv
<1>15. TypeOK' BY <1>1, <1>2, <1>5, <1>7 DEF TypeOK
<1> QED BY <1>2, <1>12, <1>13, <1>14, <1>15 DEF IInv, Control

LEMMA SettleActionStep == ASSUME IInv, NEW t \in Threads, Settle(t) PROVE IInv'
<1>1. TypeOK /\ StackInv /\ owner' = owner /\ At(t, {"settle"})
  BY DEF Settle, IInv, ingress
<1>2. /\ depth[t] \in Depths /\ Top(t) = frame[t][depth[t]] /\ Top(t) \in Frames
      /\ Top(t).pc = "settle" /\ Top(t).op \in {"send", "close"}
  BY <1>1, AtLabel DEF Frames
<1>3. PICK g \in Frames :
         /\ Moved(t, g) /\ calls' = calls
         /\ \/ /\ Top(t).op = "send" /\ g.op = "send" /\ g.pc = "drop" /\ depth' = depth
               /\ g.edge = Top(t).edge
            \/ /\ Top(t).op = "close" /\ g = NoFrame /\ g.op = "none" /\ g.pc = "none"
               /\ depth' = [depth EXCEPT ![t] = @ - 1]
  <2>1. CASE Top(t).op = "send"
    <3>1. Goto(t, "drop") BY <2>1 DEF Settle
    <3> DEFINE h == [Top(t) EXCEPT !.pc = "drop"]
    <3>2. /\ h \in Frames /\ Moved(t, h) /\ depth' = depth /\ calls' = calls
          /\ h.op = Top(t).op /\ h.edge = Top(t).edge /\ h.pc = "drop"
      BY <1>1, <1>2, <3>1, GotoMoves DEF SendPCs
    <3> HIDE DEF h
    <3> QED BY <2>1, <3>2
  <2>2. CASE Top(t).op = "close"
    <3>1. Return(t) BY <2>2 DEF Settle
    <3> QED BY <1>1, <1>2, <2>2, <3>1, ReturnMoves, NoFrameType DEF NoFrame
  <2> QED BY <1>2, <2>1, <2>2
<1>4. /\ g.op \in {"send", "none"} /\ g.pc \in {"drop", "none"}
      /\ g.op = "send" <=> g.pc = "drop"
  BY <1>3
<1>5. Continues(t, g)
  BY <1>2, <1>3, <1>4 DEF Continues, KindOK, SendPCs
<1>6. Sleeps(t, g) BY <1>4 DEF Sleeps
<1>7. Keeps(t, g) BY <1>1, <1>2, <1>3, <1>4 DEF Keeps, Owning
<1>8. /\ Control'
      /\ frame' \in [Threads -> [Depths -> Frames]]
      /\ depth' \in [Threads -> 0 .. MaxDepth]
      /\ owner' \in [Edges -> Threads \cup {Nobody}]
  BY <1>2, <1>3, <1>5, <1>6, <1>7, ControlStep
<1>9. /\ UNCHANGED <<stopped, closing, closed, lastSent, observer, consumer>>
      /\ state' = IF AllClosed THEN "Draining" ELSE state
  BY DEF Settle, ingress
<1>10. EventInv' BY <1>2, <1>3, <1>4, <1>9, SilentStep DEF consumer
<1>11. SettleInv' BY <1>9 DEF SettleInv, AllClosed
<1>12. DrainInv' BY <1>9 DEF IInv, DrainInv, consumer
<1>13. TypeOK' BY <1>1, <1>3, <1>8, <1>9 DEF TypeOK, observer, consumer
<1> QED BY <1>8, <1>10, <1>11, <1>12, <1>13 DEF IInv, Control

---------------------------------------------------------------------------
(* New calls, and the rest of the graph.                                   *)

LEMMA PushStep ==
    ASSUME IInv, NEW t \in Threads, NEW f \in Frames, Push(t, f),
           \/ f.op = "close" /\ f.pc = "request"
           \/ f.op = "send" /\ f.pc = "check",
           depth[t] = 0 \/ Pumping(Top(t)) \/ InCallback(Top(t)),
           f.op = "send" => \/ depth[t] = 0 \/ Pumping(Top(t))
                            \/ InCallback(Top(t)) /\ Top(t).edge = f.edge
    PROVE  IInv'
<1> DEFINE k == depth[t] + 1
<1>1. /\ TypeOK /\ StackInv /\ KindInv /\ OneDispatcher /\ OwnerInv /\ NestInv /\ SleepInv
      /\ SettleInv /\ DrainInv
  BY DEF IInv
<1>2. depth[t] \in 0 .. MaxDepth /\ depth[t] < MaxDepth BY <1>1 DEF TypeOK, Push
<1>3. k \in Depths BY <1>2 DEF Depths
<1>4. /\ frame' = [frame EXCEPT ![t][k] = f] /\ depth' = [depth EXCEPT ![t] = @ + 1]
      /\ calls' = calls + 1
      /\ UNCHANGED <<state, stopped, owner, closing, closed, lastSent, events, lastBound,
                     queue, total, inputBound, inputClosed, drained>>
  BY DEF Push, ingress, observer, consumer
<1>5. /\ frame' \in [Threads -> [Depths -> Frames]] /\ frame'[t][k] = f
      /\ \A u \in Threads, d \in Depths : u # t \/ d # k => frame'[u][d] = frame[u][d]
  BY <1>1, <1>3, <1>4 DEF TypeOK
<1>6. /\ depth' \in [Threads -> 0 .. MaxDepth] /\ depth'[t] = k
      /\ \A u \in Threads : u # t => depth'[u] = depth[u]
  BY <1>1, <1>2, <1>4 DEF TypeOK
<1>7. /\ frame[t][k].op = "none" /\ frame[t][k].pc = "none"
      /\ ~Owning(frame[t][k]) /\ ~WillSettle(frame[t][k])
  <2>1. frame[t][k].op = "none" BY <1>1, <1>2, <1>3 DEF StackInv
  <2>2. frame[t][k].pc = "none" BY <1>1, <1>3, <2>1 DEF KindInv
  <2> QED BY <2>1, <2>2 DEF Owning, WillSettle
<1>8. ~Owning(f) /\ f.pc \notin {"asleep", "await", "awake", "observing", "advance",
                                 "publish", "sealed"}
  BY DEF Owning
<1>9. depth[t] # 0 => depth[t] \in Depths /\ Top(t) = frame[t][depth[t]]
  BY <1>2 DEF Top, Depths
<1> HIDE DEF k
<1>10. k = depth[t] + 1 BY DEF k
<1>11. TypeOK'
  <2>1. calls' \in Nat BY <1>1, <1>4 DEF TypeOK
  <2> QED BY <1>1, <1>4, <1>5, <1>6, <2>1 DEF TypeOK
<1>12. StackInv'
  <2> SUFFICES ASSUME NEW u \in Threads, NEW d \in Depths
               PROVE  /\ d > depth'[u] <=> frame'[u][d].op = "none"
                      /\ d < depth'[u] => Pumping(frame'[u][d]) \/ InCallback(frame'[u][d])
    BY DEF StackInv
  <2>1. CASE u # t BY <1>1, <1>5, <1>6, <2>1 DEF StackInv
  <2>2. CASE u = t /\ d = k BY <1>3, <1>5, <1>6, <2>2 DEF Depths
  <2>3. CASE u = t /\ d # k
    <3>1. d > k <=> d > depth[t] BY <1>2, <1>10, <2>3 DEF Depths
    <3>2. d < k => d < depth[t] \/ d = depth[t] BY <1>2, <1>10 DEF Depths
    <3>3. CASE d = depth[t]
      <4>1. depth[t] # 0 BY <3>3 DEF Depths
      <4>2. Pumping(frame[t][d]) \/ InCallback(frame[t][d]) BY <1>9, <3>3, <4>1
      <4> QED BY <1>1, <1>5, <1>6, <2>3, <3>1, <4>2 DEF StackInv
    <3>4. CASE d # depth[t]
      BY <1>1, <1>5, <1>6, <2>3, <3>1, <3>2, <3>4 DEF StackInv
    <3> QED BY <3>3, <3>4
  <2> QED BY <2>1, <2>2, <2>3
<1>13. KindInv'
  <2> SUFFICES ASSUME NEW u \in Threads, NEW d \in Depths PROVE KindOK(frame'[u][d])
    BY DEF KindInv, KindOK
  <2>1. CASE u = t /\ d = k BY <1>5, <2>1 DEF KindOK, SendPCs, ClosePCs
  <2>2. CASE u # t \/ d # k BY <1>1, <1>5, <2>2 DEF KindOK, KindInv
  <2> QED BY <2>1, <2>2
<1>14. \A u \in Threads, d \in Depths :
          Owning(frame'[u][d]) <=> (u # t \/ d # k) /\ Owning(frame[u][d])
  BY <1>5, <1>8
<1>15. OneDispatcher'
  BY <1>1, <1>4, <1>5, <1>14 DEF OneDispatcher
<1>16. OwnerInv'
  <2> SUFFICES ASSUME NEW e \in Edges, owner[e] # Nobody
               PROVE  \E d \in Depths : /\ Owning(frame'[owner[e]][d])
                                        /\ frame'[owner[e]][d].edge = e
    BY <1>4 DEF OwnerInv
  <2>1. PICK d \in Depths : Owning(frame[owner[e]][d]) /\ frame[owner[e]][d].edge = e
    BY <1>1 DEF OwnerInv
  <2>2. owner[e] # t \/ d # k BY <1>7, <2>1
  <2>3. owner[e] \in Threads BY <1>1 DEF TypeOK
  <2> QED BY <1>5, <2>1, <2>2, <2>3
<1>17. NestInv'
  <2> SUFFICES ASSUME NEW u \in Threads, NEW c \in Depths, NEW d \in Depths,
                      c < d, frame'[u][d].op = "send"
               PROVE  \/ Pumping(frame'[u][c])
                      \/ /\ frame'[u][d].pc = "check"
                         /\ \/ c < d - 1
                            \/ /\ InCallback(frame'[u][c])
                               /\ frame'[u][c].edge = frame'[u][d].edge
    BY DEF NestInv
  <2>1. CASE u # t \/ (c # k /\ d # k) BY <1>1, <1>5, <2>1 DEF NestInv
  <2>2. CASE u = t /\ c = k
    <3>1. d > depth[t] /\ frame'[t][d] = frame[t][d]
      BY <1>2, <1>5, <1>10, <2>2 DEF Depths
    <3> QED BY <1>1, <2>2, <3>1 DEF StackInv
  <2>3. CASE u = t /\ d = k
    <3>1. frame'[t][c] = frame[t][c] /\ f.pc = "check" BY <1>5, <2>3 DEF Depths
    <3>2. c < k - 1 \/ c = depth[t] BY <1>2, <1>10, <2>3 DEF Depths
    <3>3. CASE c = depth[t]
      <4>1. depth[t] # 0 /\ Top(t) = frame[t][c] BY <1>9, <3>3 DEF Depths
      <4> QED BY <1>5, <2>3, <3>1, <4>1
    <3> QED BY <1>5, <2>3, <3>1, <3>2, <3>3
  <2> QED BY <2>1, <2>2, <2>3
<1>18. SleepInv'
  <2> SUFFICES ASSUME NEW u \in Threads, NEW d \in Depths
               PROVE  /\ frame'[u][d].pc \in {"asleep", "await"}
                         => owner[frame'[u][d].edge] # Nobody
                      /\ frame'[u][d].pc \in {"await", "awake"}
                         => \A c \in Depths : ~Owning(frame'[u][c])
    BY <1>4 DEF SleepInv
  <2>1. CASE u = t /\ d = k BY <1>5, <1>8, <2>1
  <2>2. CASE u # t \/ d # k BY <1>1, <1>5, <1>14, <2>2 DEF SleepInv
  <2> QED BY <2>1, <2>2
<1>19. EventInv'
  <2>1. (\A x \in Edges : Told(x)) /\ \A u \in Threads, d \in Depths : Knows(frame[u][d])
    BY EventParts DEF IInv
  <2>2. \A x \in Edges : Told(x)' BY <1>4, <2>1 DEF Told
  <2>3. ASSUME NEW u \in Threads, NEW d \in Depths PROVE Knows(frame[u][d])'
    <3>1. CASE u = t /\ d = k BY <1>5, <1>8, <3>1 DEF Knows
    <3>2. CASE u # t \/ d # k
      <4>1. frame'[u][d] = frame[u][d] BY <1>5, <3>2
      <4>2. UNCHANGED <<closed, lastSent, events, inputBound>> BY <1>4
      <4>3. Knows(frame[u][d]) BY <2>1
      <4> QED BY <4>1, <4>2, <4>3 DEF Knows
    <3> QED BY <3>1, <3>2
  <2> QED BY <2>2, <2>3, EventPartsNext
<1>20. SettleInv'
  <2> SUFFICES ASSUME AllClosed, state = "Running"
               PROVE  \E u \in Threads, d \in Depths : WillSettle(frame'[u][d])
    BY <1>4 DEF SettleInv, AllClosed
  <2>1. PICK u \in Threads, d \in Depths : WillSettle(frame[u][d]) BY <1>1 DEF SettleInv
  <2>2. frame'[u][d] = frame[u][d] BY <1>5, <1>7, <2>1
  <2> QED BY <2>1, <2>2
<1>21. DrainInv' BY <1>1, <1>4 DEF DrainInv
<1> QED BY <1>11, <1>12, <1>13, <1>15, <1>16, <1>17, <1>18, <1>19, <1>20, <1>21 DEF IInv

LEMMA CallStep == ASSUME IInv, NEW t \in Threads, CallSend(t) \/ CallClose(t) PROVE IInv'
<1>1. CASE CallSend(t)
  <2>1. PICK e \in Edges, ts \in 1 .. LastTimestamp, b \in BOOLEAN :
           /\ \/ depth[t] = 0 \/ Pumping(Top(t))
              \/ InCallback(Top(t)) /\ Top(t).edge = e
           /\ Push(t, [op |-> "send", edge |-> e, last |-> e, blocking |-> b, ts |-> ts,
                       pc |-> "check"])
    BY <1>1 DEF CallSend
  <2> DEFINE f == [op |-> "send", edge |-> e, last |-> e, blocking |-> b, ts |-> ts,
                   pc |-> "check"]
  <2>2. f \in Frames /\ f.op = "send" /\ f.pc = "check" /\ f.edge = e
    BY DEF Frames, SendPCs
  <2> HIDE DEF f
  <2> QED BY <2>1, <2>2, PushStep DEF f
<1>2. CASE CallClose(t)
  <2>1. PICK r \in {<<e, e>> : e \in Edges} \cup {<<1, NumInputs>>} :
           Push(t, [op |-> "close", edge |-> r[1], last |-> r[2], blocking |-> TRUE, ts |-> 1,
                    pc |-> "request"])
    BY <1>2 DEF CallClose
  <2> DEFINE f == [op |-> "close", edge |-> r[1], last |-> r[2], blocking |-> TRUE, ts |-> 1,
                   pc |-> "request"]
  <2>2. r[1] \in Edges /\ r[2] \in Edges BY DEF Edges
  <2>3. f \in Frames /\ f.op = "close" /\ f.pc = "request" BY <2>2 DEF Frames, ClosePCs
  <2>4. depth[t] = 0 \/ Pumping(Top(t)) \/ InCallback(Top(t)) BY <1>2 DEF CallClose
  <2> HIDE DEF f
  <2> QED BY <2>1, <2>3, <2>4, PushStep DEF f
<1> QED BY <1>1, <1>2

\* Steps that leave the calls alone keep what is known about them.
LEMMA CallsKept ==
    ASSUME IInv, TypeOK',
           UNCHANGED <<state, ingress, closed, lastSent, observer, inputBound, stack>>
    PROVE  /\ StackInv' /\ KindInv' /\ OneDispatcher' /\ OwnerInv' /\ NestInv' /\ SleepInv'
           /\ EventInv' /\ SettleInv'
<1>1. UNCHANGED <<state, owner, closed, lastSent, events, lastBound, inputBound, frame, depth>>
  BY DEF ingress, observer, stack
<1>2. StackInv' /\ KindInv' /\ NestInv' BY <1>1 DEF IInv, StackInv, KindInv, NestInv
<1>3. OneDispatcher' /\ OwnerInv' /\ SleepInv'
  BY <1>1 DEF IInv, OneDispatcher, OwnerInv, SleepInv
<1>4. EventInv' BY <1>1 DEF IInv, EventInv, EventsOrdered
<1>5. SettleInv' BY <1>1 DEF IInv, SettleInv, AllClosed
<1> QED BY <1>2, <1>3, <1>4, <1>5

LEMMA DequeueStep == ASSUME IInv, NEW e \in Edges, Dequeue(e) PROVE IInv'
<1>1. TypeOK /\ DrainInv BY DEF IInv
<1>2. /\ queue[e] # <<>> /\ queue' = [queue EXCEPT ![e] = Tail(@)]
      /\ total' = IF total > 0 THEN total - 1 ELSE 0
      /\ UNCHANGED <<state, stopped, ingress, closed, lastSent, observer,
                     inputBound, inputClosed, drained, stack>>
  BY DEF Dequeue
<1>3. Tail(queue[e]) \in Seq(1 .. LastTimestamp) BY <1>1, <1>2 DEF TypeOK
<1>4. queue' \in [Edges -> Seq(1 .. LastTimestamp)] /\ total' \in Nat
  BY <1>1, <1>2, <1>3 DEF TypeOK
<1>5. TypeOK' BY <1>1, <1>2, <1>4 DEF TypeOK, ingress, observer, stack
<1>6. DrainInv'
  <2> SUFFICES ASSUME NEW x \in Edges, drained'[x] PROVE stopped' /\ queue'[x] = <<>>
    BY DEF DrainInv
  <2>1. x # e /\ stopped /\ queue[x] = <<>> BY <1>1, <1>2 DEF DrainInv
  <2> QED BY <1>1, <1>2, <2>1 DEF TypeOK
<1> QED BY <1>2, <1>5, <1>6, CallsKept DEF IInv

LEMMA CancelStep == ASSUME IInv, Cancel PROVE IInv'
<1>1. TypeOK' BY DEF IInv, TypeOK, Cancel, ingress, observer, consumer, stack
<1>2. DrainInv' BY DEF IInv, DrainInv, Cancel, consumer
<1> QED BY <1>1, <1>2, CallsKept DEF IInv, Cancel, consumer

LEMMA DiscardStep == ASSUME IInv, NEW e \in Edges, Discard(e) PROVE IInv'
<1>1. TypeOK /\ DrainInv BY DEF IInv
<1>2. /\ stopped /\ drained' = [drained EXCEPT ![e] = TRUE]
      /\ queue' = [queue EXCEPT ![e] = <<>>]
      /\ total' = IF total > Len(queue[e]) THEN total - Len(queue[e]) ELSE 0
      /\ UNCHANGED <<state, stopped, ingress, closed, lastSent, observer,
                     inputBound, inputClosed, stack>>
  BY DEF Discard
<1>3. Len(queue[e]) \in Nat BY <1>1 DEF TypeOK
<1>4. /\ queue' \in [Edges -> Seq(1 .. LastTimestamp)]
      /\ drained' \in [Edges -> BOOLEAN] /\ total' \in Nat
  BY <1>1, <1>2, <1>3 DEF TypeOK
<1>5. TypeOK' BY <1>1, <1>2, <1>4 DEF TypeOK, ingress, observer, stack
<1>6. DrainInv' BY <1>1, <1>2 DEF DrainInv, TypeOK
<1> QED BY <1>2, <1>5, <1>6, CallsKept DEF IInv

---------------------------------------------------------------------------
(* The invariant.                                                          *)

LEMMA InitInvariant == Init => IInv
<1> SUFFICES ASSUME Init PROVE IInv OBVIOUS
<1>1. \A t \in Threads, d \in Depths : frame[t][d] = NoFrame /\ depth[t] = 0
  BY DEF Init
<1>2. TypeOK
  <2>1. 0 \in 0 .. Done /\ 0 \in 0 .. LastTimestamp /\ 0 \in 0 .. MaxDepth BY DEF Done
  <2>2. <<>> \in Seq(1 .. DoneEvent) /\ <<>> \in Seq(1 .. LastTimestamp) OBVIOUS
  <2>3. frame \in [Threads -> [Depths -> Frames]] BY NoFrameType DEF Init
  <2> QED BY <2>1, <2>2, <2>3 DEF Init, TypeOK
<1>3. StackInv /\ KindInv /\ NestInv
  <2>1. NoFrame.op = "none" /\ NoFrame.pc = "none" BY DEF NoFrame
  <2>2. \A d \in Depths : d > 0 /\ ~(d < 0) BY DEF Depths
  <2> QED BY <1>1, <2>1, <2>2 DEF StackInv, KindInv, NestInv
<1>4. OneDispatcher /\ OwnerInv /\ SleepInv
  <2>1. ~Owning(NoFrame) /\ NoFrame.pc = "none" BY DEF Owning, NoFrame
  <2> QED BY <1>1, <2>1 DEF OneDispatcher, OwnerInv, SleepInv, Init
<1>5. EventInv
  <2>1. \A e \in Edges : Told(e) BY DEF Told, Init, Increasing
  <2>2. \A t \in Threads, d \in Depths : Knows(frame[t][d])
    BY <1>1 DEF Knows, NoFrame
  <2> QED BY <2>1, <2>2, EventParts
<1>6. SettleInv
  <2>1. 1 \in Edges /\ ~closed[1] BY DEF Edges, Init
  <2> QED BY <2>1 DEF SettleInv, AllClosed
<1>7. DrainInv BY DEF DrainInv, Init
<1> QED BY <1>2, <1>3, <1>4, <1>5, <1>6, <1>7 DEF IInv

LEMMA NextInvariant == IInv /\ [Next]_vars => IInv'
<1> SUFFICES ASSUME IInv, [Next]_vars PROVE IInv' OBVIOUS
<1>1. ASSUME NEW t \in Threads, Step(t) PROVE IInv'
  BY <1>1, CheckStep, WatermarkStep, PumpStep, EnterStep, CommitStep, EnqueueStep,
     AdvanceStep, PublishStep, ReleaseStep, RequestStep, AwaitStep, SwapStep, SealStep,
     SettleActionStep, DropStep DEF Step
<1>2. ASSUME NEW t \in Threads, CallSend(t) \/ CallClose(t) PROVE IInv'
  BY <1>2, CallStep
<1>3. ASSUME NEW e \in Edges, Dequeue(e) \/ Discard(e) PROVE IInv'
  BY <1>3, DequeueStep, DiscardStep
<1>4. CASE Cancel BY <1>4, CancelStep
<1>5. CASE UNCHANGED vars
  <2>1. UNCHANGED <<state, ingress, closed, lastSent, observer, inputBound, stack>>
        /\ UNCHANGED <<stopped, queue, total, inputClosed, drained>>
    BY <1>5 DEF vars, consumer
  <2>2. TypeOK' BY <2>1 DEF IInv, TypeOK, ingress, observer, stack
  <2>3. DrainInv' BY <2>1 DEF IInv, DrainInv
  <2> QED BY <2>1, <2>2, <2>3, CallsKept DEF IInv
<1> QED BY <1>1, <1>2, <1>3, <1>4, <1>5 DEF Next

---------------------------------------------------------------------------
(* Theorems.                                                               *)

\* The inductive invariant holds in every reachable state of the inputs.
THEOREM Invariance == Spec => []IInv
<1> QED BY InitInvariant, NextInvariant, PTL DEF Spec

\* Type correctness for any number of threads, inputs and nested calls.
THEOREM TypeCorrect == Spec => []TypeOK
<1>1. IInv => TypeOK BY DEF IInv
<1> QED BY <1>1, Invariance, PTL

\* An input is dispatched or closed by one call at a time, the one
\* IngressState names (IngressGuard).
THEOREM DispatchExclusive == Spec => []OneDispatcher
<1>1. IInv => OneDispatcher BY DEF IInv
<1> QED BY <1>1, Invariance, PTL

\* Observers see increasing packets and bounds and nothing after Done.
THEOREM ObserversInOrder == Spec => []EventsOrdered
<1>1. IInv => EventsOrdered BY DEF IInv, EventInv
<1> QED BY <1>1, Invariance, PTL

\* A queue emptied by a forced close stays empty.
THEOREM ForcedCloseDrains == Spec => []DrainedStaysEmpty
<1>1. IInv => DrainedStaysEmpty BY DEF IInv, DrainInv, DrainedStaysEmpty
<1> QED BY <1>1, Invariance, PTL

LEMMA QuiescentDrains == IInv => ClosedGraphDrains
<1> SUFFICES ASSUME IInv, AllClosed, \A t \in Threads : depth[t] = 0, state = "Running"
             PROVE  FALSE
  BY DEF IInv, TypeOK, ClosedGraphDrains
<1>1. PICK t \in Threads, d \in Depths : WillSettle(frame[t][d]) BY DEF IInv, SettleInv
<1>2. d > depth[t] BY DEF Depths
<1>3. frame[t][d].op = "none" BY <1>2 DEF IInv, StackInv
<1> QED BY <1>1, <1>3 DEF WillSettle

\* When every input is closed and every call has returned, the graph drains,
\* whichever call committed the last close.
THEOREM ClosesReachTheGraph == Spec => []ClosedGraphDrains
<1> QED BY QuiescentDrains, Invariance, PTL

(***************************************************************************)
(* Who sleeps waits for an owner.  That owner's running call is not one    *)
(* that sleeps: closers sleep only if they own nothing, and the calls      *)
(* around an admitted send only pump.                                      *)
(***************************************************************************)
LEMMA OwnersRun == IInv => SomeCallRuns
<1> SUFFICES ASSUME IInv, NEW t \in Threads, depth[t] > 0,
                    \A u \in Threads : depth[u] > 0 => Top(u).pc \in {"asleep", "await"}
             PROVE  FALSE
  BY DEF SomeCallRuns
<1>1. TypeOK /\ StackInv /\ KindInv /\ OwnerInv /\ NestInv /\ SleepInv BY DEF IInv
<1>2. ASSUME NEW u \in Threads, depth[u] > 0
      PROVE  depth[u] \in Depths /\ Top(u) = frame[u][depth[u]]
  BY <1>1, <1>2 DEF Top, TypeOK, Depths
<1>3. /\ depth[t] \in Depths /\ frame[t][depth[t]].pc \in {"asleep", "await"}
      /\ frame[t][depth[t]].edge \in Edges
  BY <1>1, <1>2 DEF TypeOK, Frames
<1>4. PICK e \in Edges : owner[e] # Nobody BY <1>1, <1>3 DEF SleepInv
<1>5. PICK u \in Threads : u = owner[e] BY <1>1, <1>4 DEF TypeOK
<1>6. PICK d \in Depths : Owning(frame[u][d]) BY <1>1, <1>4, <1>5 DEF OwnerInv
<1>7. frame[u][d].op # "none" BY <1>1, <1>6 DEF KindInv, Owning
<1>8. d <= depth[u] /\ depth[u] > 0
  BY <1>1, <1>7 DEF StackInv, TypeOK, Depths
<1>9. /\ depth[u] \in Depths /\ frame[u][depth[u]].pc \in {"asleep", "await"}
  BY <1>2, <1>8
<1>10. d < depth[u]
  <2>1. ~Owning(frame[u][depth[u]]) BY <1>9 DEF Owning
  <2> QED BY <1>6, <1>8, <1>9, <2>1 DEF Depths
<1>11. CASE frame[u][depth[u]].pc = "await" BY <1>1, <1>6, <1>9, <1>11 DEF SleepInv
<1>12. CASE frame[u][depth[u]].pc = "asleep"
  <2>1. frame[u][depth[u]].op \in {"send", "close", "none"}
    BY <1>1, <1>9 DEF TypeOK, Frames
  <2>2. frame[u][depth[u]].op = "send"
    BY <1>1, <1>9, <1>12, <2>1 DEF KindInv, ClosePCs
  <2>3. Pumping(frame[u][d]) \/ frame[u][depth[u]].pc = "check"
    BY <1>1, <1>9, <1>10, <2>2 DEF NestInv
  <2> QED BY <1>6, <1>12, <2>3 DEF Pumping, Owning
<1> QED BY <1>9, <1>11, <1>12

\* Calls never all wait for each other, whatever callbacks close.
THEOREM NoCircularWait == Spec => []SomeCallRuns
<1> QED BY OwnersRun, Invariance, PTL

LEMMA BoundStep ==
    ASSUME IInv, [Next]_vars, NEW e \in Edges, Len(queue'[e]) > Len(queue[e])
    PROVE  queue'[e][Len(queue'[e])] >= inputBound[e]
<1>1. TypeOK /\ StackInv BY DEF IInv
<1>2. queue \in [Edges -> Seq(1 .. LastTimestamp)] /\ Len(queue[e]) \in Nat
  BY <1>1 DEF TypeOK
<1>3. queue'[e] # queue[e] BY <1>2
<1>4. CASE \E t \in Threads : Enqueue(t)
  <2>1. PICK t \in Threads : Enqueue(t) BY <1>4
  <2>2. At(t, {"observing"}) BY <2>1 DEF Enqueue
  <2>3. /\ depth[t] \in Depths /\ Top(t) = frame[t][depth[t]] /\ Top(t) \in Frames
        /\ Top(t).pc = "observing" /\ Top(t).edge \in Edges
    BY <1>1, <2>2, AtLabel
  <2>4. queue' = [queue EXCEPT ![Top(t).edge] = Append(@, Top(t).ts)]
    BY <1>3, <2>1 DEF Enqueue
  <2>5. e = Top(t).edge BY <1>2, <1>3, <2>3, <2>4
  <2>6. Top(t).ts \in 1 .. LastTimestamp BY <2>3 DEF Frames
  <2>7. queue'[e] = Append(queue[e], Top(t).ts) BY <1>2, <2>4, <2>5
  <2>8. queue[e] \in Seq(1 .. LastTimestamp) BY <1>2
  <2>9. queue'[e][Len(queue'[e])] = Top(t).ts BY <2>6, <2>7, <2>8
  <2>10. Knows(frame[t][depth[t]]) BY <2>3, EventParts DEF IInv
  <2>11. inputBound[e] <= Top(t).ts BY <2>3, <2>5, <2>10 DEF Knows
  <2>12. inputBound[e] \in Nat BY <1>1 DEF TypeOK
  <2> QED BY <2>6, <2>9, <2>11, <2>12
<1>5. CASE \E x \in Edges : Dequeue(x)
  <2>1. PICK x \in Edges : Dequeue(x) BY <1>5
  <2>2. /\ queue[x] # <<>> /\ queue' = [queue EXCEPT ![x] = Tail(queue[x])]
        /\ queue[x] \in Seq(1 .. LastTimestamp)
    BY <1>2, <2>1 DEF Dequeue
  <2>3. e = x /\ queue'[e] = Tail(queue[e]) BY <1>2, <1>3, <2>2
  <2>4. Len(Tail(queue[e])) = Len(queue[e]) - 1 BY <2>2, <2>3
  <2> QED BY <1>2, <2>3, <2>4
<1>6. CASE \E x \in Edges : Discard(x)
  <2>1. PICK x \in Edges : Discard(x) BY <1>6
  <2>2. queue' = [queue EXCEPT ![x] = <<>>] BY <2>1 DEF Discard
  <2>3. queue'[e] = <<>> BY <1>2, <1>3, <2>2
  <2>4. Len(queue'[e]) = 0 BY <2>3
  <2> QED BY <1>2, <2>4
<1>7. CASE /\ ~\E t \in Threads : Enqueue(t)
           /\ ~\E x \in Edges : Dequeue(x) \/ Discard(x)
  <2>1. ASSUME NEW t \in Threads, CallSend(t) \/ CallClose(t) PROVE queue' = queue
    BY <2>1 DEF CallSend, CallClose, Push, consumer
  <2>2. ASSUME NEW t \in Threads,
               Check(t) \/ Watermark(t) \/ Pump(t) \/ Enter(t) \/ Commit(t) \/ Advance(t)
               \/ Publish(t) \/ Release(t)
        PROVE  queue' = queue
    BY <2>2 DEF Check, Watermark, Pump, Enter, Commit, Advance, Publish, Release, consumer
  <2>3. ASSUME NEW t \in Threads,
               Request(t) \/ Await(t) \/ Swap(t) \/ Seal(t) \/ Settle(t) \/ Drop(t)
        PROVE  queue' = queue
    BY <2>3 DEF Request, Await, Swap, Seal, Settle, Drop, consumer
  <2>4. CASE Cancel BY <2>4, <1>3 DEF Cancel, consumer
  <2>5. CASE UNCHANGED vars BY <2>5, <1>3 DEF vars, consumer
  <2> QED BY <1>3, <1>7, <2>1, <2>2, <2>3, <2>4, <2>5 DEF Next, Step
<1> QED BY <1>4, <1>5, <1>6, <1>7

\* The consumer never receives a packet below the bound it was given.
THEOREM BoundsAlwaysKept == Spec => BoundsKept
<1>1. IInv /\ [Next]_vars =>
         [\A e \in Edges : Len(queue'[e]) > Len(queue[e])
             => queue'[e][Len(queue'[e])] >= inputBound[e]]_vars
  BY BoundStep
<1> QED BY <1>1, Invariance, PTL DEF Spec, BoundsKept

---------------------------------------------------------------------------
(* Closes are held.                                                        *)

\* The call has its input, or waits to close it.
Holds(f) == Owning(f) \/ f.pc \in {"await", "awake"}

\* The call is past the commit of a close.
Committed(f) == f.pc = "drop" \/ (f.pc = "settle" /\ f.op = "send")
CommittedInv ==
    \A t \in Threads, d \in Depths : Committed(frame[t][d]) => closed[frame[t][d].edge]

HeldInv == ClosesAreHeld /\ CommittedInv

LEMMA HeldParts ==
    ClosesAreHeld <=>
        \A e \in Edges : closing[e] /\ ~closed[e] =>
            \E t \in Threads, d \in Depths : frame[t][d].edge = e /\ Holds(frame[t][d])
BY DEF ClosesAreHeld, Holds

LEMMA HeldPartsNext ==
    ClosesAreHeld' <=>
        \A e \in Edges : closing'[e] /\ ~closed'[e] =>
            \E t \in Threads, d \in Depths : frame'[t][d].edge = e /\ Holds(frame'[t][d])
BY DEF ClosesAreHeld, Holds

(***************************************************************************)
(* The running call of t becomes g.  It may request a close that it then   *)
(* holds itself, or leaves to an owner; it lets go of none that is not     *)
(* committed.                                                              *)
(***************************************************************************)
HandsOver(t, g) ==
    /\ \A e \in Edges : closed[e] => closed'[e]
    /\ Committed(g) => closed'[g.edge]
    /\ \A e \in Edges : closing'[e] =>
          \/ closing[e]
          \/ Holds(g) /\ g.edge = e
          \/ owner[e] # Nobody /\ ~Owning(Top(t))
    /\ Holds(Top(t)) =>
          \/ Holds(g) /\ g.edge = Top(t).edge
          \/ closed'[Top(t).edge] \/ ~closing'[Top(t).edge]

LEMMA HoldStep ==
    ASSUME IInv, HeldInv, NEW t \in Threads, depth[t] \in Depths, NEW g, Moved(t, g),
           HandsOver(t, g)
    PROVE  HeldInv'
<1> DEFINE k == depth[t]
<1>1. /\ Top(t) = frame[t][k] /\ k \in Depths /\ frame'[t][k] = g
  BY DEF Top, Depths, Moved
<1>2. \A u \in Threads, d \in Depths : u # t \/ d # k => Same(frame[u][d], frame'[u][d])
  BY DEF Moved
<1>3. \A u \in Threads, d \in Depths : frame[u][d].edge \in Edges
  BY DEF IInv, TypeOK, Frames
<1>4. \A u \in Threads, d \in Depths : u # t \/ d # k =>
         /\ frame'[u][d].edge = frame[u][d].edge
         /\ Holds(frame[u][d]) => Holds(frame'[u][d])
         /\ Committed(frame'[u][d]) => Committed(frame[u][d])
  BY <1>2 DEF Same, Holds, Owning, Committed
<1> HIDE DEF k
<1>5. CommittedInv'
  <2> SUFFICES ASSUME NEW u \in Threads, NEW d \in Depths, Committed(frame'[u][d])
               PROVE  closed'[frame'[u][d].edge]
    BY DEF CommittedInv, Committed
  <2>1. CASE u = t /\ d = k BY <1>1, <2>1 DEF HandsOver
  <2>2. CASE u # t \/ d # k BY <1>3, <1>4, <2>2 DEF HandsOver, HeldInv, CommittedInv
  <2> QED BY <2>1, <2>2
<1>6. ASSUME NEW e \in Edges, closing'[e], ~closed'[e]
      PROVE  \E u \in Threads, d \in Depths : frame'[u][d].edge = e /\ Holds(frame'[u][d])
  <2>1. CASE closing[e]
    <3>1. ~closed[e] BY <1>6 DEF HandsOver
    <3>2. PICK u \in Threads, d \in Depths : frame[u][d].edge = e /\ Holds(frame[u][d])
      BY <2>1, <3>1, HeldParts DEF HeldInv
    <3>3. CASE u = t /\ d = k BY <1>1, <1>6, <3>2, <3>3 DEF HandsOver
    <3>4. CASE u # t \/ d # k BY <1>4, <3>2, <3>4
    <3> QED BY <3>3, <3>4
  <2>2. CASE Holds(g) /\ g.edge = e BY <1>1, <2>2
  <2>3. CASE owner[e] # Nobody /\ ~Owning(Top(t))
    <3>1. PICK d \in Depths : Owning(frame[owner[e]][d]) /\ frame[owner[e]][d].edge = e
      BY <2>3 DEF IInv, OwnerInv
    <3>2. owner[e] \in Threads BY <2>3 DEF IInv, TypeOK
    <3>3. owner[e] # t \/ d # k BY <1>1, <2>3, <3>1
    <3> QED BY <1>4, <3>1, <3>2, <3>3 DEF Holds
  <2> QED BY <1>6, <2>1, <2>2, <2>3 DEF HandsOver
<1> QED BY <1>5, <1>6, HeldPartsNext DEF HeldInv

\* A send that owns nothing yet.
LEMMA EarlyHolds ==
    ASSUME IInv, HeldInv, NEW t \in Threads,
           Check(t) \/ Watermark(t) \/ Pump(t) \/ Enter(t)
    PROVE  HeldInv'
<1>1. TypeOK /\ StackInv /\ "none" \notin EarlyPCs /\ At(t, EarlyPCs)
  BY DEF IInv, Check, Watermark, Pump, Enter, At, EarlyPCs
<1>2. /\ depth[t] \in Depths /\ Top(t) = frame[t][depth[t]] /\ Top(t) \in Frames
      /\ Top(t).pc \in EarlyPCs
  BY <1>1, AtLabel
<1>3. Return(t) \/ \E label \in {"watermark", "pumping", "enter", "asleep", "commit"} : Goto(t, label)
  BY DEF Check, Watermark, Pump, Enter
<1>4. UNCHANGED <<closing, closed>>
  BY DEF Check, Watermark, Pump, Enter, ingress
<1>5. ~Holds(Top(t)) BY <1>2 DEF Holds, Owning, EarlyPCs
<1>6. CASE Return(t)
  <2>1. Moved(t, NoFrame) BY <1>1, <1>2, <1>6, ReturnMoves
  <2>2. HandsOver(t, NoFrame) BY <1>4, <1>5 DEF HandsOver, Committed, NoFrame
  <2> QED BY <1>2, <2>1, <2>2, HoldStep
<1>7. ASSUME NEW label \in {"watermark", "pumping", "enter", "asleep", "commit"}, Goto(t, label)
      PROVE  HeldInv'
  <2> DEFINE g == [Top(t) EXCEPT !.pc = label]
  <2>1. Moved(t, g) /\ g.pc = label BY <1>1, <1>2, <1>7, GotoMoves DEF SendPCs
  <2> HIDE DEF g
  <2>2. HandsOver(t, g) BY <1>4, <1>5, <2>1 DEF HandsOver, Committed
  <2> QED BY <1>2, <2>1, <2>2, HoldStep
<1> QED BY <1>3, <1>6, <1>7

\* A dispatch keeps its input until nobody asks for its close.
LEMMA DispatchHolds ==
    ASSUME IInv, HeldInv, NEW t \in Threads,
           Commit(t) \/ Enqueue(t) \/ Advance(t) \/ Publish(t) \/ Release(t)
    PROVE  HeldInv'
<1>1. TypeOK /\ StackInv /\ "none" \notin DispatchPCs /\ At(t, DispatchPCs)
  BY DEF IInv, Commit, Enqueue, Advance, Publish, Release, At, DispatchPCs
<1>2. /\ depth[t] \in Depths /\ Top(t) = frame[t][depth[t]] /\ Top(t) \in Frames
      /\ Top(t).pc \in DispatchPCs /\ Top(t).edge \in Edges
  BY <1>1, AtLabel
<1>3. UNCHANGED <<closing, closed>>
  BY DEF Commit, Enqueue, Advance, Publish, Release, ingress
<1>4. CASE owner' = owner /\ \E label \in (DispatchPCs \ {"commit"}) \cup {"swap"} : Goto(t, label)
  <2>1. PICK label \in (DispatchPCs \ {"commit"}) \cup {"swap"} : Goto(t, label) BY <1>4
  <2> DEFINE g == [Top(t) EXCEPT !.pc = label]
  <2>2. Moved(t, g) /\ g.pc = label /\ g.edge = Top(t).edge
    BY <1>1, <1>4, <2>1, DispatchGoto
  <2> HIDE DEF g
  <2>3. Holds(g) /\ ~Committed(g) BY <2>1, <2>2 DEF Holds, Owning, Committed, DispatchPCs
  <2>4. HandsOver(t, g) BY <1>3, <2>2, <2>3 DEF HandsOver
  <2> QED BY <1>2, <2>2, <2>4, HoldStep
<1>5. CASE /\ ~closing[Top(t).edge]
           /\ frame' = [NotifyAll(Top(t).edge) EXCEPT ![t][depth[t]] = NoFrame]
  <2>1. PICK e \in Edges : e = Top(t).edge BY <1>2
  <2>2. frame' = [NotifyAll(e) EXCEPT ![t][depth[t]] = NoFrame] BY <1>5, <2>1
  <2>3. Moved(t, NoFrame) BY <1>1, <1>2, <2>2, NoFrameType, MovedByNotify
  <2>4. HandsOver(t, NoFrame) BY <1>3, <1>5 DEF HandsOver, Committed, NoFrame
  <2> QED BY <1>2, <2>3, <2>4, HoldStep
<1>6. CASE Release(t) BY <1>4, <1>5, <1>6 DEF Release, DispatchPCs
<1>7. CASE Commit(t) \/ Enqueue(t) \/ Advance(t) \/ Publish(t)
  BY <1>4, <1>7 DEF Commit, Enqueue, Advance, Publish, ingress, DispatchPCs
<1> QED BY <1>6, <1>7

\* A close is requested: its call takes the input, waits for it, or has found an owner.
LEMMA RequestHolds ==
    ASSUME IInv, HeldInv, NEW t \in Threads, Request(t)
    PROVE  HeldInv'
<1> DEFINE e == Top(t).edge
<1>1. TypeOK /\ StackInv /\ KindInv /\ At(t, {"request"}) BY DEF IInv, Request
<1>2. /\ depth[t] \in Depths /\ Top(t) = frame[t][depth[t]] /\ Top(t) \in Frames
      /\ Top(t).pc = "request" /\ Top(t).op # "none" /\ e \in Edges
  BY <1>1, AtLabel
<1>3. Top(t).op = "close" BY <1>1, <1>2 DEF KindInv, SendPCs, Frames
<1>4. closing' = [closing EXCEPT ![e] = TRUE] /\ closed' = closed BY DEF Request
<1>5. PICK g \in Frames :
         /\ frame' = [NotifyAll(e) EXCEPT ![t][depth[t]] = g] /\ g.op = "close"
         /\ \/ g.edge = e /\ g.pc \in {"swap", "await"}
            \/ g.pc \in {"request", "settle"} /\ owner[e] # Nobody
  <2>1. ASSUME NEW label \in {"swap", "await"}, Jump(t, NotifyAll(e), label)
        PROVE  \E g \in Frames : /\ frame' = [NotifyAll(e) EXCEPT ![t][depth[t]] = g]
                                 /\ g.op = "close" /\ g.edge = e /\ g.pc = label
    <3> DEFINE h == [Top(t) EXCEPT !.pc = label]
    <3>1. h \in Frames /\ h.op = "close" /\ h.edge = e /\ h.pc = label
      BY <1>2, <1>3, JumpType DEF ClosePCs
    <3>2. frame' = [NotifyAll(e) EXCEPT ![t][depth[t]] = h] BY <2>1 DEF Jump
    <3> HIDE DEF h
    <3> QED BY <3>1, <3>2
  <2>2. CASE Jump(t, NotifyAll(e), "swap") BY <2>1, <2>2
  <2>3. CASE Jump(t, NotifyAll(e), "await") BY <2>1, <2>3
  <2>4. CASE /\ owner[e] # Nobody
             /\ frame' = [NotifyAll(e) EXCEPT ![t][depth[t]] = NextInput(Top(t))]
    <3> DEFINE h == NextInput(Top(t))
    <3>1. h \in Frames /\ h.op = "close" /\ h.pc \in {"request", "settle"}
      BY <1>2, <1>3, NextInputFacts
    <3>2. frame' = [NotifyAll(e) EXCEPT ![t][depth[t]] = h] BY <2>4
    <3> HIDE DEF h
    <3> QED BY <2>4, <3>1, <3>2
  <2>5. \/ Jump(t, NotifyAll(e), "swap") \/ Jump(t, NotifyAll(e), "await")
        \/ /\ owner[e] # Nobody
           /\ frame' = [NotifyAll(e) EXCEPT ![t][depth[t]] = NextInput(Top(t))]
    BY DEF Request
  <2> QED BY <2>2, <2>3, <2>4, <2>5
<1>6. Moved(t, g) BY <1>1, <1>2, <1>5, MovedByNotify
<1>7. ~Holds(Top(t)) /\ ~Owning(Top(t)) BY <1>2 DEF Holds, Owning
<1>8. ~Committed(g) BY <1>5 DEF Committed
<1>9. g.pc \in {"swap", "await"} => Holds(g) BY DEF Holds, Owning
<1>10. \A x \in Edges : closing'[x] => closing[x] \/ x = e BY <1>1, <1>4 DEF TypeOK
<1>11. HandsOver(t, g) BY <1>4, <1>5, <1>7, <1>8, <1>9, <1>10 DEF HandsOver
<1> QED BY <1>2, <1>6, <1>11, HoldStep

\* A closer that waited takes the input or waits on.
LEMMA AwaitHolds ==
    ASSUME IInv, HeldInv, NEW t \in Threads, Await(t)
    PROVE  HeldInv'
<1>1. TypeOK /\ StackInv /\ At(t, {"awake"}) BY DEF IInv, Await
<1>2. /\ depth[t] \in Depths /\ Top(t) \in Frames /\ Top(t).pc = "awake"
  BY <1>1, AtLabel
<1>3. PICK label \in {"swap", "await"} : Goto(t, label) BY DEF Await
<1> DEFINE g == [Top(t) EXCEPT !.pc = label]
<1>4. Moved(t, g) /\ g.edge = Top(t).edge /\ g.pc = label
  BY <1>1, <1>2, <1>3, GotoMoves DEF ClosePCs
<1> HIDE DEF g
<1>5. Holds(g) /\ ~Committed(g) BY <1>4 DEF Holds, Owning, Committed
<1>6. UNCHANGED <<closing, closed>> BY DEF Await
<1>7. HandsOver(t, g) BY <1>4, <1>5, <1>6 DEF HandsOver
<1> QED BY <1>2, <1>4, <1>7, HoldStep

\* A close is committed before the call goes past it.
LEMMA CommitHolds ==
    ASSUME IInv, HeldInv, NEW t \in Threads, Swap(t) \/ Seal(t)
    PROVE  HeldInv'
<1>1. TypeOK /\ owner' = owner /\ closing' = closing BY DEF IInv, Swap, Seal, ingress
<1>2. PICK from \in {"swap", "sealed"}, label \in {"sealed", AfterClose(t)} :
         /\ At(t, {from}) /\ Goto(t, label)
         /\ label = "sealed" \/ closed[Top(t).edge]
         /\ closed' = closed \/ closed' = [closed EXCEPT ![Top(t).edge] = TRUE]
  <2>1. CASE Swap(t) BY <2>1 DEF Swap
  <2>2. CASE Seal(t)
    <3>1. At(t, {"sealed"}) /\ Goto(t, AfterClose(t)) /\ closed' = closed BY <2>2 DEF Seal
    <3>2. Top(t) = frame[t][depth[t]] /\ depth[t] \in Depths /\ Top(t).pc = "sealed"
      BY <3>1, AtLabel DEF IInv
    <3>3. closed[Top(t).edge] BY <3>2 DEF IInv, EventInv
    <3> QED BY <3>1, <3>3
  <2> QED BY <2>1, <2>2
<1> DEFINE g == [Top(t) EXCEPT !.pc = label]
<1>3. /\ depth[t] \in Depths /\ Top(t).op \in {"send", "close"} /\ Top(t).edge \in Edges
      /\ Moved(t, g) /\ g.edge = Top(t).edge /\ g.pc = label /\ g.op = Top(t).op
  BY <1>1, <1>2, CloserGoto
<1> HIDE DEF g
<1>4. Holds(g) BY <1>2, <1>3 DEF Holds, Owning, AfterClose
<1>5. \A e \in Edges : closed[e] => closed'[e] BY <1>1, <1>2, <1>3 DEF TypeOK
<1>6. Committed(g) => closed'[g.edge] BY <1>2, <1>3, <1>5 DEF Committed
<1>7. HandsOver(t, g) BY <1>1, <1>3, <1>4, <1>5, <1>6 DEF HandsOver
<1> QED BY <1>3, <1>7, HoldStep

\* Whoever leaves an input has committed its close.
LEMMA LeaveHolds ==
    ASSUME IInv, HeldInv, NEW t \in Threads, Settle(t) \/ Drop(t)
    PROVE  HeldInv'
<1>1. TypeOK /\ StackInv /\ At(t, {"settle", "drop"}) /\ UNCHANGED <<closing, closed>>
  BY DEF IInv, Settle, Drop, At, ingress
<1>2. /\ depth[t] \in Depths /\ Top(t) = frame[t][depth[t]] /\ Top(t) \in Frames
      /\ Top(t).pc \in {"settle", "drop"} /\ Top(t).op \in {"send", "close"}
      /\ Top(t).edge \in Edges
  BY <1>1, AtLabel DEF Frames
<1>3. Holds(Top(t)) => Committed(Top(t)) /\ closed[Top(t).edge]
  BY <1>2 DEF Holds, Owning, Committed, HeldInv, CommittedInv
<1>4. PICK g : /\ Moved(t, g)
               /\ Committed(g) => Committed(Top(t)) /\ g.edge = Top(t).edge
  <2>1. CASE Settle(t) /\ Top(t).op = "send"
    <3>1. Goto(t, "drop") BY <2>1 DEF Settle
    <3> DEFINE h == [Top(t) EXCEPT !.pc = "drop"]
    <3>2. Moved(t, h) /\ h.edge = Top(t).edge
      BY <1>1, <1>2, <3>1, GotoMoves DEF SendPCs
    <3>3. Committed(Top(t)) BY <1>2, <2>1 DEF Committed
    <3> HIDE DEF h
    <3> QED BY <3>2, <3>3
  <2>2. CASE Settle(t) /\ Top(t).op # "send"
    <3>1. Return(t) BY <2>2 DEF Settle
    <3>2. ~Committed(NoFrame) BY DEF Committed, NoFrame
    <3> QED BY <1>1, <1>2, <3>1, <3>2, ReturnMoves
  <2>3. CASE Drop(t)
    <3>1. PICK e \in Edges : e = Top(t).edge BY <1>2
    <3>2. PICK h : h = IF Top(t).op = "send" THEN NoFrame ELSE NextInput(Top(t)) OBVIOUS
    <3>3. frame' = [NotifyAll(e) EXCEPT ![t][depth[t]] = h] BY <2>3, <3>1, <3>2 DEF Drop
    <3>4. h \in Frames /\ ~Committed(h)
      BY <1>2, <3>2, NoFrameType, NextInputFacts DEF Committed, NoFrame
    <3>5. Moved(t, h) BY <1>1, <1>2, <3>3, <3>4, MovedByNotify
    <3> QED BY <3>4, <3>5
  <2> QED BY <2>1, <2>2, <2>3
<1>5. HandsOver(t, g) BY <1>1, <1>2, <1>3, <1>4 DEF HandsOver, HeldInv, CommittedInv
<1> QED BY <1>2, <1>4, <1>5, HoldStep

\* A new call takes the place of none.
LEMMA PushHolds ==
    ASSUME IInv, HeldInv, NEW t \in Threads, NEW f, Push(t, f), f.pc \in {"check", "request"}
    PROVE  HeldInv'
<1> DEFINE k == depth[t] + 1
<1>1. TypeOK /\ StackInv /\ KindInv BY DEF IInv
<1>2. k \in Depths /\ k > depth[t] BY <1>1 DEF TypeOK, Push, Depths
<1>3. /\ frame' = [frame EXCEPT ![t][k] = f] /\ UNCHANGED <<closing, closed>>
  BY DEF Push, ingress
<1> HIDE DEF k
<1>4. /\ frame'[t][k] = f
      /\ \A u \in Threads, d \in Depths : u # t \/ d # k => frame'[u][d] = frame[u][d]
  BY <1>1, <1>2, <1>3 DEF TypeOK
<1>5. frame[t][k].pc = "none" BY <1>1, <1>2 DEF StackInv, KindInv
<1>6. ~Holds(frame[t][k]) /\ ~Committed(f) BY <1>5 DEF Holds, Owning, Committed
<1>7. CommittedInv'
  <2> SUFFICES ASSUME NEW u \in Threads, NEW d \in Depths, Committed(frame'[u][d])
               PROVE  closed'[frame'[u][d].edge]
    BY DEF CommittedInv, Committed
  <2> QED BY <1>3, <1>4, <1>6 DEF HeldInv, CommittedInv
<1>8. ASSUME NEW e \in Edges, closing'[e], ~closed'[e]
      PROVE  \E u \in Threads, d \in Depths : frame'[u][d].edge = e /\ Holds(frame'[u][d])
  <2>1. PICK u \in Threads, d \in Depths : frame[u][d].edge = e /\ Holds(frame[u][d])
    BY <1>3, <1>8, HeldParts DEF HeldInv
  <2>2. frame'[u][d] = frame[u][d] BY <1>4, <1>6, <2>1
  <2> QED BY <2>1, <2>2
<1> QED BY <1>7, <1>8, HeldPartsNext DEF HeldInv

LEMMA HeldInit == Init => HeldInv
<1> SUFFICES ASSUME Init PROVE HeldInv OBVIOUS
<1>1. \A e \in Edges : ~closing[e] BY DEF Init
<1>2. \A t \in Threads, d \in Depths : ~Committed(frame[t][d])
  BY DEF Init, Committed, NoFrame
<1> QED BY <1>1, <1>2 DEF HeldInv, ClosesAreHeld, CommittedInv

LEMMA HeldNext == IInv /\ HeldInv /\ [Next]_vars => HeldInv'
<1> SUFFICES ASSUME IInv, HeldInv, [Next]_vars PROVE HeldInv' OBVIOUS
<1>1. ASSUME NEW t \in Threads, Step(t) PROVE HeldInv'
  BY <1>1, EarlyHolds, DispatchHolds, RequestHolds, AwaitHolds, CommitHolds, LeaveHolds
     DEF Step
<1>2. ASSUME NEW t \in Threads, CallSend(t) \/ CallClose(t) PROVE HeldInv'
  <2>1. \E f : Push(t, f) /\ f.pc \in {"check", "request"}
    <3>1. CASE CallSend(t)
      <4>1. PICK e \in Edges, ts \in 1 .. LastTimestamp, b \in BOOLEAN :
               Push(t, [op |-> "send", edge |-> e, last |-> e, blocking |-> b, ts |-> ts,
                        pc |-> "check"])
        BY <3>1 DEF CallSend
      <4> QED BY <4>1
    <3>2. CASE CallClose(t)
      <4>1. PICK r \in {<<e, e>> : e \in Edges} \cup {<<1, NumInputs>>} :
               Push(t, [op |-> "close", edge |-> r[1], last |-> r[2], blocking |-> TRUE,
                        ts |-> 1, pc |-> "request"])
        BY <3>2 DEF CallClose
      <4> QED BY <4>1
    <3> QED BY <1>2, <3>1, <3>2
  <2> QED BY <2>1, PushHolds
<1>3. CASE UNCHANGED <<closing, closed, frame>>
  BY <1>3 DEF HeldInv, ClosesAreHeld, CommittedInv
<1>4. ASSUME NEW e \in Edges, Dequeue(e) \/ Discard(e) PROVE HeldInv'
  BY <1>3, <1>4 DEF Dequeue, Discard, ingress, stack
<1>5. CASE Cancel BY <1>3, <1>5 DEF Cancel, ingress, stack
<1>6. CASE UNCHANGED vars BY <1>3, <1>6 DEF vars, ingress, stack
<1> QED BY <1>1, <1>2, <1>4, <1>5, <1>6 DEF Next

(***************************************************************************)
(* A requested close is left to nobody at no time: a dispatch will find it *)
(* when it releases the input, or a closer waits for the input or has it   *)
(* (enter_ingress_close, release_unless_closing).                          *)
(***************************************************************************)
THEOREM RequestedClosesAreHeld == Spec => []ClosesAreHeld
<1>1. HeldInv => ClosesAreHeld BY DEF HeldInv
<1> QED BY <1>1, HeldInit, HeldNext, Invariance, PTL DEF Spec
=============================================================================
