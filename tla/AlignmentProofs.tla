-------------------------- MODULE AlignmentProofs --------------------------
(***************************************************************************)
(* The invariants of Alignment hold for any number of ports, any policies, *)
(* feedback registers, groups, capacities and batches.                     *)
(***************************************************************************)
EXTENDS Alignment, SequenceTheorems, FiniteSetTheorems, WellFoundedInduction, TLAPS

---------------------------------------------------------------------------
(* Least elements.                                                         *)

NatLess == {ss \in Nat \X Nat : ss[1] < ss[2]}

\* The order of the numbers has no descending chain ...
LEMMA NatLessWellFounded == IsWellFoundedOn(NatLess, Nat)
BY NatLessThanWellFounded, SMT DEF OpToRel, NatLess

\* ... so that Least finds what it looks for.
LEMMA LeastIsLeast ==
    ASSUME NEW T \in SUBSET Nat, T # {}
    PROVE  Least(T) \in T /\ \A u \in T : Least(T) <= u
<1>1. PICK t \in T : \A u \in T : ~ (<<u, t>> \in NatLess)
  BY NatLessWellFounded, WFMin, Zenon
<1>2. \A u \in T : ~ (u < t)
  BY <1>1 DEF NatLess
<1>3. \A u \in T : t <= u
  BY <1>2
<1> QED
  BY <1>3, Zenon DEF Least

---------------------------------------------------------------------------
(* Sequences that rise.                                                    *)

\* A piece of a stream, from m to n.
LEMMA Piece ==
    ASSUME NEW S, NEW s \in Seq(S), NEW m \in Nat \ {0}, NEW n \in Nat, n <= Len(s)
    PROVE  /\ SubSeq(s, m, n) \in Seq(S)
           /\ Len(SubSeq(s, m, n)) = IF m <= n THEN n - m + 1 ELSE 0
           /\ \A i \in 1 .. Len(SubSeq(s, m, n)) :
                  /\ SubSeq(s, m, n)[i] = s[m + i - 1]
                  /\ m + i - 1 \in 1 .. Len(s)
<1>1. Len(s) \in Nat /\ \A i \in 1 .. Len(s) : s[i] \in S
  BY LenProperties, ElementOfSeq
<1>2. \A i \in m .. n : s[i] \in S
  BY <1>1, SMT
<1>3. /\ SubSeq(s, m, n) \in Seq(S)
      /\ Len(SubSeq(s, m, n)) = IF m <= n THEN n - m + 1 ELSE 0
      /\ \A i \in 1 .. n - m + 1 : SubSeq(s, m, n)[i] = s[m + i - 1]
  BY <1>2, SubSeqProperties, m \in Int, n \in Int
<1> QED
  BY <1>1, <1>3, SMT

LEMMA Prefix ==
    ASSUME NEW S, NEW s \in Seq(S), NEW n \in Nat, n <= Len(s)
    PROVE  SubSeq(s, 1, n) \in Seq(S) /\ Len(SubSeq(s, 1, n)) = n
<1>1. 1 \in Nat \ {0}
  OBVIOUS
<1>2. /\ SubSeq(s, 1, n) \in Seq(S)
      /\ Len(SubSeq(s, 1, n)) = IF 1 <= n THEN n - 1 + 1 ELSE 0
  BY <1>1, Piece
<1> QED
  BY <1>2

\* Without its first elements a stream has those that follow.
Drop(s, k) == SubSeq(s, k + 1, Len(s))

LEMMA Suffix ==
    ASSUME NEW S, NEW s \in Seq(S), NEW k \in Nat, k <= Len(s)
    PROVE  /\ Drop(s, k) \in Seq(S) /\ Len(Drop(s, k)) = Len(s) - k
           /\ \A i \in 1 .. Len(Drop(s, k)) : Drop(s, k)[i] = s[i + k] /\ i + k \in 1 .. Len(s)
<1>1. Len(s) \in Nat
  BY LenProperties
<1>2. PICK q : q = SubSeq(s, k + 1, Len(s))
  OBVIOUS
<1>3. /\ SubSeq(s, k + 1, Len(s)) \in Seq(S)
      /\ Len(SubSeq(s, k + 1, Len(s))) = IF k + 1 <= Len(s) THEN Len(s) - (k + 1) + 1 ELSE 0
      /\ \A i \in 1 .. Len(SubSeq(s, k + 1, Len(s))) :
             /\ SubSeq(s, k + 1, Len(s))[i] = s[k + 1 + i - 1]
             /\ k + 1 + i - 1 \in 1 .. Len(s)
  <2>1. k + 1 \in Nat \ {0} /\ Len(s) <= Len(s)
    BY <1>1
  <2> QED
    BY <1>1, <2>1, Piece, Zenon
<1>4. /\ q \in Seq(S)
      /\ Len(q) = IF k + 1 <= Len(s) THEN Len(s) - (k + 1) + 1 ELSE 0
      /\ \A i \in 1 .. Len(q) : q[i] = s[k + 1 + i - 1] /\ k + 1 + i - 1 \in 1 .. Len(s)
  BY <1>2, <1>3
<1>5. Len(q) = Len(s) - k
  BY <1>1, <1>4, SMT
<1>6. \A i \in 1 .. Len(q) : i \in Int /\ k + 1 + i - 1 = i + k
  BY <1>1, <1>5, SMT
<1>7. q = Drop(s, k)
  BY <1>2 DEF Drop
<1> QED
  BY <1>4, <1>5, <1>6, <1>7

\* It still rises.
LEMMA SuffixRises ==
    ASSUME NEW S \in SUBSET Int, NEW s \in Seq(S), Rises(s), NEW k \in Nat, k <= Len(s)
    PROVE  Rises(Drop(s, k))
<1>1. PICK q : q = Drop(s, k)
  OBVIOUS
<1>2. /\ Len(q) = Len(s) - k
      /\ \A i \in 1 .. Len(q) : q[i] = s[i + k] /\ i + k \in 1 .. Len(s)
  BY <1>1, Suffix
<1>3. Len(s) \in Nat
  BY LenProperties
<1>4. Rises(q)
  BY <1>2, <1>3, SMT DEF Rises
<1> QED
  BY <1>1, <1>4

\* What the overflow policies keep is a suffix.
LEMMA NewestIsSuffix ==
    ASSUME NEW S, NEW s \in Seq(S), NEW n \in Nat
    PROVE  \E k \in Nat : k <= Len(s) /\ Newest(s, n) = Drop(s, k)
<1>1. Len(s) \in Nat
  BY LenProperties
<1>2. CASE Len(s) > n
  <2>1. Newest(s, n) = SubSeq(s, Len(s) - n + 1, Len(s))
    BY <1>2 DEF Newest
  <2>2. Len(s) - n \in Nat /\ Len(s) - n <= Len(s)
    BY <1>1, <1>2
  <2> QED
    BY <2>1, <2>2 DEF Drop
<1>3. CASE ~ (Len(s) > n)
  <2>1. Drop(s, 0) = s
    BY SubSeqFull, 0 + 1 = 1 DEF Drop
  <2>2. Newest(s, n) = s /\ 0 \in Nat /\ 0 <= Len(s)
    BY <1>1, <1>3 DEF Newest
  <2> QED
    BY <2>1, <2>2
<1> QED
  BY <1>2, <1>3

---------------------------------------------------------------------------
(* Timestamps.                                                             *)

\* What follows a packet is a timestamp above its own.
LEMMA NextExceeds ==
    ASSUME NEW t \in Timestamp
    PROVE  /\ NextAllowedInStream(t) \in Timestamp
           /\ t \in PreStream .. PostStream => NextAllowedInStream(t) > t
BY SpanAssumption, SMT DEF NextAllowedInStream, Timestamp, Unset, PreStream, MinTime, MaxTime,
    PostStream, OneOverPostStream, Done

\* It is the next ordinary timestamp, or past them.
LEMMA NextIsLeast ==
    ASSUME NEW t \in MinTime .. MaxTime, NEW u \in Timestamp, u > t
    PROVE  NextAllowedInStream(t) <= u \/ u > MaxTime
BY SpanAssumption, SMT DEF NextAllowedInStream, Timestamp, Unset, PreStream, MinTime, MaxTime,
    OneOverPostStream, Done

LEMMA TimesTyped ==
    /\ Timestamp \in SUBSET Nat /\ Done \in Timestamp /\ Unset \in Timestamp
    /\ PreStream \in Timestamp /\ MaxTime \in Timestamp /\ MinTime \in Timestamp
    /\ PreStream .. PostStream \in SUBSET Timestamp
    /\ MinTime .. MaxTime \in SUBSET Timestamp
    /\ \A t \in Timestamp : t <= Done
    /\ \A t \in PreStream .. PostStream : t < Done /\ t # Done
BY SpanAssumption, SMT DEF Timestamp, Unset, PreStream, MinTime, MaxTime, PostStream, Done

LEMMA TimesAreInts == \A t \in Timestamp : t \in Int /\ t \in Nat
BY TimesTyped

LEMMA AtLeastTyped ==
    ASSUME NEW t \in Timestamp, NEW u \in Timestamp
    PROVE  /\ AtLeast(t, u) \in Timestamp /\ AtLeast(t, u) \in {t, u}
           /\ t <= AtLeast(t, u) /\ u <= AtLeast(t, u)
BY TimesTyped, SMT DEF AtLeast

---------------------------------------------------------------------------
(* Alignment.                                                              *)

\* The front of a stream.
LEMMA HeadTyped ==
    ASSUME NEW s \in Streams, s # <<>>
    PROVE  /\ Head(s) = s[1] /\ Head(s) \in PreStream .. PostStream
           /\ Len(s) \in Nat /\ 1 \in 1 .. Len(s)
<1>1. Len(s) \in Nat \ {0}
  BY EmptySeq DEF Streams
<1>2. 1 \in 1 .. Len(s)
  BY <1>1
<1>3. s[1] \in PreStream .. PostStream
  BY <1>2, ElementOfSeq DEF Streams
<1>4. Head(s) = s[1]
  BY SMT DEF Streams
<1> QED
  BY <1>1, <1>2, <1>3, <1>4

\* MinPacket is the least front.
LEMMA MinPacketIsLeast ==
    ASSUME NEW seen \in [Ports -> Streams], NEW ports \in SUBSET Ports
    PROVE  /\ MinPacket(ports, seen) \in Timestamp
           /\ MinPacket(ports, seen) # Done =>
                  \E p \in ports : seen[p] # <<>> /\ Head(seen[p]) = MinPacket(ports, seen)
           /\ \A p \in ports : seen[p] # <<>> => MinPacket(ports, seen) <= Head(seen[p])
<1> DEFINE fronts == {Head(seen[p]) : p \in {q \in ports : seen[q] # <<>>}}
<1>1. \A p \in ports : seen[p] # <<>> => Head(seen[p]) \in Timestamp
  BY HeadTyped, TimesTyped
<1>2. {Done} \cup fronts \in SUBSET Timestamp /\ {Done} \cup fronts # {}
  BY <1>1, TimesTyped
<1>3. {Done} \cup fronts \in SUBSET Nat
  BY <1>2, TimesTyped
<1>4. /\ Least({Done} \cup fronts) \in {Done} \cup fronts
      /\ \A u \in {Done} \cup fronts : Least({Done} \cup fronts) <= u
  BY <1>2, <1>3, LeastIsLeast
<1>5. MinPacket(ports, seen) = Least({Done} \cup fronts)
  BY DEF MinPacket
<1> QED
  BY <1>2, <1>4, <1>5

\* MinBound is at most the bound of every empty port.
LEMMA MinBoundIsLeast ==
    ASSUME NEW seen \in [Ports -> Streams], NEW ports \in SUBSET Ports,
           bound \in [Ports -> Timestamp]
    PROVE  /\ MinBound(ports, seen) \in Timestamp
           /\ MinBound(ports, seen) # Done =>
                  \E p \in ports : seen[p] = <<>> /\ bound[p] = MinBound(ports, seen)
           /\ \A p \in ports : seen[p] = <<>> => MinBound(ports, seen) <= bound[p]
<1> DEFINE bounds == {bound[p] : p \in {q \in ports : seen[q] = <<>>}}
<1>2. {Done} \cup bounds \in SUBSET Timestamp /\ {Done} \cup bounds # {}
  BY TimesTyped
<1>3. {Done} \cup bounds \in SUBSET Nat
  BY <1>2, TimesTyped
<1>4. /\ Least({Done} \cup bounds) \in {Done} \cup bounds
      /\ \A u \in {Done} \cup bounds : Least({Done} \cup bounds) <= u
  BY <1>2, <1>3, LeastIsLeast
<1>5. MinBound(ports, seen) = Least({Done} \cup bounds)
  BY DEF MinBound
<1> QED
  BY <1>2, <1>4, <1>5

\* What a stream may still bring, and what is queued of it: ordinary times only.
Ordinary(s, p) ==
    /\ Rises(s)
    /\ \A i \in 1 .. Len(s) : s[i] \in MinTime .. MaxTime /\ s[i] < promise[p]
\* A bound says no more than its stream does, as long as that matters.
Honest(p) == bound[p] <= promise[p] \/ promise[p] > MaxTime

\* When aligned, the least front is below what any of the streams may bring, and
\* what is queued at it is in front.
LEMMA AlignedFits ==
    ASSUME NEW seen \in [Ports -> Streams], NEW ports \in SUBSET Ports,
           bound \in [Ports -> Timestamp], promise \in [Ports -> Timestamp],
           \A p \in ports : Ordinary(seen[p], p) /\ Honest(p),
           Aligned(ports, seen),
           NEW ts, ts = MinPacket(ports, seen)
    PROVE  /\ ts \in MinTime .. MaxTime
           /\ \E p \in ports : seen[p] # <<>> /\ Head(seen[p]) = ts
           /\ \A p \in ports :
                 /\ promise[p] > ts
                 /\ seen[p] # <<>> => Head(seen[p]) >= ts
                 /\ \A i \in 1 .. Len(seen[p]) :
                       seen[p][i] > ts \/ (i = 1 /\ Head(seen[p]) = ts)
<1>1. /\ ts \in Timestamp /\ ts # Done
      /\ \A p \in ports : seen[p] # <<>> => ts <= Head(seen[p])
  BY MinPacketIsLeast DEF Aligned
<1>2. PICK p0 \in ports : seen[p0] # <<>> /\ Head(seen[p0]) = ts
  BY MinPacketIsLeast, <1>1
<1>3. \A p \in ports : seen[p] # <<>> =>
         /\ Head(seen[p]) = seen[p][1] /\ 1 \in 1 .. Len(seen[p]) /\ Len(seen[p]) \in Nat
         /\ Head(seen[p]) \in MinTime .. MaxTime /\ Head(seen[p]) < promise[p]
  BY HeadTyped DEF Ordinary
<1>4. ts \in MinTime .. MaxTime
  BY <1>2, <1>3
<1>5. \A t \in Timestamp : t \in Int
  BY TimesTyped
<1>6. MaxTime \in Int /\ MinTime \in Int
  BY TimesTyped, <1>5
<1>7. ASSUME NEW p \in ports
      PROVE  /\ promise[p] > ts
             /\ seen[p] # <<>> => Head(seen[p]) >= ts
             /\ \A i \in 1 .. Len(seen[p]) : seen[p][i] > ts \/ (i = 1 /\ Head(seen[p]) = ts)
  <2>1. promise[p] \in Int /\ bound[p] \in Int /\ ts \in Int
    BY <1>5, <1>1
  <2>2. CASE seen[p] = <<>>
    <3>1. MinBound(ports, seen) > ts /\ MinBound(ports, seen) <= bound[p]
      BY <2>2, MinBoundIsLeast DEF Aligned
    <3>2. MinBound(ports, seen) \in Int
      BY MinBoundIsLeast, <1>5
    <3>3. bound[p] > ts
      BY <3>1, <3>2, <2>1
    <3>4. promise[p] > ts
      BY <3>3, <2>1, <1>4, <1>6, SMT DEF Honest
    <3>5. Len(seen[p]) = 0
      BY <2>2
    <3> QED
      BY <3>4, <3>5, <2>2
  <2>3. CASE seen[p] # <<>>
    <3>1. Head(seen[p]) >= ts /\ Head(seen[p]) \in Int
      BY <1>1, <1>3, <1>6, <2>3, <2>1
    <3>2. promise[p] > ts
      BY <1>3, <2>3, <3>1, <2>1
    <3>3. ASSUME NEW i \in 1 .. Len(seen[p])
          PROVE  seen[p][i] > ts \/ (i = 1 /\ Head(seen[p]) = ts)
      <4>1. seen[p][i] \in Int /\ (i # 1 => seen[p][1] < seen[p][i])
        BY <1>3, <2>3, <1>6, SMT DEF Ordinary, Rises
      <4>2. CASE i = 1
        BY <4>2, <3>1, <1>3, <2>3, <2>1
      <4>3. CASE i # 1
        BY <4>1, <4>3, <3>1, <1>3, <2>3, <2>1
      <4> QED
        BY <4>2, <4>3
    <3> QED
      BY <3>1, <3>2, <3>3
  <2> QED
    BY <2>2, <2>3
<1> QED
  BY <1>2, <1>4, <1>7

---------------------------------------------------------------------------
(* The rounds of a batch.                                                  *)

Start == [take |-> NoPackets, last |-> Unset, rounds |-> 0]

\* The equation of AlignedRounds, for the first m rounds.
IsRounds(seen, m, f) ==
    f = [n \in 0 .. m |-> IF n = 0 THEN Start ELSE NextRound(seen, f[n - 1], n)]

\* It has a solution ...
LEMMA RoundsExist ==
    ASSUME NEW seen, NEW m \in Nat
    PROVE  \E f : IsRounds(seen, m, f)
<1> DEFINE bad == {k \in Nat : ~ \E f : IsRounds(seen, k, f)}
<1>1. SUFFICES ASSUME bad # {} PROVE FALSE
  OBVIOUS
<1>2. PICK k \in bad : \A u \in bad : k <= u
  BY <1>1, LeastIsLeast
<1>3. k \in Nat /\ ~ \E f : IsRounds(seen, k, f)
  BY <1>2
<1>4. CASE k = 0
  <2> DEFINE f == [n \in 0 .. 0 |-> Start]
  <2>1. f = [n \in 0 .. 0 |-> IF n = 0 THEN Start ELSE NextRound(seen, f[n - 1], n)]
    <3>1. \A n \in 0 .. 0 : n = 0
      OBVIOUS
    <3> QED
      BY <3>1
  <2>2. IsRounds(seen, 0, f)
    BY <2>1 DEF IsRounds
  <2> QED
    BY <2>2, <1>3, <1>4
<1>5. CASE k # 0
  <2>1. k - 1 \in Nat /\ ~ (k <= k - 1)
    BY <1>3, <1>5
  <2>2. PICK g : IsRounds(seen, k - 1, g)
    BY <2>1, <1>2
  <2> DEFINE f == [n \in 0 .. k |-> IF n = k THEN NextRound(seen, g[k - 1], k) ELSE g[n]]
             body(n) == IF n = 0 THEN Start ELSE NextRound(seen, f[n - 1], n)
  <2>3. \A n \in 0 .. k - 1 :
           g[n] = IF n = 0 THEN Start ELSE NextRound(seen, g[n - 1], n)
    BY <2>2, Zenon DEF IsRounds
  <2>4. \A n \in 0 .. k - 1 : f[n] = g[n]
    BY <1>3
  <2>5. \A n \in 0 .. k : f[n] = body(n)
    <3>1. TAKE n \in 0 .. k
    <3>2. CASE n = k
      <4>1. f[n] = NextRound(seen, g[k - 1], k)
        BY <3>2, <1>3
      <4>2. f[k - 1] = g[k - 1]
        BY <2>4, <2>1
      <4> QED
        BY <4>1, <4>2, <3>2, <1>5, Zenon
    <3>3. CASE n # k
      <4>1. n \in 0 .. k - 1 /\ (n # 0 => n - 1 \in 0 .. k - 1)
        BY <3>3, <1>3
      <4>2. f[n] = g[n] /\ (n # 0 => f[n - 1] = g[n - 1])
        BY <4>1, <2>4
      <4> HIDE DEF f
      <4>3. g[n] = IF n = 0 THEN Start ELSE NextRound(seen, g[n - 1], n)
        BY <4>1, <2>3
      <4> QED
        BY <4>2, <4>3, Zenon
    <3> QED
      BY <3>2, <3>3
  <2>6. f = [n \in 0 .. k |-> f[n]]
    OBVIOUS
  <2>7. f = [n \in 0 .. k |-> body(n)]
    <3> HIDE DEF f
    <3> QED
      BY <2>5, <2>6, Zenon
  <2>8. IsRounds(seen, k, f)
    <3> HIDE DEF f
    <3> QED
      BY <2>7, Zenon DEF IsRounds
  <2> QED
    BY <2>8, <1>3
<1> QED
  BY <1>4, <1>5

\* ... which AlignedRounds is the end of.
LEMMA RoundsSolved ==
    ASSUME NEW seen
    PROVE  \E f : /\ AlignedRounds(seen) = f[Capacity]
                  /\ f[0] = Start
                  /\ \A n \in 1 .. Capacity : f[n] = NextRound(seen, f[n - 1], n)
<1> DEFINE f == CHOOSE g : IsRounds(seen, Capacity, g)
<1>1. Capacity \in Nat /\ 0 \in 0 .. Capacity
  BY AlignmentAssumption
<1>2. IsRounds(seen, Capacity, f)
  BY <1>1, RoundsExist, Zenon
<1>3. AlignedRounds(seen) = f[Capacity]
  BY Zenon DEF AlignedRounds, IsRounds, Start
<1> HIDE DEF f
<1>4. \A n \in 0 .. Capacity :
         f[n] = IF n = 0 THEN Start ELSE NextRound(seen, f[n - 1], n)
  BY <1>2, Zenon DEF IsRounds
<1>5. f[0] = Start
  BY <1>1, <1>4
<1>6. \A n \in 1 .. Capacity : n \in 0 .. Capacity /\ n # 0
  BY <1>1
<1>7. \A n \in 1 .. Capacity : f[n] = NextRound(seen, f[n - 1], n)
  BY <1>4, <1>6, Zenon
<1> QED
  BY <1>3, <1>5, <1>7

\* What holds of the state of a round: it takes no more than there is, ...
RoundTyped(seen, r) ==
    /\ r \in [take : [Ports -> Nat], last : Timestamp, rounds : Nat]
    /\ \A p \in Ports : r.take[p] <= Len(seen[p])

\* ... and all there is and will be up to its timestamp.
RoundFits(seen, r) ==
    r.rounds > 0 =>
        /\ r.last \in MinTime .. MaxTime
        /\ \E p \in Forward : r.take[p] > 0
        /\ \A p \in Forward :
              /\ promise[p] > r.last
              /\ \A i \in r.take[p] + 1 .. Len(seen[p]) : seen[p][i] > r.last

\* The rest of the queues, after the packets that are taken.
LEMMA RestTyped ==
    ASSUME NEW seen \in [Ports -> Streams], NEW r, RoundTyped(seen, r),
           NEW rest, rest = Rest(seen, r.take)
    PROVE  /\ rest \in [Ports -> Streams]
           /\ \A p \in Ports :
                 /\ Len(rest[p]) = Len(seen[p]) - r.take[p]
                 /\ \A i \in 1 .. Len(rest[p]) :
                       rest[p][i] = seen[p][i + r.take[p]] /\ i + r.take[p] \in 1 .. Len(seen[p])
                 /\ Len(seen[p]) \in Nat /\ r.take[p] \in Nat
<1>1. ASSUME NEW p \in Ports
      PROVE  /\ rest[p] \in Streams
             /\ Len(rest[p]) = Len(seen[p]) - r.take[p]
             /\ \A i \in 1 .. Len(rest[p]) :
                   rest[p][i] = seen[p][i + r.take[p]] /\ i + r.take[p] \in 1 .. Len(seen[p])
             /\ Len(seen[p]) \in Nat /\ r.take[p] \in Nat
  <2>1. seen[p] \in Seq(PreStream .. PostStream)
    BY DEF Streams
  <2>2. r.take[p] \in Nat /\ r.take[p] <= Len(seen[p])
    BY DEF RoundTyped
  <2>3. rest[p] = Drop(seen[p], r.take[p])
    BY DEF Rest, Drop
  <2>4. /\ rest[p] \in Seq(PreStream .. PostStream) /\ Len(rest[p]) = Len(seen[p]) - r.take[p]
        /\ \A i \in 1 .. Len(rest[p]) :
              rest[p][i] = seen[p][i + r.take[p]] /\ i + r.take[p] \in 1 .. Len(seen[p])
    BY <2>1, <2>2, <2>3, Suffix
  <2> QED
    BY <2>1, <2>2, <2>4, LenProperties DEF Streams
<1>2. rest = [p \in Ports |-> rest[p]]
  BY DEF Rest
<1> QED
  BY <1>1, <1>2

\* What a round takes: at most one packet of each port, which is there.
LEMMA TakeAtTyped ==
    ASSUME NEW rest \in [Ports -> Streams], NEW ts, NEW ports \in SUBSET Ports
    PROVE  /\ TakeAt(ts, ports, rest) \in [Ports -> Nat]
           /\ \A p \in Ports :
                 /\ TakeAt(ts, ports, rest)[p] \in {0, 1}
                 /\ TakeAt(ts, ports, rest)[p] = 1 <=>
                        p \in ports /\ rest[p] # <<>> /\ Head(rest[p]) = ts
                 /\ TakeAt(ts, ports, rest)[p] <= Len(rest[p])
                 /\ Len(rest[p]) \in Nat
<1>1. \A p \in Ports : /\ Len(rest[p]) \in Nat
                       /\ rest[p] # <<>> => Len(rest[p]) \in Nat \ {0}
  BY EmptySeq, LenProperties DEF Streams
<1> QED
  BY <1>1 DEF TakeAt

LEMMA NextRoundTyped ==
    ASSUME NEW seen \in [Ports -> Streams], NEW r, RoundTyped(seen, r), NEW n \in Nat
    PROVE  RoundTyped(seen, NextRound(seen, r, n))
<1> DEFINE rest == Rest(seen, r.take)
           ts == MinPacket(Forward, rest)
           at == TakeAt(ts, Forward, rest)
           new == [take |-> [p \in Ports |-> r.take[p] + at[p]], last |-> ts, rounds |-> n]
<1>1. rest \in [Ports -> Streams]
  BY RestTyped
<1>2. \A p \in Ports : Len(rest[p]) = Len(seen[p]) - r.take[p] /\ Len(seen[p]) \in Nat
                       /\ r.take[p] \in Nat
  BY RestTyped
<1>3. Forward \in SUBSET Ports
  BY DEF Forward
<1>4. ts \in Timestamp
  BY <1>1, <1>3, MinPacketIsLeast
<1>5. \A p \in Ports : at[p] \in Nat /\ at[p] <= Len(rest[p])
  BY <1>1, <1>3, TakeAtTyped
<1>6. NextRound(seen, r, n) \in {r, new}
  BY DEF NextRound
<1> HIDE DEF rest, ts, at
<1>7. \A p \in Ports : r.take[p] + at[p] \in Nat /\ r.take[p] + at[p] <= Len(seen[p])
  BY <1>2, <1>5
<1>8. RoundTyped(seen, new)
  BY <1>4, <1>7 DEF RoundTyped
<1> QED
  BY <1>6, <1>8

LEMMA NextRoundFits ==
    ASSUME NEW seen \in [Ports -> Streams], NEW r, RoundTyped(seen, r), RoundFits(seen, r),
           NEW n \in Nat,
           bound \in [Ports -> Timestamp], promise \in [Ports -> Timestamp],
           \A p \in Forward : Ordinary(seen[p], p) /\ Honest(p)
    PROVE  RoundFits(seen, NextRound(seen, r, n))
<1> DEFINE rest == Rest(seen, r.take)
           ts == MinPacket(Forward, rest)
           at == TakeAt(ts, Forward, rest)
           new == [take |-> [p \in Ports |-> r.take[p] + at[p]], last |-> ts, rounds |-> n]
<1>1. rest \in [Ports -> Streams]
  BY RestTyped
<1>2. \A p \in Ports :
         /\ Len(rest[p]) = Len(seen[p]) - r.take[p] /\ Len(seen[p]) \in Nat /\ r.take[p] \in Nat
         /\ \A i \in 1 .. Len(rest[p]) :
               rest[p][i] = seen[p][i + r.take[p]] /\ i + r.take[p] \in 1 .. Len(seen[p])
  BY RestTyped
<1>3. Forward \in SUBSET Ports
  BY DEF Forward
<1>4. \A p \in Forward : Ordinary(rest[p], p)
  <2>1. TAKE p \in Forward
  <2>2. \A i \in 1 .. Len(rest[p]) : rest[p][i] \in MinTime .. MaxTime /\ rest[p][i] < promise[p]
    BY <1>2, <1>3 DEF Ordinary
  <2>3. Rises(rest[p])
    <3>1. /\ PreStream .. PostStream \in SUBSET Int /\ seen[p] \in Seq(PreStream .. PostStream)
          /\ Rises(seen[p]) /\ r.take[p] \in Nat /\ r.take[p] <= Len(seen[p])
      BY <1>2, <1>3, TimesTyped DEF Ordinary, Streams, RoundTyped
    <3>2. rest[p] = Drop(seen[p], r.take[p])
      BY <1>3 DEF Rest, Drop
    <3> QED
      BY <3>1, <3>2, SuffixRises
  <2> QED
    BY <2>2, <2>3 DEF Ordinary
<1> HIDE DEF rest
<1>5. CASE ~ Aligned(Forward, rest) \/ r.rounds < n - 1
  BY <1>5 DEF NextRound, rest
<1>6. CASE Aligned(Forward, rest) /\ ~ (r.rounds < n - 1)
  <2>1. NextRound(seen, r, n) = new
    BY <1>6 DEF NextRound, rest
  <2> HIDE DEF ts
  <2>2. /\ ts \in MinTime .. MaxTime
        /\ \E p \in Forward : rest[p] # <<>> /\ Head(rest[p]) = ts
        /\ \A p \in Forward :
              /\ promise[p] > ts
              /\ \A i \in 1 .. Len(rest[p]) : rest[p][i] > ts \/ (i = 1 /\ Head(rest[p]) = ts)
    BY <1>1, <1>3, <1>4, <1>6, AlignedFits DEF ts
  <2>3. \A p \in Ports : /\ at[p] \in {0, 1}
                         /\ at[p] = 1 <=> p \in Forward /\ rest[p] # <<>> /\ Head(rest[p]) = ts
    BY <1>1, <1>3, TakeAtTyped
  <2> HIDE DEF at
  <2>4. \E p \in Forward : r.take[p] + at[p] > 0
    <3>1. PICK p \in Forward : rest[p] # <<>> /\ Head(rest[p]) = ts
      BY <2>2
    <3>2. at[p] = 1 /\ r.take[p] \in Nat
      BY <3>1, <2>3, <1>2, <1>3
    <3> QED
      BY <3>2
  <2>5. ASSUME NEW p \in Forward, NEW i \in r.take[p] + at[p] + 1 .. Len(seen[p])
        PROVE  seen[p][i] > ts
    <3>1. p \in Ports /\ r.take[p] \in Nat /\ at[p] \in {0, 1} /\ Len(seen[p]) \in Nat
      BY <1>2, <1>3, <2>3
    <3> DEFINE j == i - r.take[p]
    <3>2. j \in 1 .. Len(rest[p]) /\ j + r.take[p] = i /\ (at[p] = 1 => j # 1)
      BY <3>1, <1>2
    <3>3. rest[p][j] = seen[p][i]
      BY <3>1, <3>2, <1>2
    <3>4. rest[p] # <<>>
      BY <3>2
    <3>5. ~ (j = 1 /\ Head(rest[p]) = ts)
      BY <3>1, <3>2, <3>4, <2>3
    <3> QED
      BY <3>2, <3>3, <3>5, <2>2
  <2>6. RoundFits(seen, new)
    BY <2>2, <2>4, <2>5, <1>3 DEF RoundFits
  <2> QED
    BY <2>1, <2>6
<1> QED
  BY <1>5, <1>6

LEMMA StartTyped ==
    ASSUME NEW seen \in [Ports -> Streams]
    PROVE  RoundTyped(seen, Start) /\ RoundFits(seen, Start)
<1>1. \A p \in Ports : Len(seen[p]) \in Nat
  BY LenProperties DEF Streams
<1> QED
  BY <1>1, TimesTyped DEF RoundTyped, RoundFits, Start, NoPackets

\* A batch takes no more than was seen ...
LEMMA BatchTyped ==
    ASSUME NEW seen \in [Ports -> Streams]
    PROVE  RoundTyped(seen, AlignedRounds(seen))
<1>1. PICK f : /\ AlignedRounds(seen) = f[Capacity] /\ f[0] = Start
               /\ \A n \in 1 .. Capacity : f[n] = NextRound(seen, f[n - 1], n)
  BY RoundsSolved
<1> DEFINE bad == {n \in 0 .. Capacity : ~ RoundTyped(seen, f[n])}
<1>2. Capacity \in Nat
  BY AlignmentAssumption
<1>3. SUFFICES ASSUME bad # {} PROVE FALSE
  BY <1>1, <1>2
<1>4. bad \in SUBSET Nat
  BY <1>2
<1>5. PICK k \in bad : \A u \in bad : k <= u
  BY <1>3, <1>4, LeastIsLeast
<1>6. k \in 0 .. Capacity /\ ~ RoundTyped(seen, f[k])
  BY <1>5
<1>7. k # 0
  BY <1>1, <1>6, StartTyped
<1>8. k \in 1 .. Capacity /\ k \in Nat /\ k - 1 \in 0 .. Capacity /\ ~ (k <= k - 1)
  BY <1>2, <1>6, <1>7
<1>9. RoundTyped(seen, f[k - 1])
  BY <1>5, <1>8
<1> QED
  BY <1>1, <1>6, <1>8, <1>9, NextRoundTyped

\* ... and everything up to its last timestamp.
LEMMA BatchFits ==
    ASSUME NEW seen \in [Ports -> Streams],
           bound \in [Ports -> Timestamp], promise \in [Ports -> Timestamp],
           \A p \in Forward : Ordinary(seen[p], p) /\ Honest(p)
    PROVE  RoundFits(seen, AlignedRounds(seen))
<1>1. PICK f : /\ AlignedRounds(seen) = f[Capacity] /\ f[0] = Start
               /\ \A n \in 1 .. Capacity : f[n] = NextRound(seen, f[n - 1], n)
  BY RoundsSolved
<1> DEFINE bad == {n \in 0 .. Capacity : ~ (RoundTyped(seen, f[n]) /\ RoundFits(seen, f[n]))}
<1>2. Capacity \in Nat
  BY AlignmentAssumption
<1>3. SUFFICES ASSUME bad # {} PROVE FALSE
  BY <1>1, <1>2
<1>4. bad \in SUBSET Nat
  BY <1>2
<1>5. PICK k \in bad : \A u \in bad : k <= u
  BY <1>3, <1>4, LeastIsLeast
<1>6. k \in 0 .. Capacity /\ ~ (RoundTyped(seen, f[k]) /\ RoundFits(seen, f[k]))
  BY <1>5
<1>7. k # 0
  BY <1>1, <1>6, StartTyped
<1>8. k \in 1 .. Capacity /\ k \in Nat /\ k - 1 \in 0 .. Capacity /\ ~ (k <= k - 1)
  BY <1>2, <1>6, <1>7
<1>9. RoundTyped(seen, f[k - 1]) /\ RoundFits(seen, f[k - 1])
  BY <1>5, <1>8
<1>10. /\ RoundTyped(seen, NextRound(seen, f[k - 1], k))
       /\ RoundFits(seen, NextRound(seen, f[k - 1], k))
  BY <1>8, <1>9, NextRoundTyped, NextRoundFits
<1> QED
  BY <1>1, <1>6, <1>8, <1>10

---------------------------------------------------------------------------
(* Plans.                                                                  *)

\* The plans of each policy.
LEMMA PlanCases ==
    ASSUME TypeOK, NEW seen, NEW plan \in Plans(seen)
    PROVE  \/ /\ policy = "immediate" /\ Fronts(seen) # {} /\ plan.ports = Forward
              /\ plan.ts = MinPacket(Forward, seen) /\ plan.take = TakeAt(plan.ts, Forward, seen)
           \/ /\ policy \in {"sync", "fixed_size"} /\ Aligned(Forward, seen) /\ plan.ports = Forward
              /\ plan.ts = MinPacket(Forward, seen) /\ plan.take = TakeAt(plan.ts, Forward, seen)
           \/ /\ policy = "sync_set" /\ plan.ports \in Groups /\ Aligned(plan.ports, seen)
              /\ plan.ts = MinPacket(plan.ports, seen)
              /\ plan.take = TakeAt(plan.ts, plan.ports, seen)
           \/ /\ policy = "batch" /\ AlignedRounds(seen).rounds > 0 /\ plan.ports = Forward
              /\ plan.ts = AlignedRounds(seen).last /\ plan.take = AlignedRounds(seen).take
<1>1. policy \in {"sync", "immediate", "fixed_size", "sync_set", "batch"}
  BY AlignmentAssumption DEF TypeOK
<1> DEFINE at(ts, ports) == [ts |-> ts, ports |-> ports, take |-> TakeAt(ts, ports, seen)]
           ready == {g \in Groups : Aligned(g, seen)}
<1>2. CASE policy = "immediate"
  <2>1. Plans(seen) = IF Fronts(seen) = {} THEN {} ELSE {at(MinPacket(Forward, seen), Forward)}
    BY <1>2 DEF Plans
  <2> QED
    BY <1>2, <2>1
<1>3. CASE policy \in {"sync", "fixed_size"}
  <2>1. Plans(seen) = IF Aligned(Forward, seen) THEN {at(MinPacket(Forward, seen), Forward)} ELSE {}
    BY <1>3 DEF Plans
  <2> QED
    BY <1>3, <2>1
<1>4. CASE policy = "sync_set"
  <2>1. Plans(seen) =
          {at(MinPacket(g, seen), g) :
              g \in {h \in ready : \A k \in ready : MinPacket(h, seen) <= MinPacket(k, seen)}}
    BY <1>4 DEF Plans
  <2>2. PICK g \in Groups : Aligned(g, seen) /\ plan = at(MinPacket(g, seen), g)
    BY <2>1
  <2> QED
    BY <1>4, <2>2
<1>5. CASE policy = "batch"
  <2> DEFINE r == AlignedRounds(seen)
  <2>1. Plans(seen) = IF BatchReady(seen)
                      THEN {[ts |-> r.last, ports |-> Forward, take |-> r.take]} ELSE {}
    BY <1>5 DEF Plans
  <2>2. BatchReady(seen) /\ plan = [ts |-> r.last, ports |-> Forward, take |-> r.take]
    BY <2>1
  <2> QED
    BY <1>5, <2>2 DEF BatchReady
<1> QED
  BY <1>1, <1>2, <1>3, <1>4, <1>5

LEMMA PlanTyped ==
    ASSUME TypeOK, NEW seen \in [Ports -> Streams], NEW plan \in Plans(seen)
    PROVE  plan.ts \in Timestamp /\ plan.ports \in SUBSET Ports /\ plan.take \in [Ports -> Nat]
<1>1. Forward \in SUBSET Ports /\ \A g \in Groups : g \in SUBSET Ports
  BY AlignmentAssumption DEF Forward
<1>2. CASE policy = "batch"
  <2>1. /\ plan.ports = Forward
        /\ plan.ts = AlignedRounds(seen).last /\ plan.take = AlignedRounds(seen).take
    BY <1>2, PlanCases
  <2> QED
    BY <1>1, <2>1, BatchTyped DEF RoundTyped
<1>3. CASE policy # "batch"
  <2>1. /\ plan.ports \in SUBSET Ports
        /\ plan.ts = MinPacket(plan.ports, seen) /\ plan.take = TakeAt(plan.ts, plan.ports, seen)
    BY <1>1, <1>3, PlanCases
  <2> QED
    BY <2>1, MinPacketIsLeast, TakeAtTyped
<1> QED
  BY <1>2, <1>3

\* What is popped is a prefix of the queue.
LEMMA PoppedIsPrefix ==
    ASSUME TypeOK, NEW plan, plan.take \in [Ports -> Nat], NEW p \in Ports,
           NEW q, q = queue[p]
    PROVE  /\ Popped(plan, p) \in Streams
           /\ Len(Popped(plan, p)) \in Nat /\ Len(Popped(plan, p)) <= Len(q)
           /\ Len(q) \in Nat
           /\ (policy = "batch" /\ p \notin back /\ plan.take[p] <= Len(q)) =>
                  Len(Popped(plan, p)) = plan.take[p]
           /\ (/\ policy # "batch" /\ p \notin back /\ p \in plan.ports
               /\ q # <<>> /\ Head(q) = plan.ts) =>
                  Len(Popped(plan, p)) = 1
<1> DEFINE n == IF p \in back THEN 1
                ELSE IF policy = "batch" THEN plan.take[p]
                ELSE IF p \in plan.ports /\ q # <<>> /\ Head(q) = plan.ts THEN 1 ELSE 0
<1>1. q \in Seq(PreStream .. PostStream)
  BY DEF TypeOK, Streams
<1>2. Len(q) \in Nat /\ (q # <<>> => Len(q) \in Nat \ {0})
  BY <1>1, LenProperties, EmptySeq
<1>3. PICK k : k = n
  OBVIOUS
<1>4. k \in Nat
  BY <1>3
<1>5. PICK d : d = Len(q)
  OBVIOUS
<1>6. PICK l : l = IF k < d THEN k ELSE d
  OBVIOUS
<1>7. l \in Nat /\ l <= d
  BY <1>5, <1>2, <1>4, <1>6
<1>8. Popped(plan, p) = SubSeq(q, 1, l)
  BY <1>3, <1>6, <1>5 DEF Popped
<1>9. Popped(plan, p) \in Streams /\ Len(Popped(plan, p)) = l
  BY <1>5, <1>1, <1>7, <1>8, Prefix DEF Streams
<1>10. ASSUME policy = "batch", p \notin back, plan.take[p] <= d
      PROVE  l = plan.take[p]
  <2>1. k = plan.take[p]
    BY <1>3, <1>10
  <2> HIDE DEF n
  <2> QED
    BY <2>1, <1>5, <1>2, <1>4, <1>6, <1>10
<1>11. ASSUME policy # "batch", p \notin back, p \in plan.ports, q # <<>>, Head(q) = plan.ts
       PROVE  l = 1
  <2>1. k = 1
    BY <1>3, <1>11, Zenon
  <2>2. d \in Nat \ {0}
    BY <1>5, <1>2, <1>11
  <2> HIDE DEF n
  <2> QED
    BY <2>1, <2>2, <1>4, <1>6
<1> HIDE DEF n
<1> QED
  BY <1>5, <1>2, <1>7, <1>9, <1>10, <1>11

\* What a claim leaves.
Left(plan) == [p \in Ports |-> SubSeq(queue[p], Len(Popped(plan, p)) + 1, Len(queue[p]))]

IsLeft(plan, rest) ==
    /\ rest \in [Ports -> Streams]
    /\ \A p \in Ports :
          /\ Len(rest[p]) \in Nat
          /\ Rises(queue[p]) => Rises(rest[p])
          /\ \A i \in 1 .. Len(rest[p]) :
                \E j \in Len(Popped(plan, p)) + 1 .. Len(queue[p]) :
                    j \in 1 .. Len(queue[p]) /\ rest[p][i] = queue[p][j]

LEMMA LeftTyped ==
    ASSUME TypeOK, NEW plan, plan.take \in [Ports -> Nat]
    PROVE  IsLeft(plan, Left(plan))
<1>1. ASSUME NEW p \in Ports
      PROVE  /\ Left(plan)[p] \in Streams
             /\ Len(Left(plan)[p]) \in Nat
             /\ Rises(queue[p]) => Rises(Left(plan)[p])
             /\ \A i \in 1 .. Len(Left(plan)[p]) :
                   \E j \in Len(Popped(plan, p)) + 1 .. Len(queue[p]) :
                       j \in 1 .. Len(queue[p]) /\ Left(plan)[p][i] = queue[p][j]
  <2>1. PICK s : s = queue[p]
    OBVIOUS
  <2>2. PICK k : k = Len(Popped(plan, p))
    OBVIOUS
  <2>3. PICK q : q = Left(plan)[p]
    OBVIOUS
  <2>4. k \in Nat /\ k <= Len(s) /\ Len(s) \in Nat
    BY <2>1, <2>2, PoppedIsPrefix, Zenon
  <2>5. s \in Seq(PreStream .. PostStream)
    BY <2>1 DEF TypeOK, Streams
  <2>6. q = Drop(s, k)
    BY <2>1, <2>2, <2>3 DEF Left, Drop
  <2>7. /\ q \in Seq(PreStream .. PostStream)
        /\ Len(q) = Len(s) - k
        /\ \A i \in 1 .. Len(q) : q[i] = s[i + k] /\ i + k \in 1 .. Len(s)
    BY <2>4, <2>5, <2>6, Suffix
  <2>8. Rises(s) => Rises(q)
    BY <2>4, <2>5, <2>6, SuffixRises, TimesTyped
  <2>9. \A i \in 1 .. Len(q) : i + k \in k + 1 .. Len(s)
    BY <2>4, <2>7
  <2>10. Len(q) \in Nat
    BY <2>4, <2>7
  <2> QED
    BY <2>1, <2>2, <2>3, <2>7, <2>8, <2>9, <2>10 DEF Streams
<1>2. Left(plan) = [p \in Ports |-> Left(plan)[p]]
  BY DEF Left
<1> QED
  BY <1>1, <1>2 DEF IsLeft

\* A claim that nobody disturbs takes something, and all there is and will be of the
\* ports that take part, up to its timestamp.
PlanFits(plan) ==
    /\ \E p \in Forward : Popped(plan, p) # <<>>
    /\ Aligning =>
          /\ plan.ts \in MinTime .. MaxTime
          /\ \A p \in plan.ports :
                /\ promise[p] > plan.ts
                /\ \A i \in Len(Popped(plan, p)) + 1 .. Len(queue[p]) : queue[p][i] > plan.ts

LEMMA QuietPlanFits ==
    ASSUME IInv, quiet, scan.phase = "looked", ~SingleSlots, NEW plan \in Plans(scan.seen)
    PROVE  PlanFits(plan)
<1>1. /\ TypeOK /\ queue \in [Ports -> Streams] /\ scan.seen = queue
      /\ bound \in [Ports -> Timestamp] /\ promise \in [Ports -> Timestamp]
      /\ policy = "sync_set" => back = {}
  BY DEF IInv, TypeOK, ScanInv
<1>2. /\ plan \in Plans(queue) /\ plan.ts \in Timestamp /\ plan.ports \in SUBSET Ports
      /\ plan.take \in [Ports -> Nat]
  BY <1>1, PlanTyped
<1>3. Forward \in SUBSET Ports /\ Forward \cap back = {}
  BY DEF Forward
<1>4. \A p \in Ports : Ordinary(queue[p], p) /\ (Aligning => Honest(p))
  BY DEF IInv, OrderInv, PromiseInv, Ordinary, Honest
<1>5. \A p \in Ports : /\ Len(Popped(plan, p)) \in Nat
                       /\ Len(Popped(plan, p)) # 0 => Popped(plan, p) # <<>>
  <2>1. \A s : s = <<>> => Len(s) = 0
    OBVIOUS
  <2>2. \A p \in Ports : Len(Popped(plan, p)) \in Nat
    BY <1>1, <1>2, PoppedIsPrefix
  <2> QED
    BY <2>1, <2>2, Zenon
<1>6. \A p \in Ports : policy # "batch" /\ p \notin back /\ p \in plan.ports
                       /\ queue[p] # <<>> /\ Head(queue[p]) = plan.ts =>
                           Len(Popped(plan, p)) = 1
  BY <1>1, <1>2, PoppedIsPrefix
<1>7. CASE policy = "immediate"
  <2>1. Fronts(queue) # {} /\ plan.ts = MinPacket(Forward, queue) /\ plan.ports = Forward
    BY <1>1, <1>2, <1>7, PlanCases
  <2>2. PICK q \in Forward : queue[q] # <<>>
    BY <2>1 DEF Fronts
  <2>3. Head(queue[q]) \in PreStream .. PostStream /\ plan.ts <= Head(queue[q])
    BY <1>1, <1>3, <2>1, <2>2, HeadTyped, MinPacketIsLeast
  <2>4. plan.ts # Done
    <3>1. PICK h : h = Head(queue[q])
      OBVIOUS
    <3>2. h < Done /\ h \in Timestamp /\ Done \in Timestamp
      BY <3>1, <2>3, TimesTyped
    <3>3. \A t \in Timestamp : t \in Int
      BY TimesTyped
    <3> QED
      BY <3>1, <3>2, <3>3, <2>3, <1>2
  <2>5. PICK p \in Forward : queue[p] # <<>> /\ Head(queue[p]) = plan.ts
    BY <1>1, <1>3, <2>1, <2>4, MinPacketIsLeast
  <2>6. Len(Popped(plan, p)) = 1
    BY <1>3, <1>6, <1>7, <2>1, <2>5
  <2>7. Popped(plan, p) # <<>>
    <3>1. Len(Popped(plan, p)) # 0 /\ p \in Ports
      BY <1>3, <2>6
    <3> QED
      BY <1>5, <3>1, Zenon
  <2> QED
    BY <1>7, <2>7 DEF PlanFits, Aligning
<1>8. CASE policy = "batch"
  <2> DEFINE r == AlignedRounds(queue)
  <2>1. r.rounds > 0 /\ plan.ports = Forward /\ plan.ts = r.last /\ plan.take = r.take
    BY <1>1, <1>2, <1>8, PlanCases
  <2>2. RoundTyped(queue, r) /\ RoundFits(queue, r)
    BY <1>1, <1>3, <1>4, <1>8, BatchTyped, BatchFits DEF Aligning
  <2>3. \A p \in Forward : Len(Popped(plan, p)) = plan.take[p]
    BY <1>1, <1>2, <1>3, <1>8, <2>1, <2>2, PoppedIsPrefix DEF RoundTyped
  <2>4. /\ plan.ts \in MinTime .. MaxTime
        /\ \E p \in Forward : plan.take[p] > 0
        /\ \A p \in Forward :
              /\ promise[p] > plan.ts
              /\ \A i \in plan.take[p] + 1 .. Len(queue[p]) : queue[p][i] > plan.ts
    BY <2>1, <2>2 DEF RoundFits
  <2>5. PICK p \in Forward : plan.take[p] > 0
    BY <2>4
  <2>6. Popped(plan, p) # <<>>
    BY <1>3, <1>5, <2>3, <2>5
  <2> QED
    BY <2>1, <2>3, <2>4, <2>6 DEF PlanFits
<1>9. CASE policy \notin {"immediate", "batch"}
  <2>1. /\ plan.ports = Forward \/ (policy = "sync_set" /\ plan.ports \in Groups)
        /\ Aligned(plan.ports, queue) /\ plan.ts = MinPacket(plan.ports, queue)
    BY <1>1, <1>2, <1>9, PlanCases
  <2>2. plan.ports \subseteq Forward
    BY <1>1, <1>2, <2>1 DEF Forward
  <2>3. \A p \in plan.ports : Ordinary(queue[p], p) /\ Honest(p)
    BY <1>2, <1>4, <1>9 DEF Aligning
  <2>4. /\ plan.ts \in MinTime .. MaxTime
        /\ \E p \in plan.ports : queue[p] # <<>> /\ Head(queue[p]) = plan.ts
        /\ \A p \in plan.ports :
              /\ promise[p] > plan.ts
              /\ \A i \in 1 .. Len(queue[p]) :
                    queue[p][i] > plan.ts \/ (i = 1 /\ Head(queue[p]) = plan.ts)
    BY <1>1, <1>2, <2>1, <2>3, AlignedFits
  <2>5. PICK p \in plan.ports : queue[p] # <<>> /\ Head(queue[p]) = plan.ts
    BY <2>4
  <2>6. p \in Forward /\ Popped(plan, p) # <<>>
    <3>1. p \in Ports /\ p \in Forward /\ p \notin back
      BY <1>2, <1>3, <2>2
    <3>2. Len(Popped(plan, p)) = 1
      BY <1>6, <1>9, <2>5, <3>1
    <3>3. Len(Popped(plan, p)) # 0
      BY <3>2
    <3> QED
      BY <1>5, <3>1, <3>3, Zenon
  <2>7. ASSUME NEW q \in plan.ports, NEW i \in Len(Popped(plan, q)) + 1 .. Len(queue[q])
        PROVE  queue[q][i] > plan.ts
    <3>1. q \in Ports /\ q \notin back /\ Len(Popped(plan, q)) \in Nat /\ Len(queue[q]) \in Nat
      BY <1>1, <1>2, <1>3, <1>5, <2>2, LenProperties DEF Streams
    <3>2. i \in 1 .. Len(queue[q]) /\ (i = 1 => Len(Popped(plan, q)) = 0)
      BY <3>1
    <3>3. queue[q] # <<>>
      BY <3>1, <3>2
    <3>4. ~ (i = 1 /\ Head(queue[q]) = plan.ts)
      <4>1. SUFFICES ASSUME i = 1, Head(queue[q]) = plan.ts PROVE FALSE
        OBVIOUS
      <4>2. policy # "batch"
        BY <1>9
      <4>3. Len(Popped(plan, q)) = 1
        BY <1>6, <3>1, <3>3, <4>1, <4>2, Zenon
      <4>4. Len(Popped(plan, q)) = 0
        BY <3>2, <4>1
      <4> QED
        BY <4>3, <4>4
    <3> QED
      BY <2>4, <3>2, <3>4
  <2> QED
    BY <2>4, <2>6, <2>7 DEF PlanFits
<1> QED
  BY <1>7, <1>8, <1>9

---------------------------------------------------------------------------
(* Dispatches.                                                             *)

\* Packets that are dispatched together rise, from the promise of their stream on.
LEMMA BatchRises ==
    ASSUME TypeOK, NEW p \in Ports, NEW b \in Batches(p),
           NEW next, next = NextAllowedInStream(b[Len(b)])
    PROVE  /\ b \in Streams /\ Len(b) \in Nat \ {0} /\ Rises(b)
           /\ next \in Timestamp /\ promise[p] <= next
           /\ \A i \in 1 .. Len(b) :
                 /\ promise[p] <= b[i] /\ b[i] < next
                 /\ ~SingleSlots => b[i] \in MinTime .. MaxTime
<1> DEFINE first == AtLeast(promise[p], FirstTime)
<1>1. PICK n \in 1 .. MaxBatch : b \in [1 .. n -> first .. LastTime]
  BY DEF Batches
<1>2. \A i, j \in 1 .. Len(b) : i < j => NextAllowedInStream(b[i]) <= b[j]
  BY DEF Batches
<1>3. promise[p] \in Timestamp
  BY DEF TypeOK
<1>4. \A t \in first .. LastTime :
         /\ t \in PreStream .. PostStream /\ promise[p] <= t
         /\ ~SingleSlots => t \in MinTime .. MaxTime
  BY <1>3, SpanAssumption, AlignmentAssumption, SMT DEF AtLeast, FirstTime, LastTime, Timestamp,
      Unset, PreStream, MinTime, MaxTime, PostStream, Done
<1>5. n \in Nat \ {0}
  BY AlignmentAssumption
<1>6. b \in [1 .. n -> PreStream .. PostStream]
  BY <1>1, <1>4
<1>7. b \in Seq(PreStream .. PostStream)
  BY <1>5, <1>6, SeqDef
<1>8. Len(b) \in Nat /\ DOMAIN b = 1 .. Len(b)
  BY <1>7, LenProperties
<1>9. 1 .. Len(b) = 1 .. n
  BY <1>6, <1>8
<1>10. Len(b) \in Nat \ {0}
  <2>1. n \in 1 .. Len(b)
    BY <1>5, <1>9
  <2> QED
    BY <2>1, <1>8
<1>11. \A i \in 1 .. Len(b) :
          /\ b[i] \in PreStream .. PostStream /\ promise[p] <= b[i]
          /\ ~SingleSlots => b[i] \in MinTime .. MaxTime
  BY <1>1, <1>4, <1>9
<1>12. \A i \in 1 .. Len(b) :
          /\ b[i] \in Timestamp
          /\ NextAllowedInStream(b[i]) \in Timestamp /\ NextAllowedInStream(b[i]) > b[i]
  BY <1>11, NextExceeds, TimesTyped
<1>13. \A t \in Timestamp : t \in Int
  BY TimesTyped
<1>14. \A i, j \in 1 .. Len(b) : i < j => b[i] < b[j]
  BY <1>2, <1>12, <1>13
<1>15. PICK l : l = Len(b)
  OBVIOUS
<1>16. \A i \in 1 .. l : b[i] < next
  <2>1. TAKE i \in 1 .. l
  <2>2. l \in 1 .. l /\ next = NextAllowedInStream(b[l]) /\ (i # l => i < l)
    BY <1>10, <1>15
  <2>3. b[l] < next /\ b[l] \in Int /\ next \in Int /\ b[i] \in Int
    BY <1>12, <1>13, <1>15, <2>2
  <2>4. i # l => b[i] < b[l]
    BY <1>14, <1>15, <2>2
  <2> QED
    BY <2>3, <2>4
<1>17. next \in Timestamp /\ promise[p] <= next
  <2>1. l \in 1 .. l /\ next = NextAllowedInStream(b[l])
    BY <1>10, <1>15
  <2>2. next \in Timestamp /\ b[l] < next /\ promise[p] <= b[l] /\ b[l] \in Timestamp
    BY <1>11, <1>12, <1>15, <2>1
  <2> QED
    BY <1>3, <1>13, <2>2
<1> QED
  BY <1>7, <1>10, <1>11, <1>14, <1>15, <1>16, <1>17 DEF Streams, Rises

\* The queue still rises, and holds nothing but what it held and what was dispatched.
LEMMA PushFits ==
    ASSUME TypeOK, OrderInv, NEW p \in Ports, NEW b \in Batches(p),
           NEW q, q = Push(p, b)
    PROVE  /\ q \in Streams /\ Rises(q)
           /\ \A i \in 1 .. Len(q) :
                 \/ \E j \in 1 .. Len(queue[p]) : q[i] = queue[p][j]
                 \/ \E j \in 1 .. Len(b) : q[i] = b[j]
<1>1. PICK s : s = queue[p]
  OBVIOUS
<1>2. s \in Seq(PreStream .. PostStream) /\ Rises(s) /\ \A i \in 1 .. Len(s) : s[i] < promise[p]
  BY <1>1 DEF TypeOK, Streams, OrderInv
<1>3. /\ b \in Seq(PreStream .. PostStream) /\ Rises(b)
      /\ \A i \in 1 .. Len(b) : promise[p] <= b[i]
  BY BatchRises DEF Streams
<1>4. PICK c : c = s \o b
  OBVIOUS
<1>5. /\ c \in Seq(PreStream .. PostStream) /\ Len(c) = Len(s) + Len(b)
      /\ \A i \in 1 .. Len(s) + Len(b) : c[i] = IF i <= Len(s) THEN s[i] ELSE b[i - Len(s)]
  BY <1>2, <1>3, <1>4, ConcatProperties
<1>6. Len(s) \in Nat /\ Len(b) \in Nat
  BY <1>2, <1>3, LenProperties
<1>7. PICK m, n : m = Len(s) /\ n = Len(b)
  OBVIOUS
<1>8. \A i \in 1 .. m + n : /\ i <= m => i \in 1 .. m /\ c[i] = s[i]
                            /\ ~ (i <= m) => i - m \in 1 .. n /\ c[i] = b[i - m]
  BY <1>5, <1>6, <1>7
<1>9. \A t \in PreStream .. PostStream : t \in Int
  OBVIOUS
<1>10. promise[p] \in Int
  BY TimesAreInts DEF TypeOK
<1>11. /\ \A i \in 1 .. m : s[i] \in Int /\ s[i] < promise[p]
       /\ \A i \in 1 .. n : b[i] \in Int /\ promise[p] <= b[i]
  BY <1>2, <1>3, <1>7, <1>9, ElementOfSeq
<1>12. Rises(c)
  <2>1. SUFFICES ASSUME NEW i \in 1 .. m + n, NEW j \in 1 .. m + n, i < j
                 PROVE  c[i] < c[j]
    BY <1>5, <1>7 DEF Rises
  <2>2. m \in Nat /\ n \in Nat
    BY <1>6, <1>7
  <2>3. CASE j <= m
    <3>1. i <= m /\ i \in 1 .. m /\ j \in 1 .. m
      BY <2>1, <2>2, <2>3
    <3> QED
      BY <1>2, <1>7, <1>8, <2>1, <2>3, <3>1 DEF Rises
  <2>4. CASE ~ (i <= m)
    <3>1. ~ (j <= m) /\ i - m \in 1 .. n /\ j - m \in 1 .. n /\ i - m < j - m
      BY <2>1, <2>2, <2>4
    <3>2. b[i - m] < b[j - m]
      BY <1>3, <1>7, <3>1, Zenon DEF Rises
    <3> QED
      BY <1>8, <2>4, <3>1, <3>2
  <2>5. CASE i <= m /\ ~ (j <= m)
    <3>1. /\ c[i] = s[i] /\ i \in 1 .. m
          /\ c[j] = b[j - m] /\ j - m \in 1 .. n
      BY <1>8, <2>5
    <3>2. s[i] < promise[p] /\ s[i] \in Int /\ promise[p] <= b[j - m] /\ b[j - m] \in Int
      BY <1>11, <3>1, Zenon
    <3> QED
      BY <1>10, <3>1, <3>2
  <2> QED
    BY <2>3, <2>4, <2>5
<1>13. PICK k \in Nat : k <= Len(c) /\ q = Drop(c, k)
  <2>1. Push(p, b) = c \/ Push(p, b) = Newest(c, 1) \/ Push(p, b) = Newest(c, Capacity)
    BY <1>1, <1>4 DEF Push
  <2>2. c = Drop(c, 0) /\ 0 \in Nat /\ 0 <= Len(c)
    BY <1>5, <1>6, SubSeqFull, 0 + 1 = 1 DEF Drop
  <2>3. 1 \in Nat /\ Capacity \in Nat
    BY AlignmentAssumption
  <2> QED
    <3>1. CASE q = c
      BY <2>2, <3>1
    <3>2. CASE q = Newest(c, 1)
      BY <1>5, <2>3, <3>2, NewestIsSuffix
    <3>3. CASE q = Newest(c, Capacity)
      BY <1>5, <2>3, <3>3, NewestIsSuffix
    <3> QED
      BY <2>1, <3>1, <3>2, <3>3
<1>14. /\ q \in Seq(PreStream .. PostStream)
       /\ \A i \in 1 .. Len(q) : q[i] = c[i + k] /\ i + k \in 1 .. Len(c)
  BY <1>5, <1>13, Suffix
<1>15. Rises(q)
  <2>1. PreStream .. PostStream \in SUBSET Int
    OBVIOUS
  <2> QED
    BY <1>5, <1>12, <1>13, <2>1, SuffixRises
<1>16. ASSUME NEW i \in 1 .. Len(q)
       PROVE  \/ \E j \in 1 .. Len(s) : q[i] = s[j]
              \/ \E j \in 1 .. Len(b) : q[i] = b[j]
  <2>1. PICK j \in 1 .. m + n : q[i] = c[j]
    BY <1>5, <1>7, <1>14
  <2> QED
    BY <1>7, <1>8, <2>1
<1> QED
  BY <1>1, <1>14, <1>15, <1>16 DEF Streams

---------------------------------------------------------------------------
(* The invariant holds initially, and every step keeps it.                 *)

LEMMA NothingTyped ==
    /\ <<>> \in Streams /\ Len(<<>>) = 0
    /\ NoInvocation \in [ts : Timestamp, taken : [Ports -> Streams], ports : SUBSET Ports,
                         done : [Ports -> BOOLEAN]]
    /\ NoScan \in [by : Threads, phase : {"free", "looked", "popped"},
                   seen : [Ports -> Streams], left : [Ports -> Nat]]
<1>1. <<>> \in Streams /\ Len(<<>>) = 0
  BY EmptySeq DEF Streams
<1>2. Unset \in Timestamp /\ Worker \in Threads
  BY TimesTyped DEF Worker, Threads
<1> QED
  BY <1>1, <1>2 DEF NoInvocation, NoScan

LEMMA InitHolds == Init => IInv
<1> SUFFICES ASSUME Init PROVE IInv
  OBVIOUS
<1>1. TypeOK
  <2>1. PreStream \in Timestamp
    BY TimesTyped
  <2>2. bound \in [Ports -> Timestamp] /\ promise \in [Ports -> Timestamp]
    BY <2>1 DEF Init
  <2>3. queue \in [Ports -> Streams]
    BY NothingTyped DEF Init
  <2>4. scan \in [by : Threads, phase : {"free", "looked", "popped"},
                  seen : [Ports -> Streams], left : [Ports -> Nat]]
    BY NothingTyped, Zenon DEF Init
  <2>5. inv \in [ts : Timestamp, taken : [Ports -> Streams], ports : SUBSET Ports,
                 done : [Ports -> BOOLEAN]]
    BY NothingTyped, Zenon DEF Init
  <2> QED
    BY <2>2, <2>3, <2>4, <2>5 DEF Init, TypeOK
<1>2. ScanInv
  BY DEF Init, ScanInv, NoScan
<1>3. DoneInv
  BY DEF Init, DoneInv, DoneIsFinal, NoScan, NoInvocation
<1>4. \A p \in Ports : 1 .. Len(queue[p]) = {}
  BY NothingTyped DEF Init
<1>5. OrderInv
  BY <1>4 DEF OrderInv, Rises
<1>6. PromiseInv
  <2>1. \A p \in Ports : bound[p] = promise[p] /\ bound[p] \in Int
    BY TimesTyped, TimesAreInts DEF Init
  <2> QED
    BY <1>4, <2>1 DEF PromiseInv
<1> QED
  BY <1>1, <1>2, <1>3, <1>5, <1>6 DEF IInv

LEMMA DispatchKeeps ==
    ASSUME IInv, NEW p \in Ports, Dispatch(p)
    PROVE  IInv'
<1> USE DEF Goto
<1>1. /\ TypeOK /\ ScanInv /\ DoneInv /\ OrderInv /\ PromiseInv
      /\ pc[p] = "idle" /\ ~closed[p] /\ (quiet => Free)
      /\ UNCHANGED <<config, bound, closed, scan, claims>>
  BY DEF IInv, Dispatch, MayDispatch
<1>2. PICK b \in Batches(p) :
          /\ queue' = [queue EXCEPT ![p] = Push(p, b)]
          /\ promise' = [promise EXCEPT ![p] = NextAllowedInStream(b[Len(b)])]
  BY DEF Dispatch
<1>3. PICK next : next = NextAllowedInStream(b[Len(b)])
  OBVIOUS
<1>4. PICK q : q = Push(p, b)
  OBVIOUS
<1>5. /\ next \in Timestamp /\ promise[p] <= next
      /\ \A i \in 1 .. Len(b) :
            /\ promise[p] <= b[i] /\ b[i] < next
            /\ ~SingleSlots => b[i] \in MinTime .. MaxTime
  BY <1>1, <1>3, BatchRises
<1>6. /\ q \in Streams /\ Rises(q)
      /\ \A i \in 1 .. Len(q) :
            \/ \E j \in 1 .. Len(queue[p]) : q[i] = queue[p][j]
            \/ \E j \in 1 .. Len(b) : q[i] = b[j]
  BY <1>1, <1>4, PushFits
<1>7. /\ queue' \in [Ports -> Streams] /\ promise' \in [Ports -> Timestamp]
      /\ queue'[p] = q /\ promise'[p] = next
      /\ \A o \in Ports \ {p} : queue'[o] = queue[o] /\ promise'[o] = promise[o]
  BY <1>1, <1>2, <1>3, <1>4, <1>5, <1>6 DEF TypeOK
<1>8. pc' = [pc EXCEPT ![p] = "advance"] /\ p \in Threads
  BY DEF Dispatch, Threads
<1>9. TypeOK'
  BY <1>1, <1>7, <1>8 DEF TypeOK, config, claims
<1>10. ScanInv'
  BY <1>1 DEF ScanInv, config, claims, Free
<1>11. DoneInv'
  BY <1>1, <1>7, <1>8 DEF DoneInv, DoneIsFinal, TypeOK, config, claims
<1>12. promise[p] \in Int /\ next \in Int /\ bound[p] \in Int /\ MaxTime \in Int
  BY <1>1, <1>5, TimesAreInts, TimesTyped DEF TypeOK
<1>13. \A t \in PreStream .. PostStream : t \in Int
  OBVIOUS
<1>14. \A i \in 1 .. Len(queue[p]) : queue[p][i] \in Int /\ queue[p][i] < promise[p]
  BY <1>1, <1>13, ElementOfSeq DEF TypeOK, Streams, OrderInv
<1>15. OrderInv'
  <2>1. \A i \in 1 .. Len(q) : q[i] < next
    <3>1. TAKE i \in 1 .. Len(q)
    <3>2. CASE \E j \in 1 .. Len(queue[p]) : q[i] = queue[p][j]
      <4>1. q[i] \in Int /\ q[i] < promise[p]
        BY <1>14, <3>2
      <4> QED
        BY <1>5, <1>12, <4>1
    <3>3. CASE \E j \in 1 .. Len(b) : q[i] = b[j]
      BY <1>5, <3>3
    <3> QED
      BY <1>6, <3>2, <3>3
  <2> QED
    BY <1>1, <1>6, <1>7, <2>1 DEF OrderInv
<1>16. PromiseInv'
  <2>1. SUFFICES ASSUME ~SingleSlots, NEW o \in Ports
                 PROVE  /\ \A i \in 1 .. Len(queue'[o]) : queue'[o][i] \in MinTime .. MaxTime
                        /\ quiet /\ Aligning => bound[o] <= promise'[o] \/ promise'[o] > MaxTime
    BY <1>1 DEF PromiseInv, Aligning, config
  <2>2. /\ \A i \in 1 .. Len(queue[o]) : queue[o][i] \in MinTime .. MaxTime
        /\ quiet /\ Aligning => bound[o] <= promise[o] \/ promise[o] > MaxTime
    BY <1>1, <2>1 DEF PromiseInv
  <2>3. CASE o = p
    <3>1. \A i \in 1 .. Len(q) : q[i] \in MinTime .. MaxTime
      BY <1>5, <1>6, <2>1, <2>2, <2>3
    <3>2. quiet /\ Aligning => bound[p] <= next \/ next > MaxTime
      BY <1>5, <1>12, <2>2, <2>3
    <3> QED
      BY <1>7, <2>3, <3>1, <3>2
  <2>4. CASE o # p
    BY <1>7, <2>2, <2>4
  <2> QED
    BY <2>3, <2>4
<1> QED
  BY <1>9, <1>10, <1>11, <1>15, <1>16 DEF IInv

\* A thread raises the bound to the promise of its stream.
LEMMA RaiseKeeps ==
    ASSUME IInv, NEW p \in Ports, pc[p] \in {"advance", "closing"},
           bound' = Raised(p, promise[p]), Goto(p, "schedule"),
           UNCHANGED <<config, queue, closed, promise, scan, claims>>
    PROVE  IInv'
<1> USE DEF Goto
<1>1. TypeOK /\ ScanInv /\ DoneInv /\ OrderInv /\ PromiseInv
  BY DEF IInv
<1>2. AtLeast(bound[p], promise[p]) \in Timestamp
      /\ AtLeast(bound[p], promise[p]) \in {bound[p], promise[p]}
  BY <1>1, AtLeastTyped DEF TypeOK
<1>3. /\ bound' \in [Ports -> Timestamp]
      /\ bound'[p] = bound[p] \/ bound'[p] = promise[p]
      /\ \A o \in Ports \ {p} : bound'[o] = bound[o]
  BY <1>1, <1>2 DEF TypeOK, Raised
<1>4. pc' = [pc EXCEPT ![p] = "schedule"] /\ p \in Threads
  BY DEF Threads
<1>5. TypeOK'
  BY <1>1, <1>3, <1>4 DEF TypeOK, config, claims
<1>6. ScanInv'
  BY <1>1 DEF ScanInv, config, claims
<1>7. DoneInv'
  BY <1>1, <1>4 DEF DoneInv, DoneIsFinal, TypeOK, config, claims
<1>8. OrderInv'
  BY <1>1 DEF OrderInv
<1>9. promise[p] \in Int
  BY <1>1, TimesAreInts DEF TypeOK
<1>10. PromiseInv'
  BY <1>1, <1>3, <1>9 DEF PromiseInv, Aligning, config
<1> QED
  BY <1>5, <1>6, <1>7, <1>8, <1>10 DEF IInv

\* A stream says that it will bring nothing below to.
LEMMA PromiseGrows ==
    ASSUME IInv, NEW p \in Ports, NEW to \in Timestamp, promise[p] <= to,
           promise' = [promise EXCEPT ![p] = to],
           bound' = bound \/ bound' = Raised(p, to),
           UNCHANGED <<config, queue>>
    PROVE  OrderInv' /\ PromiseInv' /\ bound' \in [Ports -> Timestamp]
           /\ promise' \in [Ports -> Timestamp]
<1>1. TypeOK /\ OrderInv /\ PromiseInv
  BY DEF IInv
<1>2. AtLeast(bound[p], to) \in Timestamp /\ AtLeast(bound[p], to) \in {bound[p], to}
  BY <1>1, AtLeastTyped DEF TypeOK
<1>3. /\ bound' \in [Ports -> Timestamp] /\ promise' \in [Ports -> Timestamp]
      /\ bound'[p] = bound[p] \/ bound'[p] = to
      /\ promise'[p] = to
      /\ \A o \in Ports \ {p} : bound'[o] = bound[o] /\ promise'[o] = promise[o]
  BY <1>1, <1>2 DEF TypeOK, Raised
<1>4. promise[p] \in Int /\ to \in Int /\ bound[p] \in Int /\ MaxTime \in Int
  BY <1>1, TimesAreInts, TimesTyped DEF TypeOK
<1>5. \A t \in PreStream .. PostStream : t \in Int
  OBVIOUS
<1>6. \A i \in 1 .. Len(queue[p]) : queue[p][i] \in Int /\ queue[p][i] < promise[p]
  BY <1>1, <1>5, ElementOfSeq DEF TypeOK, Streams, OrderInv
<1>7. \A i \in 1 .. Len(queue[p]) : queue[p][i] < to
  BY <1>4, <1>6
<1>8. OrderInv'
  BY <1>1, <1>3, <1>7 DEF OrderInv
<1>9. PromiseInv'
  <2>1. SUFFICES ASSUME ~SingleSlots, NEW o \in Ports, quiet /\ Aligning
                 PROVE  bound'[o] <= promise'[o] \/ promise'[o] > MaxTime
    BY <1>1 DEF PromiseInv, Aligning, config
  <2>2. bound[o] <= promise[o] \/ promise[o] > MaxTime
    BY <1>1, <2>1 DEF PromiseInv
  <2>3. CASE o = p
    BY <1>3, <1>4, <2>2, <2>3
  <2>4. CASE o # p
    BY <1>3, <2>2, <2>4
  <2> QED
    BY <2>3, <2>4
<1> QED
  BY <1>3, <1>8, <1>9

LEMMA PropagateBoundKeeps ==
    ASSUME IInv, NEW p \in Ports, PropagateBound(p)
    PROVE  IInv'
<1> USE DEF Goto
<1>1. /\ TypeOK /\ ScanInv /\ DoneInv
      /\ pc[p] = "idle" /\ ~closed[p]
      /\ pc' = [pc EXCEPT ![p] = "schedule"] /\ p \in Threads
      /\ UNCHANGED <<config, queue, closed, scan, claims>>
  BY DEF IInv, PropagateBound, MayDispatch, Threads
<1>2. PICK to \in promise[p] + 1 .. OneOverPostStream :
          bound' = Raised(p, to) /\ promise' = [promise EXCEPT ![p] = to]
  BY DEF PropagateBound
<1>3. to \in Timestamp /\ promise[p] <= to
  <2>1. promise[p] \in Timestamp
    BY <1>1 DEF TypeOK
  <2> QED
    BY <2>1, SpanAssumption, SMT DEF Timestamp, Unset, OneOverPostStream, Done
<1>4. OrderInv' /\ PromiseInv' /\ bound' \in [Ports -> Timestamp]
      /\ promise' \in [Ports -> Timestamp]
  BY <1>1, <1>2, <1>3, PromiseGrows
<1>5. TypeOK'
  BY <1>1, <1>4 DEF TypeOK, config, claims
<1>6. ScanInv'
  BY <1>1 DEF ScanInv, config, claims
<1>7. DoneInv'
  BY <1>1 DEF DoneInv, DoneIsFinal, TypeOK, config, claims
<1> QED
  BY <1>4, <1>5, <1>6, <1>7 DEF IInv

LEMMA CloseKeeps ==
    ASSUME IInv, NEW p \in Ports, Close(p)
    PROVE  IInv'
<1> USE DEF Goto
<1>1. /\ TypeOK /\ ScanInv /\ DoneInv
      /\ pc[p] = "idle" /\ ~closed[p]
      /\ pc' = [pc EXCEPT ![p] = "closing"] /\ p \in Threads
      /\ closed' = [closed EXCEPT ![p] = TRUE]
      /\ promise' = [promise EXCEPT ![p] = Done]
      /\ UNCHANGED <<config, queue, bound, scan, claims>>
  BY DEF IInv, Close, MayDispatch, Threads
<1>2. Done \in Timestamp /\ promise[p] <= Done
  BY <1>1, TimesTyped DEF TypeOK
<1>3. OrderInv' /\ PromiseInv' /\ promise' \in [Ports -> Timestamp]
  BY <1>1, <1>2, PromiseGrows
<1>4. TypeOK'
  BY <1>1, <1>3 DEF TypeOK, config, claims
<1>5. ScanInv'
  BY <1>1 DEF ScanInv, config, claims
<1>6. DoneInv'
  BY <1>1 DEF DoneInv, DoneIsFinal, TypeOK, config, claims
<1> QED
  BY <1>3, <1>4, <1>5, <1>6 DEF IInv

\* Neither the queues nor what the streams promise change.
LEMMA InputsStay ==
    ASSUME IInv, UNCHANGED <<config, inputs, promise>>
    PROVE  OrderInv' /\ PromiseInv'
BY DEF IInv, OrderInv, PromiseInv, Aligning, config, inputs

LEMMA RefusedKeeps ==
    ASSUME IInv, NEW t \in Threads, Refused(t)
    PROVE  IInv'
<1>1. /\ TypeOK /\ ScanInv /\ DoneInv /\ Free
      /\ pc' = [pc EXCEPT ![t] = "idle"]
      /\ UNCHANGED <<config, inputs, promise, scan, claims>>
  BY DEF IInv, Refused, Goto
<1>2. TypeOK'
  BY <1>1 DEF TypeOK, config, inputs, claims
<1>3. ScanInv'
  BY <1>1 DEF ScanInv, config, inputs, claims
<1>4. DoneInv'
  BY <1>1 DEF DoneInv, DoneIsFinal, Free, config, inputs, claims
<1> QED
  BY <1>1, <1>2, <1>3, <1>4, InputsStay DEF IInv

LEMMA LookKeeps ==
    ASSUME IInv, NEW t \in Threads, Look(t)
    PROVE  IInv'
<1>1. /\ TypeOK /\ ScanInv /\ DoneInv /\ inFlight = 0
      /\ scan' = [scan EXCEPT !.by = t, !.phase = "looked", !.seen = queue]
      /\ UNCHANGED <<config, inputs, pc, promise, claims>>
  BY DEF IInv, Look
<1>2. /\ scan' \in [by : Threads, phase : {"free", "looked", "popped"},
                    seen : [Ports -> Streams], left : [Ports -> Nat]]
      /\ scan'.phase = "looked" /\ scan'.seen = queue
  BY <1>1 DEF TypeOK
<1>3. TypeOK'
  BY <1>1, <1>2 DEF TypeOK, config, inputs, claims
<1>4. ScanInv'
  BY <1>1, <1>2 DEF ScanInv, config, inputs, claims
<1>5. DoneInv'
  BY <1>1, <1>2 DEF DoneInv, DoneIsFinal, config, inputs, claims
<1> QED
  BY <1>1, <1>3, <1>4, <1>5, InputsStay DEF IInv

LEMMA NotReadyKeeps ==
    ASSUME IInv, NotReady
    PROVE  IInv'
<1>1. /\ TypeOK /\ ScanInv /\ DoneInv
      /\ scan' = NoScan
      /\ pc' = [pc EXCEPT ![scan.by] = "idle"]
      /\ UNCHANGED <<config, inputs, promise, claims>>
  BY DEF IInv, NotReady, Goto
<1>2. scan'.phase = "free"
  BY <1>1 DEF NoScan
<1>3. /\ scan' \in [by : Threads, phase : {"free", "looked", "popped"},
                    seen : [Ports -> Streams], left : [Ports -> Nat]]
  BY <1>1, NothingTyped, Zenon
<1>4. scan.by \in Threads
  BY <1>1 DEF TypeOK
<1>5. TypeOK'
  BY <1>1, <1>3, <1>4 DEF TypeOK, config, inputs, claims
<1>6. ScanInv'
  BY <1>1, <1>2 DEF ScanInv, config, inputs, claims
<1>7. DoneInv'
  BY <1>1, <1>2 DEF DoneInv, DoneIsFinal, config, inputs, claims
<1> QED
  BY <1>1, <1>5, <1>6, <1>7, InputsStay DEF IInv

LEMMA ClaimedKeeps ==
    ASSUME IInv, Claimed
    PROVE  IInv'
<1>1. /\ TypeOK /\ ScanInv /\ DoneInv /\ scan.phase = "popped"
      /\ inv' = [inv EXCEPT !.done = DoneFlags]
      /\ scan' = NoScan
      /\ UNCHANGED <<config, inputs, pc, promise, inFlight>>
  BY DEF IInv, Claimed
<1>2. scan'.phase = "free"
  BY <1>1 DEF NoScan
<1>3. scan' \in [by : Threads, phase : {"free", "looked", "popped"},
                 seen : [Ports -> Streams], left : [Ports -> Nat]]
  BY <1>1, NothingTyped, Zenon
<1>4. \A p \in Ports : DoneFlags[p] => closed[p] /\ scan.left[p] = 0
  BY DEF DoneFlags
<1>5. DoneFlags \in [Ports -> BOOLEAN]
  BY DEF DoneFlags
<1>6. /\ inv' \in [ts : Timestamp, taken : [Ports -> Streams], ports : SUBSET Ports,
                   done : [Ports -> BOOLEAN]]
      /\ inv'.done = DoneFlags
  BY <1>1, <1>5 DEF TypeOK
<1>7. TypeOK'
  BY <1>1, <1>3, <1>6 DEF TypeOK, config, inputs
<1>8. ScanInv'
  BY <1>1, <1>2 DEF ScanInv, config, inputs
<1>9. DoneInv'
  BY <1>1, <1>2, <1>4, <1>6 DEF DoneInv, DoneIsFinal, inputs
<1> QED
  BY <1>1, <1>7, <1>8, <1>9, InputsStay DEF IInv

LEMMA RetireKeeps ==
    ASSUME IInv, Retire
    PROVE  IInv'
<1>1. /\ TypeOK /\ ScanInv /\ DoneInv /\ Free
      /\ inFlight' = 0 /\ inv' = NoInvocation
      /\ pc' = [pc EXCEPT ![Worker] = "schedule"]
      /\ UNCHANGED <<config, inputs, promise, scan>>
  BY DEF IInv, Retire, Goto
<1>2. inv' \in [ts : Timestamp, taken : [Ports -> Streams], ports : SUBSET Ports,
                done : [Ports -> BOOLEAN]]
  BY <1>1, NothingTyped, Zenon
<1>3. \A p \in Ports : ~inv'.done[p]
  BY <1>1 DEF NoInvocation
<1>4. TypeOK'
  BY <1>1, <1>2 DEF TypeOK, config, inputs
<1>5. ScanInv'
  BY <1>1 DEF ScanInv, Free, config, inputs
<1>6. DoneInv'
  BY <1>1, <1>3 DEF DoneInv, DoneIsFinal, Free, inputs
<1> QED
  BY <1>1, <1>4, <1>5, <1>6, InputsStay DEF IInv

LEMMA StutterKeeps ==
    ASSUME IInv, UNCHANGED vars
    PROVE  IInv'
<1>1. TypeOK'
  BY DEF IInv, TypeOK, vars, config, inputs, claims
<1>2. ScanInv'
  BY DEF IInv, ScanInv, vars, config, inputs, claims
<1>3. DoneInv'
  BY DEF IInv, DoneInv, DoneIsFinal, vars, config, inputs, claims
<1> QED
  BY <1>1, <1>2, <1>3, InputsStay DEF IInv, vars

\* What a claim does, for the plan it follows.
Follows(plan) ==
    /\ queue' = Left(plan)
    /\ bound' = [p \in Ports |->
                    IF p \in plan.ports
                      THEN AtLeast(bound[p], NextAllowedInStream(plan.ts)) ELSE bound[p]]
    /\ inv' = [ts |-> plan.ts, taken |-> [p \in Ports |-> Popped(plan, p)], ports |-> plan.ports,
               done |-> [p \in Ports |-> FALSE]]
    /\ scan' = [scan EXCEPT !.phase = "popped",
                            !.seen = [p \in Ports |-> <<>>],
                            !.left = [p \in Ports |-> Len(Left(plan)[p])]]

LEMMA ClaimFollows ==
    ASSUME Claim
    PROVE  /\ scan.phase = "looked" /\ inFlight' = inFlight + 1
           /\ UNCHANGED <<config, closed, pc, promise>>
           /\ \E plan \in Plans(scan.seen) : Follows(plan)
<1>1. PICK plan \in Plans(scan.seen) :
          LET taken == [p \in Ports |-> Popped(plan, p)]
              rest == [p \in Ports |-> SubSeq(queue[p], Len(taken[p]) + 1, Len(queue[p]))]
          IN  /\ queue' = rest
              /\ bound' = [p \in Ports |->
                              IF p \in plan.ports
                                THEN AtLeast(bound[p], NextAllowedInStream(plan.ts))
                                ELSE bound[p]]
              /\ inv' = [ts |-> plan.ts, taken |-> taken, ports |-> plan.ports,
                         done |-> [p \in Ports |-> FALSE]]
              /\ scan' = [scan EXCEPT !.phase = "popped",
                                      !.seen = [p \in Ports |-> <<>>],
                                      !.left = [p \in Ports |-> Len(rest[p])]]
  BY Zenon DEF Claim
<1> DEFINE taken == [p \in Ports |-> Popped(plan, p)]
           rest == [p \in Ports |-> SubSeq(queue[p], Len(taken[p]) + 1, Len(queue[p]))]
<1>2. rest = Left(plan)
  BY DEF Left
<1>3. Follows(plan)
  BY <1>1, <1>2, Zenon DEF Follows
<1> QED
  BY <1>3 DEF Claim

LEMMA ClaimKeeps ==
    ASSUME IInv, Claim
    PROVE  IInv'
<1>1. /\ TypeOK /\ ScanInv /\ DoneInv /\ OrderInv /\ PromiseInv
      /\ scan.phase = "looked" /\ inFlight' = inFlight + 1
      /\ UNCHANGED <<config, closed, pc, promise>>
  BY ClaimFollows DEF IInv
<1>2. PICK plan \in Plans(scan.seen) : Follows(plan)
  BY ClaimFollows
<1>3. inFlight = 0 /\ inFlight' = 1
  BY <1>1 DEF ScanInv
<1>4. scan.seen \in [Ports -> Streams]
  BY <1>1 DEF TypeOK
<1>5. plan.ts \in Timestamp /\ plan.ports \in SUBSET Ports /\ plan.take \in [Ports -> Nat]
  BY <1>1, <1>4, PlanTyped
<1>6. PICK rest : rest = Left(plan)
  OBVIOUS
<1>7. /\ rest \in [Ports -> Streams]
      /\ \A p \in Ports :
            /\ Len(rest[p]) \in Nat
            /\ Rises(queue[p]) => Rises(rest[p])
            /\ \A i \in 1 .. Len(rest[p]) :
                  \E j \in Len(Popped(plan, p)) + 1 .. Len(queue[p]) :
                      j \in 1 .. Len(queue[p]) /\ rest[p][i] = queue[p][j]
  <2>1. IsLeft(plan, rest)
    BY <1>1, <1>5, <1>6, LeftTyped
  <2> QED
    BY <2>1 DEF IsLeft
<1>8. queue' = rest
  BY <1>2, <1>6 DEF Follows
<1>9. [p \in Ports |-> Popped(plan, p)] \in [Ports -> Streams]
  BY <1>1, <1>5, PoppedIsPrefix
<1>10. inv' \in [ts : Timestamp, taken : [Ports -> Streams], ports : SUBSET Ports,
                 done : [Ports -> BOOLEAN]]
  <2>1. PICK taken : taken = [p \in Ports |-> Popped(plan, p)]
    OBVIOUS
  <2>2. inv' = [ts |-> plan.ts, taken |-> taken, ports |-> plan.ports,
                done |-> [p \in Ports |-> FALSE]]
    BY <1>2, <2>1 DEF Follows
  <2> QED
    BY <1>5, <1>9, <2>1, <2>2
<1>11. \A p \in Ports : ~inv'.done[p]
  BY <1>2 DEF Follows
<1>12. /\ scan' \in [by : Threads, phase : {"free", "looked", "popped"},
                     seen : [Ports -> Streams], left : [Ports -> Nat]]
       /\ scan'.phase = "popped"
       /\ \A p \in Ports : scan'.left[p] = Len(rest[p])
  <2>1. scan' = [scan EXCEPT !.phase = "popped",
                             !.seen = [p \in Ports |-> <<>>],
                             !.left = [p \in Ports |-> Len(rest[p])]]
    BY <1>2, <1>6 DEF Follows
  <2>2. [p \in Ports |-> <<>>] \in [Ports -> Streams]
    BY NothingTyped
  <2> QED
    BY <1>1, <1>7, <2>1, <2>2 DEF TypeOK
<1>13. \A p \in Ports :
          /\ bound[p] \in Timestamp /\ promise[p] \in Timestamp
          /\ AtLeast(bound[p], NextAllowedInStream(plan.ts)) \in Timestamp
          /\ AtLeast(bound[p], NextAllowedInStream(plan.ts))
                 \in {bound[p], NextAllowedInStream(plan.ts)}
  BY <1>1, <1>5, AtLeastTyped, NextExceeds DEF TypeOK
<1>14. /\ bound' \in [Ports -> Timestamp]
       /\ \A p \in Ports :
             bound'[p] = bound[p] \/ (p \in plan.ports /\ bound'[p] = NextAllowedInStream(plan.ts))
  BY <1>2, <1>13 DEF Follows
<1>15. TypeOK'
  BY <1>1, <1>3, <1>7, <1>8, <1>10, <1>12, <1>14 DEF TypeOK, config
<1>16. ScanInv'
  BY <1>1, <1>3, <1>11, <1>12 DEF ScanInv, config
<1>17. DoneInv'
  <2>1. \A p \in Ports : Len(rest[p]) = 0 => rest[p] = <<>>
    BY <1>7, EmptySeq DEF Streams
  <2> QED
    BY <1>8, <1>11, <1>12, <2>1 DEF DoneInv, DoneIsFinal
<1>18. OrderInv'
  BY <1>1, <1>7, <1>8 DEF OrderInv
<1>19. PromiseInv'
  <2>1. SUFFICES ASSUME ~SingleSlots, NEW p \in Ports
                 PROVE  /\ \A i \in 1 .. Len(rest[p]) : rest[p][i] \in MinTime .. MaxTime
                        /\ quiet /\ Aligning => bound'[p] <= promise[p] \/ promise[p] > MaxTime
    BY <1>1, <1>8 DEF PromiseInv, Aligning, config
  <2>2. /\ \A i \in 1 .. Len(queue[p]) : queue[p][i] \in MinTime .. MaxTime
        /\ quiet /\ Aligning => bound[p] <= promise[p] \/ promise[p] > MaxTime
    BY <1>1, <2>1 DEF PromiseInv
  <2>3. \A i \in 1 .. Len(rest[p]) : rest[p][i] \in MinTime .. MaxTime
    BY <1>7, <2>2
  <2>4. ASSUME quiet, Aligning, p \in plan.ports
        PROVE  NextAllowedInStream(plan.ts) <= promise[p] \/ promise[p] > MaxTime
    <3>1. PlanFits(plan)
      BY <1>1, <2>1, <2>4, QuietPlanFits
    <3>2. plan.ts \in MinTime .. MaxTime /\ promise[p] > plan.ts
      BY <2>4, <3>1 DEF PlanFits
    <3> QED
      BY <1>13, <3>2, NextIsLeast
  <2> QED
    BY <1>14, <2>2, <2>3, <2>4
<1> QED
  BY <1>15, <1>16, <1>17, <1>18, <1>19 DEF IInv

LEMMA NextKeeps == IInv /\ [Next]_vars => IInv'
<1> SUFFICES ASSUME IInv, [Next]_vars PROVE IInv'
  OBVIOUS
<1>1. CASE \E p \in Ports : Dispatch(p)
  BY <1>1, DispatchKeeps
<1>2. CASE \E p \in Ports : Advance(p)
  <2>1. PICK p \in Ports : Advance(p)
    BY <1>2
  <2> QED
    BY <2>1, RaiseKeeps DEF Advance
<1>3. CASE \E p \in Ports : PropagateBound(p)
  BY <1>3, PropagateBoundKeeps
<1>4. CASE \E p \in Ports : Close(p)
  BY <1>4, CloseKeeps
<1>5. CASE \E p \in Ports : FinishClose(p)
  <2>1. PICK p \in Ports : FinishClose(p)
    BY <1>5
  <2> QED
    BY <2>1, RaiseKeeps DEF FinishClose
<1>6. CASE \E t \in Threads : Refused(t)
  BY <1>6, RefusedKeeps
<1>7. CASE \E t \in Threads : Look(t)
  BY <1>7, LookKeeps
<1>8. CASE NotReady
  BY <1>8, NotReadyKeeps
<1>9. CASE Claim
  BY <1>9, ClaimKeeps
<1>10. CASE Claimed
  BY <1>10, ClaimedKeeps
<1>11. CASE Retire
  BY <1>11, RetireKeeps
<1>12. CASE UNCHANGED vars
  BY <1>12, StutterKeeps
<1> QED
  BY <1>1, <1>2, <1>3, <1>4, <1>5, <1>6, <1>7, <1>8, <1>9, <1>10, <1>11, <1>12 DEF Next

LEMMA InvariantHolds == Spec => []IInv
BY InitHolds, NextKeeps, PTL DEF Spec

(***************************************************************************)
(* All variables keep their types: timestamps stay in their range, and at  *)
(* most one invocation is in flight.                                       *)
(***************************************************************************)
THEOREM TypeCorrect == Spec => []TypeOK
<1>1. IInv => TypeOK
  BY DEF IInv
<1> QED
  BY <1>1, InvariantHolds, PTL

(***************************************************************************)
(* An input reported as done stays drained: the length noted at the pop    *)
(* and the flag read after it belong together, although the port was open  *)
(* to dispatches in between (scheduler.rs, the end of try_claim).          *)
(***************************************************************************)
THEOREM DoneStaysDone == Spec => []DoneIsFinal
<1>1. IInv => DoneIsFinal
  BY DEF IInv, DoneInv
<1> QED
  BY <1>1, InvariantHolds, PTL

\* The only step that claims is Claim.
LEMMA OnlyClaimClaims ==
    ASSUME IInv, [Next]_vars, ClaimStep
    PROVE  Claim
<1>1. inFlight \in {0, 1}
  BY DEF IInv, TypeOK
<1>2. inFlight' # inFlight /\ ~ (inFlight' = 0)
  BY <1>1 DEF ClaimStep
<1>3. ~ UNCHANGED claims /\ ~ UNCHANGED inFlight
  BY <1>2 DEF claims
<1>4. \A p \in Ports : /\ ~Dispatch(p) /\ ~Advance(p) /\ ~PropagateBound(p)
                       /\ ~Close(p) /\ ~FinishClose(p)
  BY <1>3 DEF Dispatch, Advance, PropagateBound, Close, FinishClose
<1>5. \A t \in Threads : ~Refused(t) /\ ~Look(t)
  BY <1>3 DEF Refused, Look
<1>6. ~NotReady /\ ~Claimed /\ ~Retire
  BY <1>2, <1>3 DEF NotReady, Claimed, Retire
<1>7. ~ UNCHANGED vars
  BY <1>3 DEF vars
<1> QED
  BY <1>4, <1>5, <1>6, <1>7 DEF Next

LEMMA ClaimIsComplete ==
    ASSUME IInv, ~SingleSlots, quiet, Claim
    PROVE  CompleteClaim
<1>1. /\ TypeOK /\ scan.phase = "looked" /\ UNCHANGED <<config, promise>>
  BY ClaimFollows DEF IInv
<1>2. PICK plan \in Plans(scan.seen) : Follows(plan)
  BY ClaimFollows
<1>3. PlanFits(plan)
  BY <1>1, QuietPlanFits
<1>4. scan.seen \in [Ports -> Streams]
  BY <1>1 DEF TypeOK
<1>5. plan.ports \in SUBSET Ports /\ plan.take \in [Ports -> Nat]
  BY <1>1, <1>4, PlanTyped
<1>6. /\ inv'.ts = plan.ts /\ inv'.ports = plan.ports
      /\ \A p \in Ports : inv'.taken[p] = Popped(plan, p)
      /\ queue' = Left(plan)
  BY <1>2 DEF Follows
<1>7. \E p \in Forward : inv'.taken[p] # <<>>
  BY <1>3, <1>6 DEF PlanFits, Forward
<1>8. ASSUME Aligning, NEW p \in inv'.ports
      PROVE  /\ \A t \in Times(queue'[p]) : t > inv'.ts
             /\ promise[p] > inv'.ts
  <2>1. p \in Ports /\ p \in plan.ports
    BY <1>5, <1>6, <1>8
  <2>2. /\ promise[p] > plan.ts
        /\ \A i \in Len(Popped(plan, p)) + 1 .. Len(queue[p]) : queue[p][i] > plan.ts
    BY <1>3, <1>8, <2>1 DEF PlanFits
  <2>3. \A i \in 1 .. Len(Left(plan)[p]) :
           \E j \in Len(Popped(plan, p)) + 1 .. Len(queue[p]) :
               j \in 1 .. Len(queue[p]) /\ Left(plan)[p][i] = queue[p][j]
    <3>1. PICK rest : rest = Left(plan)
      OBVIOUS
    <3>2. IsLeft(plan, rest)
      BY <1>1, <1>5, <3>1, LeftTyped
    <3> QED
      BY <2>1, <3>1, <3>2 DEF IsLeft
  <2>4. \A i \in 1 .. Len(Left(plan)[p]) : Left(plan)[p][i] > plan.ts
    BY <2>2, <2>3, Zenon
  <2> QED
    BY <1>6, <2>2, <2>4 DEF Times
<1> QED
  BY <1>7, <1>8 DEF CompleteClaim

(***************************************************************************)
(* Whatever the policy, a claim that is not interleaved with a dispatch is *)
(* not empty and takes all there is and will be up to its timestamp: for   *)
(* any number of ports, and streams without the single slots at their ends *)
(* (node.rs, readiness, sync_align and batch_readiness).                   *)
(***************************************************************************)
THEOREM InvocationsComplete == ~SingleSlots => (Spec => InvocationComplete)
<1> SUFFICES ASSUME ~SingleSlots PROVE Spec => InvocationComplete
  OBVIOUS
<1>1. IInv /\ [Next]_vars => [quiet /\ ClaimStep => CompleteClaim]_vars
  BY OnlyClaimClaims, ClaimIsComplete
<1>2. Spec => []IInv
  BY InvariantHolds
<1> QED
  BY <1>1, <1>2, PTL DEF Spec, InvocationComplete

---------------------------------------------------------------------------
(* Nothing is overlooked.                                                  *)

\* Where all streams have ended, packets are aligned as long as there are any.
LEMMA EndedAligned ==
    ASSUME NEW seen \in [Ports -> Streams], NEW ports \in SUBSET Ports,
           bound \in [Ports -> Timestamp], \A p \in ports : bound[p] = Done
    PROVE  Aligned(ports, seen) <=> \E p \in ports : seen[p] # <<>>
<1>1. MinBound(ports, seen) = Done
  BY MinBoundIsLeast
<1>2. ASSUME NEW p \in ports, seen[p] # <<>>
      PROVE  MinPacket(ports, seen) < Done /\ MinPacket(ports, seen) # Done
  <2>1. PICK h : h = Head(seen[p])
    OBVIOUS
  <2>2. h < Done /\ h \in Timestamp /\ Done \in Timestamp
    BY <1>2, <2>1, HeadTyped, TimesTyped
  <2>3. MinPacket(ports, seen) <= h /\ MinPacket(ports, seen) \in Timestamp
    BY <1>2, <2>1, MinPacketIsLeast
  <2> QED
    BY <2>2, <2>3, TimesAreInts
<1>3. ASSUME MinPacket(ports, seen) # Done
      PROVE  \E p \in ports : seen[p] # <<>>
  BY <1>3, MinPacketIsLeast
<1> QED
  BY <1>1, <1>2, <1>3 DEF Aligned

\* A batch has a round as soon as the queues are aligned.
LEMMA FirstRound ==
    ASSUME NEW seen \in [Ports -> Streams], Aligned(Forward, seen)
    PROVE  AlignedRounds(seen).rounds > 0
<1>1. PICK f : /\ AlignedRounds(seen) = f[Capacity] /\ f[0] = Start
               /\ \A n \in 1 .. Capacity : f[n] = NextRound(seen, f[n - 1], n)
  BY RoundsSolved
<1>2. Capacity \in Nat \ {0}
  BY AlignmentAssumption
<1> DEFINE bad == {n \in 1 .. Capacity : ~ (f[n].rounds \in Nat /\ f[n].rounds > 0)}
<1>3. SUFFICES ASSUME bad # {} PROVE FALSE
  BY <1>1, <1>2
<1>4. bad \in SUBSET Nat
  OBVIOUS
<1>5. PICK k \in bad : \A u \in bad : k <= u
  BY <1>3, <1>4, LeastIsLeast
<1>6. k \in 1 .. Capacity /\ ~ (f[k].rounds \in Nat /\ f[k].rounds > 0)
  BY <1>5
<1>7. CASE k = 1
  <2>1. f[1] = NextRound(seen, Start, 1)
    <3>1. 1 \in 1 .. Capacity /\ 1 - 1 = 0
      BY <1>2
    <3> QED
      BY <1>1, <3>1, Zenon
  <2>2. Rest(seen, Start.take) = seen
    <3>1. \A p \in Ports : SubSeq(seen[p], 0 + 1, Len(seen[p])) = seen[p]
      BY SubSeqFull, 0 + 1 = 1 DEF Streams
    <3> QED
      BY <3>1 DEF Rest, Start, NoPackets
  <2>3. NextRound(seen, Start, 1).rounds = 1
    BY <2>2 DEF NextRound, Start
  <2> QED
    BY <1>6, <1>7, <2>1, <2>3
<1>8. CASE k # 1
  <2>1. k - 1 \in 1 .. Capacity /\ ~ (k <= k - 1) /\ k \in Nat /\ k > 0
    BY <1>2, <1>6, <1>8
  <2>2. f[k - 1].rounds \in Nat /\ f[k - 1].rounds > 0
    BY <1>5, <2>1
  <2>3. f[k] = NextRound(seen, f[k - 1], k)
    BY <1>1, <1>6
  <2>4. NextRound(seen, f[k - 1], k).rounds \in {f[k - 1].rounds, k}
    BY DEF NextRound
  <2> QED
    BY <1>6, <2>1, <2>2, <2>3, <2>4
<1> QED
  BY <1>7, <1>8

\* Where all streams have ended, a claim can be planned as long as there are packets.
LEMMA EndedPlanned ==
    ASSUME TypeOK, ScanInv, NEW p0 \in Forward, queue[p0] # <<>>,
           \A p \in Forward : closed[p] /\ bound[p] = Done
    PROVE  Plans(queue) # {}
<1>1. /\ queue \in [Ports -> Streams] /\ bound \in [Ports -> Timestamp]
      /\ policy \in {"sync", "immediate", "fixed_size", "sync_set", "batch"}
      /\ Forward \in SUBSET Ports /\ p0 \in Ports
  BY AlignmentAssumption DEF TypeOK, Forward
<1>2. Aligned(Forward, queue)
  BY <1>1, EndedAligned
<1>3. CASE policy = "immediate"
  BY <1>3 DEF Plans, Fronts
<1>4. CASE policy \in {"sync", "fixed_size"}
  BY <1>2, <1>4 DEF Plans
<1>5. CASE policy = "batch"
  <2>1. BatchReady(queue)
    BY <1>1, <1>2, FirstRound DEF BatchReady
  <2> QED
    BY <1>5, <2>1 DEF Plans
<1>6. CASE policy = "sync_set"
  <2> DEFINE ready == {g \in Groups : Aligned(g, queue)}
             least == {MinPacket(g, queue) : g \in ready}
  <2>1. Forward = Ports
    BY <1>6 DEF ScanInv, Forward
  <2>2. PICK g \in Groups : p0 \in g
    BY <1>1, AlignmentAssumption
  <2>3. \A h \in Groups : h \in SUBSET Ports
    BY AlignmentAssumption
  <2>4. Aligned(g, queue)
    BY <1>1, <2>1, <2>2, <2>3, EndedAligned
  <2>5. least \in SUBSET Nat /\ least # {}
    BY <1>1, <2>2, <2>3, <2>4, MinPacketIsLeast, TimesAreInts
  <2>6. PICK t \in least : \A u \in least : t <= u
    BY <2>5, LeastIsLeast
  <2>7. PICK h \in ready : \A k \in ready : MinPacket(h, queue) <= MinPacket(k, queue)
    BY <2>6
  <2>8. Plans(queue) =
          {[ts |-> MinPacket(k, queue), ports |-> k, take |-> TakeAt(MinPacket(k, queue), k, queue)] :
              k \in {i \in ready : \A j \in ready : MinPacket(i, queue) <= MinPacket(j, queue)}}
    BY <1>6 DEF Plans
  <2> QED
    BY <2>7, <2>8
<1> QED
  BY <1>1, <1>3, <1>4, <1>5, <1>6

\* Plans, with what it reads of the state as parameters.
PlansOf(pol, fwd, b, c, seen) ==
    LET minBound(ports, s) == Least({Done} \cup {b[p] : p \in {q \in ports : s[q] = <<>>}})
        aligned(ports, s) == /\ MinPacket(ports, s) # Done
                             /\ minBound(ports, s) > MinPacket(ports, s)
        round[n \in 0 .. Capacity] ==
            IF n = 0 THEN [take |-> NoPackets, last |-> Unset, rounds |-> 0]
            ELSE LET r == round[n - 1]
                     rest == Rest(seen, r.take)
                     ts == MinPacket(fwd, rest)
                     at == TakeAt(ts, fwd, rest)
                 IN  IF r.rounds < n - 1 \/ ~aligned(fwd, rest) THEN r
                     ELSE [take |-> [p \in Ports |-> r.take[p] + at[p]], last |-> ts, rounds |-> n]
        batch == round[Capacity]
        plan(ts, ports) == [ts |-> ts, ports |-> ports, take |-> TakeAt(ts, ports, seen)]
        ready == {g \in Groups : aligned(g, seen)}
    IN  CASE pol = "immediate" ->
               IF {p \in fwd : seen[p] # <<>>} = {} THEN {} ELSE {plan(MinPacket(fwd, seen), fwd)}
          [] pol \in {"sync", "fixed_size"} ->
               IF aligned(fwd, seen) THEN {plan(MinPacket(fwd, seen), fwd)} ELSE {}
          [] pol = "sync_set" ->
               {plan(MinPacket(g, seen), g) :
                   g \in {h \in ready : \A k \in ready : MinPacket(h, seen) <= MinPacket(k, seen)}}
          [] pol = "batch" ->
               IF (LET n == batch.rounds IN n > 0 /\ (n < Capacity => \A p \in fwd : c[p]))
               THEN LET r == batch IN  {[ts |-> r.last, ports |-> fwd, take |-> r.take]}
               ELSE {}

\* So they are the same while it is the same.
LEMMA PlansAreOf ==
    ASSUME NEW seen
    PROVE  Plans(seen) = PlansOf(policy, Forward, bound, closed, seen)
BY Zenon DEF Plans, PlansOf, Fronts, Aligned, MinBound, BatchReady, AlignedRounds, NextRound

LEMMA PlansAreOfNext ==
    Plans(queue)' = PlansOf(policy', Forward', bound', closed', queue')
BY Zenon DEF Plans, PlansOf, Fronts, Aligned, MinBound, BatchReady, AlignedRounds, NextRound

LEMMA PlansStay ==
    ASSUME UNCHANGED <<config, inputs>>
    PROVE  Plans(queue)' = Plans(queue)
<1>1. Forward' = Forward /\ policy' = policy /\ queue' = queue /\ bound' = bound /\ closed' = closed
  BY DEF Forward, config, inputs
<1> QED
  BY <1>1, Zenon, PlansAreOf, PlansAreOfNext

\* The parts of WatchInv: a thread will look, what the one that looks saw, and what
\* closed ports promise.
SomeoneWillLook == Free /\ inFlight = 0 /\ Plans(queue) # {} => \E t \in Threads : pc[t] # "idle"
LookIsFresh ==
    scan.phase = "looked" =>
        /\ pc[scan.by] = "schedule"
        /\ scan.seen = queue \/ \E t \in Threads \ {scan.by} : pc[t] # "idle"
        /\ quiet => \A p \in Ports : pc[p] # "closing"
ClosedIsDone ==
    \A p \in Ports : closed[p] => promise[p] = Done /\ (pc[p] = "closing" \/ bound[p] = Done)

LEMMA WatchParts == WatchInv <=> SomeoneWillLook /\ LookIsFresh /\ ClosedIsDone
BY DEF WatchInv, SomeoneWillLook, LookIsFresh, ClosedIsDone

LEMMA WatchInit == Init => SomeoneWillLook /\ LookIsFresh /\ ClosedIsDone
<1> SUFFICES ASSUME Init PROVE SomeoneWillLook /\ LookIsFresh /\ ClosedIsDone
  OBVIOUS
<1>1. \A p \in Ports : ~closed[p] /\ bound[p] = PreStream /\ queue[p] = <<>>
  BY DEF Init
<1>2. TypeOK
  BY InitHolds DEF IInv
<1>3. Plans(queue) = {}
  <2>1. SUFFICES ASSUME NEW plan \in Plans(queue) PROVE FALSE
    OBVIOUS
  <2>2. queue \in [Ports -> Streams]
    BY <1>2 DEF TypeOK
  <2>3. \A ports \in SUBSET Ports : MinPacket(ports, queue) = Done
    BY <1>1, <2>2, MinPacketIsLeast
  <2>4. \A ports \in SUBSET Ports : ~Aligned(ports, queue)
    BY <2>3 DEF Aligned
  <2>5. Forward \in SUBSET Ports /\ \A g \in Groups : g \in SUBSET Ports
    BY AlignmentAssumption DEF Forward
  <2>6. Fronts(queue) = {}
    BY <1>1, <2>5 DEF Fronts
  <2>7. AlignedRounds(queue).rounds > 0
    BY <1>2, <2>1, <2>4, <2>5, <2>6, PlanCases
  <2>8. PICK f : /\ AlignedRounds(queue) = f[Capacity] /\ f[0] = Start
                 /\ \A n \in 1 .. Capacity : f[n] = NextRound(queue, f[n - 1], n)
    BY RoundsSolved
  <2>9. Capacity \in Nat
    BY AlignmentAssumption
  <2> DEFINE bad == {n \in 0 .. Capacity : f[n] # Start}
  <2>10. bad # {}
    <3>1. Start.rounds = 0
      BY DEF Start
    <3> QED
      BY <2>7, <2>8, <2>9, <3>1
  <2>11. bad \in SUBSET Nat
    BY <2>9
  <2>12. PICK k \in bad : \A u \in bad : k <= u
    BY <2>10, <2>11, LeastIsLeast
  <2>13. k # 0 /\ k \in 1 .. Capacity /\ k - 1 \in 0 .. Capacity /\ ~ (k <= k - 1)
    BY <2>8, <2>9, <2>12
  <2>14. f[k] # Start /\ f[k - 1] = Start
    BY <2>12, <2>13
  <2>15. Rest(queue, Start.take) = queue
    <3>1. \A p \in Ports : SubSeq(queue[p], 0 + 1, Len(queue[p])) = queue[p]
      BY <2>2, SubSeqFull, 0 + 1 = 1 DEF Streams
    <3> QED
      BY <2>2, <3>1 DEF Rest, Start, NoPackets
  <2>16. NextRound(queue, Start, k) = Start
    BY <2>4, <2>5, <2>15 DEF NextRound
  <2> QED
    BY <2>8, <2>13, <2>14, <2>16
<1> QED
  BY <1>1, <1>3 DEF SomeoneWillLook, LookIsFresh, ClosedIsDone, Init, NoScan

\* A dispatching thread that is under way keeps watch; its port may change.
LEMMA PortKeepsWatch ==
    ASSUME IInv, SomeoneWillLook, LookIsFresh, NEW p \in Ports, NEW l, l # "idle",
           Goto(p, l), pc[p] # "schedule", l = "closing" => (quiet => Free),
           UNCHANGED <<config, scan, inFlight>>
    PROVE  SomeoneWillLook' /\ LookIsFresh'
<1>1. /\ pc' = [pc EXCEPT ![p] = l] /\ p \in Threads /\ pc \in [Threads -> {"idle", "advance", "schedule", "closing"}]
      /\ scan' = scan /\ quiet' = quiet
  BY DEF Goto, Threads, IInv, TypeOK, config
<1>2. pc'[p] # "idle" /\ \A t \in Threads \ {p} : pc'[t] = pc[t]
  BY <1>1
<1>3. SomeoneWillLook'
  BY <1>1, <1>2 DEF SomeoneWillLook
<1>4. ASSUME scan.phase = "looked"
      PROVE  /\ pc'[scan.by] = "schedule"
             /\ \E t \in Threads \ {scan.by} : pc'[t] # "idle"
             /\ quiet => \A o \in Ports : pc'[o] # "closing"
  <2>1. pc[scan.by] = "schedule" /\ scan.by \in Threads
    BY <1>4 DEF LookIsFresh, IInv, TypeOK
  <2>2. scan.by # p
    BY <2>1
  <2>3. quiet => \A o \in Ports : pc[o] # "closing"
    BY <1>4 DEF LookIsFresh
  <2>4. quiet => l # "closing"
    BY <1>4 DEF Free
  <2>5. \A o \in Ports : o \in Threads
    BY DEF Threads
  <2> QED
    BY <1>1, <1>2, <2>1, <2>2, <2>3, <2>4, <2>5
<1>5. LookIsFresh'
  BY <1>1, <1>4 DEF LookIsFresh
<1> QED
  BY <1>3, <1>5

\* Raising a bound to Done gets it there, and nothing takes it back.
LEMMA DoneIsTop ==
    ASSUME NEW t \in Timestamp
    PROVE  AtLeast(t, Done) = Done /\ AtLeast(Done, t) = Done
BY TimesTyped, TimesAreInts DEF AtLeast

LEMMA RaiseKeepsWatch ==
    ASSUME IInv, SomeoneWillLook, LookIsFresh, ClosedIsDone, NEW p \in Ports,
           pc[p] \in {"advance", "closing"}, bound' = Raised(p, promise[p]), Goto(p, "schedule"),
           UNCHANGED <<config, queue, closed, promise, scan, claims>>
    PROVE  SomeoneWillLook' /\ LookIsFresh' /\ ClosedIsDone'
<1>1. SomeoneWillLook' /\ LookIsFresh'
  BY PortKeepsWatch DEF claims
<1>2. bound \in [Ports -> Timestamp] /\ pc \in [Threads -> {"idle", "advance", "schedule", "closing"}]
      /\ p \in Threads
  BY DEF IInv, TypeOK, Threads
<1>3. closed[p] => bound'[p] = Done
  BY <1>2, DoneIsTop DEF Raised, ClosedIsDone
<1>4. \A o \in Ports \ {p} : bound'[o] = bound[o] /\ pc'[o] = pc[o]
  BY <1>2 DEF Raised, Goto, Threads
<1>5. ClosedIsDone'
  BY <1>3, <1>4 DEF ClosedIsDone
<1> QED
  BY <1>1, <1>5

LEMMA ClaimKeepsWatch ==
    ASSUME IInv, ClosedIsDone, Claim
    PROVE  SomeoneWillLook' /\ LookIsFresh' /\ ClosedIsDone'
<1>1. /\ scan.phase = "looked" /\ inFlight = 0 /\ inFlight' = 1
      /\ UNCHANGED <<config, closed, pc, promise>>
  BY ClaimFollows DEF IInv, ScanInv
<1>2. PICK plan \in Plans(scan.seen) : Follows(plan)
  BY ClaimFollows
<1>3. scan'.phase = "popped"
  BY <1>2 DEF Follows, IInv, TypeOK
<1>4. plan.ts \in Timestamp
  BY PlanTyped DEF IInv, TypeOK
<1>5. \A p \in Ports : bound[p] = Done => bound'[p] = Done
  BY <1>2, <1>4, NextExceeds, DoneIsTop DEF Follows
<1>6. ClosedIsDone'
  BY <1>1, <1>5 DEF ClosedIsDone
<1> QED
  BY <1>1, <1>3, <1>6 DEF SomeoneWillLook, LookIsFresh

LEMMA NotReadyKeepsWatch ==
    ASSUME IInv, LookIsFresh, ClosedIsDone, NotReady
    PROVE  SomeoneWillLook' /\ LookIsFresh' /\ ClosedIsDone'
<1>1. /\ scan.phase = "looked" /\ Plans(scan.seen) = {} /\ scan' = NoScan
      /\ pc' = [pc EXCEPT ![scan.by] = "idle"]
      /\ UNCHANGED <<config, inputs, promise, claims>>
  BY DEF NotReady, Goto
<1>2. scan'.phase = "free"
  BY <1>1 DEF NoScan
<1>3. pc \in [Threads -> {"idle", "advance", "schedule", "closing"}] /\ scan.by \in Threads
  BY DEF IInv, TypeOK
<1>4. pc[scan.by] = "schedule"
  BY <1>1 DEF LookIsFresh
<1>5. CASE scan.seen = queue
  <2>1. Plans(queue)' = {}
    BY <1>1, <1>5, PlansStay
  <2> QED
    BY <1>1, <1>2, <1>3, <1>4, <2>1 DEF SomeoneWillLook, LookIsFresh, ClosedIsDone, inputs, Threads
<1>6. CASE \E t \in Threads \ {scan.by} : pc[t] # "idle"
  <2>1. \E t \in Threads : pc'[t] # "idle"
    BY <1>1, <1>3, <1>6
  <2> QED
    BY <1>1, <1>2, <1>3, <1>4, <2>1 DEF SomeoneWillLook, LookIsFresh, ClosedIsDone, inputs, Threads
<1> QED
  BY <1>1, <1>5, <1>6 DEF LookIsFresh

LEMMA WatchKeeps ==
    IInv /\ SomeoneWillLook /\ LookIsFresh /\ ClosedIsDone /\ [Next]_vars
        => SomeoneWillLook' /\ LookIsFresh' /\ ClosedIsDone'
<1> SUFFICES ASSUME IInv, SomeoneWillLook, LookIsFresh, ClosedIsDone, [Next]_vars
             PROVE  SomeoneWillLook' /\ LookIsFresh' /\ ClosedIsDone'
  OBVIOUS
<1>1. pc \in [Threads -> {"idle", "advance", "schedule", "closing"}]
      /\ promise \in [Ports -> Timestamp] /\ bound \in [Ports -> Timestamp]
      /\ closed \in [Ports -> BOOLEAN]
  BY DEF IInv, TypeOK
<1>2. Ports \subseteq Threads /\ Worker \in Threads /\ Worker \notin Ports
  BY AlignmentAssumption DEF Threads, Worker, Ports
<1>3. ASSUME NEW p \in Ports, Dispatch(p)
      PROVE  SomeoneWillLook' /\ LookIsFresh' /\ ClosedIsDone'
  <2>1. /\ pc[p] = "idle" /\ ~closed[p] /\ Goto(p, "advance")
        /\ UNCHANGED <<config, bound, closed, scan, claims>>
    BY <1>3 DEF Dispatch, MayDispatch
  <2>2. SomeoneWillLook' /\ LookIsFresh'
    BY <2>1, PortKeepsWatch DEF claims
  <2>3. \A o \in Ports \ {p} : promise'[o] = promise[o] /\ pc'[o] = pc[o]
    BY <1>1, <1>2, <1>3, <2>1 DEF Dispatch, Goto
  <2> QED
    BY <2>1, <2>2, <2>3 DEF ClosedIsDone
<1>4. ASSUME NEW p \in Ports, Advance(p)
      PROVE  SomeoneWillLook' /\ LookIsFresh' /\ ClosedIsDone'
  BY <1>4, RaiseKeepsWatch DEF Advance
<1>5. ASSUME NEW p \in Ports, PropagateBound(p)
      PROVE  SomeoneWillLook' /\ LookIsFresh' /\ ClosedIsDone'
  <2>1. /\ pc[p] = "idle" /\ ~closed[p] /\ Goto(p, "schedule")
        /\ UNCHANGED <<config, queue, closed, scan, claims>>
    BY <1>5 DEF PropagateBound, MayDispatch
  <2>2. SomeoneWillLook' /\ LookIsFresh'
    BY <2>1, PortKeepsWatch DEF claims
  <2>3. \A o \in Ports \ {p} : promise'[o] = promise[o] /\ bound'[o] = bound[o] /\ pc'[o] = pc[o]
    BY <1>1, <1>2, <1>5, <2>1 DEF PropagateBound, Raised, Goto
  <2> QED
    BY <2>1, <2>2, <2>3 DEF ClosedIsDone
<1>6. ASSUME NEW p \in Ports, Close(p)
      PROVE  SomeoneWillLook' /\ LookIsFresh' /\ ClosedIsDone'
  <2>1. /\ pc[p] = "idle" /\ Goto(p, "closing") /\ (quiet => Free)
        /\ closed' = [closed EXCEPT ![p] = TRUE] /\ promise' = [promise EXCEPT ![p] = Done]
        /\ UNCHANGED <<config, queue, bound, scan, claims>>
    BY <1>6 DEF Close, MayDispatch
  <2>2. SomeoneWillLook' /\ LookIsFresh'
    BY <2>1, PortKeepsWatch DEF claims
  <2>3. promise'[p] = Done /\ pc'[p] = "closing"
    BY <1>1, <1>2, <2>1 DEF Goto
  <2>4. \A o \in Ports \ {p} :
           promise'[o] = promise[o] /\ closed'[o] = closed[o] /\ pc'[o] = pc[o]
    BY <1>1, <1>2, <2>1 DEF Goto
  <2> QED
    BY <2>1, <2>2, <2>3, <2>4 DEF ClosedIsDone
<1>7. ASSUME NEW p \in Ports, FinishClose(p)
      PROVE  SomeoneWillLook' /\ LookIsFresh' /\ ClosedIsDone'
  BY <1>7, RaiseKeepsWatch DEF FinishClose
<1>8. ASSUME NEW t \in Threads, Refused(t)
      PROVE  SomeoneWillLook' /\ LookIsFresh' /\ ClosedIsDone'
  BY <1>1, <1>2, <1>8
    DEF Refused, Goto, Free, SomeoneWillLook, LookIsFresh, ClosedIsDone, inputs, claims
<1>9. ASSUME NEW t \in Threads, Look(t)
      PROVE  SomeoneWillLook' /\ LookIsFresh' /\ ClosedIsDone'
  <2>1. /\ pc[t] = "schedule" /\ (quiet => \A p \in Ports : pc[p] # "closing")
        /\ scan' = [scan EXCEPT !.by = t, !.phase = "looked", !.seen = queue]
        /\ UNCHANGED <<config, inputs, pc, promise, claims>>
    BY <1>9 DEF Look
  <2>2. scan'.phase = "looked" /\ scan'.by = t /\ scan'.seen = queue
    BY <2>1 DEF IInv, TypeOK
  <2> QED
    BY <2>1, <2>2 DEF Free, SomeoneWillLook, LookIsFresh, ClosedIsDone, inputs, config
<1>10. ASSUME NotReady
       PROVE  SomeoneWillLook' /\ LookIsFresh' /\ ClosedIsDone'
  BY <1>10, NotReadyKeepsWatch
<1>11. ASSUME Claim
       PROVE  SomeoneWillLook' /\ LookIsFresh' /\ ClosedIsDone'
  BY <1>11, ClaimKeepsWatch
<1>12. ASSUME Claimed
       PROVE  SomeoneWillLook' /\ LookIsFresh' /\ ClosedIsDone'
  BY <1>12 DEF Claimed, NoScan, IInv, ScanInv, SomeoneWillLook, LookIsFresh, ClosedIsDone, inputs
<1>13. ASSUME Retire
       PROVE  SomeoneWillLook' /\ LookIsFresh' /\ ClosedIsDone'
  BY <1>1, <1>2, <1>13
    DEF Retire, Goto, Free, SomeoneWillLook, LookIsFresh, ClosedIsDone, inputs
<1>14. ASSUME UNCHANGED vars
       PROVE  SomeoneWillLook' /\ LookIsFresh' /\ ClosedIsDone'
  <2>1. UNCHANGED <<config, inputs, pc, promise, scan, claims>>
    BY <1>14 DEF vars
  <2>2. Plans(queue)' = Plans(queue)
    BY <2>1, PlansStay
  <2> QED
    BY <2>1, <2>2 DEF Free, SomeoneWillLook, LookIsFresh, ClosedIsDone, inputs, config, claims
<1> QED
  BY <1>3, <1>4, <1>5, <1>6, <1>7, <1>8, <1>9, <1>10, <1>11, <1>12, <1>13, <1>14 DEF Next

LEMMA WatchHolds == Spec => [](SomeoneWillLook /\ LookIsFresh /\ ClosedIsDone)
BY InvariantHolds, WatchInit, WatchKeeps, PTL DEF Spec

(***************************************************************************)
(* When every thread has gone nothing is left that a claim could take, and *)
(* closed inputs have been drained: whoever makes a node ready looks at it *)
(* afterwards, or somebody who does not know yet still will (scheduler.rs, *)
(* dispatch, try_claim; backpressure.rs, the end of an invocation).        *)
(***************************************************************************)
THEOREM NothingIsOverlooked == Spec => []NothingOverlooked
<1>1. IInv /\ SomeoneWillLook /\ ClosedIsDone => NothingOverlooked
  <2>1. SUFFICES ASSUME IInv, SomeoneWillLook, ClosedIsDone, AtRest
                 PROVE  /\ Plans(queue) = {}
                        /\ (\A p \in Forward : closed[p]) => \A p \in Forward : queue[p] = <<>>
    BY DEF NothingOverlooked
  <2>2. Plans(queue) = {}
    BY <2>1 DEF AtRest, SomeoneWillLook
  <2>3. ASSUME \A p \in Forward : closed[p], NEW p \in Forward, queue[p] # <<>>
        PROVE  FALSE
    <3>1. \A o \in Forward : o \in Ports /\ pc[o] = "idle"
      BY <2>1 DEF AtRest, Forward, Threads
    <3>2. \A o \in Forward : closed[o] /\ bound[o] = Done
      BY <2>1, <2>3, <3>1 DEF ClosedIsDone
    <3> QED
      BY <2>1, <2>2, <2>3, <3>2, EndedPlanned DEF IInv
  <2> QED
    BY <2>2, <2>3
<1> QED
  BY <1>1, InvariantHolds, WatchHolds, PTL
---------------------------------------------------------------------------
(* Batches are whole.                                                      *)

\* The timestamps of the packets that are taken.
TakenTimes(seen, take) == UNION {{seen[p][i] : i \in 1 .. take[p]} : p \in Forward}

\* What holds after k rounds: each one that succeeded took one more timestamp, the
\* packets left are later, and unless all succeeded no more are aligned.
RoundWhole(seen, r, k) ==
    /\ r.rounds \in 0 .. k
    /\ r.rounds < k => ~Aligned(Forward, Rest(seen, r.take))
    /\ IsFiniteSet(TakenTimes(seen, r.take))
    /\ Cardinality(TakenTimes(seen, r.take)) = r.rounds
    /\ \A t \in TakenTimes(seen, r.take) :
          /\ t \in Int
          /\ \A p \in Forward : \A i \in r.take[p] + 1 .. Len(seen[p]) : t < seen[p][i]

LEMMA StartWhole ==
    ASSUME NEW seen
    PROVE  RoundWhole(seen, Start, 0)
<1>1. Forward \in SUBSET Ports
  BY DEF Forward
<1>2. TakenTimes(seen, Start.take) = {}
  BY <1>1 DEF TakenTimes, Start, NoPackets
<1>3. IsFiniteSet(TakenTimes(seen, Start.take)) /\ Cardinality(TakenTimes(seen, Start.take)) = 0
  BY <1>2, FS_EmptySet
<1>4. Start.rounds = 0
  BY DEF Start
<1> QED
  BY <1>2, <1>3, <1>4 DEF RoundWhole

\* A round that succeeds takes one timestamp, the least that is left.
TakesNext(seen, r, ts, take) ==
    /\ ts \in Int
    /\ TakenTimes(seen, take) = TakenTimes(seen, r.take) \cup {ts}
    /\ \E p \in Forward : \E i \in r.take[p] + 1 .. Len(seen[p]) : seen[p][i] = ts
    /\ \A p \in Forward :
          /\ take[p] \in Nat /\ r.take[p] \in Nat /\ r.take[p] <= take[p]
          /\ \A i \in take[p] + 1 .. Len(seen[p]) : ts < seen[p][i]

LEMMA RoundTakes ==
    ASSUME NEW seen \in [Ports -> Streams], NEW r, RoundTyped(seen, r),
           \A p \in Forward : Rises(seen[p]),
           NEW rest, rest = Rest(seen, r.take), Aligned(Forward, rest),
           NEW ts, ts = MinPacket(Forward, rest),
           NEW at, at = TakeAt(ts, Forward, rest),
           NEW take, take = [p \in Ports |-> r.take[p] + at[p]]
    PROVE  TakesNext(seen, r, ts, take)
<1>1. /\ rest \in [Ports -> Streams]
      /\ \A p \in Ports :
            /\ Len(rest[p]) = Len(seen[p]) - r.take[p]
            /\ \A i \in 1 .. Len(rest[p]) :
                  rest[p][i] = seen[p][i + r.take[p]] /\ i + r.take[p] \in 1 .. Len(seen[p])
            /\ Len(seen[p]) \in Nat /\ r.take[p] \in Nat
  BY RestTyped
<1>2. Forward \in SUBSET Ports
  BY DEF Forward
<1>3. /\ ts \in Timestamp /\ ts # Done
      /\ \A p \in Forward : rest[p] # <<>> => ts <= Head(rest[p])
      /\ \E p \in Forward : rest[p] # <<>> /\ Head(rest[p]) = ts
  BY <1>1, <1>2, MinPacketIsLeast DEF Aligned
<1>4. ts \in Int
  BY <1>3, TimesAreInts
<1>5. \A p \in Ports : /\ at[p] \in {0, 1}
                       /\ at[p] = 1 <=> p \in Forward /\ rest[p] # <<>> /\ Head(rest[p]) = ts
                       /\ at[p] <= Len(rest[p])
  BY <1>1, <1>2, TakeAtTyped
\* The front of what is left is the packet after those taken.
<1>6. ASSUME NEW p \in Forward, rest[p] # <<>>
      PROVE  Head(rest[p]) = seen[p][r.take[p] + 1] /\ r.take[p] + 1 \in 1 .. Len(seen[p])
  <2>1. p \in Ports /\ rest[p] \in Streams
    BY <1>1, <1>2
  <2>2. Head(rest[p]) = rest[p][1] /\ 1 \in 1 .. Len(rest[p])
    BY <1>6, <2>1, HeadTyped
  <2>3. 1 + r.take[p] = r.take[p] + 1
    BY <1>1, <2>1
  <2> QED
    BY <1>1, <2>1, <2>2, <2>3
<1>7. ASSUME NEW p \in Forward
      PROVE  /\ take[p] \in Nat /\ r.take[p] \in Nat /\ take[p] = r.take[p] + at[p]
             /\ Len(seen[p]) \in Nat
             /\ r.take[p] < Len(seen[p]) => rest[p] # <<>>
             /\ \A i \in 1 .. Len(seen[p]) : seen[p][i] \in Int
             /\ \A i, j \in 1 .. Len(seen[p]) : i < j => seen[p][i] < seen[p][j]
  <2>1. p \in Ports /\ at[p] \in {0, 1} /\ r.take[p] \in Nat /\ Len(seen[p]) \in Nat
    BY <1>1, <1>2, <1>5
  <2>2. take[p] = r.take[p] + at[p] /\ take[p] \in Nat
    BY <2>1
  <2>3. r.take[p] < Len(seen[p]) => rest[p] # <<>>
    <3>1. r.take[p] < Len(seen[p]) => Len(rest[p]) # 0
      BY <1>1, <2>1
    <3>2. \A s : s = <<>> => Len(s) = 0
      OBVIOUS
    <3> QED
      BY <3>1, <3>2, Zenon
  <2>4. seen[p] \in Seq(PreStream .. PostStream)
    BY <2>1 DEF Streams
  <2>5. \A i \in 1 .. Len(seen[p]) : seen[p][i] \in Int
    <3>1. \A i \in 1 .. Len(seen[p]) : seen[p][i] \in PreStream .. PostStream
      BY <2>4, ElementOfSeq
    <3> QED
      BY <3>1, TimesTyped
  <2> QED
    BY <2>1, <2>2, <2>3, <2>5 DEF Rises
<1>8. \E p \in Forward : \E i \in r.take[p] + 1 .. Len(seen[p]) : seen[p][i] = ts
  <2>1. PICK p \in Forward : rest[p] # <<>> /\ Head(rest[p]) = ts
    BY <1>3
  <2>2. seen[p][r.take[p] + 1] = ts /\ r.take[p] + 1 \in 1 .. Len(seen[p])
    BY <1>6, <2>1
  <2>3. r.take[p] + 1 \in r.take[p] + 1 .. Len(seen[p])
    BY <1>7, <2>2
  <2> QED
    BY <2>2, <2>3
<1>9. ASSUME NEW p \in Forward, NEW i \in take[p] + 1 .. Len(seen[p])
      PROVE  ts < seen[p][i]
  <2>1. PICK c : c = r.take[p]
    OBVIOUS
  <2>2. /\ c \in Nat /\ take[p] = c + at[p] /\ at[p] \in {0, 1} /\ Len(seen[p]) \in Nat
        /\ \A j \in 1 .. Len(seen[p]) : seen[p][j] \in Int
        /\ \A j, k \in 1 .. Len(seen[p]) : j < k => seen[p][j] < seen[p][k]
    BY <1>2, <1>5, <1>7, <2>1
  <2>3. c < Len(seen[p]) /\ i \in 1 .. Len(seen[p]) /\ c + 1 \in 1 .. Len(seen[p]) /\ c + 1 <= i
    BY <2>2
  <2>4. rest[p] # <<>>
    BY <1>7, <2>1, <2>3
  <2>5. Head(rest[p]) = seen[p][c + 1] /\ ts <= Head(rest[p])
    BY <1>3, <1>6, <2>1, <2>4
  <2>6. CASE at[p] = 1
    <3>1. c + 1 < i
      BY <2>2, <2>6
    <3> QED
      BY <1>4, <2>2, <2>3, <2>5, <3>1
  <2>7. CASE at[p] # 1
    <3>1. Head(rest[p]) # ts
      BY <1>2, <1>5, <2>4, <2>7
    <3>2. ts < seen[p][c + 1]
      BY <1>4, <2>2, <2>3, <2>5, <3>1
    <3> QED
      BY <1>4, <2>2, <2>3, <3>2
  <2> QED
    BY <2>6, <2>7
<1>10. \A p \in Forward : take[p] \in Nat /\ r.take[p] \in Nat /\ r.take[p] <= take[p]
  <2>1. TAKE p \in Forward
  <2>2. at[p] \in {0, 1}
    BY <1>2, <1>5
  <2> QED
    BY <1>7, <2>2
<1>11. TakenTimes(seen, take) = TakenTimes(seen, r.take) \cup {ts}
  <2>1. ASSUME NEW p \in Forward, NEW i \in 1 .. take[p]
        PROVE  i \in 1 .. r.take[p] \/ seen[p][i] = ts
    <3>1. /\ r.take[p] \in Nat /\ take[p] = r.take[p] + at[p] /\ at[p] \in {0, 1}
      BY <1>2, <1>5, <1>7
    <3>2. CASE i \in 1 .. r.take[p]
      BY <3>2
    <3>3. CASE i \notin 1 .. r.take[p]
      <4>1. at[p] = 1 /\ i = r.take[p] + 1
        BY <3>1, <3>3
      <4>2. rest[p] # <<>> /\ Head(rest[p]) = ts
        BY <1>2, <1>5, <4>1
      <4> QED
        BY <1>6, <4>1, <4>2
    <3> QED
      BY <3>2, <3>3
  <2>2. ASSUME NEW p \in Forward, NEW i \in 1 .. r.take[p]
        PROVE  i \in 1 .. take[p]
    BY <1>10
  <2>3. \E p \in Forward : \E i \in 1 .. take[p] : seen[p][i] = ts
    <3>1. PICK p \in Forward : rest[p] # <<>> /\ Head(rest[p]) = ts
      BY <1>3
    <3>2. at[p] = 1
      BY <1>2, <1>5, <3>1
    <3>3. r.take[p] + 1 \in 1 .. take[p]
      BY <1>7, <3>2
    <3> QED
      BY <1>6, <3>1, <3>3
  <2>4. ASSUME NEW t \in TakenTimes(seen, take)
        PROVE  t \in TakenTimes(seen, r.take) \cup {ts}
    <3>1. PICK p \in Forward : \E i \in 1 .. take[p] : t = seen[p][i]
      BY DEF TakenTimes
    <3>2. PICK i \in 1 .. take[p] : t = seen[p][i]
      BY <3>1
    <3> QED
      BY <2>1, <3>2 DEF TakenTimes
  <2>5. ASSUME NEW t \in TakenTimes(seen, r.take)
        PROVE  t \in TakenTimes(seen, take)
    <3>1. PICK p \in Forward : \E i \in 1 .. r.take[p] : t = seen[p][i]
      BY DEF TakenTimes
    <3>2. PICK i \in 1 .. r.take[p] : t = seen[p][i]
      BY <3>1
    <3> QED
      BY <2>2, <3>2 DEF TakenTimes
  <2>6. ts \in TakenTimes(seen, take)
    BY <2>3 DEF TakenTimes
  <2> QED
    BY <2>4, <2>5, <2>6
<1> QED
  BY <1>4, <1>8, <1>9, <1>10, <1>11 DEF TakesNext

LEMMA NextRoundWhole ==
    ASSUME NEW seen \in [Ports -> Streams], \A p \in Forward : Rises(seen[p]),
           NEW k \in Nat, NEW r, RoundTyped(seen, r), RoundWhole(seen, r, k)
    PROVE  RoundWhole(seen, NextRound(seen, r, k + 1), k + 1)
<1> DEFINE rest == Rest(seen, r.take)
           ts == MinPacket(Forward, rest)
           at == TakeAt(ts, Forward, rest)
           take == [p \in Ports |-> r.take[p] + at[p]]
           new == [take |-> take, last |-> ts, rounds |-> k + 1]
<1>1. (k + 1) - 1 = k
  OBVIOUS
<1>2. NextRound(seen, r, k + 1) = IF r.rounds < k \/ ~Aligned(Forward, rest) THEN r ELSE new
  BY <1>1 DEF NextRound
<1>3. CASE ~Aligned(Forward, rest)
  BY <1>2, <1>3 DEF RoundWhole
<1>4. CASE Aligned(Forward, rest)
  <2>1. r.rounds = k
    BY <1>4 DEF RoundWhole
  <2>2. NextRound(seen, r, k + 1) = new
    BY <1>2, <1>4, <2>1
  <2>3. /\ ts \in Int
        /\ TakenTimes(seen, take) = TakenTimes(seen, r.take) \cup {ts}
        /\ \E p \in Forward : \E i \in r.take[p] + 1 .. Len(seen[p]) : seen[p][i] = ts
        /\ \A p \in Forward :
              /\ take[p] \in Nat /\ r.take[p] \in Nat /\ r.take[p] <= take[p]
              /\ \A i \in take[p] + 1 .. Len(seen[p]) : ts < seen[p][i]
    <3>1. TakesNext(seen, r, ts, take)
      BY <1>4, RoundTakes, Zenon
    <3> HIDE DEF ts, take
    <3> QED
      BY <3>1 DEF TakesNext
  <2>4. new.take = take /\ new.rounds = k + 1
    OBVIOUS
  <2> HIDE DEF new, take, at, ts, rest
  <2>5. \A t \in TakenTimes(seen, r.take) : t < ts
    <3>1. PICK p \in Forward : \E i \in r.take[p] + 1 .. Len(seen[p]) : seen[p][i] = ts
      BY <2>3
    <3> QED
      BY <3>1 DEF RoundWhole
  <2>6. ts \notin TakenTimes(seen, r.take)
    BY <2>3, <2>5
  <2>7. /\ IsFiniteSet(TakenTimes(seen, take))
        /\ Cardinality(TakenTimes(seen, take)) = k + 1
    BY <2>1, <2>3, <2>6, FS_AddElement DEF RoundWhole
  <2>8. ASSUME NEW t \in TakenTimes(seen, take)
        PROVE  /\ t \in Int
               /\ \A p \in Forward : \A i \in take[p] + 1 .. Len(seen[p]) : t < seen[p][i]
    <3>1. CASE t = ts
      BY <2>3, <3>1
    <3>2. CASE t # ts
      <4>1. t \in TakenTimes(seen, r.take)
        BY <2>3, <3>2
      <4>2. ASSUME NEW p \in Forward, NEW i \in take[p] + 1 .. Len(seen[p])
            PROVE  i \in r.take[p] + 1 .. Len(seen[p])
        <5>1. Len(seen[p]) \in Nat
          <6>1. p \in Ports
            BY DEF Forward
          <6> QED
            BY <6>1, RestTyped
        <5> QED
          BY <2>3, <5>1
      <4> QED
        BY <4>1, <4>2 DEF RoundWhole
    <3> QED
      BY <3>1, <3>2
  <2>9. k + 1 \in 0 .. k + 1 /\ ~ (k + 1 < k + 1)
    OBVIOUS
  <2>10. RoundWhole(seen, new, k + 1)
    BY <2>4, <2>7, <2>8, <2>9 DEF RoundWhole
  <2> QED
    BY <2>2, <2>10
<1> QED
  BY <1>3, <1>4

LEMMA BatchWhole ==
    ASSUME NEW seen \in [Ports -> Streams], \A p \in Forward : Rises(seen[p])
    PROVE  RoundWhole(seen, AlignedRounds(seen), Capacity)
<1>1. PICK f : /\ AlignedRounds(seen) = f[Capacity] /\ f[0] = Start
               /\ \A n \in 1 .. Capacity : f[n] = NextRound(seen, f[n - 1], n)
  BY RoundsSolved
<1> DEFINE bad == {n \in 0 .. Capacity : ~ (RoundTyped(seen, f[n]) /\ RoundWhole(seen, f[n], n))}
<1>2. Capacity \in Nat
  BY AlignmentAssumption
<1>3. SUFFICES ASSUME bad # {} PROVE FALSE
  BY <1>1, <1>2
<1>4. bad \in SUBSET Nat
  BY <1>2
<1>5. PICK k \in bad : \A u \in bad : k <= u
  BY <1>3, <1>4, LeastIsLeast
<1>6. k \in 0 .. Capacity /\ ~ (RoundTyped(seen, f[k]) /\ RoundWhole(seen, f[k], k))
  BY <1>5
<1>7. k # 0
  BY <1>1, <1>6, StartTyped, StartWhole
<1>8. PICK j : j = k - 1
  OBVIOUS
<1>9. /\ k \in 1 .. Capacity /\ k \in Nat /\ j \in 0 .. Capacity /\ ~ (k <= j)
      /\ j \in Nat /\ k = j + 1
  BY <1>2, <1>6, <1>7, <1>8
<1>10. RoundTyped(seen, f[j]) /\ RoundWhole(seen, f[j], j)
  BY <1>5, <1>9
<1>11. RoundTyped(seen, NextRound(seen, f[j], k)) /\ RoundWhole(seen, NextRound(seen, f[j], k), k)
  BY <1>9, <1>10, NextRoundTyped, NextRoundWhole
<1> QED
  BY <1>1, <1>6, <1>8, <1>9, <1>11

LEMMA ClaimIsWhole ==
    ASSUME IInv, LookIsFresh, ClosedIsDone, quiet, policy = "batch", Claim
    PROVE  \/ Cardinality(UNION {Times(inv'.taken[p]) : p \in Forward}) = Capacity
           \/ \A p \in Forward : closed[p] /\ queue'[p] = <<>>
<1>1. /\ TypeOK /\ ScanInv /\ scan.phase = "looked" /\ scan.seen = queue
      /\ queue \in [Ports -> Streams] /\ bound \in [Ports -> Timestamp]
  BY ClaimFollows DEF IInv, ScanInv, TypeOK
<1>2. PICK plan \in Plans(queue) : Follows(plan)
  BY <1>1, ClaimFollows
<1> DEFINE r == AlignedRounds(queue)
<1>3. plan.take = r.take /\ plan.take \in [Ports -> Nat]
  BY <1>1, <1>2, PlanCases, PlanTyped
<1>4. RoundTyped(queue, r) /\ RoundWhole(queue, r, Capacity)
  <2>1. Forward \in SUBSET Ports
    BY DEF Forward
  <2>2. \A p \in Forward : Rises(queue[p])
    BY <2>1 DEF IInv, OrderInv
  <2> QED
    BY <1>1, <2>2, BatchTyped, BatchWhole
<1>5. r.rounds < Capacity => \A p \in Forward : closed[p]
  <2>1. BatchReady(queue)
    BY <1>1, <1>2 DEF Plans
  <2> QED
    BY <2>1 DEF BatchReady
<1> HIDE DEF r
<1>6. /\ \A p \in Ports : inv'.taken[p] = Popped(plan, p)
      /\ queue' = Left(plan)
  BY <1>2 DEF Follows
\* What is taken are the packets of the rounds.
<1>7. ASSUME NEW p \in Forward
      PROVE  /\ Len(Popped(plan, p)) = r.take[p]
             /\ \A i \in 1 .. r.take[p] : Popped(plan, p)[i] = queue[p][i]
             /\ p \in Ports /\ r.take[p] \in Nat /\ r.take[p] <= Len(queue[p])
             /\ Len(queue[p]) \in Nat
  <2>1. p \in Ports /\ p \notin back
    BY DEF Forward
  <2>2. plan.take[p] = r.take[p] /\ r.take[p] \in Nat /\ r.take[p] <= Len(queue[p])
    BY <1>3, <1>4, <2>1 DEF RoundTyped
  <2>3. Len(Popped(plan, p)) = r.take[p] /\ Len(queue[p]) \in Nat
    BY <1>1, <1>3, <2>1, <2>2, PoppedIsPrefix
  <2>4. queue[p] \in Seq(PreStream .. PostStream)
    BY <1>1, <2>1 DEF Streams
  <2>5. PICK n \in Nat : n <= Len(queue[p]) /\ Popped(plan, p) = SubSeq(queue[p], 1, n)
    BY <1>3, <2>1, <2>2, <2>3 DEF Popped
  <2>6. ASSUME NEW i \in 1 .. Len(SubSeq(queue[p], 1, n))
        PROVE  SubSeq(queue[p], 1, n)[i] = queue[p][i]
    <3>1. SubSeq(queue[p], 1, n)[i] = queue[p][1 + i - 1]
      BY <2>4, <2>5, Piece, 1 \in Nat \ {0}
    <3>2. Len(SubSeq(queue[p], 1, n)) \in Nat
      BY <2>2, <2>3, <2>5
    <3>3. 1 + i - 1 = i
      BY <3>2
    <3> QED
      BY <3>1, <3>3
  <2> QED
    BY <2>1, <2>2, <2>3, <2>5, <2>6
<1>8. UNION {Times(inv'.taken[p]) : p \in Forward} = TakenTimes(queue, r.take)
  <2>1. ASSUME NEW p \in Forward
        PROVE  Times(inv'.taken[p]) = {queue[p][i] : i \in 1 .. r.take[p]}
    BY <1>6, <1>7 DEF Times
  <2> QED
    BY <2>1 DEF TakenTimes
<1>9. CASE r.rounds = Capacity
  BY <1>4, <1>8, <1>9 DEF RoundWhole
<1>10. CASE r.rounds # Capacity
  <2>1. r.rounds < Capacity /\ ~Aligned(Forward, Rest(queue, r.take))
    <3>1. Capacity \in Nat
      BY AlignmentAssumption
    <3> QED
      BY <1>4, <1>10, <3>1 DEF RoundWhole
  <2>2. \A p \in Forward : closed[p] /\ bound[p] = Done
    BY <1>1, <1>5, <1>7, <2>1 DEF LookIsFresh, ClosedIsDone
  <2>3. PICK rest : rest = Rest(queue, r.take)
    OBVIOUS
  <2>4. /\ rest \in [Ports -> Streams]
        /\ \A p \in Ports : Len(rest[p]) = Len(queue[p]) - r.take[p]
    BY <1>1, <1>4, <2>3, RestTyped
  <2>5. \A p \in Forward : rest[p] = <<>>
    BY <1>1, <1>7, <2>1, <2>2, <2>3, <2>4, EndedAligned
  <2>6. ASSUME NEW p \in Forward
        PROVE  queue'[p] = <<>>
    <3>1. Left(plan)[p] = Rest(queue, r.take)[p]
      BY <1>7 DEF Left, Rest
    <3> QED
      BY <1>6, <2>3, <2>5, <3>1
  <2> QED
    BY <2>2, <2>6
<1> QED
  BY <1>9, <1>10

(***************************************************************************)
(* A batch has Capacity timestamps, or it is the last: all streams have    *)
(* ended and nothing is left, single slots or not (node.rs,                *)
(* batch_readiness).                                                       *)
(***************************************************************************)
THEOREM BatchesAreWhole == Spec => BatchesWhole
<1>1. IInv /\ LookIsFresh /\ ClosedIsDone /\ [Next]_vars =>
          [quiet /\ ClaimStep /\ policy = "batch" =>
              \/ Cardinality(UNION {Times(inv'.taken[p]) : p \in Forward}) = Capacity
              \/ \A p \in Forward : closed[p] /\ queue'[p] = <<>>]_vars
  BY OnlyClaimClaims, ClaimIsWhole
<1> QED
  BY <1>1, InvariantHolds, WatchHolds, PTL DEF Spec, BatchesWhole
=============================================================================
