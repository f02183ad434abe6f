--------------------------- MODULE PacketsProofs ---------------------------
(***************************************************************************)
(* Packets are values, their resources are released exactly once, and the  *)
(* engine keeps nothing of what it delivered, for every number of threads, *)
(* bodies, payloads and resources and every order of the operations.       *)
(*                                                                         *)
(* The inductive invariant PInv says that the counts of the heap are those *)
(* of the references there are: of bodies in the boxes where packets are   *)
(* kept (Tally), of payloads in bodies (Sharers).  Balance adds for every  *)
(* resource of the host's how often it was released, who owns it in the    *)
(* heap and who carries it by hand.  It is proved in layers: what an       *)
(* operation does to the heap, then to the heap and boxes (Sound), then to *)
(* the writers that rely on being alone with a packet (Good), and last     *)
(* what each action does.                                                  *)
(*                                                                         *)
(* KInv adds who may share a payload of which the program made no second   *)
(* packet: each box has it at most once, and two boxes only if they are    *)
(* Apart, two ways of the same delivery (FlowOK); CalmOK says which nodes  *)
(* deliveries are for.  Every action cuts boxes, or lets one box gain what *)
(* a box beside it lost or delivers.                                       *)
(***************************************************************************)
EXTENDS Packets, FiniteSetTheorems, SequenceTheorems, TLAPS

Values == [content : Nat, meta : Nat]
EngineRef == [body : Bodies, own : {Nobody}, value : Values]
Refs == EngineRef \cup {SelfBuilt}

---------------------------------------------------------------------------
(* Counting references.                                                    *)

\* The positions of s that have a reference to body b of owner o, and how many.
Spots(s, o, b) == {i \in DOMAIN s : s[i].own = o /\ s[i].body = b}
Occ(s, o, b) == Cardinality(Spots(s, o, b))
Match(r, o, b) == IF r.own = o /\ r.body = b THEN 1 ELSE 0

\* s with r taken out, put in, or replaced by q.
Removes(s, u, r) ==
    /\ u \in Seq(Refs) /\ \A i \in DOMAIN u : \E j \in DOMAIN s : u[i] = s[j]
    /\ \E j \in DOMAIN s : r = s[j]
    /\ \A o, b : Occ(s, o, b) = Occ(u, o, b) + Match(r, o, b)
Adds(s, u, r) ==
    /\ u \in Seq(Refs) /\ \A i \in DOMAIN u : u[i] = r \/ \E j \in DOMAIN s : u[i] = s[j]
    /\ \A o, b : Occ(u, o, b) = Occ(s, o, b) + Match(r, o, b)
Replaces(s, u, r, q) ==
    /\ u \in Seq(Refs) /\ \A i \in DOMAIN u : u[i] = q \/ \E j \in DOMAIN s : u[i] = s[j]
    /\ (\E j \in DOMAIN s : r = s[j]) /\ \E j \in DOMAIN u : u[j] = q
    /\ \A o, b : Occ(u, o, b) + Match(r, o, b) = Occ(s, o, b) + Match(q, o, b)

\* A box has finitely many references to a body.
LEMMA SpotsFinite ==
    ASSUME NEW s \in Seq(Refs), NEW o, NEW b
    PROVE  IsFiniteSet(Spots(s, o, b)) /\ Occ(s, o, b) \in Nat
<1>1. Len(s) \in Nat /\ DOMAIN s = 1 .. Len(s) BY LenProperties
<1>2. IsFiniteSet(1 .. Len(s)) BY <1>1, FS_Interval
<1>3. Spots(s, o, b) \in SUBSET (1 .. Len(s)) BY <1>1 DEF Spots
<1>4. IsFiniteSet(Spots(s, o, b)) BY <1>2, <1>3, FS_Subset
<1> QED BY <1>4, FS_CardinalityType DEF Occ

\* An empty box has none.
LEMMA NoSpots == \A o, b : Occ(<<>>, o, b) = 0
<1> SUFFICES ASSUME NEW o, NEW b PROVE Occ(<<>>, o, b) = 0 OBVIOUS
<1>1. Spots(<<>>, o, b) = {} BY DEF Spots
<1> QED BY <1>1, FS_EmptySet DEF Occ

\* Pushing adds the reference pushed and no other.
LEMMA AppendAdds ==
    ASSUME NEW s \in Seq(Refs), NEW r \in Refs
    PROVE  Adds(s, Append(s, r), r)
<1> DEFINE u == Append(s, r)
<1>1. /\ u \in Seq(Refs) /\ Len(u) = Len(s) + 1 /\ Len(s) \in Nat
      /\ DOMAIN s = 1 .. Len(s) /\ DOMAIN u = 1 .. Len(u)
      /\ u[Len(s) + 1] = r /\ \A i \in 1 .. Len(s) : u[i] = s[i]
  BY AppendProperties, LenProperties
<1> HIDE DEF u
<1>2. ASSUME NEW o, NEW b PROVE Occ(u, o, b) = Occ(s, o, b) + Match(r, o, b)
  <2>1. CASE Match(r, o, b) = 1
    <3>1. Spots(u, o, b) = Spots(s, o, b) \cup {Len(s) + 1} BY <1>1, <2>1 DEF Spots, Match
    <3>2. Len(s) + 1 \notin Spots(s, o, b) BY <1>1 DEF Spots
    <3> QED BY <2>1, <3>1, <3>2, SpotsFinite, FS_AddElement DEF Occ
  <2>2. CASE Match(r, o, b) # 1
    <3>1. Spots(u, o, b) = Spots(s, o, b) BY <1>1, <2>2 DEF Spots, Match
    <3>2. Match(r, o, b) = 0 BY <2>2 DEF Match
    <3> QED BY <3>1, <3>2, SpotsFinite DEF Occ
  <2> QED BY <2>1, <2>2
<1>3. ASSUME NEW i \in DOMAIN u PROVE u[i] = r \/ \E j \in DOMAIN s : u[i] = s[j]
  BY <1>1
<1>4. Adds(s, u, r) BY <1>1, <1>2, <1>3 DEF Adds
<1> QED BY <1>4 DEF u

\* Popping removes the last reference and no other.
LEMMA FrontRemoves ==
    ASSUME NEW s \in Seq(Refs), s # <<>>
    PROVE  Removes(s, SubSeq(s, 1, Len(s) - 1), s[Len(s)]) /\ s[Len(s)] \in Refs
<1> DEFINE u == SubSeq(s, 1, Len(s) - 1)
<1> DEFINE r == s[Len(s)]
<1>1. Len(s) \in Nat /\ Len(s) # 0 /\ DOMAIN s = 1 .. Len(s) BY EmptySeq, LenProperties
<1>2. Len(s) >= 1 /\ Len(s) \in DOMAIN s BY <1>1
<1>3. /\ u \in Seq(Refs) /\ DOMAIN u = 1 .. Len(s) - 1 /\ \A i \in DOMAIN u : u[i] = s[i]
      /\ r \in Refs
  BY <1>1, <1>2
<1> HIDE DEF u
<1>4. ASSUME NEW o, NEW b PROVE Occ(s, o, b) = Occ(u, o, b) + Match(r, o, b)
  <2>1. CASE Match(r, o, b) = 1
    <3>1. Spots(s, o, b) = Spots(u, o, b) \cup {Len(s)} BY <1>1, <1>2, <1>3, <2>1 DEF Spots, Match
    <3>2. Len(s) \notin Spots(u, o, b) BY <1>1, <1>3 DEF Spots
    <3> QED BY <1>3, <2>1, <3>1, <3>2, SpotsFinite, FS_AddElement DEF Occ
  <2>2. CASE Match(r, o, b) # 1
    <3>1. Spots(u, o, b) = Spots(s, o, b) BY <1>1, <1>2, <1>3, <2>2 DEF Spots, Match
    <3>2. Match(r, o, b) = 0 BY <2>2 DEF Match
    <3> QED BY <1>3, <3>1, <3>2, SpotsFinite DEF Occ
  <2> QED BY <2>1, <2>2
<1>5. ASSUME NEW i \in DOMAIN u PROVE \E j \in DOMAIN s : u[i] = s[j]
  BY <1>1, <1>3
<1>6. \E j \in DOMAIN s : r = s[j] BY <1>2
<1> HIDE DEF r
<1>7. Removes(s, u, r) BY <1>3, <1>4, <1>5, <1>6 DEF Removes
<1> QED BY <1>3, <1>7 DEF u, r

\* Taking the head removes the first reference and no other.
LEMMA TailRemoves ==
    ASSUME NEW s \in Seq(Refs), s # <<>>
    PROVE  Removes(s, Tail(s), Head(s)) /\ Head(s) \in Refs
<1> DEFINE u == Tail(s)
<1> DEFINE r == Head(s)
<1>1. Len(s) \in Nat /\ Len(s) # 0 /\ DOMAIN s = 1 .. Len(s) BY EmptySeq, LenProperties
<1>2. Len(s) >= 1 /\ 1 \in DOMAIN s BY <1>1
<1>3. /\ u \in Seq(Refs) /\ Len(u) = Len(s) - 1 /\ DOMAIN u = 1 .. Len(u)
      /\ \A i \in DOMAIN u : u[i] = s[i + 1] /\ i + 1 \in DOMAIN s
      /\ r \in Refs /\ r = s[1]
  BY <1>1, <1>2, HeadTailProperties, LenProperties
<1> HIDE DEF u, r
<1>4. ASSUME NEW o, NEW b PROVE Occ(s, o, b) = Occ(u, o, b) + Match(r, o, b)
  <2> DEFINE f == [i \in Spots(u, o, b) |-> i + 1]
  <2> DEFINE T == Spots(s, o, b) \ {1}
  <2>1. \A i \in Spots(u, o, b) : i \in Nat /\ i >= 1 /\ i + 1 \in T BY <1>1, <1>3 DEF Spots
  <2>2. \A j \in T : j - 1 \in Spots(u, o, b) /\ (j - 1) + 1 = j BY <1>1, <1>3 DEF Spots
  <2>3. f \in Bijection(Spots(u, o, b), T)
    <3>1. f \in [Spots(u, o, b) -> T] BY <2>1
    <3>2. \A i, j \in Spots(u, o, b) : f[i] = f[j] => i = j BY <2>1
    <3>3. \A j \in T : \E i \in Spots(u, o, b) : f[i] = j BY <2>2
    <3> QED BY <3>1, <3>2, <3>3 DEF Bijection, Injection, Surjection, IsInjective
  <2> HIDE DEF f
  <2>4. IsFiniteSet(Spots(u, o, b)) /\ IsFiniteSet(Spots(s, o, b)) BY <1>3, SpotsFinite
  <2>5. Cardinality(T) = Occ(u, o, b)
    BY <2>3, <2>4, FS_Bijection DEF ExistsBijection, Occ
  <2>6. 1 \in Spots(s, o, b) <=> Match(r, o, b) = 1 BY <1>2, <1>3 DEF Spots, Match
  <2>7. Cardinality(T) = IF 1 \in Spots(s, o, b) THEN Occ(s, o, b) - 1 ELSE Occ(s, o, b)
    BY <2>4, FS_RemoveElement DEF Occ
  <2>8. Occ(s, o, b) \in Nat BY SpotsFinite
  <2>9. Match(r, o, b) \in {0, 1} BY DEF Match
  <2> HIDE DEF T
  <2> QED BY <2>5, <2>6, <2>7, <2>8, <2>9
<1>5. ASSUME NEW i \in DOMAIN u PROVE \E j \in DOMAIN s : u[i] = s[j]
  BY <1>3
<1>6. \E j \in DOMAIN s : r = s[j] BY <1>2, <1>3
<1>7. Removes(s, u, r) BY <1>3, <1>4, <1>5, <1>6 DEF Removes
<1> QED BY <1>3, <1>7 DEF u, r

\* Setting the top replaces the last reference and no other.
LEMMA LastReplaces ==
    ASSUME NEW s \in Seq(Refs), s # <<>>, NEW q \in Refs
    PROVE  Replaces(s, [s EXCEPT ![Len(s)] = q], s[Len(s)], q)
<1> DEFINE u == [s EXCEPT ![Len(s)] = q]
<1> DEFINE r == s[Len(s)]
<1>1. Len(s) \in Nat /\ Len(s) # 0 /\ DOMAIN s = 1 .. Len(s) BY EmptySeq, LenProperties
<1>2. Len(s) >= 1 /\ Len(s) \in DOMAIN s BY <1>1
<1>3. /\ u \in Seq(Refs) /\ DOMAIN u = DOMAIN s /\ r \in Refs
      /\ \A i \in DOMAIN u : u[i] = IF i = Len(s) THEN q ELSE s[i]
  BY <1>1, <1>2
<1> HIDE DEF u
<1>4. ASSUME NEW o, NEW b PROVE Occ(u, o, b) + Match(r, o, b) = Occ(s, o, b) + Match(q, o, b)
  <2> DEFINE T == Spots(s, o, b) \ {Len(s)}
  <2>1. IsFiniteSet(Spots(u, o, b)) /\ IsFiniteSet(Spots(s, o, b))
        /\ Occ(s, o, b) \in Nat /\ Occ(u, o, b) \in Nat BY <1>3, SpotsFinite
  <2>2. T = Spots(u, o, b) \ {Len(s)} BY <1>3 DEF Spots
  <2>3. Len(s) \in Spots(s, o, b) <=> Match(r, o, b) = 1 BY <1>2, <1>3 DEF Spots, Match
  <2>4. Len(s) \in Spots(u, o, b) <=> Match(q, o, b) = 1 BY <1>2, <1>3 DEF Spots, Match
  <2>5. Cardinality(T) = IF Len(s) \in Spots(s, o, b) THEN Occ(s, o, b) - 1 ELSE Occ(s, o, b)
    BY <2>1, FS_RemoveElement DEF Occ
  <2>6. Cardinality(T) = IF Len(s) \in Spots(u, o, b) THEN Occ(u, o, b) - 1 ELSE Occ(u, o, b)
    BY <2>1, <2>2, FS_RemoveElement DEF Occ
  <2>7. Match(r, o, b) \in {0, 1} /\ Match(q, o, b) \in {0, 1} BY DEF Match
  <2> HIDE DEF T, r
  <2> QED BY <2>1, <2>3, <2>4, <2>5, <2>6, <2>7
<1>5. ASSUME NEW i \in DOMAIN u PROVE u[i] = q \/ \E j \in DOMAIN s : u[i] = s[j]
  BY <1>3
<1>6. (\E j \in DOMAIN s : r = s[j]) /\ \E j \in DOMAIN u : u[j] = q BY <1>2, <1>3
<1> HIDE DEF r
<1>7. Replaces(s, u, r, q) BY <1>3, <1>4, <1>5, <1>6 DEF Replaces
<1> QED BY <1>7 DEF u, r

\* A queue behind another: references are those of both.
LEMMA ConcatSpots ==
    ASSUME NEW s \in Seq(Refs), NEW u \in Seq(Refs)
    PROVE  /\ s \o u \in Seq(Refs)
           /\ \A i \in DOMAIN (s \o u) : (\E j \in DOMAIN s : (s \o u)[i] = s[j]) \/ \E j \in DOMAIN u : (s \o u)[i] = u[j]
           /\ \A o, b : Occ(s \o u, o, b) = Occ(s, o, b) + Occ(u, o, b)
<1> DEFINE w == s \o u
<1>1. /\ w \in Seq(Refs) /\ Len(w) = Len(s) + Len(u) /\ Len(s) \in Nat /\ Len(u) \in Nat
      /\ DOMAIN s = 1 .. Len(s) /\ DOMAIN u = 1 .. Len(u) /\ DOMAIN w = 1 .. Len(w)
      /\ \A i \in 1 .. Len(w) : w[i] = IF i <= Len(s) THEN s[i] ELSE u[i - Len(s)]
  BY ConcatProperties, LenProperties
<1> HIDE DEF w
<1>2. ASSUME NEW o, NEW b PROVE Occ(w, o, b) = Occ(s, o, b) + Occ(u, o, b)
  <2> DEFINE f == [i \in Spots(u, o, b) |-> i + Len(s)]
  <2> DEFINE T == Spots(w, o, b) \ (1 .. Len(s))
  <2>1. \A i \in Spots(u, o, b) : i \in Nat /\ i >= 1 /\ i + Len(s) \in T
    <3> TAKE i \in Spots(u, o, b)
    <3>1. i \in 1 .. Len(u) /\ u[i].own = o /\ u[i].body = b BY <1>1 DEF Spots
    <3>2. PICK j : j = i + Len(s) OBVIOUS
    <3>3. j \in 1 .. Len(w) /\ ~(j <= Len(s)) /\ j - Len(s) = i BY <1>1, <3>1, <3>2
    <3>4. w[j] = u[i] BY <1>1, <3>3
    <3>5. j \in Spots(w, o, b) BY <1>1, <3>1, <3>3, <3>4 DEF Spots
    <3> QED BY <1>1, <3>1, <3>2, <3>3, <3>5
  <2>2. \A j \in T : j - Len(s) \in Spots(u, o, b) /\ (j - Len(s)) + Len(s) = j
    <3> TAKE j \in T
    <3>1. j \in 1 .. Len(w) /\ ~(j <= Len(s)) /\ w[j].own = o /\ w[j].body = b BY <1>1 DEF Spots
    <3>2. w[j] = u[j - Len(s)] /\ j - Len(s) \in 1 .. Len(u) BY <1>1, <3>1
    <3> QED BY <1>1, <3>1, <3>2 DEF Spots
  <2>3. f \in Bijection(Spots(u, o, b), T)
    <3>1. f \in [Spots(u, o, b) -> T] BY <2>1
    <3>2. \A i, j \in Spots(u, o, b) : f[i] = f[j] => i = j BY <1>1, <2>1
    <3>3. \A j \in T : \E i \in Spots(u, o, b) : f[i] = j BY <2>2
    <3> QED BY <3>1, <3>2, <3>3 DEF Bijection, Injection, Surjection, IsInjective
  <2> HIDE DEF f
  <2>4. /\ IsFiniteSet(Spots(u, o, b)) /\ IsFiniteSet(Spots(s, o, b)) /\ IsFiniteSet(Spots(w, o, b))
        /\ Occ(s, o, b) \in Nat /\ Occ(u, o, b) \in Nat
    BY <1>1, SpotsFinite
  <2>5. Cardinality(T) = Occ(u, o, b) /\ IsFiniteSet(T)
    BY <2>3, <2>4, FS_Bijection DEF ExistsBijection, Occ
  <2>6. Spots(w, o, b) = Spots(s, o, b) \cup T /\ Spots(s, o, b) \cap T = {}
    <3>1. Spots(s, o, b) = Spots(w, o, b) \cap (1 .. Len(s)) BY <1>1 DEF Spots
    <3> QED BY <3>1
  <2> HIDE DEF T
  <2>7. Cardinality({}) = 0 BY FS_EmptySet
  <2> QED BY SMTT(30), <2>4, <2>5, <2>6, <2>7, FS_Union DEF Occ
<1>3. ASSUME NEW i \in DOMAIN w
      PROVE (\E j \in DOMAIN s : w[i] = s[j]) \/ \E j \in DOMAIN u : w[i] = u[j]
  <2>1. CASE i <= Len(s) BY <1>1, <2>1
  <2>2. CASE ~(i <= Len(s))
    <3>1. w[i] = u[i - Len(s)] /\ i - Len(s) \in 1 .. Len(u) BY <1>1, <2>2
    <3> QED BY <1>1, <3>1
  <2> QED BY <2>1, <2>2
<1> QED BY <1>1, <1>2, <1>3 DEF w

\* The list of one reference, as an addition to none, and back.
LEMMA OneAdds ==
    ASSUME NEW r \in Refs
    PROVE  Adds(<<>>, <<r>>, r) /\ Removes(<<r>>, <<>>, r)
<1>1. <<r>> = Append(<<>>, r) /\ <<>> \in Seq(Refs) /\ <<r>> \in Seq(Refs) OBVIOUS
<1>2. Adds(<<>>, <<r>>, r) BY <1>1, AppendAdds
<1>3. \A o, b : Occ(<<r>>, o, b) = Occ(<<>>, o, b) + Match(r, o, b) BY <1>2 DEF Adds
<1>4. DOMAIN <<r>> = {1} /\ <<r>>[1] = r OBVIOUS
<1>5. \E j \in DOMAIN <<r>> : r = <<r>>[j] BY <1>4
<1>6. \A i \in DOMAIN <<>> : \E j \in DOMAIN <<r>> : <<>>[i] = <<r>>[j] OBVIOUS
<1>7. Removes(<<r>>, <<>>, r) BY <1>1, <1>3, <1>5, <1>6 DEF Removes
<1> QED BY <1>2, <1>7

---------------------------------------------------------------------------
(* Counting in all boxes.                                                  *)

Part(k, s, o, b) == {k} \X Spots(s, o, b)
PlacesOf(B, o, b) == UNION {Part(k, B[k], o, b) : k \in Boxes}
Tally(B, o, b) == Cardinality(PlacesOf(B, o, b))
Counted(B, o, b) == IsFiniteSet(PlacesOf(B, o, b))
Put(B, k, s) == [B EXCEPT ![k] = s]

\* The positions of one box, as places.
LEMMA BoxPlaces ==
    ASSUME NEW s \in Seq(Refs), NEW k, NEW o, NEW b
    PROVE  IsFiniteSet(Part(k, s, o, b)) /\ Cardinality(Part(k, s, o, b)) = Occ(s, o, b)
<1>1. IsFiniteSet(Spots(s, o, b)) /\ Occ(s, o, b) \in Nat BY SpotsFinite
<1>2. IsFiniteSet({k}) /\ Cardinality({k}) = 1 BY FS_Singleton
<1>3. Cardinality(Part(k, s, o, b)) = 1 * Occ(s, o, b) BY <1>1, <1>2, FS_Product DEF Occ, Part
<1> QED BY <1>1, <1>2, <1>3, FS_Product DEF Part

\* A box is filled anew.
LEMMA Recount ==
    ASSUME NEW B \in [Boxes -> Seq(Refs)], NEW k \in Boxes, NEW s \in Seq(Refs), NEW o, NEW b,
           Counted(B, o, b)
    PROVE  LET C == Put(B, k, s)
           IN  /\ Counted(C, o, b) /\ Tally(B, o, b) \in Nat /\ Tally(C, o, b) \in Nat
               /\ Tally(C, o, b) + Occ(B[k], o, b) = Tally(B, o, b) + Occ(s, o, b)
<1> DEFINE C == Put(B, k, s)
<1> DEFINE R == UNION {Part(l, B[l], o, b) : l \in Boxes \ {k}}
<1> DEFINE K == Part(k, B[k], o, b)
<1> DEFINE M == Part(k, s, o, b)
<1>1. PlacesOf(B, o, b) = R \cup K BY DEF PlacesOf
<1>2. PlacesOf(C, o, b) = R \cup M
  <2>1. C[k] = s /\ \A l \in Boxes \ {k} : C[l] = B[l] BY DEF Put
  <2> HIDE DEF C
  <2> QED BY <2>1 DEF PlacesOf
<1>3. R \cap K = {} /\ R \cap M = {} BY DEF Part
<1>4. IsFiniteSet(R) BY <1>1, FS_Subset DEF Counted
<1>5. /\ IsFiniteSet(K) /\ Cardinality(K) = Occ(B[k], o, b)
      /\ IsFiniteSet(M) /\ Cardinality(M) = Occ(s, o, b)
  <2>1. B[k] \in Seq(Refs) OBVIOUS
  <2>2. IsFiniteSet(K) /\ Cardinality(K) = Occ(B[k], o, b) BY <2>1, BoxPlaces
  <2> QED BY <2>2, BoxPlaces
<1>6. Occ(B[k], o, b) \in Nat /\ Occ(s, o, b) \in Nat BY SpotsFinite
<1> HIDE DEF R, K, M, C
<1>7. Cardinality(R) \in Nat /\ Cardinality({}) = 0 BY <1>4, FS_CardinalityType, FS_EmptySet
<1>8. /\ IsFiniteSet(R \cup M)
      /\ Cardinality(R \cup K) = Cardinality(R) + Occ(B[k], o, b)
      /\ Cardinality(R \cup M) = Cardinality(R) + Occ(s, o, b)
  <2>1. Cardinality(R \cup K) = Cardinality(R) + Cardinality(K) - Cardinality(R \cap K)
    BY <1>4, <1>5, FS_Union
  <2>2. /\ IsFiniteSet(R \cup M)
        /\ Cardinality(R \cup M) = Cardinality(R) + Cardinality(M) - Cardinality(R \cap M)
    BY <1>4, <1>5, FS_Union
  <2>3. Cardinality(R \cap K) = 0 /\ Cardinality(R \cap M) = 0 BY <1>3, <1>7
  <2> QED BY <1>5, <1>6, <1>7, <2>1, <2>2, <2>3
<1>9. /\ Tally(B, o, b) = Cardinality(R) + Occ(B[k], o, b)
      /\ Tally(C, o, b) = Cardinality(R) + Occ(s, o, b)
      /\ Counted(C, o, b)
  BY <1>1, <1>2, <1>8 DEF Counted, Tally
<1>10. /\ Counted(C, o, b) /\ Tally(B, o, b) \in Nat /\ Tally(C, o, b) \in Nat
       /\ Tally(C, o, b) + Occ(B[k], o, b) = Tally(B, o, b) + Occ(s, o, b)
  BY <1>6, <1>7, <1>9
<1> QED BY <1>10 DEF C

\* A reference in a box counts.
LEMMA Present ==
    ASSUME NEW B \in [Boxes -> Seq(Refs)], NEW k \in Boxes, NEW i \in DOMAIN B[k],
           Counted(B, B[k][i].own, B[k][i].body)
    PROVE  Tally(B, B[k][i].own, B[k][i].body) \in Nat \ {0}
<1> DEFINE P == PlacesOf(B, B[k][i].own, B[k][i].body)
<1>1. <<k, i>> \in P BY DEF PlacesOf, Part, Spots
<1>2. IsFiniteSet(P) BY DEF Counted
<1> HIDE DEF P
<1>3. Cardinality(P) \in Nat /\ Cardinality(P) # 0 BY <1>1, <1>2, FS_CardinalityType, FS_EmptySet
<1> QED BY <1>3 DEF P, Tally

\* The only reference is where it is.
LEMMA Alone ==
    ASSUME NEW B \in [Boxes -> Seq(Refs)], NEW o, NEW b, Counted(B, o, b), Tally(B, o, b) = 1,
           NEW k \in Boxes, NEW i \in DOMAIN B[k], B[k][i].own = o, B[k][i].body = b,
           NEW l \in Boxes, NEW j \in DOMAIN B[l], B[l][j].own = o, B[l][j].body = b
    PROVE  k = l /\ i = j
<1> DEFINE P == PlacesOf(B, o, b)
<1>1. <<k, i>> \in P /\ <<l, j>> \in P BY DEF PlacesOf, Part, Spots
<1>2. IsFiniteSet(P) /\ Cardinality(P) = 1 BY DEF Counted, Tally
<1> HIDE DEF P
<1>3. PICK x : P = {x} BY <1>2, FS_Singleton
<1> QED BY <1>1, <1>3

---------------------------------------------------------------------------
(* The heap.                                                               *)

Kinds == {"none", "builtin", "external", "readonly", "foreign"}
BodyType == [refs : Nat, payload : Payloads \cup {0}, meta : Nat]
Owned == {Nobody} \cup Resources \cup Memory
PayloadType == [refs : Nat, kind : Kinds, content : Nat, own : Owned, copies : BOOLEAN]
HeapType == [body : [Bodies -> BodyType], payload : [Payloads -> PayloadType],
             released : [Resources -> Nat], cached : [Memory -> Nat], bytes : Nat]

Sharers(h, p) == {b \in Bodies : h.body[b].payload = p}
Owners(h, o) == {p \in Payloads : h.payload[p].own = o}
CachedBytes(cached) == UNION {{m} \X (1 .. cached[m] * MemorySize[m]) : m \in Memory}

\* The counts of the heap are those of its references, but that payload p has
\* one reference more; nothing is both used and in the pool.
BodiesOK(h) == \A b \in Bodies : IF h.body[b].refs = 0 THEN h.body[b] = NoBody ELSE h.body[b].payload \in Payloads
SharersOK(h, p) ==
    \A q \in Payloads : /\ h.payload[q].refs = Cardinality(Sharers(h, q)) + (IF q = p THEN 1 ELSE 0)
                        /\ h.payload[q].refs = 0 => h.payload[q] = NoPayload
KindsOK(h) == \A q \in Payloads : h.payload[q].kind = "foreign" => h.payload[q].own = Object
MemoryOK(h) == \A m \in Memory : h.cached[m] + Cardinality(Owners(h, m)) \in {0, 1}
PoolOK(h) ==
    /\ IsFiniteSet(CachedBytes(h.cached))
    /\ h.bytes = Cardinality(CachedBytes(h.cached)) /\ h.bytes <= PoolBytes
HeapOK(h, p) == h \in HeapType /\ BodiesOK(h) /\ SharersOK(h, p) /\ KindsOK(h) /\ MemoryOK(h) /\ PoolOK(h)

\* From h to g, the packets that are still there are as they were, and what
\* was owned is owned or released.
SamePayload(h, g, q) ==
    /\ g.payload[q].kind = h.payload[q].kind /\ g.payload[q].content = h.payload[q].content
    /\ g.payload[q].own = h.payload[q].own /\ g.payload[q].copies = h.payload[q].copies
Kept(h, g) == \A q \in Payloads : h.payload[q].refs # 0 /\ g.payload[q].refs # 0 => SamePayload(h, g, q)
SameBody(h, g, b) == g.body[b].payload = h.body[b].payload /\ g.body[b].meta = h.body[b].meta
Accounted(h, g) ==
    \A o \in Resources : g.released[o] + Cardinality(Owners(g, o)) = h.released[o] + Cardinality(Owners(h, o))

\* Sharers and owners are finite.
LEMMA FiniteHolders ==
    ASSUME NEW h, NEW x
    PROVE  /\ IsFiniteSet(Sharers(h, x)) /\ Cardinality(Sharers(h, x)) \in Nat
           /\ IsFiniteSet(Owners(h, x)) /\ Cardinality(Owners(h, x)) \in Nat
<1>1. IsFiniteSet(Bodies) /\ IsFiniteSet(Payloads) BY PacketsAssumption
<1>2. Sharers(h, x) \in SUBSET Bodies /\ Owners(h, x) \in SUBSET Payloads BY DEF Sharers, Owners
<1>3. IsFiniteSet(Sharers(h, x)) /\ IsFiniteSet(Owners(h, x)) BY <1>1, <1>2, FS_Subset
<1> QED BY <1>3, FS_CardinalityType

\* Pairs with one value are as many as what they are pairs with.
LEMMA Beside ==
    ASSUME NEW x, NEW S, IsFiniteSet(S)
    PROVE  IsFiniteSet({x} \X S) /\ Cardinality({x} \X S) = Cardinality(S)
<1>1. Cardinality(S) \in Nat BY FS_CardinalityType
<1>2. IsFiniteSet({x}) /\ Cardinality({x}) = 1 BY FS_Singleton
<1>3. Cardinality({x} \X S) = 1 * Cardinality(S) BY <1>2, FS_Product
<1> QED BY <1>1, <1>2, <1>3, FS_Product

\* An interval from 1 has its upper end's number of elements.
LEMMA UpTo ==
    ASSUME NEW n \in Nat
    PROVE  IsFiniteSet(1 .. n) /\ Cardinality(1 .. n) = n
<1>1. 1 \in Int /\ n \in Int OBVIOUS
<1>2. IsFiniteSet(1 .. n) /\ Cardinality(1 .. n) = IF 1 > n THEN 0 ELSE n - 1 + 1 BY <1>1, FS_Interval
<1> QED BY <1>2

\* A finite set with one element more.
LEMMA GainOne ==
    ASSUME NEW S, NEW T, NEW x, IsFiniteSet(S), x \notin S, T = S \cup {x}
    PROVE  IsFiniteSet(T) /\ Cardinality(T) = Cardinality(S) + 1
BY FS_AddElement

\* A finite set with one element less.
LEMMA LoseOne ==
    ASSUME NEW S, NEW T, NEW x, IsFiniteSet(S), x \in S, T = S \ {x}
    PROVE  IsFiniteSet(T) /\ Cardinality(T) = Cardinality(S) - 1 /\ Cardinality(S) \in Nat \ {0}
<1>1. IsFiniteSet(T) /\ Cardinality(T) = Cardinality(S) - 1 BY FS_RemoveElement
<1>2. Cardinality(S) \in Nat /\ Cardinality(S) # 0 BY FS_CardinalityType, FS_EmptySet
<1> QED BY <1>1, <1>2

\* A body that is referred to has a payload that is.
LEMMA LivePayload ==
    ASSUME NEW h, NEW p, HeapOK(h, p), NEW b \in Bodies, h.body[b].refs # 0
    PROVE  /\ h.body[b].payload \in Payloads /\ h.payload[h.body[b].payload].refs \in Nat \ {0}
           /\ h.body[b].payload # 0
<1> DEFINE q == h.body[b].payload
<1>1. q \in Payloads BY DEF HeapOK, BodiesOK
<1>2. b \in Sharers(h, q) BY DEF Sharers
<1> HIDE DEF q
<1>3. Cardinality(Sharers(h, q)) \in Nat /\ Cardinality(Sharers(h, q)) # 0
  BY <1>2, FiniteHolders, FS_EmptySet
<1>4. h.payload[q].refs = Cardinality(Sharers(h, q)) + (IF q = p THEN 1 ELSE 0)
  BY <1>1 DEF HeapOK, SharersOK
<1>5. h.payload[q].refs \in Nat \ {0} BY <1>3, <1>4
<1>6. 0 \notin Payloads BY PacketsAssumption
<1> QED BY <1>1, <1>5, <1>6 DEF q

\* The bytes of the pool, one allocation more or less.
LEMMA PoolChange ==
    ASSUME NEW c \in [Memory -> Nat], NEW m \in Memory, c[m] = 0, IsFiniteSet(CachedBytes(c))
    PROVE  LET d == [c EXCEPT ![m] = 1]
           IN  /\ IsFiniteSet(CachedBytes(d))
               /\ Cardinality(CachedBytes(d)) = Cardinality(CachedBytes(c)) + MemorySize[m]
               /\ Cardinality(CachedBytes(c)) \in Nat
<1> DEFINE d == [c EXCEPT ![m] = 1]
<1> DEFINE M == {m} \X (1 .. MemorySize[m])
<1>1. MemorySize[m] \in Nat BY PacketsAssumption
<1>3. IsFiniteSet(1 .. MemorySize[m]) /\ Cardinality(1 .. MemorySize[m]) = MemorySize[m]
  BY <1>1, UpTo
<1>4. IsFiniteSet(M) /\ Cardinality(M) = MemorySize[m] BY <1>3, Beside
<1>5. d[m] = 1 /\ \A x \in Memory \ {m} : d[x] = c[x] OBVIOUS
<1> HIDE DEF d
<1>6. 0 * MemorySize[m] = 0 /\ 1 * MemorySize[m] = MemorySize[m] BY <1>1
<1>7. c[m] * MemorySize[m] = 0 /\ d[m] * MemorySize[m] = MemorySize[m] BY <1>5, <1>6
<1>8. CachedBytes(d) = CachedBytes(c) \cup M
  <2>1. ASSUME NEW x \in CachedBytes(d) PROVE x \in CachedBytes(c) \cup M
    <3>1. PICK y \in Memory : x \in {y} \X (1 .. d[y] * MemorySize[y]) BY DEF CachedBytes
    <3>2. CASE y = m BY <1>7, <3>1, <3>2
    <3>3. CASE y # m
      <4>1. d[y] = c[y] BY <1>5, <3>3
      <4> QED BY <3>1, <4>1 DEF CachedBytes
    <3> QED BY <3>2, <3>3
  <2>2. ASSUME NEW x \in CachedBytes(c) PROVE x \in CachedBytes(d)
    <3>1. PICK y \in Memory : x \in {y} \X (1 .. c[y] * MemorySize[y]) BY DEF CachedBytes
    <3>2. y # m BY <1>7, <3>1
    <3>3. d[y] = c[y] BY <1>5, <3>2
    <3> QED BY <3>1, <3>3 DEF CachedBytes
  <2>3. M \subseteq CachedBytes(d) BY <1>7 DEF CachedBytes
  <2> QED BY <2>1, <2>2, <2>3
<1>9. CachedBytes(c) \cap M = {}
  <2> SUFFICES ASSUME NEW x \in CachedBytes(c), x \in M PROVE FALSE OBVIOUS
  <2>1. PICK y \in Memory : x \in {y} \X (1 .. c[y] * MemorySize[y]) BY DEF CachedBytes
  <2>2. y = m BY <2>1
  <2> QED BY <1>7, <2>1, <2>2
<1> HIDE DEF M
<1>10. /\ IsFiniteSet(CachedBytes(d))
       /\ Cardinality(CachedBytes(d)) = Cardinality(CachedBytes(c)) + Cardinality(M) - Cardinality({})
  <2>1. /\ IsFiniteSet(CachedBytes(c) \cup M)
        /\ Cardinality(CachedBytes(c) \cup M)
             = Cardinality(CachedBytes(c)) + Cardinality(M) - Cardinality(CachedBytes(c) \cap M)
    BY <1>4, FS_Union
  <2> QED BY <1>8, <1>9, <2>1
<1>11. Cardinality({}) = 0 /\ Cardinality(CachedBytes(c)) \in Nat BY FS_EmptySet, FS_CardinalityType
<1> QED BY <1>1, <1>4, <1>6, <1>10, <1>11 DEF d

\* Dispose, of what no payload has any more.
LEMMA DisposeKeeps ==
    ASSUME NEW h, NEW p, NEW o \in Owned,
           h \in HeapType, BodiesOK(h), SharersOK(h, p), KindsOK(h), PoolOK(h),
           \A m \in Memory : h.cached[m] + Cardinality(Owners(h, m)) + (IF m = o THEN 1 ELSE 0) \in {0, 1}
    PROVE  LET g == Dispose(h, o)
           IN  /\ HeapOK(g, p) /\ g.body = h.body /\ g.payload = h.payload
               /\ \A r \in Resources : g.released[r] = h.released[r] + (IF r = o THEN 1 ELSE 0)
<1> DEFINE g == Dispose(h, o)
<1>0. /\ Nobody \notin Resources \cup Memory /\ Adopted \notin Memory /\ Object \notin Memory
      /\ h.released \in [Resources -> Nat] /\ h.cached \in [Memory -> Nat] /\ h.bytes \in Nat
  BY PacketsAssumption DEF Resources, HeapType
<1>1. CASE o \in Resources
  <2>1. g = [h EXCEPT !.released[o] = @ + 1] BY <1>0, <1>1 DEF Dispose, Resources
  <2>2. /\ g.body = h.body /\ g.payload = h.payload /\ g.cached = h.cached /\ g.bytes = h.bytes
        /\ g.released = [h.released EXCEPT ![o] = @ + 1] /\ g \in HeapType
    BY <1>0, <1>1, <2>1 DEF HeapType
  <2>3. \A m \in Memory : m # o BY <1>0, <1>1 DEF Resources
  <2> HIDE DEF g
  <2>4. \A m \in Memory : Owners(g, m) = Owners(h, m) BY <2>2 DEF Owners
  <2>5. \A q \in Payloads : Sharers(g, q) = Sharers(h, q) BY <2>2 DEF Sharers
  <2>6. MemoryOK(g)
    <3> SUFFICES ASSUME NEW m \in Memory PROVE g.cached[m] + Cardinality(Owners(g, m)) \in {0, 1} BY DEF MemoryOK
    <3>1. h.cached[m] + Cardinality(Owners(h, m)) + 0 \in {0, 1} BY <2>3
    <3> QED BY <1>0, <2>2, <2>4, <3>1, FiniteHolders
  <2>7. BodiesOK(g) /\ SharersOK(g, p) /\ KindsOK(g) /\ PoolOK(g)
    BY <2>2, <2>5 DEF BodiesOK, SharersOK, KindsOK, PoolOK
  <2>8. \A r \in Resources : g.released[r] = h.released[r] + (IF r = o THEN 1 ELSE 0) BY <1>0, <2>2
  <2> QED BY <2>2, <2>6, <2>7, <2>8 DEF g, HeapOK
<1>2. CASE o \in Memory
  <2>0. o \notin Resources BY <1>0, <1>2 DEF Resources
  <2>1. g = ToPool(h, o) BY <1>2, <2>0 DEF Dispose
  <2>2. h.cached[o] = 0 /\ Cardinality(Owners(h, o)) = 0
    <3>1. h.cached[o] + Cardinality(Owners(h, o)) + 1 \in {0, 1} BY <1>2
    <3>2. h.cached[o] \in Nat /\ Cardinality(Owners(h, o)) \in Nat BY <1>0, <1>2, FiniteHolders
    <3> QED BY <3>1, <3>2
  <2>3. MemorySize[o] \in Nat /\ PoolBytes \in Nat BY <1>2, PacketsAssumption
  <2>4. CASE h.bytes + MemorySize[o] <= PoolBytes
    <3>0. g = [h EXCEPT !.cached[o] = @ + 1, !.bytes = @ + MemorySize[o]] BY <2>1, <2>4 DEF ToPool
    <3> HIDE DEF g
    <3>1. /\ g.body = h.body /\ g.payload = h.payload /\ g.released = h.released
          /\ g.cached = [h.cached EXCEPT ![o] = 1] /\ g.bytes = h.bytes + MemorySize[o]
      BY <1>0, <1>2, <2>2, <3>0 DEF HeapType
    <3>8. g \in HeapType
      <4>1. h.bytes + MemorySize[o] \in Nat BY <1>0, <2>3
      <4>2. g.bytes \in Nat /\ g.cached \in [Memory -> Nat] BY <1>0, <1>2, <3>1, <4>1
      <4> QED BY <3>0, <3>1, <4>2 DEF HeapType
    <3>2. PoolOK(g)
      <4>1. /\ IsFiniteSet(CachedBytes(g.cached))
            /\ Cardinality(CachedBytes(g.cached)) = Cardinality(CachedBytes(h.cached)) + MemorySize[o]
        BY <1>0, <1>2, <2>2, <3>1, PoolChange DEF PoolOK
      <4> QED BY <2>4, <3>1, <4>1 DEF PoolOK
    <3>3. \A m \in Memory : Owners(g, m) = Owners(h, m) BY <3>1 DEF Owners
    <3>4. \A q \in Payloads : Sharers(g, q) = Sharers(h, q) BY <3>1 DEF Sharers
    <3>5. MemoryOK(g)
      <4> SUFFICES ASSUME NEW m \in Memory PROVE g.cached[m] + Cardinality(Owners(g, m)) \in {0, 1} BY DEF MemoryOK
      <4>1. CASE m = o BY <1>0, <1>2, <2>2, <3>1, <3>3, <4>1
      <4>2. CASE m # o
        <5>1. h.cached[m] + Cardinality(Owners(h, m)) + 0 \in {0, 1} BY <4>2
        <5> QED BY <1>0, <3>1, <3>3, <4>2, <5>1, FiniteHolders
      <4> QED BY <4>1, <4>2
    <3>6. BodiesOK(g) /\ SharersOK(g, p) /\ KindsOK(g) BY <3>1, <3>4 DEF BodiesOK, SharersOK, KindsOK
    <3>7. \A r \in Resources : g.released[r] = h.released[r] + 0 /\ r # o BY <1>0, <2>0, <3>1
    <3> QED BY <3>1, <3>2, <3>5, <3>6, <3>7, <3>8 DEF g, HeapOK
  <2>5. CASE ~(h.bytes + MemorySize[o] <= PoolBytes)
    <3>1. g = h BY <2>1, <2>5 DEF ToPool
    <3>2. MemoryOK(h)
      <4> SUFFICES ASSUME NEW m \in Memory PROVE h.cached[m] + Cardinality(Owners(h, m)) \in {0, 1} BY DEF MemoryOK
      <4>1. CASE m = o BY <2>2, <4>1
      <4>2. CASE m # o
        <5>1. h.cached[m] + Cardinality(Owners(h, m)) + 0 \in {0, 1} BY <4>2
        <5> QED BY <1>0, <5>1, FiniteHolders
      <4> QED BY <4>1, <4>2
    <3>3. \A r \in Resources : h.released[r] = h.released[r] + 0 /\ r # o BY <1>0, <2>0
    <3> HIDE DEF g
    <3> QED BY <3>1, <3>2, <3>3 DEF HeapOK, g
  <2> QED BY <2>4, <2>5
<1>3. CASE o = Nobody
  <2>1. o \notin Resources /\ o \notin Memory BY <1>0, <1>3
  <2>2. g = h BY <2>1 DEF Dispose
  <2>3. MemoryOK(h)
    <3> SUFFICES ASSUME NEW m \in Memory PROVE h.cached[m] + Cardinality(Owners(h, m)) \in {0, 1} BY DEF MemoryOK
    <3>1. h.cached[m] + Cardinality(Owners(h, m)) + 0 \in {0, 1} BY <2>1
    <3> QED BY <1>0, <3>1, FiniteHolders
  <2>4. \A r \in Resources : h.released[r] = h.released[r] + 0 /\ r # o BY <1>0, <2>1
  <2> HIDE DEF g
  <2> QED BY <2>2, <2>3, <2>4 DEF HeapOK, g
<1> QED BY <1>1, <1>2, <1>3 DEF Owned

\* What is in a heap.
LEMMA HeapParts ==
    ASSUME NEW h \in HeapType
    PROVE  /\ h.body \in [Bodies -> BodyType] /\ h.payload \in [Payloads -> PayloadType]
           /\ h.released \in [Resources -> Nat] /\ h.cached \in [Memory -> Nat] /\ h.bytes \in Nat
           /\ \A b \in Bodies : /\ h.body[b].refs \in Nat /\ h.body[b].meta \in Nat
                                /\ h.body[b].payload \in Payloads \cup {0}
           /\ \A q \in Payloads : /\ h.payload[q].refs \in Nat /\ h.payload[q].content \in Nat
                                  /\ h.payload[q].own \in Owned /\ h.payload[q].kind \in Kinds
                                  /\ h.payload[q].copies \in BOOLEAN
           /\ \A m \in Memory : h.cached[m] \in Nat
BY DEF HeapType, BodyType, PayloadType

\* A free body and a free payload have the type of the others.
LEMMA NothingTyped == NoBody \in BodyType /\ NoPayload \in PayloadType
BY DEF NoBody, NoPayload, BodyType, PayloadType, Kinds, Owned

\* A payload is let go.
LEMMA DropPayloadKeeps ==
    ASSUME NEW h, NEW p \in Payloads, HeapOK(h, p)
    PROVE  LET g == DropPayload(h, p)
           IN  HeapOK(g, 0) /\ g.body = h.body /\ Kept(h, g) /\ Accounted(h, g)
               /\ \A q \in Payloads \ {p} : g.payload[q] = h.payload[q]
<1> DEFINE g == DropPayload(h, p)
<1> DEFINE o == h.payload[p].own
<1>0. h \in HeapType /\ 0 \notin Payloads BY PacketsAssumption DEF HeapOK
<1>1. /\ h.payload \in [Payloads -> PayloadType] /\ h.body \in [Bodies -> BodyType]
      /\ h.payload[p].refs \in Nat /\ o \in Owned
      /\ h.payload[p].refs = Cardinality(Sharers(h, p)) + 1 /\ Cardinality(Sharers(h, p)) \in Nat
  BY <1>0, HeapParts, FiniteHolders DEF HeapOK, SharersOK
<1>2. CASE h.payload[p].refs = 1
  <2> DEFINE f == [h EXCEPT !.payload[p] = NoPayload]
  <2>1. g = Dispose(f, o) BY <1>2 DEF DropPayload
  <2>2. /\ f.body = h.body /\ f.released = h.released /\ f.cached = h.cached /\ f.bytes = h.bytes
        /\ f.payload = [h.payload EXCEPT ![p] = NoPayload] /\ f \in HeapType
    BY <1>0, <1>1, NothingTyped DEF HeapType
  <2> HIDE DEF f, g, o
  <2>3. \A q \in Payloads : Sharers(f, q) = Sharers(h, q) BY <2>2 DEF Sharers
  <2>4. Cardinality(Sharers(h, p)) = 0 BY <1>1, <1>2
  <2>5. f.payload[p] = NoPayload /\ \A q \in Payloads \ {p} : f.payload[q] = h.payload[q] BY <1>1, <2>2
  <2>6. SharersOK(f, 0)
    <3> SUFFICES ASSUME NEW q \in Payloads
                 PROVE  /\ f.payload[q].refs = Cardinality(Sharers(f, q)) + (IF q = 0 THEN 1 ELSE 0)
                        /\ f.payload[q].refs = 0 => f.payload[q] = NoPayload
      BY DEF SharersOK
    <3>1. CASE q = p BY <1>0, <2>3, <2>4, <2>5, <3>1 DEF NoPayload
    <3>2. CASE q # p BY <1>0, <2>3, <2>5, <3>2 DEF HeapOK, SharersOK
    <3> QED BY <3>1, <3>2
  <2>7. BodiesOK(f) /\ PoolOK(f) /\ KindsOK(f)
    BY <2>2, <2>5 DEF HeapOK, BodiesOK, PoolOK, KindsOK, NoPayload
  <2>8. \A x : x # Nobody => Owners(f, x) = Owners(h, x) \ {p} BY <2>5 DEF Owners, NoPayload
  <2>9. p \in Owners(h, o) BY DEF Owners, o
  <2>10. \A x : x # Nobody =>
            Cardinality(Owners(f, x)) + (IF x = o THEN 1 ELSE 0) = Cardinality(Owners(h, x))
    <3> SUFFICES ASSUME NEW x, x # Nobody
                 PROVE  Cardinality(Owners(f, x)) + (IF x = o THEN 1 ELSE 0) = Cardinality(Owners(h, x))
      OBVIOUS
    <3>1. IsFiniteSet(Owners(h, x)) /\ Cardinality(Owners(h, x)) \in Nat BY FiniteHolders
    <3>2. CASE x = o
      <4>1. /\ Cardinality(Owners(f, x)) = Cardinality(Owners(h, x)) - 1
        BY <2>8, <2>9, <3>1, <3>2, LoseOne
      <4> QED BY <3>1, <3>2, <4>1
    <3>3. CASE x # o
      <4>1. p \notin Owners(h, x) BY <3>3 DEF Owners, o
      <4>2. Owners(f, x) = Owners(h, x) BY <2>8, <4>1
      <4> QED BY <3>1, <3>3, <4>2
    <3> QED BY <3>2, <3>3
  <2>11. Nobody \notin Resources \cup Memory BY PacketsAssumption DEF Resources
  <2>12. \A m \in Memory : f.cached[m] + Cardinality(Owners(f, m)) + (IF m = o THEN 1 ELSE 0) \in {0, 1}
    <3> SUFFICES ASSUME NEW m \in Memory
                 PROVE  f.cached[m] + Cardinality(Owners(f, m)) + (IF m = o THEN 1 ELSE 0) \in {0, 1}
      OBVIOUS
    <3>1. h.cached[m] \in Nat /\ Cardinality(Owners(f, m)) \in Nat BY <1>0, HeapParts, FiniteHolders
    <3>2. h.cached[m] + Cardinality(Owners(h, m)) \in {0, 1} BY DEF HeapOK, MemoryOK
    <3>3. Cardinality(Owners(f, m)) + (IF m = o THEN 1 ELSE 0) = Cardinality(Owners(h, m)) BY <2>10, <2>11
    <3> QED BY <2>2, <3>1, <3>2, <3>3
  <2>13. /\ HeapOK(g, 0) /\ g.body = f.body /\ g.payload = f.payload
         /\ \A r \in Resources : g.released[r] = f.released[r] + (IF r = o THEN 1 ELSE 0)
    <3>1. o \in Owned BY <1>1 DEF o
    <3>2. f \in HeapType BY <2>2
    <3>3. LET e == Dispose(f, o)
           IN  /\ HeapOK(e, 0) /\ e.body = f.body /\ e.payload = f.payload
               /\ \A r \in Resources : e.released[r] = f.released[r] + (IF r = o THEN 1 ELSE 0)
      BY <2>6, <2>7, <2>12, <3>1, <3>2, DisposeKeeps
    <3> QED BY <2>1, <3>3
  <2>14. Accounted(h, g)
    <3> SUFFICES ASSUME NEW r \in Resources
                 PROVE g.released[r] + Cardinality(Owners(g, r)) = h.released[r] + Cardinality(Owners(h, r))
      BY DEF Accounted
    <3>1. Owners(g, r) = Owners(f, r) BY <2>13 DEF Owners
    <3>2. Cardinality(Owners(f, r)) + (IF r = o THEN 1 ELSE 0) = Cardinality(Owners(h, r)) BY <2>10, <2>11
    <3>3. h.released[r] \in Nat /\ Cardinality(Owners(f, r)) \in Nat BY <1>0, HeapParts, FiniteHolders
    <3> QED BY <2>2, <2>13, <3>1, <3>2, <3>3
  <2>15. Kept(h, g) BY <2>5, <2>13 DEF Kept, SamePayload, NoPayload
  <2> QED BY <2>2, <2>5, <2>13, <2>14, <2>15 DEF g
<1>3. CASE h.payload[p].refs # 1
  <2>1. g = [h EXCEPT !.payload[p].refs = @ - 1] BY <1>3 DEF DropPayload
  <2>2. h.payload[p].refs - 1 \in Nat \ {0} BY <1>1, <1>3
  <2>3. /\ g.body = h.body /\ g.released = h.released /\ g.cached = h.cached /\ g.bytes = h.bytes
        /\ g.payload = [h.payload EXCEPT ![p] = [h.payload[p] EXCEPT !.refs = @ - 1]]
    BY <1>0, <2>1 DEF HeapType
  <2>4. [h.payload[p] EXCEPT !.refs = @ - 1] \in PayloadType BY <1>1, <2>2 DEF PayloadType
  <2>5. g \in HeapType
    <3>1. g.payload \in [Payloads -> PayloadType] BY <1>1, <2>3, <2>4
    <3> QED BY <1>0, <2>1, <3>1 DEF HeapType
  <2> HIDE DEF g, o
  <2>6. /\ \A q \in Payloads \ {p} : g.payload[q] = h.payload[q]
        /\ g.payload[p].refs = h.payload[p].refs - 1 /\ SamePayload(h, g, p)
    BY <1>1, <2>3 DEF PayloadType, SamePayload
  <2>7. \A x : Sharers(g, x) = Sharers(h, x) BY <2>3 DEF Sharers
  <2>8. \A x : Owners(g, x) = Owners(h, x) BY <2>6 DEF Owners, SamePayload
  <2>9. SharersOK(g, 0)
    <3> SUFFICES ASSUME NEW q \in Payloads
                 PROVE  /\ g.payload[q].refs = Cardinality(Sharers(g, q)) + (IF q = 0 THEN 1 ELSE 0)
                        /\ g.payload[q].refs = 0 => g.payload[q] = NoPayload
      BY DEF SharersOK
    <3>1. CASE q = p BY <1>0, <1>1, <2>2, <2>6, <2>7, <3>1
    <3>2. CASE q # p BY <1>0, <2>6, <2>7, <3>2 DEF HeapOK, SharersOK
    <3> QED BY <3>1, <3>2
  <2>10. BodiesOK(g) /\ PoolOK(g) /\ MemoryOK(g)
    BY <2>3, <2>8 DEF HeapOK, BodiesOK, PoolOK, MemoryOK
  <2>11. KindsOK(g) BY <2>6 DEF HeapOK, KindsOK, SamePayload
  <2>12. Accounted(h, g) BY <2>3, <2>8 DEF Accounted
  <2>13. Kept(h, g) BY <2>6 DEF Kept, SamePayload
  <2> QED BY <2>3, <2>5, <2>6, <2>9, <2>10, <2>11, <2>12, <2>13 DEF HeapOK, g
<1> QED BY <1>2, <1>3

\* A reference to a body is let go.
LEMMA DropBodyKeeps ==
    ASSUME NEW h, HeapOK(h, 0), NEW b \in Bodies, h.body[b].refs # 0
    PROVE  LET g == DropBody(h, b)
           IN  /\ HeapOK(g, 0) /\ Kept(h, g) /\ Accounted(h, g)
               /\ \A c \in Bodies \ {b} : g.body[c] = h.body[c]
               /\ g.body[b].refs + 1 = h.body[b].refs
               /\ g.body[b].refs # 0 => /\ g.body[b].payload = h.body[b].payload
                                        /\ g.body[b].meta = h.body[b].meta
<1> DEFINE g == DropBody(h, b)
<1> DEFINE p == h.body[b].payload
<1>0. h \in HeapType /\ 0 \notin Payloads BY PacketsAssumption DEF HeapOK
<1>1. /\ h.body \in [Bodies -> BodyType] /\ h.body[b].refs \in Nat
      /\ p \in Payloads /\ h.payload[p].refs \in Nat \ {0}
  BY <1>0, HeapParts, LivePayload
<1>2. CASE h.body[b].refs = 1
  <2> DEFINE f == [h EXCEPT !.body[b] = NoBody]
  <2>1. g = DropPayload(f, p) BY <1>2 DEF DropBody
  <2>2. /\ f.payload = h.payload /\ f.released = h.released /\ f.cached = h.cached /\ f.bytes = h.bytes
        /\ f.body = [h.body EXCEPT ![b] = NoBody] /\ f \in HeapType
    BY <1>0, <1>1, NothingTyped DEF HeapType
  <2> HIDE DEF f, g, p
  <2>3. f.body[b] = NoBody /\ \A c \in Bodies \ {b} : f.body[c] = h.body[c] BY <1>1, <2>2
  <2>4. \A x : Owners(f, x) = Owners(h, x) BY <2>2 DEF Owners
  <2>5. SharersOK(f, p)
    <3> SUFFICES ASSUME NEW q \in Payloads
                 PROVE  /\ f.payload[q].refs = Cardinality(Sharers(f, q)) + (IF q = p THEN 1 ELSE 0)
                        /\ f.payload[q].refs = 0 => f.payload[q] = NoPayload
      BY DEF SharersOK
    <3>1. IsFiniteSet(Sharers(h, q)) /\ Cardinality(Sharers(h, q)) \in Nat BY FiniteHolders
    <3>2. /\ h.payload[q].refs = Cardinality(Sharers(h, q))
          /\ h.payload[q].refs = 0 => h.payload[q] = NoPayload
      BY <1>0, <3>1 DEF HeapOK, SharersOK
    <3>3. Sharers(f, q) = Sharers(h, q) \ {b} BY <1>0, <2>3 DEF Sharers, NoBody
    <3>4. CASE q = p
      <4>1. b \in Sharers(h, q) BY <3>4 DEF Sharers, p
      <4>2. Cardinality(Sharers(f, q)) = Cardinality(Sharers(h, q)) - 1 BY <3>1, <3>3, <4>1, LoseOne
      <4> QED BY <2>2, <3>1, <3>2, <3>4, <4>2
    <3>5. CASE q # p
      <4>1. b \notin Sharers(h, q) BY <3>5 DEF Sharers, p
      <4>2. Sharers(f, q) = Sharers(h, q) BY <3>3, <4>1
      <4> QED BY <2>2, <3>1, <3>2, <3>5, <4>2
    <3> QED BY <3>4, <3>5
  <2>6. BodiesOK(f) BY <2>3 DEF HeapOK, BodiesOK, NoBody
  <2>7. PoolOK(f) /\ KindsOK(f) /\ MemoryOK(f) BY <2>2, <2>4 DEF HeapOK, PoolOK, KindsOK, MemoryOK
  <2>8. HeapOK(f, p) BY <2>2, <2>5, <2>6, <2>7 DEF HeapOK
  <2>9. HeapOK(g, 0) /\ g.body = f.body /\ Kept(f, g) /\ Accounted(f, g)
    BY <1>1, <2>1, <2>8, DropPayloadKeeps
  <2>10. Kept(h, g) BY <2>2, <2>9 DEF Kept, SamePayload
  <2>11. Accounted(h, g) BY <2>2, <2>4, <2>9 DEF Accounted
  <2>12. g.body[b].refs = 0 BY <2>3, <2>9 DEF NoBody
  <2>13. \A c \in Bodies \ {b} : g.body[c] = h.body[c] BY <2>3, <2>9
  <2> QED BY <1>2, <2>9, <2>10, <2>11, <2>12, <2>13 DEF g
<1>3. CASE h.body[b].refs # 1
  <2>1. g = [h EXCEPT !.body[b].refs = @ - 1] BY <1>3 DEF DropBody
  <2>2. h.body[b].refs - 1 \in Nat \ {0} BY <1>1, <1>3
  <2>3. /\ g.payload = h.payload /\ g.released = h.released /\ g.cached = h.cached /\ g.bytes = h.bytes
        /\ g.body = [h.body EXCEPT ![b] = [h.body[b] EXCEPT !.refs = @ - 1]]
    BY <1>0, <2>1 DEF HeapType
  <2>4. [h.body[b] EXCEPT !.refs = @ - 1] \in BodyType BY <1>1, <2>2 DEF BodyType
  <2>5. g \in HeapType
    <3>1. g.body \in [Bodies -> BodyType] BY <1>1, <2>3, <2>4
    <3> QED BY <1>0, <2>1, <3>1 DEF HeapType
  <2> HIDE DEF g, p
  <2>6. /\ \A c \in Bodies \ {b} : g.body[c] = h.body[c]
        /\ g.body[b].refs = h.body[b].refs - 1 /\ g.body[b].payload = h.body[b].payload
        /\ g.body[b].meta = h.body[b].meta
    BY <1>1, <2>3 DEF BodyType
  <2>7. \A x : Sharers(g, x) = Sharers(h, x) BY <2>6 DEF Sharers
  <2>8. \A x : Owners(g, x) = Owners(h, x) BY <2>3 DEF Owners
  <2>9. SharersOK(g, 0) BY <2>3, <2>7 DEF HeapOK, SharersOK
  <2>10. PoolOK(g) /\ MemoryOK(g) /\ KindsOK(g) BY <2>3, <2>8 DEF HeapOK, PoolOK, MemoryOK, KindsOK
  <2>11. BodiesOK(g)
    <3>1. g.body[b].refs # 0 /\ g.body[b].payload \in Payloads BY <1>1, <2>2, <2>6 DEF p
    <3> QED BY <2>6, <3>1 DEF HeapOK, BodiesOK
  <2>12. Accounted(h, g) BY <2>3, <2>8 DEF Accounted
  <2>13. Kept(h, g) BY <2>3 DEF Kept, SamePayload
  <2>14. g.body[b].refs + 1 = h.body[b].refs BY <1>1, <2>6
  <2> QED BY <2>5, <2>6, <2>9, <2>10, <2>11, <2>12, <2>13, <2>14 DEF HeapOK, g
<1> QED BY <1>2, <1>3

\* Two heaps that differ in the counts and metadata of bodies in use.
LEMMA SameStore ==
    ASSUME NEW h, NEW p, NEW g, HeapOK(h, p), g \in HeapType,
           g.payload = h.payload, g.released = h.released, g.cached = h.cached, g.bytes = h.bytes,
           \A c \in Bodies : /\ g.body[c].payload = h.body[c].payload
                             /\ IF h.body[c].refs = 0 THEN g.body[c] = h.body[c] ELSE g.body[c].refs # 0
    PROVE  HeapOK(g, p) /\ Kept(h, g) /\ Accounted(h, g)
<1>1. \A x : Owners(g, x) = Owners(h, x) BY DEF Owners
<1>2. \A x : Sharers(g, x) = Sharers(h, x) BY DEF Sharers
<1>3. BodiesOK(g)
  <2> SUFFICES ASSUME NEW c \in Bodies
               PROVE  IF g.body[c].refs = 0 THEN g.body[c] = NoBody ELSE g.body[c].payload \in Payloads
    BY DEF BodiesOK
  <2>1. IF h.body[c].refs = 0 THEN h.body[c] = NoBody ELSE h.body[c].payload \in Payloads BY DEF HeapOK, BodiesOK
  <2> QED BY <2>1
<1>4. SharersOK(g, p) BY <1>2 DEF HeapOK, SharersOK
<1>5. KindsOK(g) /\ MemoryOK(g) /\ PoolOK(g) BY <1>1 DEF HeapOK, KindsOK, MemoryOK, PoolOK
<1>6. Kept(h, g) BY DEF Kept, SamePayload
<1>7. Accounted(h, g) BY <1>1 DEF Accounted
<1> QED BY <1>3, <1>4, <1>5, <1>6, <1>7 DEF HeapOK

\* What is free is empty.
LEMMA FreeOnes ==
    ASSUME NEW h, NEW p, HeapOK(h, p)
    PROVE  /\ FreeBodies(h) # {} => FreeBody(h) \in Bodies /\ h.body[FreeBody(h)] = NoBody
           /\ FreePayloads(h) # {} =>
                /\ FreePayload(h) \in Payloads /\ h.payload[FreePayload(h)] = NoPayload
                /\ \A b \in Bodies : h.body[b].payload # FreePayload(h)
<1>1. ASSUME FreeBodies(h) # {} PROVE FreeBody(h) \in Bodies /\ h.body[FreeBody(h)] = NoBody
  <2>1. FreeBody(h) \in FreeBodies(h) BY <1>1 DEF FreeBody
  <2> QED BY <2>1 DEF FreeBodies, HeapOK, BodiesOK
<1>2. ASSUME FreePayloads(h) # {}
      PROVE  /\ FreePayload(h) \in Payloads /\ h.payload[FreePayload(h)] = NoPayload
             /\ \A b \in Bodies : h.body[b].payload # FreePayload(h)
  <2> DEFINE q == FreePayload(h)
  <2>1. q \in FreePayloads(h) BY <1>2 DEF FreePayload
  <2>2. q \in Payloads /\ h.payload[q].refs = 0 BY <2>1 DEF FreePayloads
  <2> HIDE DEF q
  <2>3. IsFiniteSet(Sharers(h, q)) /\ Cardinality(Sharers(h, q)) \in Nat BY FiniteHolders
  <2>4. /\ h.payload[q].refs = Cardinality(Sharers(h, q)) + (IF q = p THEN 1 ELSE 0)
        /\ h.payload[q] = NoPayload
    BY <2>2 DEF HeapOK, SharersOK
  <2>5. Cardinality(Sharers(h, q)) = 0 BY <2>2, <2>3, <2>4
  <2>6. Sharers(h, q) = {} BY <2>3, <2>5, FS_EmptySet
  <2> QED BY <2>2, <2>4, <2>6 DEF Sharers, q
<1> QED BY <1>1, <1>2

\* A reference more.
LEMMA RetainKeeps ==
    ASSUME NEW h, HeapOK(h, 0), NEW b \in Bodies, h.body[b].refs # 0
    PROVE  LET g == Retain(h, b)
           IN  /\ HeapOK(g, 0) /\ Kept(h, g) /\ Accounted(h, g)
               /\ \A c \in Bodies \ {b} : g.body[c] = h.body[c]
               /\ g.body[b].refs = h.body[b].refs + 1 /\ SameBody(h, g, b)
<1> DEFINE g == Retain(h, b)
<1>0. h \in HeapType BY DEF HeapOK
<1>1. h.body \in [Bodies -> BodyType] /\ h.body[b].refs \in Nat BY <1>0, HeapParts
<1>2. g = [h EXCEPT !.body[b].refs = @ + 1] BY DEF Retain
<1>3. /\ g.payload = h.payload /\ g.released = h.released /\ g.cached = h.cached /\ g.bytes = h.bytes
      /\ g.body = [h.body EXCEPT ![b] = [h.body[b] EXCEPT !.refs = @ + 1]]
  BY <1>0, <1>2 DEF HeapType
<1>4. [h.body[b] EXCEPT !.refs = @ + 1] \in BodyType BY <1>1 DEF BodyType
<1>5. g.body \in [Bodies -> BodyType] BY <1>1, <1>3, <1>4
<1>6. g \in HeapType BY <1>0, <1>2, <1>5 DEF HeapType
<1> HIDE DEF g
<1>7. /\ \A c \in Bodies \ {b} : g.body[c] = h.body[c]
      /\ g.body[b].refs = h.body[b].refs + 1 /\ SameBody(h, g, b)
  BY <1>1, <1>3 DEF BodyType, SameBody
<1>8. g.body[b].refs # 0 BY <1>1, <1>7
<1>9. \A c \in Bodies : /\ g.body[c].payload = h.body[c].payload
                        /\ IF h.body[c].refs = 0 THEN g.body[c] = h.body[c] ELSE g.body[c].refs # 0
  BY <1>7, <1>8 DEF SameBody
<1>10. HeapOK(g, 0) /\ Kept(h, g) /\ Accounted(h, g) BY <1>3, <1>6, <1>9, SameStore
<1> QED BY <1>7, <1>10 DEF g

\* A packet is made.
LEMMA NewPacketKeeps ==
    ASSUME NEW h, HeapOK(h, 0), FreeBodies(h) # {}, FreePayloads(h) # {},
           NEW kind \in Kinds, NEW own \in Owned, NEW copies \in BOOLEAN,
           kind = "foreign" => own = Object,
           own \in Memory => h.cached[own] = 0 /\ Cardinality(Owners(h, own)) = 0
    PROVE  LET g == NewPacket(h, kind, own, copies)
           IN  /\ HeapOK(g, 0) /\ Kept(h, g)
               /\ \A o \in Resources : /\ g.released[o] = h.released[o]
                                       /\ Cardinality(Owners(g, o)) = Cardinality(Owners(h, o)) + (IF o = own THEN 1 ELSE 0)
               /\ FreeBody(h) \in Bodies /\ h.body[FreeBody(h)].refs = 0
               /\ \A c \in Bodies \ {FreeBody(h)} : g.body[c] = h.body[c]
               /\ g.body[FreeBody(h)].refs = 1 /\ Value(g, FreeBody(h)) = Fresh
               /\ g.body[FreeBody(h)].payload = FreePayload(h) /\ h.payload[FreePayload(h)].refs = 0
               /\ FreePayload(h) \in Payloads
<1> DEFINE g == NewPacket(h, kind, own, copies)
<1> DEFINE b == FreeBody(h)
<1> DEFINE p == FreePayload(h)
<1> DEFINE P == [refs |-> 1, kind |-> kind, content |-> 0, own |-> own, copies |-> copies]
<1> DEFINE D == [refs |-> 1, payload |-> p, meta |-> 0]
<1>0. h \in HeapType /\ 0 \notin Payloads /\ Nobody \notin Resources \cup Memory
  BY PacketsAssumption DEF HeapOK, Resources
<1>1. /\ b \in Bodies /\ h.body[b] = NoBody /\ p \in Payloads /\ h.payload[p] = NoPayload
      /\ \A c \in Bodies : h.body[c].payload # p
  BY FreeOnes
<1>2. g = [h EXCEPT !.payload[p] = P, !.body[b] = D] BY DEF NewPacket
<1>3. P \in PayloadType /\ D \in BodyType /\ P.own = own /\ P.kind = kind /\ P.refs = 1 /\ P.content = 0
      /\ D.refs = 1 /\ D.payload = p /\ D.meta = 0
  BY <1>1 DEF PayloadType, BodyType
<1> HIDE DEF b, p, P, D, g
<1>4. /\ h.body \in [Bodies -> BodyType] /\ h.payload \in [Payloads -> PayloadType] BY <1>0, HeapParts
<1>5. /\ g.payload = [h.payload EXCEPT ![p] = P] /\ g.body = [h.body EXCEPT ![b] = D]
      /\ g.released = h.released /\ g.cached = h.cached /\ g.bytes = h.bytes
  BY <1>0, <1>2 DEF HeapType
<1>6. g \in HeapType
  <2>1. g.body \in [Bodies -> BodyType] /\ g.payload \in [Payloads -> PayloadType] BY <1>3, <1>4, <1>5
  <2> QED BY <1>0, <1>2, <2>1 DEF HeapType
<1>7. /\ g.body[b] = D /\ \A c \in Bodies \ {b} : g.body[c] = h.body[c]
      /\ g.payload[p] = P /\ \A q \in Payloads \ {p} : g.payload[q] = h.payload[q]
  BY <1>1, <1>4, <1>5
<1>8. BodiesOK(g) BY <1>1, <1>3, <1>7 DEF HeapOK, BodiesOK
<1>9. SharersOK(g, 0)
  <2> SUFFICES ASSUME NEW q \in Payloads
               PROVE  /\ g.payload[q].refs = Cardinality(Sharers(g, q)) + (IF q = 0 THEN 1 ELSE 0)
                      /\ g.payload[q].refs = 0 => g.payload[q] = NoPayload
    BY DEF SharersOK
  <2>1. CASE q = p
    <3>1. Sharers(g, q) = {b} BY <1>1, <1>3, <1>7, <2>1 DEF Sharers
    <3>2. Cardinality(Sharers(g, q)) = 1 BY <3>1, FS_Singleton
    <3> QED BY <1>0, <1>3, <1>7, <2>1, <3>2
  <2>2. CASE q # p
    <3>1. Sharers(g, q) = Sharers(h, q) BY <1>0, <1>1, <1>3, <1>7, <2>2 DEF Sharers, NoBody
    <3> QED BY <1>7, <2>2, <3>1 DEF HeapOK, SharersOK
  <2> QED BY <2>1, <2>2
<1>10. KindsOK(g) BY <1>3, <1>7 DEF HeapOK, KindsOK
<1>11. \A o : o # Nobody => Cardinality(Owners(g, o)) = Cardinality(Owners(h, o)) + (IF o = own THEN 1 ELSE 0)
  <2> SUFFICES ASSUME NEW o, o # Nobody
               PROVE  Cardinality(Owners(g, o)) = Cardinality(Owners(h, o)) + (IF o = own THEN 1 ELSE 0)
    OBVIOUS
  <2>1. p \notin Owners(h, o) BY <1>1 DEF Owners, NoPayload
  <2>2. IsFiniteSet(Owners(h, o)) /\ Cardinality(Owners(h, o)) \in Nat BY FiniteHolders
  <2>3. CASE o = own
    <3>1. Owners(g, o) = Owners(h, o) \cup {p} BY <1>1, <1>3, <1>7, <2>3 DEF Owners
    <3>2. Cardinality(Owners(g, o)) = Cardinality(Owners(h, o)) + 1 BY <2>1, <2>2, <3>1, GainOne
    <3> QED BY <2>3, <3>2
  <2>4. CASE o # own
    <3>1. Owners(g, o) = Owners(h, o) BY <1>1, <1>3, <1>7, <2>1, <2>4 DEF Owners
    <3> QED BY <2>2, <2>4, <3>1
  <2> QED BY <2>3, <2>4
<1>12. MemoryOK(g)
  <2> SUFFICES ASSUME NEW m \in Memory PROVE g.cached[m] + Cardinality(Owners(g, m)) \in {0, 1} BY DEF MemoryOK
  <2>1. h.cached[m] \in Nat /\ Cardinality(Owners(h, m)) \in Nat BY <1>0, HeapParts, FiniteHolders
  <2>2. h.cached[m] + Cardinality(Owners(h, m)) \in {0, 1} BY DEF HeapOK, MemoryOK
  <2>3. Cardinality(Owners(g, m)) = Cardinality(Owners(h, m)) + (IF m = own THEN 1 ELSE 0) BY <1>0, <1>11
  <2>4. CASE m = own BY <1>5, <2>3, <2>4
  <2>5. CASE m # own BY <1>5, <2>1, <2>2, <2>3, <2>5
  <2> QED BY <2>4, <2>5
<1>13. PoolOK(g) BY <1>5 DEF HeapOK, PoolOK
<1>14. HeapOK(g, 0) BY <1>6, <1>8, <1>9, <1>10, <1>12, <1>13 DEF HeapOK
<1>15. Kept(h, g) BY <1>1, <1>7 DEF Kept, SamePayload, NoPayload
<1>16. Value(g, b) = Fresh BY <1>3, <1>7 DEF Value, Fresh
<1>17. \A o \in Resources : /\ g.released[o] = h.released[o]
                            /\ Cardinality(Owners(g, o)) = Cardinality(Owners(h, o)) + (IF o = own THEN 1 ELSE 0)
  BY <1>0, <1>5, <1>11
<1>18. h.body[b].refs = 0 /\ h.payload[p].refs = 0 /\ g.body[b].refs = 1 /\ g.body[b].payload = p
  BY <1>1, <1>3, <1>7 DEF NoBody, NoPayload
<1> QED BY <1>1, <1>7, <1>14, <1>15, <1>16, <1>17, <1>18 DEF g, b, p

\* An allocation leaves the pool.
LEMMA FromPoolKeeps ==
    ASSUME NEW h, HeapOK(h, 0), NEW m \in Memory, h.cached[m] > 0
    PROVE  LET g == FromPool(h, m)
           IN  /\ g \in HeapType /\ BodiesOK(g) /\ SharersOK(g, 0) /\ KindsOK(g) /\ PoolOK(g) /\ MemoryOK(g)
               /\ g.body = h.body /\ g.payload = h.payload /\ g.released = h.released
               /\ g.cached[m] = 0 /\ Cardinality(Owners(g, m)) = 0
<1> DEFINE g == FromPool(h, m)
<1>0. h \in HeapType BY DEF HeapOK
<1>1. h.cached \in [Memory -> Nat] /\ h.cached[m] \in Nat /\ h.bytes \in Nat BY <1>0, HeapParts
<1>2. h.cached[m] = 1 /\ Cardinality(Owners(h, m)) = 0
  <2>1. h.cached[m] + Cardinality(Owners(h, m)) \in {0, 1} BY DEF HeapOK, MemoryOK
  <2> QED BY <1>1, <2>1, FiniteHolders
<1>3. g = [h EXCEPT !.cached[m] = @ - 1, !.bytes = @ - MemorySize[m]] BY DEF FromPool
<1>4. /\ g.body = h.body /\ g.payload = h.payload /\ g.released = h.released
      /\ g.cached = [h.cached EXCEPT ![m] = 0] /\ g.bytes = h.bytes - MemorySize[m]
  BY <1>0, <1>1, <1>2, <1>3 DEF HeapType
<1>5. g.cached \in [Memory -> Nat] /\ g.cached[m] = 0 /\ h.cached = [g.cached EXCEPT ![m] = 1]
  BY <1>1, <1>2, <1>4
<1>6. IsFiniteSet(CachedBytes(g.cached))
  <2>0. g.cached[m] * MemorySize[m] = 0
    <3>1. MemorySize[m] \in Nat /\ 0 * MemorySize[m] = 0 BY PacketsAssumption
    <3> QED BY <1>5, <3>1
  <2>1. ASSUME NEW x \in CachedBytes(g.cached) PROVE x \in CachedBytes(h.cached)
    <3>1. PICK y \in Memory : x \in {y} \X (1 .. g.cached[y] * MemorySize[y]) BY DEF CachedBytes
    <3>2. y # m BY <2>0, <3>1
    <3>3. g.cached[y] = h.cached[y] BY <1>1, <1>4, <3>2
    <3> QED BY <3>1, <3>3 DEF CachedBytes
  <2>2. IsFiniteSet(CachedBytes(h.cached)) BY DEF HeapOK, PoolOK
  <2>3. CachedBytes(g.cached) \in SUBSET CachedBytes(h.cached) BY <2>1
  <2> QED BY <2>2, <2>3, FS_Subset
<1> HIDE DEF g
<1>7. /\ Cardinality(CachedBytes(h.cached)) = Cardinality(CachedBytes(g.cached)) + MemorySize[m]
      /\ Cardinality(CachedBytes(g.cached)) \in Nat
  BY <1>5, <1>6, PoolChange
<1>8. MemorySize[m] \in Nat /\ PoolBytes \in Nat BY PacketsAssumption
<1>9. h.bytes = Cardinality(CachedBytes(h.cached)) /\ h.bytes <= PoolBytes BY DEF HeapOK, PoolOK
<1>10. g.bytes = Cardinality(CachedBytes(g.cached)) /\ g.bytes <= PoolBytes
  BY <1>4, <1>7, <1>8, <1>9
<1>11. PoolOK(g) BY <1>6, <1>10 DEF PoolOK
<1>12. g \in HeapType
  <2>1. g.bytes \in Nat BY <1>7, <1>10
  <2> QED BY <1>0, <1>3, <1>5, <2>1 DEF HeapType
<1>13. \A x : Owners(g, x) = Owners(h, x) /\ Sharers(g, x) = Sharers(h, x) BY <1>4 DEF Owners, Sharers
<1>14. BodiesOK(g) /\ SharersOK(g, 0) /\ KindsOK(g) BY <1>4, <1>13 DEF HeapOK, BodiesOK, SharersOK, KindsOK
<1>15. MemoryOK(g)
  <2> SUFFICES ASSUME NEW c \in Memory PROVE g.cached[c] + Cardinality(Owners(g, c)) \in {0, 1} BY DEF MemoryOK
  <2>1. CASE c = m BY <1>2, <1>5, <1>13, <2>1
  <2>2. CASE c # m BY <1>1, <1>4, <1>13, <2>2 DEF HeapOK, MemoryOK
  <2> QED BY <2>1, <2>2
<1> QED BY <1>2, <1>4, <1>5, <1>11, <1>12, <1>13, <1>14, <1>15 DEF g

\* The metadata of a body in use.
LEMMA MetaKeeps ==
    ASSUME NEW h, HeapOK(h, 0), NEW b \in Bodies, h.body[b].refs # 0
    PROVE  LET g == [h EXCEPT !.body[b].meta = @ + 1]
           IN  /\ HeapOK(g, 0) /\ Kept(h, g) /\ Accounted(h, g) /\ g.payload = h.payload
               /\ \A c \in Bodies \ {b} : g.body[c] = h.body[c]
               /\ g.body[b].refs = h.body[b].refs /\ g.body[b].payload = h.body[b].payload
               /\ g.body[b].meta = h.body[b].meta + 1
<1> DEFINE g == [h EXCEPT !.body[b].meta = @ + 1]
<1>0. h \in HeapType BY DEF HeapOK
<1>1. h.body \in [Bodies -> BodyType] /\ h.body[b].meta \in Nat BY <1>0, HeapParts
<1>3. /\ g.payload = h.payload /\ g.released = h.released /\ g.cached = h.cached /\ g.bytes = h.bytes
      /\ g.body = [h.body EXCEPT ![b] = [h.body[b] EXCEPT !.meta = @ + 1]]
  BY <1>0 DEF HeapType
<1>4. [h.body[b] EXCEPT !.meta = @ + 1] \in BodyType BY <1>1 DEF BodyType
<1>5. g.body \in [Bodies -> BodyType] BY <1>1, <1>3, <1>4
<1>6. g \in HeapType BY <1>0, <1>5 DEF HeapType
<1> HIDE DEF g
<1>7. /\ \A c \in Bodies \ {b} : g.body[c] = h.body[c]
      /\ g.body[b].refs = h.body[b].refs /\ g.body[b].payload = h.body[b].payload
      /\ g.body[b].meta = h.body[b].meta + 1
  BY <1>1, <1>3 DEF BodyType
<1>8. \A c \in Bodies : /\ g.body[c].payload = h.body[c].payload
                        /\ IF h.body[c].refs = 0 THEN g.body[c] = h.body[c] ELSE g.body[c].refs # 0
  BY <1>7
<1>9. HeapOK(g, 0) /\ Kept(h, g) /\ Accounted(h, g) BY <1>3, <1>6, <1>8, SameStore
<1> QED BY <1>3, <1>7, <1>9 DEF g

\* The content of a payload in use.
LEMMA WriteKeeps ==
    ASSUME NEW h, HeapOK(h, 0), NEW q \in Payloads, h.payload[q].refs # 0
    PROVE  LET g == [h EXCEPT !.payload[q].content = @ + 1]
           IN  /\ HeapOK(g, 0) /\ Accounted(h, g) /\ g.body = h.body
               /\ \A c \in Payloads \ {q} : g.payload[c] = h.payload[c]
               /\ g.payload[q].refs = h.payload[q].refs /\ g.payload[q].content = h.payload[q].content + 1
               /\ g.payload[q].kind = h.payload[q].kind /\ g.payload[q].own = h.payload[q].own
<1> DEFINE g == [h EXCEPT !.payload[q].content = @ + 1]
<1>0. h \in HeapType BY DEF HeapOK
<1>1. h.payload \in [Payloads -> PayloadType] /\ h.payload[q].content \in Nat BY <1>0, HeapParts
<1>3. /\ g.body = h.body /\ g.released = h.released /\ g.cached = h.cached /\ g.bytes = h.bytes
      /\ g.payload = [h.payload EXCEPT ![q] = [h.payload[q] EXCEPT !.content = @ + 1]]
  BY <1>0 DEF HeapType
<1>4. [h.payload[q] EXCEPT !.content = @ + 1] \in PayloadType BY <1>1 DEF PayloadType
<1>5. g.payload \in [Payloads -> PayloadType] BY <1>1, <1>3, <1>4
<1>6. g \in HeapType BY <1>0, <1>5 DEF HeapType
<1> HIDE DEF g
<1>7. /\ \A c \in Payloads \ {q} : g.payload[c] = h.payload[c]
      /\ g.payload[q].refs = h.payload[q].refs /\ g.payload[q].content = h.payload[q].content + 1
      /\ g.payload[q].kind = h.payload[q].kind /\ g.payload[q].own = h.payload[q].own
  BY <1>1, <1>3 DEF PayloadType
<1>8. \A x : Owners(g, x) = Owners(h, x) /\ Sharers(g, x) = Sharers(h, x) BY <1>3, <1>7 DEF Owners, Sharers
<1>9. BodiesOK(g) /\ SharersOK(g, 0) /\ KindsOK(g) /\ MemoryOK(g) /\ PoolOK(g)
  <2>1. BodiesOK(g) BY <1>3 DEF HeapOK, BodiesOK
  <2>2. SharersOK(g, 0) BY <1>7, <1>8 DEF HeapOK, SharersOK
  <2>3. KindsOK(g) BY <1>7 DEF HeapOK, KindsOK
  <2>4. MemoryOK(g) /\ PoolOK(g) BY <1>3, <1>8 DEF HeapOK, MemoryOK, PoolOK
  <2> QED BY <2>1, <2>2, <2>3, <2>4
<1>10. Accounted(h, g) BY <1>3, <1>8 DEF Accounted
<1> QED BY <1>3, <1>6, <1>7, <1>9, <1>10 DEF HeapOK, g

\* A body of the packet's own.
LEMMA CopyBodyKeeps ==
    ASSUME NEW h, HeapOK(h, 0), NEW b \in Bodies, h.body[b].refs \notin {0, 1}, FreeBodies(h) # {}
    PROVE  LET g == CopyBody(h, b)
               c == FreeBody(h)
           IN  /\ HeapOK(g, 0) /\ Kept(h, g) /\ Accounted(h, g)
               /\ c \in Bodies /\ c # b /\ h.body[c].refs = 0
               /\ g.body[c].refs = 1 /\ g.body[c].payload = h.body[b].payload /\ g.body[c].meta = h.body[b].meta
               /\ g.body[b].refs + 1 = h.body[b].refs /\ g.body[b].refs # 0 /\ SameBody(h, g, b)
               /\ \A d \in Bodies \ {b, c} : g.body[d] = h.body[d]
<1> DEFINE c == FreeBody(h)
<1> DEFINE q == h.body[b].payload
<1> DEFINE D == [h.body[b] EXCEPT !.refs = 1]
<1> DEFINE P == [h.payload[q] EXCEPT !.refs = @ + 1]
<1> DEFINE f == [h EXCEPT !.payload[q].refs = @ + 1, !.body[c] = D]
<1> DEFINE g == CopyBody(h, b)
<1>0. h \in HeapType /\ 0 \notin Payloads BY PacketsAssumption DEF HeapOK
<1>1. c \in Bodies /\ h.body[c] = NoBody BY FreeOnes
<1>2. q \in Payloads /\ h.payload[q].refs \in Nat \ {0} BY LivePayload
<1>3. /\ h.body \in [Bodies -> BodyType] /\ h.payload \in [Payloads -> PayloadType]
      /\ h.body[b].refs \in Nat BY <1>0, HeapParts
<1>4. c # b /\ h.body[c].refs = 0 /\ h.body[c].payload = 0 BY <1>1 DEF NoBody
<1>5. g = DropBody(f, b) BY DEF CopyBody
<1>6. /\ f.payload = [h.payload EXCEPT ![q] = P] /\ f.body = [h.body EXCEPT ![c] = D]
      /\ f.released = h.released /\ f.cached = h.cached /\ f.bytes = h.bytes
  BY SMTT(30), <1>0 DEF HeapType
<1>7. /\ P \in PayloadType /\ P.refs = h.payload[q].refs + 1 /\ P.kind = h.payload[q].kind
      /\ P.own = h.payload[q].own /\ P.content = h.payload[q].content /\ P.copies = h.payload[q].copies
  <2>1. h.payload[q] \in PayloadType BY <1>2, <1>3
  <2>2. h.payload[q].refs + 1 \in Nat BY <1>2
  <2> QED BY <2>1, <2>2 DEF PayloadType
<1>8. D \in BodyType /\ D.refs = 1 /\ D.payload = q /\ D.meta = h.body[b].meta
  <2>1. h.body[b] \in BodyType BY <1>3
  <2> QED BY <2>1 DEF BodyType
<1>9. f \in HeapType
  <2>1. f = [h EXCEPT !.payload = f.payload, !.body = f.body] BY <1>0 DEF HeapType
  <2> HIDE DEF f, P, D, c, q
  <2>2. f.body \in [Bodies -> BodyType] /\ f.payload \in [Payloads -> PayloadType] BY <1>1, <1>2, <1>3, <1>6, <1>7, <1>8
  <2> QED BY <1>0, <2>1, <2>2 DEF HeapType
<1> HIDE DEF c, f, g, P, D
<1>10. /\ f.body[c] = D /\ \A d \in Bodies \ {c} : f.body[d] = h.body[d]
       /\ f.payload[q] = P /\ \A x \in Payloads \ {q} : f.payload[x] = h.payload[x]
  BY <1>1, <1>2, <1>3, <1>6
<1>11. \A x : Owners(f, x) = Owners(h, x) BY <1>7, <1>10 DEF Owners
<1> HIDE DEF q
<1>12. SharersOK(f, 0)
  <2> SUFFICES ASSUME NEW x \in Payloads
               PROVE  /\ f.payload[x].refs = Cardinality(Sharers(f, x)) + (IF x = 0 THEN 1 ELSE 0)
                      /\ f.payload[x].refs = 0 => f.payload[x] = NoPayload
    BY DEF SharersOK
  <2>1. IsFiniteSet(Sharers(h, x)) /\ Cardinality(Sharers(h, x)) \in Nat BY FiniteHolders
  <2>2. /\ h.payload[x].refs = Cardinality(Sharers(h, x))
        /\ h.payload[x].refs = 0 => h.payload[x] = NoPayload
    BY <1>0, <2>1 DEF HeapOK, SharersOK
  <2>3. c \notin Sharers(h, x) BY <1>0, <1>4 DEF Sharers
  <2>4. CASE x = q
    <3>1. Sharers(f, x) = Sharers(h, x) \cup {c} BY <1>1, <1>8, <1>10, <2>3, <2>4 DEF Sharers
    <3>2. Cardinality(Sharers(f, x)) = Cardinality(Sharers(h, x)) + 1 BY <2>1, <2>3, <3>1, GainOne
    <3> QED BY <1>0, <1>2, <1>7, <1>10, <2>1, <2>2, <2>4, <3>2
  <2>5. CASE x # q
    <3>1. Sharers(f, x) = Sharers(h, x) BY <1>1, <1>8, <1>10, <2>3, <2>5 DEF Sharers
    <3> QED BY <1>0, <1>10, <2>1, <2>2, <2>5, <3>1
  <2> QED BY <2>4, <2>5
<1>13. BodiesOK(f) BY <1>2, <1>8, <1>10 DEF HeapOK, BodiesOK
<1>14. KindsOK(f) /\ MemoryOK(f) /\ PoolOK(f)
  <2>1. KindsOK(f) BY <1>7, <1>10 DEF HeapOK, KindsOK
  <2> QED BY <1>6, <1>11, <2>1 DEF HeapOK, MemoryOK, PoolOK
<1>15. HeapOK(f, 0) BY <1>9, <1>12, <1>13, <1>14 DEF HeapOK
<1>16. f.body[b] = h.body[b] BY <1>4, <1>10
<1>17. /\ HeapOK(g, 0) /\ Kept(f, g) /\ Accounted(f, g)
       /\ \A d \in Bodies \ {b} : g.body[d] = f.body[d]
       /\ g.body[b].refs + 1 = f.body[b].refs
       /\ g.body[b].refs # 0 => g.body[b].payload = f.body[b].payload /\ g.body[b].meta = f.body[b].meta
  BY <1>5, <1>15, <1>16, DropBodyKeeps
<1>18. g \in HeapType BY <1>17 DEF HeapOK
<1>19. g.body[b].refs \in Nat BY <1>18, HeapParts
<1>20. g.body[b].refs # 0 BY <1>3, <1>16, <1>17, <1>19
<1>21. Kept(h, g)
  <2> SUFFICES ASSUME NEW x \in Payloads, h.payload[x].refs # 0, g.payload[x].refs # 0
               PROVE SamePayload(h, g, x)
    BY DEF Kept
  <2>1. f.payload[x].refs # 0 /\ SamePayload(h, f, x)
    BY <1>2, <1>7, <1>10 DEF SamePayload
  <2>2. SamePayload(f, g, x) BY <1>17, <2>1 DEF Kept
  <2> QED BY <2>1, <2>2 DEF SamePayload
<1>22. Accounted(h, g) BY <1>6, <1>11, <1>17 DEF Accounted
<1>23. g.body[c] = D /\ SameBody(h, g, b) BY <1>1, <1>4, <1>10, <1>16, <1>17, <1>20 DEF SameBody
<1>24. \A d \in Bodies \ {b, c} : g.body[d] = h.body[d] BY <1>10, <1>17
<1> QED BY <1>1, <1>4, <1>8, <1>16, <1>17, <1>20, <1>21, <1>22, <1>23, <1>24 DEF g, c, q

\* A payload of the packet's own.
Detached(h, b) ==
    [h EXCEPT !.payload[FreePayload(h)] = [NoPayload EXCEPT !.refs = 1, !.kind = "builtin", !.copies = TRUE,
                                               !.content = h.payload[h.body[b].payload].content],
              !.body[b].payload = FreePayload(h)]

\* A payload of a body's own (CopyPayload): the heap stays consistent, every other
\* body is as it was, and the copy has the content of the original.
LEMMA CopyPayloadKeeps ==
    ASSUME NEW h, HeapOK(h, 0), NEW b \in Bodies, h.body[b].refs # 0, FreePayloads(h) # {}
    PROVE  LET g == DropPayload(Detached(h, b), h.body[b].payload)
               p == FreePayload(h)
           IN  /\ HeapOK(g, 0) /\ Kept(h, g) /\ Accounted(h, g)
               /\ \A d \in Bodies \ {b} : g.body[d] = h.body[d]
               /\ g.body[b].refs = h.body[b].refs /\ g.body[b].meta = h.body[b].meta /\ g.body[b].payload = p
               /\ p \in Payloads /\ g.payload[p].refs = 1 /\ h.payload[p].refs = 0
               /\ g.payload[p].content = h.payload[h.body[b].payload].content
<1> DEFINE p == FreePayload(h)
<1> DEFINE q == h.body[b].payload
<1> DEFINE f == Detached(h, b)
<1> DEFINE g == DropPayload(f, q)
<1> DEFINE P == [NoPayload EXCEPT !.refs = 1, !.kind = "builtin", !.copies = TRUE, !.content = h.payload[q].content]
<1> DEFINE D == [h.body[b] EXCEPT !.payload = p]
<1>0. h \in HeapType /\ 0 \notin Payloads /\ Nobody \notin Resources \cup Memory
  BY PacketsAssumption DEF HeapOK, Resources
<1>1. /\ p \in Payloads /\ h.payload[p] = NoPayload /\ \A c \in Bodies : h.body[c].payload # p BY FreeOnes
<1>2. q \in Payloads /\ h.payload[q].refs \in Nat \ {0} /\ q # p BY <1>1, LivePayload
<1>3. /\ h.body \in [Bodies -> BodyType] /\ h.payload \in [Payloads -> PayloadType]
      /\ h.payload[q].content \in Nat BY <1>0, <1>2, HeapParts
<1>4. /\ P \in PayloadType /\ P.refs = 1 /\ P.content = h.payload[q].content /\ P.own = Nobody /\ P.kind = "builtin"
  BY <1>3 DEF PayloadType, NoPayload, Kinds, Owned
<1>5. /\ D \in BodyType /\ D.refs = h.body[b].refs /\ D.payload = p /\ D.meta = h.body[b].meta
  <2>1. h.body[b] \in BodyType BY <1>3
  <2> QED BY <1>1, <2>1 DEF BodyType
<1>6. /\ f.payload = [h.payload EXCEPT ![p] = P] /\ f.body = [h.body EXCEPT ![b] = D]
      /\ f.released = h.released /\ f.cached = h.cached /\ f.bytes = h.bytes
  BY <1>0 DEF HeapType, Detached
<1>7. f \in HeapType
  <2>1. f.body \in [Bodies -> BodyType] /\ f.payload \in [Payloads -> PayloadType] BY <1>1, <1>3, <1>4, <1>5, <1>6
  <2>2. f = [h EXCEPT !.payload = f.payload, !.body = f.body] BY <1>0 DEF HeapType, Detached
  <2> HIDE DEF f
  <2> QED BY <1>0, <2>1, <2>2 DEF HeapType
<1> HIDE DEF p, f, g, P, D
<1>8. /\ f.body[b] = D /\ \A d \in Bodies \ {b} : f.body[d] = h.body[d]
      /\ f.payload[p] = P /\ \A x \in Payloads \ {p} : f.payload[x] = h.payload[x]
  BY <1>1, <1>3, <1>6
<1>9. \A x : x # Nobody => Owners(f, x) = Owners(h, x) BY <1>1, <1>4, <1>8 DEF Owners, NoPayload
<1>10. SharersOK(f, q)
  <2> SUFFICES ASSUME NEW x \in Payloads
               PROVE  /\ f.payload[x].refs = Cardinality(Sharers(f, x)) + (IF x = q THEN 1 ELSE 0)
                      /\ f.payload[x].refs = 0 => f.payload[x] = NoPayload
    BY DEF SharersOK
  <2>1. IsFiniteSet(Sharers(h, x)) /\ Cardinality(Sharers(h, x)) \in Nat BY FiniteHolders
  <2>2. /\ h.payload[x].refs = Cardinality(Sharers(h, x))
        /\ h.payload[x].refs = 0 => h.payload[x] = NoPayload
    BY <1>0, <2>1 DEF HeapOK, SharersOK
  <2>3. CASE x = p
    <3>1. Sharers(f, x) = {b} BY <1>1, <1>5, <1>8, <2>3 DEF Sharers
    <3>2. Cardinality(Sharers(f, x)) = 1 BY <3>1, FS_Singleton
    <3> QED BY <1>2, <1>4, <1>8, <2>3, <3>2
  <2>4. CASE x = q
    <3>1. b \in Sharers(h, x) BY <2>4 DEF Sharers
    <3>2. Sharers(f, x) = Sharers(h, x) \ {b} BY <1>2, <1>5, <1>8, <2>4 DEF Sharers
    <3>3. Cardinality(Sharers(f, x)) = Cardinality(Sharers(h, x)) - 1 BY <2>1, <3>1, <3>2, LoseOne
    <3>4. f.payload[x] = h.payload[x] BY <1>2, <1>8, <2>4
    <3> QED BY <2>1, <2>2, <2>4, <3>3, <3>4
  <2>5. CASE x # p /\ x # q
    <3>1. Sharers(f, x) = Sharers(h, x) BY <1>5, <1>8, <2>5 DEF Sharers
    <3> QED BY <1>8, <2>1, <2>2, <2>5, <3>1
  <2> QED BY <2>3, <2>4, <2>5
<1> HIDE DEF q
<1>11. BodiesOK(f)
  <2> SUFFICES ASSUME NEW c \in Bodies
               PROVE  IF f.body[c].refs = 0 THEN f.body[c] = NoBody ELSE f.body[c].payload \in Payloads
    BY DEF BodiesOK
  <2>1. CASE c = b BY <1>1, <1>5, <1>8, <2>1
  <2>2. CASE c # b BY <1>8, <2>2 DEF HeapOK, BodiesOK
  <2> QED BY <2>1, <2>2
<1>12. KindsOK(f) BY <1>4, <1>8 DEF HeapOK, KindsOK
<1>13. MemoryOK(f) /\ PoolOK(f) BY <1>0, <1>6, <1>9 DEF HeapOK, MemoryOK, PoolOK
<1>14. HeapOK(f, q) BY <1>7, <1>10, <1>11, <1>12, <1>13 DEF HeapOK
<1>15. /\ HeapOK(g, 0) /\ g.body = f.body /\ Kept(f, g) /\ Accounted(f, g)
       /\ \A x \in Payloads \ {q} : g.payload[x] = f.payload[x]
  BY <1>2, <1>14, DropPayloadKeeps DEF g
<1>16. Kept(h, g)
  <2> SUFFICES ASSUME NEW x \in Payloads, h.payload[x].refs # 0, g.payload[x].refs # 0
               PROVE SamePayload(h, g, x)
    BY DEF Kept
  <2>1. f.payload[x] = h.payload[x] BY <1>1, <1>8 DEF NoPayload
  <2> QED BY <1>15, <2>1 DEF Kept, SamePayload
<1>17. Accounted(h, g) BY <1>0, <1>6, <1>9, <1>15 DEF Accounted
<1>18. g.payload[p] = P /\ g.body[b] = D BY <1>1, <1>2, <1>8, <1>15
<1>19. \A d \in Bodies \ {b} : g.body[d] = h.body[d] BY <1>8, <1>15
<1>20. h.payload[p].refs = 0 BY <1>1 DEF NoPayload
<1> QED BY <1>1, <1>4, <1>5, <1>15, <1>16, <1>17, <1>18, <1>19, <1>20 DEF g, p, q, f

\* A reference more for each packet of a batch.
LEMMA RetainAllKeeps ==
    ASSUME NEW h, HeapOK(h, 0), NEW s \in Seq(Refs),
           \A i \in DOMAIN s : s[i].own = Nobody /\ s[i].body \in Bodies /\ h.body[s[i].body].refs # 0
    PROVE  LET g == RetainAll(h, s)
           IN  /\ HeapOK(g, 0) /\ Kept(h, g) /\ Accounted(h, g)
               /\ \A b \in Bodies : g.body[b].refs = h.body[b].refs + Occ(s, Nobody, b) /\ SameBody(h, g, b)
<1> DEFINE g == RetainAll(h, s)
<1> DEFINE N(b) == Cardinality({i \in DOMAIN s : s[i].body = b})
<1>0. h \in HeapType BY DEF HeapOK
<1>1. /\ h.body \in [Bodies -> BodyType] /\ \A b \in Bodies : h.body[b].refs \in Nat BY <1>0, HeapParts
<1>2. ASSUME NEW b PROVE N(b) = Occ(s, Nobody, b) /\ N(b) \in Nat
  <2>1. {i \in DOMAIN s : s[i].body = b} = Spots(s, Nobody, b) BY DEF Spots
  <2> QED BY <2>1, SpotsFinite DEF Occ
<1>3. /\ g.payload = h.payload /\ g.released = h.released /\ g.cached = h.cached /\ g.bytes = h.bytes
      /\ g.body = [b \in Bodies |-> [h.body[b] EXCEPT !.refs = @ + N(b)]]
  BY <1>0 DEF HeapType, RetainAll
<1> HIDE DEF N
<1>4. ASSUME NEW b \in Bodies
      PROVE  /\ g.body[b] \in BodyType /\ SameBody(h, g, b)
             /\ g.body[b].refs = h.body[b].refs + Occ(s, Nobody, b)
  <2>1. h.body[b] \in BodyType /\ N(b) \in Nat /\ N(b) = Occ(s, Nobody, b) BY <1>1, <1>2
  <2>2. g.body[b] = [h.body[b] EXCEPT !.refs = @ + N(b)] BY <1>3
  <2>3. h.body[b].refs + N(b) \in Nat BY <1>1, <2>1
  <2> HIDE DEF g
  <2> QED BY <2>1, <2>2, <2>3 DEF BodyType, SameBody
<1>5. g \in HeapType
  <2>1. g.body \in [Bodies -> BodyType]
    <3>1. DOMAIN g.body = Bodies /\ g.body = [b \in Bodies |-> g.body[b]] BY <1>3
    <3> HIDE DEF g
    <3> QED BY <1>4, <3>1
  <2>2. g = [h EXCEPT !.body = g.body] BY <1>0, <1>3 DEF HeapType, RetainAll
  <2> HIDE DEF g
  <2> QED BY <1>0, <2>1, <2>2 DEF HeapType
<1> HIDE DEF g
<1>6. \A c \in Bodies : /\ g.body[c].payload = h.body[c].payload
                        /\ IF h.body[c].refs = 0 THEN g.body[c] = h.body[c] ELSE g.body[c].refs # 0
  <2> SUFFICES ASSUME NEW c \in Bodies
               PROVE  /\ g.body[c].payload = h.body[c].payload
                      /\ IF h.body[c].refs = 0 THEN g.body[c] = h.body[c] ELSE g.body[c].refs # 0
    OBVIOUS
  <2>1. SameBody(h, g, c) /\ g.body[c].refs = h.body[c].refs + N(c) /\ N(c) \in Nat BY <1>2, <1>4
  <2>2. CASE h.body[c].refs = 0
    <3>1. Spots(s, Nobody, c) = {} BY <2>2 DEF Spots
    <3>2. N(c) = 0 BY <1>2, <3>1, FS_EmptySet DEF Occ
    <3>3. g.body[c].refs = h.body[c].refs BY <2>1, <2>2, <3>2
    <3>4. g.body[c] \in BodyType /\ h.body[c] \in BodyType BY <1>1, <1>4
    <3>5. g.body[c] = h.body[c] BY SMTT(30), <2>1, <3>3, <3>4 DEF BodyType, SameBody
    <3> QED BY <2>2, <3>5
  <2>3. CASE h.body[c].refs # 0 BY <1>1, <2>1, <2>3 DEF SameBody
  <2> QED BY <2>2, <2>3
<1>7. HeapOK(g, 0) /\ Kept(h, g) /\ Accounted(h, g) BY <1>3, <1>5, <1>6, SameStore
<1> QED BY <1>4, <1>7 DEF g

---------------------------------------------------------------------------
(* References and the heap.                                                *)

Contained(B) == B \in [Boxes -> Seq(Refs)] /\ \A o, b : Counted(B, o, b)
Counts(h, B) == \A b \in Bodies : h.body[b].refs = Tally(B, Nobody, b)
Balance(h, B, G) ==
    \A o \in Resources : h.released[o] + Cardinality(Owners(h, o)) + Tally(B, o, 0) = IF o \in G THEN 1 ELSE 0
Faithful(h, B) ==
    \A k \in Boxes : \A i \in DOMAIN B[k] : B[k][i].own = Nobody => Value(h, B[k][i].body) = B[k][i].value
Sound(h, B, G) == HeapOK(h, 0) /\ Contained(B) /\ Counts(h, B) /\ Balance(h, B, G) /\ Faithful(h, B)

Steady(h, g) == \A b \in Bodies : h.body[b].refs # 0 /\ g.body[b].refs # 0 => Value(g, b) = Value(h, b)

\* A reference is to a body, or it is the object that the program built by hand.
LEMMA RefKinds ==
    /\ 0 \notin Bodies /\ Object # Nobody /\ Nobody \notin Resources /\ Object \in Resources
    /\ SelfBuilt \in Refs /\ SelfBuilt.own = Object /\ SelfBuilt.body = 0
    /\ \A r \in Refs : /\ r.own = Nobody => r \in EngineRef
                       /\ r.own # Nobody => r = SelfBuilt
    /\ \A r \in EngineRef : r \in Refs /\ r.own = Nobody /\ r.body \in Bodies /\ r.value \in Values
BY PacketsAssumption DEF Refs, EngineRef, SelfBuilt, Resources

\* A reference to a body has the parts it is made of.
LEMMA RefTyped == \A b \in Bodies, v \in Values : Ref(b, v) \in EngineRef /\ Ref(b, v).own = Nobody /\ Ref(b, v).body = b /\ Ref(b, v).value = v
BY DEF Ref, EngineRef

\* One box is refilled: what all boxes have changes as that box does.
LEMMA BoxStep ==
    ASSUME NEW B, Contained(B), NEW k \in Boxes, NEW u \in Seq(Refs)
    PROVE  LET C == Put(B, k, u)
           IN  /\ Contained(C) /\ C[k] = u /\ \A l \in Boxes \ {k} : C[l] = B[l]
               /\ \A o, b : /\ Tally(B, o, b) \in Nat /\ Tally(C, o, b) \in Nat
                            /\ Occ(B[k], o, b) \in Nat /\ Occ(u, o, b) \in Nat
                            /\ Tally(C, o, b) + Occ(B[k], o, b) = Tally(B, o, b) + Occ(u, o, b)
<1> DEFINE C == Put(B, k, u)
<1>1. B \in [Boxes -> Seq(Refs)] /\ B[k] \in Seq(Refs) BY DEF Contained
<1>2. C \in [Boxes -> Seq(Refs)] /\ C[k] = u /\ \A l \in Boxes \ {k} : C[l] = B[l] BY <1>1 DEF Put
<1>3. ASSUME NEW o, NEW b
      PROVE  /\ Counted(C, o, b) /\ Tally(B, o, b) \in Nat /\ Tally(C, o, b) \in Nat
             /\ Occ(B[k], o, b) \in Nat /\ Occ(u, o, b) \in Nat
             /\ Tally(C, o, b) + Occ(B[k], o, b) = Tally(B, o, b) + Occ(u, o, b)
  <2>1. Counted(B, o, b) BY DEF Contained
  <2>2. Occ(B[k], o, b) \in Nat /\ Occ(u, o, b) \in Nat BY <1>1, SpotsFinite
  <2>3. /\ Counted(C, o, b) /\ Tally(B, o, b) \in Nat /\ Tally(C, o, b) \in Nat
        /\ Tally(C, o, b) + Occ(B[k], o, b) = Tally(B, o, b) + Occ(u, o, b)
    BY <1>1, <2>1, Recount
  <2> QED BY <2>2, <2>3
<1> HIDE DEF C
<1>4. Contained(C) BY <1>2, <1>3 DEF Contained
<1> QED BY <1>2, <1>3, <1>4 DEF C

\* A reference is taken out of a box.
LEMMA BoxRemoves ==
    ASSUME NEW B, Contained(B), NEW k \in Boxes, NEW u, NEW r, Removes(B[k], u, r)
    PROVE  LET C == Put(B, k, u)
           IN  /\ Contained(C) /\ C[k] = u /\ \A l \in Boxes \ {k} : C[l] = B[l]
               /\ \A o, b : /\ Tally(B, o, b) \in Nat /\ Tally(C, o, b) \in Nat
                            /\ Tally(B, o, b) = Tally(C, o, b) + Match(r, o, b)
<1> DEFINE C == Put(B, k, u)
<1>1. u \in Seq(Refs) /\ \A o, b : Occ(B[k], o, b) = Occ(u, o, b) + Match(r, o, b) BY DEF Removes
<1>2. /\ Contained(C) /\ C[k] = u /\ \A l \in Boxes \ {k} : C[l] = B[l]
      /\ \A o, b : /\ Tally(B, o, b) \in Nat /\ Tally(C, o, b) \in Nat
                   /\ Occ(B[k], o, b) \in Nat /\ Occ(u, o, b) \in Nat
                   /\ Tally(C, o, b) + Occ(B[k], o, b) = Tally(B, o, b) + Occ(u, o, b)
  BY <1>1, BoxStep
<1> HIDE DEF C
<1>3. ASSUME NEW o, NEW b PROVE Tally(B, o, b) = Tally(C, o, b) + Match(r, o, b)
  <2>1. Match(r, o, b) \in {0, 1} BY DEF Match
  <2>2. Occ(B[k], o, b) = Occ(u, o, b) + Match(r, o, b) BY <1>1
  <2>3. /\ Tally(B, o, b) \in Nat /\ Tally(C, o, b) \in Nat
        /\ Occ(B[k], o, b) \in Nat /\ Occ(u, o, b) \in Nat
        /\ Tally(C, o, b) + Occ(B[k], o, b) = Tally(B, o, b) + Occ(u, o, b)
    BY <1>2
  <2> QED BY <2>1, <2>2, <2>3
<1> QED BY <1>2, <1>3 DEF C

\* A reference is put into a box.
LEMMA BoxAdds ==
    ASSUME NEW B, Contained(B), NEW k \in Boxes, NEW u, NEW r, Adds(B[k], u, r)
    PROVE  LET C == Put(B, k, u)
           IN  /\ Contained(C) /\ C[k] = u /\ \A l \in Boxes \ {k} : C[l] = B[l]
               /\ \A o, b : /\ Tally(B, o, b) \in Nat /\ Tally(C, o, b) \in Nat
                            /\ Tally(C, o, b) = Tally(B, o, b) + Match(r, o, b)
<1> DEFINE C == Put(B, k, u)
<1>1. u \in Seq(Refs) /\ \A o, b : Occ(u, o, b) = Occ(B[k], o, b) + Match(r, o, b) BY DEF Adds
<1>2. /\ Contained(C) /\ C[k] = u /\ \A l \in Boxes \ {k} : C[l] = B[l]
      /\ \A o, b : /\ Tally(B, o, b) \in Nat /\ Tally(C, o, b) \in Nat
                   /\ Occ(B[k], o, b) \in Nat /\ Occ(u, o, b) \in Nat
                   /\ Tally(C, o, b) + Occ(B[k], o, b) = Tally(B, o, b) + Occ(u, o, b)
  BY <1>1, BoxStep
<1> HIDE DEF C
<1>3. ASSUME NEW o, NEW b PROVE Tally(C, o, b) = Tally(B, o, b) + Match(r, o, b)
  <2>1. Match(r, o, b) \in {0, 1} BY DEF Match
  <2>2. Occ(u, o, b) = Occ(B[k], o, b) + Match(r, o, b) BY <1>1
  <2>3. /\ Tally(B, o, b) \in Nat /\ Tally(C, o, b) \in Nat
        /\ Occ(B[k], o, b) \in Nat /\ Occ(u, o, b) \in Nat
        /\ Tally(C, o, b) + Occ(B[k], o, b) = Tally(B, o, b) + Occ(u, o, b)
    BY <1>2
  <2> QED BY <2>1, <2>2, <2>3
<1> QED BY <1>2, <1>3 DEF C

\* A reference in a box gives way to another.
LEMMA BoxReplaces ==
    ASSUME NEW B, Contained(B), NEW k \in Boxes, NEW u, NEW r, NEW q, Replaces(B[k], u, r, q)
    PROVE  LET C == Put(B, k, u)
           IN  /\ Contained(C) /\ C[k] = u /\ \A l \in Boxes \ {k} : C[l] = B[l]
               /\ \A o, b : /\ Tally(B, o, b) \in Nat /\ Tally(C, o, b) \in Nat
                            /\ Tally(C, o, b) + Match(r, o, b) = Tally(B, o, b) + Match(q, o, b)
<1> DEFINE C == Put(B, k, u)
<1>1. u \in Seq(Refs) /\ \A o, b : Occ(u, o, b) + Match(r, o, b) = Occ(B[k], o, b) + Match(q, o, b) BY DEF Replaces
<1>2. /\ Contained(C) /\ C[k] = u /\ \A l \in Boxes \ {k} : C[l] = B[l]
      /\ \A o, b : /\ Tally(B, o, b) \in Nat /\ Tally(C, o, b) \in Nat
                   /\ Occ(B[k], o, b) \in Nat /\ Occ(u, o, b) \in Nat
                   /\ Tally(C, o, b) + Occ(B[k], o, b) = Tally(B, o, b) + Occ(u, o, b)
  BY <1>1, BoxStep
<1> HIDE DEF C
<1>3. ASSUME NEW o, NEW b PROVE Tally(C, o, b) + Match(r, o, b) = Tally(B, o, b) + Match(q, o, b)
  <2>1. Match(r, o, b) \in {0, 1} /\ Match(q, o, b) \in {0, 1} BY DEF Match
  <2>2. Occ(u, o, b) + Match(r, o, b) = Occ(B[k], o, b) + Match(q, o, b) BY <1>1
  <2>3. /\ Tally(B, o, b) \in Nat /\ Tally(C, o, b) \in Nat
        /\ Occ(B[k], o, b) \in Nat /\ Occ(u, o, b) \in Nat
        /\ Tally(C, o, b) + Occ(B[k], o, b) = Tally(B, o, b) + Occ(u, o, b)
    BY <1>2
  <2> QED BY <2>1, <2>2, <2>3
<1> QED BY <1>2, <1>3 DEF C

\* What is referred to is there.
LEMMA Live ==
    ASSUME NEW h, NEW B, Contained(B), Counts(h, B), NEW k \in Boxes, NEW i \in DOMAIN B[k], B[k][i].own = Nobody
    PROVE  B[k][i] \in EngineRef /\ B[k][i].body \in Bodies /\ h.body[B[k][i].body].refs # 0
<1> DEFINE r == B[k][i]
<1>1. r \in Refs /\ B \in [Boxes -> Seq(Refs)] BY DEF Contained
<1>2. r \in EngineRef /\ r.body \in Bodies BY <1>1, RefKinds
<1>3. Counted(B, r.own, r.body) BY DEF Contained
<1>4. Tally(B, r.own, r.body) \in Nat \ {0} BY <1>1, <1>3, Present
<1> HIDE DEF r
<1>5. h.body[r.body].refs = Tally(B, Nobody, r.body) BY <1>2 DEF Counts
<1> QED BY <1>2, <1>4, <1>5 DEF r

\* Where payloads and bodies are kept, values are.
LEMMA KeptSteady ==
    ASSUME NEW h, NEW g, HeapOK(h, 0), HeapOK(g, 0), Kept(h, g),
           \A b \in Bodies : h.body[b].refs # 0 /\ g.body[b].refs # 0 => SameBody(h, g, b)
    PROVE  Steady(h, g)
<1> SUFFICES ASSUME NEW b \in Bodies, h.body[b].refs # 0, g.body[b].refs # 0
             PROVE Value(g, b) = Value(h, b) BY DEF Steady
<1> DEFINE q == h.body[b].payload
<1>1. SameBody(h, g, b) OBVIOUS
<1>2. q \in Payloads /\ h.payload[q].refs # 0 BY LivePayload
<1>3. g.body[b].payload = q BY <1>1 DEF SameBody
<1>4. g.payload[q].refs # 0
  <2>1. g.payload[g.body[b].payload].refs # 0 BY LivePayload
  <2> QED BY <1>3, <2>1
<1>5. SamePayload(h, g, q) BY <1>2, <1>4 DEF Kept
<1> QED BY <1>1, <1>5 DEF Value, SameBody, SamePayload

\* References that keep their body or are right anew are faithful together.
LEMMA Faith ==
    ASSUME NEW h, NEW B, NEW G, Sound(h, B, G), NEW g, Steady(h, g), NEW C, Contained(C), Counts(g, C),
           \A l \in Boxes : \A i \in DOMAIN C[l] :
              \/ \E m \in Boxes : \E j \in DOMAIN B[m] : C[l][i] = B[m][j]
              \/ C[l][i].own = Nobody => Value(g, C[l][i].body) = C[l][i].value
    PROVE  Faithful(g, C)
<1> SUFFICES ASSUME NEW l \in Boxes, NEW i \in DOMAIN C[l], C[l][i].own = Nobody
             PROVE  Value(g, C[l][i].body) = C[l][i].value
  BY DEF Faithful
<1> DEFINE r == C[l][i]
<1>1. r.body \in Bodies /\ g.body[r.body].refs # 0 BY Live
<1>2. CASE \E m \in Boxes : \E j \in DOMAIN B[m] : r = B[m][j]
  <2>1. PICK m \in Boxes : \E j \in DOMAIN B[m] : r = B[m][j] BY <1>2
  <2>2. PICK j \in DOMAIN B[m] : r = B[m][j] BY <2>1
  <2> HIDE DEF r
  <2>3. r.own = Nobody BY DEF r
  <2>4. h.body[r.body].refs # 0 /\ Value(h, r.body) = r.value
    BY <2>2, <2>3, Live DEF Sound, Faithful
  <2>5. Value(g, r.body) = Value(h, r.body) BY <1>1, <2>4 DEF Steady
  <2> QED BY <2>4, <2>5 DEF r
<1>3. CASE r.own = Nobody => Value(g, r.body) = r.value BY <1>3
<1> QED BY <1>2, <1>3

\* Balance, from what the heap and the boxes gain or lose.
LEMMA Balanced ==
    ASSUME NEW h, NEW B, NEW G, Sound(h, B, G), NEW g, NEW C, NEW F,
           \A o \in Resources :
              g.released[o] + Cardinality(Owners(g, o)) + Tally(C, o, 0) + (IF o \in G THEN 1 ELSE 0)
                = h.released[o] + Cardinality(Owners(h, o)) + Tally(B, o, 0) + (IF o \in F THEN 1 ELSE 0),
           g \in HeapType, \A o : Tally(C, o, 0) \in Nat /\ Tally(B, o, 0) \in Nat
    PROVE  Balance(g, C, F)
<1> SUFFICES ASSUME NEW o \in Resources
             PROVE  g.released[o] + Cardinality(Owners(g, o)) + Tally(C, o, 0) = IF o \in F THEN 1 ELSE 0
  BY DEF Balance
<1>1. h \in HeapType BY DEF Sound, HeapOK
<1>2. g.released[o] \in Nat /\ h.released[o] \in Nat BY <1>1, HeapParts
<1>3. Cardinality(Owners(g, o)) \in Nat /\ Cardinality(Owners(h, o)) \in Nat BY FiniteHolders
<1>4. h.released[o] + Cardinality(Owners(h, o)) + Tally(B, o, 0) = IF o \in G THEN 1 ELSE 0
  BY DEF Sound, Balance
<1>5. g.released[o] + Cardinality(Owners(g, o)) + Tally(C, o, 0) + (IF o \in G THEN 1 ELSE 0)
        = h.released[o] + Cardinality(Owners(h, o)) + Tally(B, o, 0) + (IF o \in F THEN 1 ELSE 0)
  OBVIOUS
<1> QED BY <1>2, <1>3, <1>4, <1>5

\* A packet is let go.
LEMMA DropSound ==
    ASSUME NEW h, NEW B, NEW G, Sound(h, B, G), NEW k \in Boxes, NEW u, NEW r,
           Removes(B[k], u, r), r.own = Nobody
    PROVE  /\ Sound(DropBody(h, r.body), Put(B, k, u), G)
           /\ \A d \in Bodies \ {r.body} : DropBody(h, r.body).body[d] = h.body[d]
<1> DEFINE C == Put(B, k, u)
<1> DEFINE b == r.body
<1> DEFINE g == DropBody(h, b)
<1>0. HeapOK(h, 0) /\ Contained(B) /\ Counts(h, B) BY DEF Sound
<1>1. /\ Contained(C) /\ C[k] = u /\ \A l \in Boxes \ {k} : C[l] = B[l]
      /\ \A o, d : /\ Tally(B, o, d) \in Nat /\ Tally(C, o, d) \in Nat
                   /\ Tally(B, o, d) = Tally(C, o, d) + Match(r, o, d)
  BY <1>0, BoxRemoves
<1>2. PICK j \in DOMAIN B[k] : r = B[k][j] BY DEF Removes
<1>3. b \in Bodies /\ h.body[b].refs # 0 BY <1>0, <1>2, Live
<1>4. /\ HeapOK(g, 0) /\ Kept(h, g) /\ Accounted(h, g)
      /\ \A c \in Bodies \ {b} : g.body[c] = h.body[c]
      /\ g.body[b].refs + 1 = h.body[b].refs
      /\ g.body[b].refs # 0 => g.body[b].payload = h.body[b].payload /\ g.body[b].meta = h.body[b].meta
  BY <1>0, <1>3, DropBodyKeeps
<1> HIDE DEF C, g
<1>5. g \in HeapType BY <1>4 DEF HeapOK
<1>6. Counts(g, C)
  <2> SUFFICES ASSUME NEW d \in Bodies PROVE g.body[d].refs = Tally(C, Nobody, d) BY DEF Counts
  <2>1. h.body[d].refs = Tally(B, Nobody, d) BY <1>0 DEF Counts
  <2>2. /\ Tally(B, Nobody, d) \in Nat /\ Tally(C, Nobody, d) \in Nat
        /\ Tally(B, Nobody, d) = Tally(C, Nobody, d) + Match(r, Nobody, d) BY <1>1
  <2>3. g.body[d].refs \in Nat BY <1>5, HeapParts
  <2>4. CASE d = b
    <3>1. Match(r, Nobody, d) = 1 BY <2>4 DEF Match
    <3> QED BY <1>4, <2>1, <2>2, <2>3, <2>4, <3>1
  <2>5. CASE d # b
    <3>1. Match(r, Nobody, d) = 0 BY <2>5 DEF Match
    <3> QED BY <1>4, <2>1, <2>2, <2>3, <2>5, <3>1
  <2> QED BY <2>4, <2>5
<1>7. Balance(g, C, G)
  <2>1. \A o \in Resources :
          g.released[o] + Cardinality(Owners(g, o)) + Tally(C, o, 0) + (IF o \in G THEN 1 ELSE 0)
            = h.released[o] + Cardinality(Owners(h, o)) + Tally(B, o, 0) + (IF o \in G THEN 1 ELSE 0)
    <3> SUFFICES ASSUME NEW o \in Resources
                 PROVE g.released[o] + Cardinality(Owners(g, o)) + Tally(C, o, 0) + (IF o \in G THEN 1 ELSE 0)
                        = h.released[o] + Cardinality(Owners(h, o)) + Tally(B, o, 0) + (IF o \in G THEN 1 ELSE 0)
      OBVIOUS
    <3>1. Match(r, o, 0) = 0 BY RefKinds DEF Match
    <3>2. Tally(C, o, 0) \in Nat /\ Tally(B, o, 0) = Tally(C, o, 0) + Match(r, o, 0) BY <1>1
    <3>3. Tally(B, o, 0) = Tally(C, o, 0) BY <3>1, <3>2
    <3>4. g.released[o] + Cardinality(Owners(g, o)) = h.released[o] + Cardinality(Owners(h, o)) BY <1>4 DEF Accounted
    <3> QED BY <3>3, <3>4
  <2> QED BY <1>1, <1>5, <2>1, Balanced
<1>8. Faithful(g, C)
  <2>1. Steady(h, g) BY <1>0, <1>4, KeptSteady DEF SameBody
  <2>2. ASSUME NEW l \in Boxes, NEW i \in DOMAIN C[l]
        PROVE  \E m \in Boxes : \E n \in DOMAIN B[m] : C[l][i] = B[m][n]
    <3>1. CASE l = k
      <4>1. i \in DOMAIN u /\ C[l][i] = u[i] BY <1>1, <3>1
      <4>2. \E n \in DOMAIN B[k] : u[i] = B[k][n] BY <4>1 DEF Removes
      <4> QED BY <4>1, <4>2
    <3>2. CASE l # k BY <1>1, <3>2
    <3> QED BY <3>1, <3>2
  <2> QED BY <1>1, <1>6, <2>1, <2>2, Faith
<1>9. Sound(g, C, G) BY <1>1, <1>4, <1>6, <1>7, <1>8 DEF Sound
<1> QED BY <1>4, <1>9 DEF g, C

\* An object that was never sent is released.
LEMMA DisposeSound ==
    ASSUME NEW h, NEW B, NEW G, Sound(h, B, G), NEW k \in Boxes, NEW u,
           Removes(B[k], u, SelfBuilt)
    PROVE  /\ Sound(Dispose(h, Object), Put(B, k, u), G)
           /\ Dispose(h, Object).body = h.body /\ Dispose(h, Object).payload = h.payload
<1> DEFINE C == Put(B, k, u)
<1> DEFINE g == Dispose(h, Object)
<1>0. HeapOK(h, 0) /\ Contained(B) /\ Counts(h, B) BY DEF Sound
<1>1. /\ Contained(C) /\ C[k] = u /\ \A l \in Boxes \ {k} : C[l] = B[l]
      /\ \A o, d : /\ Tally(B, o, d) \in Nat /\ Tally(C, o, d) \in Nat
                   /\ Tally(B, o, d) = Tally(C, o, d) + Match(SelfBuilt, o, d)
  BY <1>0, BoxRemoves
<1>2. Object \in Owned /\ Object \notin Memory BY PacketsAssumption DEF Owned, Resources
<1>3. \A m \in Memory : h.cached[m] + Cardinality(Owners(h, m)) + (IF m = Object THEN 1 ELSE 0) \in {0, 1}
  <2> SUFFICES ASSUME NEW m \in Memory
               PROVE h.cached[m] + Cardinality(Owners(h, m)) + (IF m = Object THEN 1 ELSE 0) \in {0, 1} OBVIOUS
  <2>1. h.cached[m] + Cardinality(Owners(h, m)) \in {0, 1} BY <1>0 DEF HeapOK, MemoryOK
  <2> QED BY <1>2, <2>1
<1>4. /\ HeapOK(g, 0) /\ g.body = h.body /\ g.payload = h.payload
      /\ \A r \in Resources : g.released[r] = h.released[r] + (IF r = Object THEN 1 ELSE 0)
  <2>1. h \in HeapType /\ BodiesOK(h) /\ SharersOK(h, 0) /\ KindsOK(h) /\ PoolOK(h) BY <1>0 DEF HeapOK
  <2> QED BY <1>2, <1>3, <2>1, DisposeKeeps
<1> HIDE DEF C, g
<1>5. g \in HeapType /\ h \in HeapType BY <1>0, <1>4 DEF HeapOK
<1>6. Counts(g, C)
  <2> SUFFICES ASSUME NEW d \in Bodies PROVE g.body[d].refs = Tally(C, Nobody, d) BY DEF Counts
  <2>1. h.body[d].refs = Tally(B, Nobody, d) BY <1>0 DEF Counts
  <2>2. /\ Tally(B, Nobody, d) \in Nat /\ Tally(C, Nobody, d) \in Nat
        /\ Tally(B, Nobody, d) = Tally(C, Nobody, d) + Match(SelfBuilt, Nobody, d) BY <1>1
  <2>3. Match(SelfBuilt, Nobody, d) = 0 BY RefKinds DEF Match
  <2> QED BY <1>4, <2>1, <2>2, <2>3
<1>7. Balance(g, C, G)
  <2>1. \A o \in Resources :
          g.released[o] + Cardinality(Owners(g, o)) + Tally(C, o, 0) + (IF o \in G THEN 1 ELSE 0)
            = h.released[o] + Cardinality(Owners(h, o)) + Tally(B, o, 0) + (IF o \in G THEN 1 ELSE 0)
    <3> SUFFICES ASSUME NEW o \in Resources
                 PROVE g.released[o] + Cardinality(Owners(g, o)) + Tally(C, o, 0) + (IF o \in G THEN 1 ELSE 0)
                        = h.released[o] + Cardinality(Owners(h, o)) + Tally(B, o, 0) + (IF o \in G THEN 1 ELSE 0)
      OBVIOUS
    <3>1. Match(SelfBuilt, o, 0) = (IF o = Object THEN 1 ELSE 0) BY RefKinds DEF Match
    <3>2. Tally(C, o, 0) \in Nat /\ Tally(B, o, 0) = Tally(C, o, 0) + Match(SelfBuilt, o, 0) BY <1>1
    <3>3. Owners(g, o) = Owners(h, o) BY <1>4 DEF Owners
    <3>4. g.released[o] = h.released[o] + (IF o = Object THEN 1 ELSE 0) /\ h.released[o] \in Nat BY <1>4, <1>5, HeapParts
    <3>5. Cardinality(Owners(h, o)) \in Nat BY FiniteHolders
    <3> QED BY <3>1, <3>2, <3>3, <3>4, <3>5
  <2> QED BY <1>1, <1>5, <2>1, Balanced
<1>8. Faithful(g, C)
  <2>1. Steady(h, g) BY <1>4 DEF Steady, Value
  <2>2. ASSUME NEW l \in Boxes, NEW i \in DOMAIN C[l]
        PROVE  \E m \in Boxes : \E n \in DOMAIN B[m] : C[l][i] = B[m][n]
    <3>1. CASE l = k
      <4>1. i \in DOMAIN u /\ C[l][i] = u[i] BY <1>1, <3>1
      <4>2. \E n \in DOMAIN B[k] : u[i] = B[k][n] BY <4>1 DEF Removes
      <4> QED BY <4>1, <4>2
    <3>2. CASE l # k BY <1>1, <3>2
    <3> QED BY <3>1, <3>2
  <2> QED BY <1>1, <1>6, <2>1, <2>2, Faith
<1>9. Sound(g, C, G) BY SMTT(30), <1>1, <1>4, <1>6, <1>7, <1>8 DEF Sound
<1> QED BY <1>4, <1>9 DEF g, C

\* A reference more to a packet that is there.
LEMMA KeepSound ==
    ASSUME NEW h, NEW B, NEW G, Sound(h, B, G), NEW k \in Boxes, NEW u, NEW r,
           Adds(B[k], u, r), r.own = Nobody, \E m \in Boxes : \E j \in DOMAIN B[m] : r = B[m][j]
    PROVE  /\ Sound(Retain(h, r.body), Put(B, k, u), G)
           /\ \A d \in Bodies \ {r.body} : Retain(h, r.body).body[d] = h.body[d]
           /\ SameBody(h, Retain(h, r.body), r.body)
<1> DEFINE C == Put(B, k, u)
<1> DEFINE b == r.body
<1> DEFINE g == Retain(h, b)
<1>0. HeapOK(h, 0) /\ Contained(B) /\ Counts(h, B) BY DEF Sound
<1>1. /\ Contained(C) /\ C[k] = u /\ \A l \in Boxes \ {k} : C[l] = B[l]
      /\ \A o, d : /\ Tally(B, o, d) \in Nat /\ Tally(C, o, d) \in Nat
                   /\ Tally(C, o, d) = Tally(B, o, d) + Match(r, o, d)
  BY <1>0, BoxAdds
<1>2. PICK m \in Boxes : \E j \in DOMAIN B[m] : r = B[m][j] OBVIOUS
<1>3. PICK j \in DOMAIN B[m] : r = B[m][j] BY <1>2
<1>4. b \in Bodies /\ h.body[b].refs # 0 BY <1>0, <1>3, Live
<1>5. /\ HeapOK(g, 0) /\ Kept(h, g) /\ Accounted(h, g)
      /\ \A c \in Bodies \ {b} : g.body[c] = h.body[c]
      /\ g.body[b].refs = h.body[b].refs + 1 /\ SameBody(h, g, b)
  BY <1>0, <1>4, RetainKeeps
<1> HIDE DEF C, g
<1>6. g \in HeapType BY <1>5 DEF HeapOK
<1>7. Counts(g, C)
  <2> SUFFICES ASSUME NEW d \in Bodies PROVE g.body[d].refs = Tally(C, Nobody, d) BY DEF Counts
  <2>1. h.body[d].refs = Tally(B, Nobody, d) BY <1>0 DEF Counts
  <2>2. /\ Tally(B, Nobody, d) \in Nat /\ Tally(C, Nobody, d) \in Nat
        /\ Tally(C, Nobody, d) = Tally(B, Nobody, d) + Match(r, Nobody, d) BY <1>1
  <2>3. g.body[d].refs \in Nat BY <1>6, HeapParts
  <2>4. CASE d = b
    <3>1. Match(r, Nobody, d) = 1 BY <2>4 DEF Match
    <3> QED BY <1>5, <2>1, <2>2, <2>3, <2>4, <3>1
  <2>5. CASE d # b
    <3>1. Match(r, Nobody, d) = 0 BY <2>5 DEF Match
    <3> QED BY <1>5, <2>1, <2>2, <2>3, <2>5, <3>1
  <2> QED BY <2>4, <2>5
<1>8. Balance(g, C, G)
  <2>1. \A o \in Resources :
          g.released[o] + Cardinality(Owners(g, o)) + Tally(C, o, 0) + (IF o \in G THEN 1 ELSE 0)
            = h.released[o] + Cardinality(Owners(h, o)) + Tally(B, o, 0) + (IF o \in G THEN 1 ELSE 0)
    <3> SUFFICES ASSUME NEW o \in Resources
                 PROVE g.released[o] + Cardinality(Owners(g, o)) + Tally(C, o, 0) + (IF o \in G THEN 1 ELSE 0)
                        = h.released[o] + Cardinality(Owners(h, o)) + Tally(B, o, 0) + (IF o \in G THEN 1 ELSE 0)
      OBVIOUS
    <3>1. Match(r, o, 0) = 0 BY RefKinds DEF Match
    <3>2. Tally(B, o, 0) \in Nat /\ Tally(C, o, 0) = Tally(B, o, 0) + Match(r, o, 0) BY <1>1
    <3>3. Tally(C, o, 0) = Tally(B, o, 0) BY <3>1, <3>2
    <3>4. g.released[o] + Cardinality(Owners(g, o)) = h.released[o] + Cardinality(Owners(h, o)) BY <1>5 DEF Accounted
    <3> QED BY <3>3, <3>4
  <2> QED BY <1>1, <1>6, <2>1, Balanced
<1>9. Faithful(g, C)
  <2>1. Steady(h, g) BY <1>0, <1>5, KeptSteady DEF SameBody
  <2>2. ASSUME NEW l \in Boxes, NEW i \in DOMAIN C[l]
        PROVE  \E x \in Boxes : \E n \in DOMAIN B[x] : C[l][i] = B[x][n]
    <3>1. CASE l = k
      <4>1. i \in DOMAIN u /\ C[l][i] = u[i] BY <1>1, <3>1
      <4>2. u[i] = r \/ \E n \in DOMAIN B[k] : u[i] = B[k][n] BY <4>1 DEF Adds
      <4> QED BY <1>3, <4>1, <4>2
    <3>2. CASE l # k BY <1>1, <3>2
    <3> QED BY <3>1, <3>2
  <2> QED BY SMTT(30), <1>1, <1>7, <2>1, <2>2, Faith
<1>10. Sound(g, C, G) BY <1>1, <1>5, <1>7, <1>8, <1>9 DEF Sound
<1> QED BY <1>5, <1>10 DEF g, C

\* The same references in other places.
LEMMA SameTally ==
    ASSUME NEW h, NEW B, NEW G, Sound(h, B, G), NEW C, Contained(C),
           \A o, d : Tally(C, o, d) = Tally(B, o, d),
           \A l \in Boxes : \A i \in DOMAIN C[l] : \E m \in Boxes : \E j \in DOMAIN B[m] : C[l][i] = B[m][j]
    PROVE  Sound(h, C, G)
<1>1. Counts(h, C) BY DEF Sound, Counts
<1>2. Balance(h, C, G) BY DEF Sound, Balance
<1>3. Steady(h, h) BY DEF Steady
<1>4. Faithful(h, C) BY <1>1, <1>3, Faith
<1> QED BY <1>1, <1>2, <1>4 DEF Sound

\* A packet goes from one box to another.
LEMMA MoveSound ==
    ASSUME NEW h, NEW B, NEW G, Sound(h, B, G), NEW k \in Boxes, NEW l \in Boxes, k # l,
           NEW u, NEW v, NEW r, Removes(B[k], u, r), Adds(B[l], v, r)
    PROVE  Sound(h, Put(Put(B, k, u), l, v), G)
<1> DEFINE A == Put(B, k, u)
<1> DEFINE C == Put(A, l, v)
<1>0. Contained(B) BY DEF Sound
<1>1. /\ Contained(A) /\ A[k] = u /\ \A m \in Boxes \ {k} : A[m] = B[m]
      /\ \A o, d : /\ Tally(B, o, d) \in Nat /\ Tally(A, o, d) \in Nat
                   /\ Tally(B, o, d) = Tally(A, o, d) + Match(r, o, d)
  BY <1>0, BoxRemoves
<1> HIDE DEF A
<1>2. Adds(A[l], v, r) BY <1>1
<1>3. /\ Contained(C) /\ C[l] = v /\ \A m \in Boxes \ {l} : C[m] = A[m]
      /\ \A o, d : /\ Tally(A, o, d) \in Nat /\ Tally(C, o, d) \in Nat
                   /\ Tally(C, o, d) = Tally(A, o, d) + Match(r, o, d)
  BY <1>1, <1>2, BoxAdds
<1> HIDE DEF C
<1>4. \A o, d : Tally(C, o, d) = Tally(B, o, d) BY <1>1, <1>3
<1>5. ASSUME NEW x \in Boxes, NEW i \in DOMAIN C[x]
      PROVE  \E m \in Boxes : \E j \in DOMAIN B[m] : C[x][i] = B[m][j]
  <2>0. \E j \in DOMAIN B[k] : r = B[k][j] BY DEF Removes
  <2>1. CASE x = l
    <3>1. i \in DOMAIN v /\ C[x][i] = v[i] BY <1>3, <2>1
    <3>2. v[i] = r \/ \E n \in DOMAIN B[l] : v[i] = B[l][n] BY <3>1 DEF Adds
    <3> QED BY <2>0, <3>1, <3>2
  <2>2. CASE x = k
    <3>1. i \in DOMAIN u /\ C[x][i] = u[i] BY <1>1, <1>3, <2>2
    <3>2. \E n \in DOMAIN B[k] : u[i] = B[k][n] BY <3>1 DEF Removes
    <3> QED BY <3>1, <3>2
  <2>3. CASE x # k /\ x # l BY <1>1, <1>3, <2>3
  <2> QED BY <2>1, <2>2, <2>3
<1>6. Sound(h, C, G) BY <1>3, <1>4, <1>5, SameTally
<1> QED BY <1>6 DEF C, A

\* All that is in one box goes to another, which was empty.
LEMMA MoveAllSound ==
    ASSUME NEW h, NEW B, NEW G, Sound(h, B, G), NEW k \in Boxes, NEW l \in Boxes, k # l, B[l] = <<>>
    PROVE  Sound(h, Put(Put(B, k, <<>>), l, B[k]), G)
<1> DEFINE A == Put(B, k, <<>>)
<1> DEFINE C == Put(A, l, B[k])
<1>0. Contained(B) /\ <<>> \in Seq(Refs) BY DEF Sound
<1>1. /\ Contained(A) /\ A[k] = <<>> /\ \A m \in Boxes \ {k} : A[m] = B[m]
      /\ \A o, d : /\ Tally(B, o, d) \in Nat /\ Tally(A, o, d) \in Nat
                   /\ Occ(B[k], o, d) \in Nat /\ Occ(<<>>, o, d) \in Nat
                   /\ Tally(A, o, d) + Occ(B[k], o, d) = Tally(B, o, d) + Occ(<<>>, o, d)
  BY <1>0, BoxStep
<1> HIDE DEF A
<1>2. B[k] \in Seq(Refs) BY <1>0 DEF Contained
<1>3. /\ Contained(C) /\ C[l] = B[k] /\ \A m \in Boxes \ {l} : C[m] = A[m]
      /\ \A o, d : /\ Tally(A, o, d) \in Nat /\ Tally(C, o, d) \in Nat
                   /\ Occ(A[l], o, d) \in Nat /\ Occ(B[k], o, d) \in Nat
                   /\ Tally(C, o, d) + Occ(A[l], o, d) = Tally(A, o, d) + Occ(B[k], o, d)
  BY <1>1, <1>2, BoxStep
<1> HIDE DEF C
<1>4. A[l] = <<>> BY <1>1
<1>5. ASSUME NEW o, NEW d PROVE Tally(C, o, d) = Tally(B, o, d)
  <2>1. Occ(<<>>, o, d) = 0 BY NoSpots
  <2>2. /\ Tally(B, o, d) \in Nat /\ Tally(A, o, d) \in Nat /\ Occ(B[k], o, d) \in Nat
        /\ Tally(A, o, d) + Occ(B[k], o, d) = Tally(B, o, d) + Occ(<<>>, o, d) BY <1>1
  <2>3. Tally(C, o, d) \in Nat /\ Tally(C, o, d) + Occ(<<>>, o, d) = Tally(A, o, d) + Occ(B[k], o, d) BY <1>3, <1>4
  <2> QED BY <2>1, <2>2, <2>3
<1>6. ASSUME NEW x \in Boxes, NEW i \in DOMAIN C[x]
      PROVE  \E m \in Boxes : \E j \in DOMAIN B[m] : C[x][i] = B[m][j]
  <2>1. CASE x = l BY <1>3, <2>1
  <2>2. CASE x = k BY <1>1, <1>3, <2>2
  <2>3. CASE x # k /\ x # l BY <1>1, <1>3, <2>3
  <2> QED BY <2>1, <2>2, <2>3
<1>7. Sound(h, C, G) BY <1>3, <1>5, <1>6, SameTally
<1> QED BY <1>7 DEF C, A

\* A packet is made.
LEMMA NewSound ==
    ASSUME NEW h, NEW B, NEW G, Sound(h, B, G), NEW k \in Boxes, NEW u,
           FreeBodies(h) # {}, FreePayloads(h) # {},
           NEW kind \in Kinds, NEW own \in Owned, NEW copies \in BOOLEAN,
           kind = "foreign" => own = Object, own \in Resources => own \notin G,
           own \in Memory => h.cached[own] = 0 /\ Cardinality(Owners(h, own)) = 0,
           Adds(B[k], u, Ref(FreeBody(h), Fresh))
    PROVE  Sound(NewPacket(h, kind, own, copies), Put(B, k, u), G \cup ({own} \cap Resources))
<1> DEFINE C == Put(B, k, u)
<1> DEFINE b == FreeBody(h)
<1> DEFINE g == NewPacket(h, kind, own, copies)
<1> DEFINE r == Ref(b, Fresh)
<1> DEFINE F == G \cup ({own} \cap Resources)
<1>0. HeapOK(h, 0) /\ Contained(B) /\ Counts(h, B) BY DEF Sound
<1>1. /\ Contained(C) /\ C[k] = u /\ \A l \in Boxes \ {k} : C[l] = B[l]
      /\ \A o, d : /\ Tally(B, o, d) \in Nat /\ Tally(C, o, d) \in Nat
                   /\ Tally(C, o, d) = Tally(B, o, d) + Match(r, o, d)
  BY <1>0, BoxAdds
<1>2. /\ HeapOK(g, 0) /\ Kept(h, g)
      /\ \A o \in Resources : /\ g.released[o] = h.released[o]
                              /\ Cardinality(Owners(g, o)) = Cardinality(Owners(h, o)) + (IF o = own THEN 1 ELSE 0)
      /\ b \in Bodies /\ h.body[b].refs = 0
      /\ \A c \in Bodies \ {b} : g.body[c] = h.body[c]
      /\ g.body[b].refs = 1 /\ Value(g, b) = Fresh
  BY <1>0, NewPacketKeeps
<1>3. r.own = Nobody /\ r.body = b /\ r.value = Fresh BY DEF Ref
<1> HIDE DEF C, g, b, r
<1>4. g \in HeapType BY <1>2 DEF HeapOK
<1>5. Counts(g, C)
  <2> SUFFICES ASSUME NEW d \in Bodies PROVE g.body[d].refs = Tally(C, Nobody, d) BY DEF Counts
  <2>1. h.body[d].refs = Tally(B, Nobody, d) BY <1>0 DEF Counts
  <2>2. /\ Tally(B, Nobody, d) \in Nat /\ Tally(C, Nobody, d) \in Nat
        /\ Tally(C, Nobody, d) = Tally(B, Nobody, d) + Match(r, Nobody, d) BY <1>1
  <2>4. CASE d = b
    <3>1. Match(r, Nobody, d) = 1 BY <1>3, <2>4 DEF Match
    <3> QED BY <1>2, <2>1, <2>2, <2>4, <3>1
  <2>5. CASE d # b
    <3>1. Match(r, Nobody, d) = 0 BY <1>3, <2>5 DEF Match
    <3> QED BY <1>2, <2>1, <2>2, <2>5, <3>1
  <2> QED BY <2>4, <2>5
<1>6. Balance(g, C, F)
  <2>1. \A o \in Resources :
          g.released[o] + Cardinality(Owners(g, o)) + Tally(C, o, 0) + (IF o \in G THEN 1 ELSE 0)
            = h.released[o] + Cardinality(Owners(h, o)) + Tally(B, o, 0) + (IF o \in F THEN 1 ELSE 0)
    <3> SUFFICES ASSUME NEW o \in Resources
                 PROVE g.released[o] + Cardinality(Owners(g, o)) + Tally(C, o, 0) + (IF o \in G THEN 1 ELSE 0)
                        = h.released[o] + Cardinality(Owners(h, o)) + Tally(B, o, 0) + (IF o \in F THEN 1 ELSE 0)
      OBVIOUS
    <3>1. Match(r, o, 0) = 0 BY <1>3, RefKinds DEF Match
    <3>2. Tally(B, o, 0) \in Nat /\ Tally(C, o, 0) = Tally(B, o, 0) + Match(r, o, 0) BY <1>1
    <3>3. Tally(C, o, 0) = Tally(B, o, 0) BY <3>1, <3>2
    <3>4. /\ g.released[o] = h.released[o]
          /\ Cardinality(Owners(g, o)) = Cardinality(Owners(h, o)) + (IF o = own THEN 1 ELSE 0) BY <1>2
    <3>5. Cardinality(Owners(h, o)) \in Nat BY FiniteHolders
    <3>6. h.released[o] \in Nat BY <1>0, HeapParts DEF HeapOK
    <3>7. (IF o \in F THEN 1 ELSE 0) = (IF o \in G THEN 1 ELSE 0) + (IF o = own THEN 1 ELSE 0) OBVIOUS
    <3> QED BY <3>2, <3>3, <3>4, <3>5, <3>6, <3>7
  <2> QED BY <1>1, <1>4, <2>1, Balanced
<1>7. Faithful(g, C)
  <2>1. Steady(h, g) BY <1>0, <1>2, KeptSteady DEF SameBody
  <2>2. ASSUME NEW l \in Boxes, NEW i \in DOMAIN C[l]
        PROVE  \/ \E x \in Boxes : \E n \in DOMAIN B[x] : C[l][i] = B[x][n]
               \/ C[l][i].own = Nobody => Value(g, C[l][i].body) = C[l][i].value
    <3>1. CASE l = k
      <4>1. i \in DOMAIN u /\ C[l][i] = u[i] BY <1>1, <3>1
      <4>2. u[i] = r \/ \E n \in DOMAIN B[k] : u[i] = B[k][n] BY <4>1 DEF Adds, r, b
      <4> QED BY <1>2, <1>3, <4>1, <4>2
    <3>2. CASE l # k BY <1>1, <3>2
    <3> QED BY <3>1, <3>2
  <2> QED BY <1>1, <1>5, <2>1, <2>2, Faith
<1>8. Sound(g, C, F) BY <1>1, <1>2, <1>5, <1>6, <1>7 DEF Sound
<1> QED BY <1>8 DEF g, C

\* The program makes a packet by hand.
LEMMA BuildSound ==
    ASSUME NEW h, NEW B, NEW G, Sound(h, B, G), NEW k \in Boxes, NEW u,
           Object \notin G, Adds(B[k], u, SelfBuilt)
    PROVE  Sound(h, Put(B, k, u), G \cup {Object})
<1> DEFINE C == Put(B, k, u)
<1>0. HeapOK(h, 0) /\ Contained(B) /\ Counts(h, B) BY DEF Sound
<1>1. /\ Contained(C) /\ C[k] = u /\ \A l \in Boxes \ {k} : C[l] = B[l]
      /\ \A o, d : /\ Tally(B, o, d) \in Nat /\ Tally(C, o, d) \in Nat
                   /\ Tally(C, o, d) = Tally(B, o, d) + Match(SelfBuilt, o, d)
  BY <1>0, BoxAdds
<1> HIDE DEF C
<1>2. h \in HeapType BY <1>0 DEF HeapOK
<1>3. Counts(h, C)
  <2> SUFFICES ASSUME NEW d \in Bodies PROVE h.body[d].refs = Tally(C, Nobody, d) BY DEF Counts
  <2>1. h.body[d].refs = Tally(B, Nobody, d) BY <1>0 DEF Counts
  <2>2. Tally(B, Nobody, d) \in Nat /\ Tally(C, Nobody, d) = Tally(B, Nobody, d) + Match(SelfBuilt, Nobody, d) BY <1>1
  <2>3. Match(SelfBuilt, Nobody, d) = 0 BY RefKinds DEF Match
  <2> QED BY <2>1, <2>2, <2>3
<1>4. Balance(h, C, G \cup {Object})
  <2>1. \A o \in Resources :
          h.released[o] + Cardinality(Owners(h, o)) + Tally(C, o, 0) + (IF o \in G THEN 1 ELSE 0)
            = h.released[o] + Cardinality(Owners(h, o)) + Tally(B, o, 0) + (IF o \in G \cup {Object} THEN 1 ELSE 0)
    <3> SUFFICES ASSUME NEW o \in Resources
                 PROVE h.released[o] + Cardinality(Owners(h, o)) + Tally(C, o, 0) + (IF o \in G THEN 1 ELSE 0)
                        = h.released[o] + Cardinality(Owners(h, o)) + Tally(B, o, 0) + (IF o \in G \cup {Object} THEN 1 ELSE 0)
      OBVIOUS
    <3>1. Match(SelfBuilt, o, 0) = (IF o = Object THEN 1 ELSE 0) BY RefKinds DEF Match
    <3>2. Tally(B, o, 0) \in Nat /\ Tally(C, o, 0) = Tally(B, o, 0) + Match(SelfBuilt, o, 0) BY <1>1
    <3>3. h.released[o] \in Nat /\ Cardinality(Owners(h, o)) \in Nat BY <1>2, HeapParts, FiniteHolders
    <3>4. (IF o \in G \cup {Object} THEN 1 ELSE 0) = (IF o \in G THEN 1 ELSE 0) + (IF o = Object THEN 1 ELSE 0) OBVIOUS
    <3> QED BY <3>1, <3>2, <3>3, <3>4
  <2> QED BY <1>1, <1>2, <2>1, Balanced
<1>5. Faithful(h, C)
  <2>1. Steady(h, h) BY DEF Steady
  <2>2. ASSUME NEW l \in Boxes, NEW i \in DOMAIN C[l]
        PROVE  \/ \E x \in Boxes : \E n \in DOMAIN B[x] : C[l][i] = B[x][n]
               \/ C[l][i].own = Nobody => Value(h, C[l][i].body) = C[l][i].value
    <3>1. CASE l = k
      <4>1. i \in DOMAIN u /\ C[l][i] = u[i] BY <1>1, <3>1
      <4>2. u[i] = SelfBuilt \/ \E n \in DOMAIN B[k] : u[i] = B[k][n] BY <4>1 DEF Adds
      <4> QED BY <4>1, <4>2, RefKinds
    <3>2. CASE l # k BY <1>1, <3>2
    <3> QED BY <3>1, <3>2
  <2> QED BY <1>1, <1>3, <2>1, <2>2, Faith
<1>6. Sound(h, C, G \cup {Object}) BY <1>0, <1>1, <1>3, <1>4, <1>5 DEF Sound
<1> QED BY <1>6 DEF C

\* The engine takes a packet that the program made by hand.
LEMMA TakeSound ==
    ASSUME NEW h, NEW B, NEW G, Sound(h, B, G), NEW k \in Boxes, NEW u,
           FreeBodies(h) # {}, FreePayloads(h) # {},
           Replaces(B[k], u, SelfBuilt, Ref(FreeBody(h), Fresh))
    PROVE  Sound(NewPacket(h, "foreign", Object, FALSE), Put(B, k, u), G)
<1> DEFINE C == Put(B, k, u)
<1> DEFINE b == FreeBody(h)
<1> DEFINE g == NewPacket(h, "foreign", Object, FALSE)
<1> DEFINE r == Ref(b, Fresh)
<1>0. HeapOK(h, 0) /\ Contained(B) /\ Counts(h, B) BY DEF Sound
<1>1. /\ Contained(C) /\ C[k] = u /\ \A l \in Boxes \ {k} : C[l] = B[l]
      /\ \A o, d : /\ Tally(B, o, d) \in Nat /\ Tally(C, o, d) \in Nat
                   /\ Tally(C, o, d) + Match(SelfBuilt, o, d) = Tally(B, o, d) + Match(r, o, d)
  BY <1>0, BoxReplaces
<1>2. /\ HeapOK(g, 0) /\ Kept(h, g)
      /\ \A o \in Resources : /\ g.released[o] = h.released[o]
                              /\ Cardinality(Owners(g, o)) = Cardinality(Owners(h, o)) + (IF o = Object THEN 1 ELSE 0)
      /\ b \in Bodies /\ h.body[b].refs = 0
      /\ \A c \in Bodies \ {b} : g.body[c] = h.body[c]
      /\ g.body[b].refs = 1 /\ Value(g, b) = Fresh
  <2>1. "foreign" \in Kinds /\ Object \in Owned /\ Object \notin Memory /\ FALSE \in BOOLEAN
    BY PacketsAssumption DEF Kinds, Owned, Resources
  <2>2. Object \in Memory => h.cached[Object] = 0 /\ Cardinality(Owners(h, Object)) = 0 BY <2>1
  <2>3. "foreign" = "foreign" => Object = Object OBVIOUS
  <2>4. ASSUME NEW copies \in BOOLEAN
        PROVE
        LET e == NewPacket(h, "foreign", Object, copies)
        IN  /\ HeapOK(e, 0) /\ Kept(h, e)
            /\ \A o \in Resources : /\ e.released[o] = h.released[o]
                                    /\ Cardinality(Owners(e, o)) = Cardinality(Owners(h, o)) + (IF o = Object THEN 1 ELSE 0)
            /\ FreeBody(h) \in Bodies /\ h.body[FreeBody(h)].refs = 0
            /\ \A c \in Bodies \ {FreeBody(h)} : e.body[c] = h.body[c]
            /\ e.body[FreeBody(h)].refs = 1 /\ Value(e, FreeBody(h)) = Fresh
    BY <1>0, <2>1, <2>2, <2>3, NewPacketKeeps
  <2> QED BY <2>4
<1>3. r.own = Nobody /\ r.body = b /\ r.value = Fresh BY DEF Ref
<1> HIDE DEF C, g, b, r
<1>4. g \in HeapType BY <1>2 DEF HeapOK
<1>5. Counts(g, C)
  <2> SUFFICES ASSUME NEW d \in Bodies PROVE g.body[d].refs = Tally(C, Nobody, d) BY DEF Counts
  <2>1. h.body[d].refs = Tally(B, Nobody, d) BY <1>0 DEF Counts
  <2>2. /\ Tally(B, Nobody, d) \in Nat /\ Tally(C, Nobody, d) \in Nat
        /\ Tally(C, Nobody, d) + Match(SelfBuilt, Nobody, d) = Tally(B, Nobody, d) + Match(r, Nobody, d) BY <1>1
  <2>3. Match(SelfBuilt, Nobody, d) = 0 BY RefKinds DEF Match
  <2>4. CASE d = b
    <3>1. Match(r, Nobody, d) = 1 BY <1>3, <2>4 DEF Match
    <3> QED BY <1>2, <2>1, <2>2, <2>3, <2>4, <3>1
  <2>5. CASE d # b
    <3>1. Match(r, Nobody, d) = 0 BY <1>3, <2>5 DEF Match
    <3> QED BY <1>2, <2>1, <2>2, <2>3, <2>5, <3>1
  <2> QED BY <2>4, <2>5
<1>6. Balance(g, C, G)
  <2>1. \A o \in Resources :
          g.released[o] + Cardinality(Owners(g, o)) + Tally(C, o, 0) + (IF o \in G THEN 1 ELSE 0)
            = h.released[o] + Cardinality(Owners(h, o)) + Tally(B, o, 0) + (IF o \in G THEN 1 ELSE 0)
    <3> SUFFICES ASSUME NEW o \in Resources
                 PROVE g.released[o] + Cardinality(Owners(g, o)) + Tally(C, o, 0) + (IF o \in G THEN 1 ELSE 0)
                        = h.released[o] + Cardinality(Owners(h, o)) + Tally(B, o, 0) + (IF o \in G THEN 1 ELSE 0)
      OBVIOUS
    <3>1. Match(r, o, 0) = 0 BY <1>3, RefKinds DEF Match
    <3>2. /\ Tally(B, o, 0) \in Nat /\ Tally(C, o, 0) \in Nat
          /\ Tally(C, o, 0) + Match(SelfBuilt, o, 0) = Tally(B, o, 0) + Match(r, o, 0) BY <1>1
    <3>3. Match(SelfBuilt, o, 0) = (IF o = Object THEN 1 ELSE 0) BY RefKinds DEF Match
    <3>4. /\ g.released[o] = h.released[o]
          /\ Cardinality(Owners(g, o)) = Cardinality(Owners(h, o)) + (IF o = Object THEN 1 ELSE 0) BY <1>2
    <3>5. Cardinality(Owners(h, o)) \in Nat BY FiniteHolders
    <3>6. h.released[o] \in Nat BY <1>0, HeapParts DEF HeapOK
    <3> QED BY <3>1, <3>2, <3>3, <3>4, <3>5, <3>6
  <2> QED BY <1>1, <1>4, <2>1, Balanced
<1>7. Faithful(g, C)
  <2>1. Steady(h, g) BY <1>0, <1>2, KeptSteady DEF SameBody
  <2>2. ASSUME NEW l \in Boxes, NEW i \in DOMAIN C[l]
        PROVE  \/ \E x \in Boxes : \E n \in DOMAIN B[x] : C[l][i] = B[x][n]
               \/ C[l][i].own = Nobody => Value(g, C[l][i].body) = C[l][i].value
    <3>1. CASE l = k
      <4>1. i \in DOMAIN u /\ C[l][i] = u[i] BY <1>1, <3>1
      <4>2. u[i] = r \/ \E n \in DOMAIN B[k] : u[i] = B[k][n] BY <4>1 DEF Replaces, r, b
      <4> QED BY <1>2, <1>3, <4>1, <4>2
    <3>2. CASE l # k BY <1>1, <3>2
    <3> QED BY <3>1, <3>2
  <2> QED BY <1>1, <1>5, <2>1, <2>2, Faith
<1>8. Sound(g, C, G) BY <1>1, <1>2, <1>5, <1>6, <1>7 DEF Sound
<1> QED BY <1>8 DEF g, C

\* A packet gets a body of its own.
LEMMA OwnSound ==
    ASSUME NEW h, NEW B, NEW G, Sound(h, B, G), NEW k \in Boxes, NEW u, NEW r,
           r.own = Nobody, FreeBodies(h) # {},
           Replaces(B[k], u, r, [r EXCEPT !.body = OwnedBody(h, r.body)])
    PROVE  /\ Sound(OwnBody(h, r.body), Put(B, k, u), G)
           /\ r.body \in Bodies /\ OwnedBody(h, r.body) \in Bodies
           /\ OwnBody(h, r.body).body[OwnedBody(h, r.body)].refs = 1
           /\ OwnBody(h, r.body).body[OwnedBody(h, r.body)].payload = h.body[r.body].payload
<1> DEFINE C == Put(B, k, u)
<1> DEFINE b == r.body
<1> DEFINE c == OwnedBody(h, b)
<1> DEFINE q == [r EXCEPT !.body = c]
<1> DEFINE g == OwnBody(h, b)
<1>0. HeapOK(h, 0) /\ Contained(B) /\ Counts(h, B) BY DEF Sound
<1>1. /\ Contained(C) /\ C[k] = u /\ \A l \in Boxes \ {k} : C[l] = B[l]
      /\ \A o, d : /\ Tally(B, o, d) \in Nat /\ Tally(C, o, d) \in Nat
                   /\ Tally(C, o, d) + Match(r, o, d) = Tally(B, o, d) + Match(q, o, d)
  BY <1>0, BoxReplaces
<1>2. PICK j \in DOMAIN B[k] : r = B[k][j] BY DEF Replaces
<1>3. r \in EngineRef /\ b \in Bodies /\ h.body[b].refs # 0 BY <1>0, <1>2, Live
<1>4. q.own = Nobody /\ q.body = c /\ q.value = r.value BY <1>3 DEF EngineRef
<1>5. Value(h, b) = r.value BY <1>2 DEF Sound, Faithful
<1>6. CASE h.body[b].refs = 1
  <2>1. g = h /\ c = b BY <1>6 DEF OwnBody, OwnedBody
  <2>2. q = r BY <1>3, <2>1 DEF EngineRef
  <2> HIDE DEF C, q, c, g
  <2>3. ASSUME NEW o, NEW d PROVE Tally(C, o, d) = Tally(B, o, d)
    <3>1. Match(r, o, d) \in {0, 1} BY DEF Match
    <3>2. /\ Tally(B, o, d) \in Nat /\ Tally(C, o, d) \in Nat
          /\ Tally(C, o, d) + Match(r, o, d) = Tally(B, o, d) + Match(r, o, d) BY <1>1, <2>2
    <3> QED BY <3>1, <3>2
  <2>4. ASSUME NEW l \in Boxes, NEW i \in DOMAIN C[l]
        PROVE  \E x \in Boxes : \E n \in DOMAIN B[x] : C[l][i] = B[x][n]
    <3>1. CASE l = k
      <4>1. i \in DOMAIN u /\ C[l][i] = u[i] BY <1>1, <3>1
      <4>2. u[i] = q \/ \E n \in DOMAIN B[k] : u[i] = B[k][n] BY <4>1 DEF Replaces, q, c
      <4> QED BY <1>2, <2>2, <4>1, <4>2
    <3>2. CASE l # k BY <1>1, <3>2
    <3> QED BY <3>1, <3>2
  <2>5. Sound(h, C, G) BY <1>1, <2>3, <2>4, SameTally
  <2> QED BY <1>3, <1>6, <2>1, <2>5 DEF C, c, g
<1>7. CASE h.body[b].refs # 1
  <2>1. g = CopyBody(h, b) /\ c = FreeBody(h) BY <1>7 DEF OwnBody, OwnedBody
  <2>2. /\ HeapOK(g, 0) /\ Kept(h, g) /\ Accounted(h, g)
        /\ c \in Bodies /\ c # b /\ h.body[c].refs = 0
        /\ g.body[c].refs = 1 /\ g.body[c].payload = h.body[b].payload /\ g.body[c].meta = h.body[b].meta
        /\ g.body[b].refs + 1 = h.body[b].refs /\ g.body[b].refs # 0 /\ SameBody(h, g, b)
        /\ \A d \in Bodies \ {b, c} : g.body[d] = h.body[d]
    BY <1>0, <1>3, <1>7, <2>1, CopyBodyKeeps
  <2> HIDE DEF C, q, c, g
  <2>3. g \in HeapType BY <2>2 DEF HeapOK
  <2>4. Counts(g, C)
    <3> SUFFICES ASSUME NEW d \in Bodies PROVE g.body[d].refs = Tally(C, Nobody, d) BY DEF Counts
    <3>1. h.body[d].refs = Tally(B, Nobody, d) BY <1>0 DEF Counts
    <3>2. /\ Tally(B, Nobody, d) \in Nat /\ Tally(C, Nobody, d) \in Nat
          /\ Tally(C, Nobody, d) + Match(r, Nobody, d) = Tally(B, Nobody, d) + Match(q, Nobody, d) BY <1>1
    <3>3. Match(r, Nobody, d) = (IF d = b THEN 1 ELSE 0) /\ Match(q, Nobody, d) = (IF d = c THEN 1 ELSE 0)
      BY <1>4 DEF Match
    <3>4. g.body[d].refs \in Nat BY <2>3, HeapParts
    <3>5. CASE d = b BY <2>2, <3>1, <3>2, <3>3, <3>4, <3>5
    <3>6. CASE d = c BY <2>2, <3>1, <3>2, <3>3, <3>4, <3>6
    <3>7. CASE d # b /\ d # c BY <2>2, <3>1, <3>2, <3>3, <3>4, <3>7
    <3> QED BY <3>5, <3>6, <3>7
  <2>5. Balance(g, C, G)
    <3>1. \A o \in Resources :
            g.released[o] + Cardinality(Owners(g, o)) + Tally(C, o, 0) + (IF o \in G THEN 1 ELSE 0)
              = h.released[o] + Cardinality(Owners(h, o)) + Tally(B, o, 0) + (IF o \in G THEN 1 ELSE 0)
      <4> SUFFICES ASSUME NEW o \in Resources
                   PROVE g.released[o] + Cardinality(Owners(g, o)) + Tally(C, o, 0) + (IF o \in G THEN 1 ELSE 0)
                          = h.released[o] + Cardinality(Owners(h, o)) + Tally(B, o, 0) + (IF o \in G THEN 1 ELSE 0)
        OBVIOUS
      <4>1. Match(r, o, 0) = 0 /\ Match(q, o, 0) = 0 BY <1>4, RefKinds DEF Match
      <4>2. /\ Tally(B, o, 0) \in Nat /\ Tally(C, o, 0) \in Nat
            /\ Tally(C, o, 0) + Match(r, o, 0) = Tally(B, o, 0) + Match(q, o, 0) BY <1>1
      <4>3. Tally(C, o, 0) = Tally(B, o, 0) BY <4>1, <4>2
      <4>4. g.released[o] + Cardinality(Owners(g, o)) = h.released[o] + Cardinality(Owners(h, o)) BY <2>2 DEF Accounted
      <4> QED BY <4>3, <4>4
    <3> QED BY <1>1, <2>3, <3>1, Balanced
  <2>6. Faithful(g, C)
    <3>1. \A d \in Bodies : h.body[d].refs # 0 /\ g.body[d].refs # 0 => SameBody(h, g, d)
      BY <2>2 DEF SameBody
    <3>2. Steady(h, g) BY <1>0, <2>2, <3>1, KeptSteady
    <3>3. Value(g, c) = r.value
      <4>1. Value(g, b) = r.value BY <1>3, <1>5, <2>2, <3>2 DEF Steady
      <4>2. Value(g, c) = Value(g, b) BY <2>2 DEF Value, SameBody
      <4> QED BY <4>1, <4>2
    <3>4. ASSUME NEW l \in Boxes, NEW i \in DOMAIN C[l]
          PROVE  \/ \E x \in Boxes : \E n \in DOMAIN B[x] : C[l][i] = B[x][n]
                 \/ C[l][i].own = Nobody => Value(g, C[l][i].body) = C[l][i].value
      <4>1. CASE l = k
        <5>1. i \in DOMAIN u /\ C[l][i] = u[i] BY <1>1, <4>1
        <5>2. u[i] = q \/ \E n \in DOMAIN B[k] : u[i] = B[k][n] BY <5>1 DEF Replaces, q, c
        <5> QED BY <1>4, <3>3, <5>1, <5>2
      <4>2. CASE l # k BY <1>1, <4>2
      <4> QED BY <4>1, <4>2
    <3> QED BY <1>1, <2>4, <3>2, <3>4, Faith
  <2>7. Sound(g, C, G) BY <1>1, <2>2, <2>4, <2>5, <2>6 DEF Sound
  <2> QED BY <1>3, <2>2, <2>7 DEF g, C, c
<1> QED BY <1>6, <1>7

\* An allocation leaves the pool.
LEMMA FromPoolSound ==
    ASSUME NEW h, NEW B, NEW G, Sound(h, B, G), NEW m \in Memory, h.cached[m] > 0
    PROVE  /\ Sound(FromPool(h, m), B, G)
           /\ FromPool(h, m).body = h.body /\ FromPool(h, m).payload = h.payload
           /\ FromPool(h, m).cached[m] = 0 /\ Cardinality(Owners(FromPool(h, m), m)) = 0
<1> DEFINE g == FromPool(h, m)
<1>0. HeapOK(h, 0) BY DEF Sound
<1>1. /\ g \in HeapType /\ BodiesOK(g) /\ SharersOK(g, 0) /\ KindsOK(g) /\ PoolOK(g) /\ MemoryOK(g)
      /\ g.body = h.body /\ g.payload = h.payload /\ g.released = h.released
      /\ g.cached[m] = 0 /\ Cardinality(Owners(g, m)) = 0
  BY <1>0, FromPoolKeeps
<1> HIDE DEF g
<1>2. \A o : Owners(g, o) = Owners(h, o) BY <1>1 DEF Owners
<1>3. Balance(g, B, G) BY SMTT(30), <1>1, <1>2 DEF Sound, Balance
<1>4. Counts(g, B) /\ Faithful(g, B) BY Zenon, <1>1 DEF Sound, Counts, Faithful, Value
<1>5. HeapOK(g, 0) BY <1>1 DEF HeapOK
<1>6. Sound(g, B, G) BY <1>3, <1>4, <1>5 DEF Sound
<1> QED BY <1>1, <1>6 DEF g

\* The metadata of a packet with a body of its own.
LEMMA MetaSound ==
    ASSUME NEW h, NEW B, NEW G, Sound(h, B, G), NEW k \in Boxes, NEW u, NEW r,
           r.own = Nobody, h.body[r.body].refs = 1,
           Replaces(B[k], u, r, [r EXCEPT !.value.meta = @ + 1])
    PROVE  Sound([h EXCEPT !.body[r.body].meta = @ + 1], Put(B, k, u), G)
<1> DEFINE C == Put(B, k, u)
<1> DEFINE b == r.body
<1> DEFINE q == [r EXCEPT !.value.meta = @ + 1]
<1> DEFINE g == [h EXCEPT !.body[b].meta = @ + 1]
<1>0. HeapOK(h, 0) /\ Contained(B) /\ Counts(h, B) BY DEF Sound
<1>1. /\ Contained(C) /\ C[k] = u /\ \A l \in Boxes \ {k} : C[l] = B[l]
      /\ \A o, d : /\ Tally(B, o, d) \in Nat /\ Tally(C, o, d) \in Nat
                   /\ Tally(C, o, d) + Match(r, o, d) = Tally(B, o, d) + Match(q, o, d)
  BY <1>0, BoxReplaces
<1>2. PICK j \in DOMAIN B[k] : r = B[k][j] BY DEF Replaces
<1>3. r \in EngineRef /\ b \in Bodies /\ h.body[b].refs # 0 BY <1>0, <1>2, Live
<1>4. q.own = Nobody /\ q.body = b /\ q.value = [r.value EXCEPT !.meta = @ + 1] BY <1>3 DEF EngineRef
<1>5. Value(h, b) = r.value BY <1>2 DEF Sound, Faithful
<1>6. /\ HeapOK(g, 0) /\ Kept(h, g) /\ Accounted(h, g) /\ g.payload = h.payload
      /\ \A c \in Bodies \ {b} : g.body[c] = h.body[c]
      /\ g.body[b].refs = h.body[b].refs /\ g.body[b].payload = h.body[b].payload
      /\ g.body[b].meta = h.body[b].meta + 1
  BY <1>0, <1>3, MetaKeeps
<1> HIDE DEF C, q, g
<1>7. g \in HeapType BY <1>6 DEF HeapOK
<1>8. \A o, d : Tally(C, o, d) = Tally(B, o, d)
  <2> SUFFICES ASSUME NEW o, NEW d PROVE Tally(C, o, d) = Tally(B, o, d) OBVIOUS
  <2>1. Match(r, o, d) = Match(q, o, d) /\ Match(r, o, d) \in {0, 1} BY <1>4 DEF Match
  <2>2. /\ Tally(B, o, d) \in Nat /\ Tally(C, o, d) \in Nat
        /\ Tally(C, o, d) + Match(r, o, d) = Tally(B, o, d) + Match(q, o, d) BY <1>1
  <2> QED BY <2>1, <2>2
<1>9. Counts(g, C)
  <2> SUFFICES ASSUME NEW d \in Bodies PROVE g.body[d].refs = Tally(C, Nobody, d) BY DEF Counts
  <2>1. g.body[d].refs = h.body[d].refs BY <1>6
  <2> QED BY <1>0, <1>8, <2>1 DEF Counts
<1>10. Balance(g, C, G)
  <2>1. \A o \in Resources : g.released[o] + Cardinality(Owners(g, o)) = h.released[o] + Cardinality(Owners(h, o))
    BY <1>6 DEF Accounted
  <2>2. \A o \in Resources :
          g.released[o] + Cardinality(Owners(g, o)) + Tally(C, o, 0) + (IF o \in G THEN 1 ELSE 0)
            = h.released[o] + Cardinality(Owners(h, o)) + Tally(B, o, 0) + (IF o \in G THEN 1 ELSE 0)
    BY <1>8, <2>1
  <2> QED BY <1>1, <1>7, <2>2, Balanced
<1>11. Faithful(g, C)
  <2> SUFFICES ASSUME NEW l \in Boxes, NEW i \in DOMAIN C[l], C[l][i].own = Nobody
               PROVE  Value(g, C[l][i].body) = C[l][i].value
    BY DEF Faithful
  <2>1. C[l][i].body \in Bodies /\ g.body[C[l][i].body].refs # 0 BY <1>1, <1>9, Live
  <2>2. PICK n \in DOMAIN u : u[n] = q BY DEF Replaces, q, b
  <2>3. CASE C[l][i].body = b
    <3>1. Tally(C, Nobody, b) = 1 BY <1>0, <1>3, <1>8 DEF Counts
    <3>2. Counted(C, Nobody, b) /\ C \in [Boxes -> Seq(Refs)] BY <1>1 DEF Contained
    <3>3. n \in DOMAIN C[k] /\ C[k][n].own = Nobody /\ C[k][n].body = b BY <1>1, <1>4, <2>2
    <3>4. l = k /\ i = n BY <2>3, <3>1, <3>2, <3>3, Alone
    <3>5. C[l][i].value = [r.value EXCEPT !.meta = @ + 1] BY <1>1, <1>4, <2>2, <3>4
    <3>6. Value(g, b) = [Value(h, b) EXCEPT !.meta = @ + 1] BY <1>6 DEF Value
    <3> QED BY <1>5, <2>3, <3>5, <3>6
  <2>4. CASE C[l][i].body # b
    <3>1. \E m \in Boxes : \E x \in DOMAIN B[m] : C[l][i] = B[m][x]
      <4>1. CASE l = k
        <5>1. i \in DOMAIN u /\ C[l][i] = u[i] BY <1>1, <4>1
        <5>2. u[i] = q \/ \E x \in DOMAIN B[k] : u[i] = B[k][x] BY <5>1 DEF Replaces, q, b
        <5> QED BY <1>4, <2>4, <5>1, <5>2
      <4>2. CASE l # k BY <1>1, <4>2
      <4> QED BY <4>1, <4>2
    <3>2. Value(h, C[l][i].body) = C[l][i].value BY SMTT(30), <3>1 DEF Sound, Faithful
    <3>3. Value(g, C[l][i].body) = Value(h, C[l][i].body) BY Zenon, <1>6, <2>1, <2>4 DEF Value
    <3> QED BY <3>2, <3>3
  <2> QED BY <2>3, <2>4
<1>12. Sound(g, C, G) BY SMTT(30), <1>1, <1>6, <1>9, <1>10, <1>11 DEF Sound
<1> QED BY <1>12 DEF g, C

\* A payload of the packet's own, of which the body is already.
LEMMA CopyPayloadSound ==
    ASSUME NEW h, NEW B, NEW G, Sound(h, B, G), NEW b \in Bodies, h.body[b].refs # 0, FreePayloads(h) # {}
    PROVE  LET g == DropPayload(Detached(h, b), h.body[b].payload)
           IN  /\ Sound(g, B, G) /\ g.body[b].refs = h.body[b].refs /\ g.body[b].payload \in Payloads
               /\ g.payload[g.body[b].payload].refs = 1
               /\ \A d \in Bodies \ {b} : g.body[d] = h.body[d]
<1> DEFINE g == DropPayload(Detached(h, b), h.body[b].payload)
<1> DEFINE p == FreePayload(h)
<1>0. HeapOK(h, 0) /\ Contained(B) /\ Counts(h, B) BY DEF Sound
<1>1. /\ HeapOK(g, 0) /\ Kept(h, g) /\ Accounted(h, g)
      /\ \A d \in Bodies \ {b} : g.body[d] = h.body[d]
      /\ g.body[b].refs = h.body[b].refs /\ g.body[b].meta = h.body[b].meta /\ g.body[b].payload = p
      /\ p \in Payloads /\ g.payload[p].refs = 1 /\ h.payload[p].refs = 0
      /\ g.payload[p].content = h.payload[h.body[b].payload].content
  BY <1>0, CopyPayloadKeeps
<1> HIDE DEF g, p
<1>2. Counts(g, B) BY <1>0, <1>1 DEF Counts
<1>3. Balance(g, B, G)
  <2>1. \A o \in Resources : g.released[o] + Cardinality(Owners(g, o)) = h.released[o] + Cardinality(Owners(h, o))
    BY <1>1 DEF Accounted
  <2> QED BY <2>1 DEF Sound, Balance
<1>4. Steady(h, g)
  <2> SUFFICES ASSUME NEW d \in Bodies, h.body[d].refs # 0, g.body[d].refs # 0
               PROVE Value(g, d) = Value(h, d) BY DEF Steady
  <2>1. CASE d = b BY <1>1, <2>1 DEF Value
  <2>2. CASE d # b
    <3>1. g.body[d] = h.body[d] BY <1>1, <2>2
    <3>2. h.body[d].payload \in Payloads /\ h.payload[h.body[d].payload].refs # 0 BY <1>0, LivePayload
    <3>3. g.payload[g.body[d].payload].refs # 0 BY <1>1, LivePayload
    <3>4. SamePayload(h, g, h.body[d].payload) BY <1>1, <3>1, <3>2, <3>3 DEF Kept
    <3> QED BY <3>1, <3>4 DEF Value, SamePayload
  <2> QED BY <2>1, <2>2
<1>5. Faithful(g, B) BY <1>0, <1>2, <1>4, Faith
<1>6. Sound(g, B, G) BY SMTT(30), <1>0, <1>1, <1>2, <1>3, <1>5 DEF Sound
<1> QED BY <1>1, <1>6 DEF g

\* The content of a packet whose body and payload are its own.
LEMMA WriteSound ==
    ASSUME NEW h, NEW B, NEW G, Sound(h, B, G), NEW k \in Boxes, NEW u, NEW r,
           r.own = Nobody, h.body[r.body].refs = 1, h.payload[h.body[r.body].payload].refs = 1,
           Replaces(B[k], u, r, [r EXCEPT !.value.content = @ + 1])
    PROVE  /\ Sound([h EXCEPT !.payload[h.body[r.body].payload].content = @ + 1], Put(B, k, u), G)
           /\ [h EXCEPT !.payload[h.body[r.body].payload].content = @ + 1].body = h.body
<1> DEFINE C == Put(B, k, u)
<1> DEFINE b == r.body
<1> DEFINE p == h.body[b].payload
<1> DEFINE q == [r EXCEPT !.value.content = @ + 1]
<1> DEFINE g == [h EXCEPT !.payload[p].content = @ + 1]
<1>0. HeapOK(h, 0) /\ Contained(B) /\ Counts(h, B) BY DEF Sound
<1>1. /\ Contained(C) /\ C[k] = u /\ \A l \in Boxes \ {k} : C[l] = B[l]
      /\ \A o, d : /\ Tally(B, o, d) \in Nat /\ Tally(C, o, d) \in Nat
                   /\ Tally(C, o, d) + Match(r, o, d) = Tally(B, o, d) + Match(q, o, d)
  BY SMTT(30), <1>0, BoxReplaces
<1>2. PICK j \in DOMAIN B[k] : r = B[k][j] BY SMTT(30) DEF Replaces
<1>3. r \in EngineRef /\ b \in Bodies /\ h.body[b].refs # 0 BY <1>0, <1>2, Live
<1>4. q.own = Nobody /\ q.body = b /\ q.value = [r.value EXCEPT !.content = @ + 1] BY SMTT(30), <1>3 DEF EngineRef
<1>5. Value(h, b) = r.value BY <1>2 DEF Sound, Faithful
<1>6. p \in Payloads /\ h.payload[p].refs # 0 BY <1>0, <1>3, LivePayload
<1>7. /\ HeapOK(g, 0) /\ Accounted(h, g) /\ g.body = h.body
      /\ \A c \in Payloads \ {p} : g.payload[c] = h.payload[c]
      /\ g.payload[p].content = h.payload[p].content + 1
  <2> HIDE DEF p
  <2> QED BY <1>0, <1>6, WriteKeeps
<1> HIDE DEF C, q, g, p
<1>8. g \in HeapType BY <1>7 DEF HeapOK
<1>9. \A o, d : Tally(C, o, d) = Tally(B, o, d)
  <2> SUFFICES ASSUME NEW o, NEW d PROVE Tally(C, o, d) = Tally(B, o, d) OBVIOUS
  <2>1. Match(r, o, d) = Match(q, o, d) /\ Match(r, o, d) \in {0, 1} BY <1>4 DEF Match
  <2>2. /\ Tally(B, o, d) \in Nat /\ Tally(C, o, d) \in Nat
        /\ Tally(C, o, d) + Match(r, o, d) = Tally(B, o, d) + Match(q, o, d) BY <1>1
  <2> QED BY <2>1, <2>2
<1>10. Counts(g, C) BY <1>0, <1>7, <1>9 DEF Counts
<1>11. Balance(g, C, G)
  <2>1. \A o \in Resources : g.released[o] + Cardinality(Owners(g, o)) = h.released[o] + Cardinality(Owners(h, o))
    BY <1>7 DEF Accounted
  <2>2. \A o \in Resources :
          g.released[o] + Cardinality(Owners(g, o)) + Tally(C, o, 0) + (IF o \in G THEN 1 ELSE 0)
            = h.released[o] + Cardinality(Owners(h, o)) + Tally(B, o, 0) + (IF o \in G THEN 1 ELSE 0)
    BY <1>9, <2>1
  <2> QED BY <1>1, <1>8, <2>2, Balanced
<1>12. \A d \in Bodies : d # b => h.body[d].payload # p
  <2>1. Cardinality(Sharers(h, p)) = 1
    <3>1. h.payload[p].refs = Cardinality(Sharers(h, p)) + (IF p = 0 THEN 1 ELSE 0) BY <1>0, <1>6 DEF HeapOK, SharersOK
    <3>2. h.payload[p].refs = 1 BY DEF p
    <3> QED BY <1>6, <3>1, <3>2, FiniteHolders, PacketsAssumption
  <2>2. IsFiniteSet(Sharers(h, p)) BY FiniteHolders
  <2>3. PICK x : Sharers(h, p) = {x} BY <2>1, <2>2, FS_Singleton
  <2>4. b \in Sharers(h, p) BY <1>3 DEF Sharers, p
  <2> QED BY <2>3, <2>4 DEF Sharers
<1>13. Faithful(g, C)
  <2> SUFFICES ASSUME NEW l \in Boxes, NEW i \in DOMAIN C[l], C[l][i].own = Nobody
               PROVE  Value(g, C[l][i].body) = C[l][i].value
    BY DEF Faithful
  <2>1. C[l][i].body \in Bodies /\ g.body[C[l][i].body].refs # 0 BY SMTT(30), <1>1, <1>10, Live
  <2>2. PICK n \in DOMAIN u : u[n] = q BY DEF Replaces, q, b
  <2>3. CASE C[l][i].body = b
    <3>1. Tally(C, Nobody, b) = 1 BY <1>0, <1>3, <1>9 DEF Counts
    <3>2. Counted(C, Nobody, b) /\ C \in [Boxes -> Seq(Refs)] BY <1>1 DEF Contained
    <3>3. n \in DOMAIN C[k] /\ C[k][n].own = Nobody /\ C[k][n].body = b BY <1>1, <1>4, <2>2
    <3>4. l = k /\ i = n BY <2>3, <3>1, <3>2, <3>3, Alone
    <3>5. C[l][i].value = [r.value EXCEPT !.content = @ + 1] BY SMTT(30), <1>1, <1>4, <2>2, <3>4
    <3>6. Value(g, b) = [Value(h, b) EXCEPT !.content = @ + 1] BY <1>7 DEF Value, p
    <3> QED BY <1>5, <2>3, <3>5, <3>6
  <2>4. CASE C[l][i].body # b
    <3>1. \E m \in Boxes : \E x \in DOMAIN B[m] : C[l][i] = B[m][x]
      <4>1. CASE l = k
        <5>1. i \in DOMAIN u /\ C[l][i] = u[i] BY SMTT(30), <1>1, <4>1
        <5>2. u[i] = q \/ \E x \in DOMAIN B[k] : u[i] = B[k][x] BY <5>1 DEF Replaces, q, b
        <5> QED BY <1>4, <2>4, <5>1, <5>2
      <4>2. CASE l # k BY <1>1, <4>2
      <4> QED BY <4>1, <4>2
    <3>2. Value(h, C[l][i].body) = C[l][i].value BY <3>1 DEF Sound, Faithful
    <3>3. h.body[C[l][i].body].payload \in Payloads \ {p} BY SMTT(30), <1>0, <1>7, <1>12, <2>1, <2>4, LivePayload
    <3>4. Value(g, C[l][i].body) = Value(h, C[l][i].body) BY Zenon, <1>7, <3>3 DEF Value
    <3> QED BY <3>2, <3>4
  <2> QED BY <2>3, <2>4
<1>14. Sound(g, C, G) BY <1>1, <1>7, <1>10, <1>11, <1>13 DEF Sound
<1> QED BY Zenon, <1>7, <1>14 DEF g, C, p

\* A reference more for each packet of a batch, in the box that gets the batch.
LEMMA RetainAllSound ==
    ASSUME NEW h, NEW B, NEW G, Sound(h, B, G), NEW k \in Boxes, NEW l \in Boxes,
           \A i \in DOMAIN B[l] : B[l][i].own = Nobody
    PROVE  /\ Sound(RetainAll(h, B[l]), Put(B, k, B[k] \o B[l]), G)
           /\ \A b \in Bodies : SameBody(h, RetainAll(h, B[l]), b)
<1> DEFINE s == B[l]
<1> DEFINE u == B[k] \o s
<1> DEFINE C == Put(B, k, u)
<1> DEFINE g == RetainAll(h, s)
<1>0. HeapOK(h, 0) /\ Contained(B) /\ Counts(h, B) BY DEF Sound
<1>1. B[k] \in Seq(Refs) /\ s \in Seq(Refs) BY <1>0 DEF Contained
<1> HIDE DEF u
<1>2. /\ u \in Seq(Refs)
      /\ \A i \in DOMAIN u : (\E j \in DOMAIN B[k] : u[i] = B[k][j]) \/ \E j \in DOMAIN s : u[i] = s[j]
      /\ \A o, b : Occ(u, o, b) = Occ(B[k], o, b) + Occ(s, o, b)
  BY <1>1, ConcatSpots DEF u
<1>3. /\ Contained(C) /\ C[k] = u /\ \A x \in Boxes \ {k} : C[x] = B[x]
      /\ \A o, d : /\ Tally(B, o, d) \in Nat /\ Tally(C, o, d) \in Nat
                   /\ Occ(B[k], o, d) \in Nat /\ Occ(u, o, d) \in Nat
                   /\ Tally(C, o, d) + Occ(B[k], o, d) = Tally(B, o, d) + Occ(u, o, d)
  BY <1>0, <1>2, BoxStep
<1>4. \A i \in DOMAIN s : s[i].own = Nobody /\ s[i].body \in Bodies /\ h.body[s[i].body].refs # 0
  BY <1>0, Live
<1>5. /\ HeapOK(g, 0) /\ Kept(h, g) /\ Accounted(h, g)
      /\ \A b \in Bodies : g.body[b].refs = h.body[b].refs + Occ(s, Nobody, b) /\ SameBody(h, g, b)
  BY <1>0, <1>1, <1>4, RetainAllKeeps
<1> HIDE DEF C, g, s
<1>6. g \in HeapType BY <1>5 DEF HeapOK
<1>7. ASSUME NEW o, NEW d PROVE Tally(C, o, d) = Tally(B, o, d) + Occ(s, o, d)
  <2>1. Occ(s, o, d) \in Nat BY <1>1, SpotsFinite
  <2>2. Occ(u, o, d) = Occ(B[k], o, d) + Occ(s, o, d) BY <1>2
  <2>3. /\ Tally(B, o, d) \in Nat /\ Tally(C, o, d) \in Nat /\ Occ(B[k], o, d) \in Nat
        /\ Tally(C, o, d) + Occ(B[k], o, d) = Tally(B, o, d) + Occ(u, o, d) BY <1>3
  <2> DEFINE x == Tally(C, o, d)
  <2> DEFINE y == Occ(B[k], o, d)
  <2> DEFINE z == Tally(B, o, d)
  <2> DEFINE n == Occ(s, o, d)
  <2>4. x \in Nat /\ y \in Nat /\ z \in Nat /\ n \in Nat /\ x + y = z + (y + n) BY <2>1, <2>2, <2>3
  <2> HIDE DEF x, y, z, n
  <2>5. x = z + n BY <2>4
  <2> QED BY <2>5 DEF x, z, n
<1>8. Counts(g, C) BY <1>0, <1>5, <1>7 DEF Counts
<1>9. Balance(g, C, G)
  <2>1. \A o \in Resources :
          g.released[o] + Cardinality(Owners(g, o)) + Tally(C, o, 0) + (IF o \in G THEN 1 ELSE 0)
            = h.released[o] + Cardinality(Owners(h, o)) + Tally(B, o, 0) + (IF o \in G THEN 1 ELSE 0)
    <3> SUFFICES ASSUME NEW o \in Resources
                 PROVE g.released[o] + Cardinality(Owners(g, o)) + Tally(C, o, 0) + (IF o \in G THEN 1 ELSE 0)
                        = h.released[o] + Cardinality(Owners(h, o)) + Tally(B, o, 0) + (IF o \in G THEN 1 ELSE 0)
      OBVIOUS
    <3>1. Spots(s, o, 0) = {} BY <1>4, RefKinds DEF Spots
    <3>2. Occ(s, o, 0) = 0 BY <3>1, FS_EmptySet DEF Occ
    <3>3. Tally(B, o, 0) \in Nat BY <1>3
    <3>4. Tally(C, o, 0) = Tally(B, o, 0) BY <1>7, <3>2, <3>3
    <3>5. g.released[o] + Cardinality(Owners(g, o)) = h.released[o] + Cardinality(Owners(h, o)) BY <1>5 DEF Accounted
    <3> QED BY <3>4, <3>5
  <2> QED BY <1>3, <1>6, <2>1, Balanced
<1>10. Faithful(g, C)
  <2>1. Steady(h, g) BY <1>0, <1>5, KeptSteady
  <2>2. ASSUME NEW x \in Boxes, NEW i \in DOMAIN C[x]
        PROVE  \E y \in Boxes : \E n \in DOMAIN B[y] : C[x][i] = B[y][n]
    <3>1. CASE x = k
      <4>1. i \in DOMAIN u /\ C[x][i] = u[i] BY <1>3, <3>1
      <4>2. (\E n \in DOMAIN B[k] : u[i] = B[k][n]) \/ \E n \in DOMAIN B[l] : u[i] = B[l][n] BY <1>2, <4>1 DEF s
      <4> QED BY <4>1, <4>2
    <3>2. CASE x # k BY <1>3, <3>2
    <3> QED BY <3>1, <3>2
  <2> QED BY <1>3, <1>8, <2>1, <2>2, Faith
<1>11. Sound(g, C, G) BY <1>3, <1>5, <1>8, <1>9, <1>10 DEF Sound
<1> QED BY <1>5, <1>11 DEF g, C, u, s

---------------------------------------------------------------------------
(* The boxes of a state.                                                   *)

InBox(ha, fl, sl, st, qu, k) ==
    CASE k[1] = "handle" -> ha[k[2]]
      [] k[1] = "flight" -> fl[k[2]]
      [] k[1] = "slot" -> sl[k[2]]
      [] k[1] = "staging" -> st[k[2]]
      [] k[1] = "queue" -> qu[k[2]]
BoxesOf(ha, fl, sl, st, qu) == [k \in Boxes |-> InBox(ha, fl, sl, st, qu, k)]

\* Contents as a function of the five variables, before and after a step.
LEMMA ContentsBoxes ==
    /\ Contents = BoxesOf(handle, flight, slot, staging, queue)
    /\ Contents' = BoxesOf(handle', flight', slot', staging', queue')
BY DEF Contents, BoxesOf, InBox

\* Every thread and node has its boxes, and there are no others.
LEMMA BoxKinds ==
    /\ \A t \in Threads : <<"handle", t>> \in Boxes /\ <<"flight", t>> \in Boxes
    /\ \A n \in Nodes : /\ <<"slot", n>> \in Boxes /\ <<"staging", n>> \in Boxes /\ <<"queue", n>> \in Boxes
                        /\ n \in Threads
    /\ \A k \in Boxes : \/ \E t \in Threads : k = <<"handle", t>> \/ k = <<"flight", t>>
                        \/ \E n \in Nodes : k = <<"slot", n>> \/ k = <<"staging", n>> \/ k = <<"queue", n>>
BY DEF Boxes, Threads

\* A box has what its variable has.
LEMMA BoxAt ==
    ASSUME NEW ha, NEW fl, NEW sl, NEW st, NEW qu
    PROVE  LET B == BoxesOf(ha, fl, sl, st, qu)
           IN  /\ DOMAIN B = Boxes /\ B = [k \in Boxes |-> B[k]]
               /\ \A k \in Boxes : B[k] = InBox(ha, fl, sl, st, qu, k)
<1> DEFINE B == BoxesOf(ha, fl, sl, st, qu)
<1> DEFINE E(k) == InBox(ha, fl, sl, st, qu, k)
<1>1. B = [k \in Boxes |-> E(k)] BY DEF BoxesOf
<1> HIDE DEF B, E
<1>4. DOMAIN B = Boxes /\ B = [k \in Boxes |-> B[k]] BY <1>1
<1>5. \A k \in Boxes : B[k] = E(k) BY <1>1
<1> QED BY <1>4, <1>5 DEF B, E

\* Two ways to fill boxes are the same if each box is.
LEMMA BoxesEqual ==
    ASSUME NEW B, NEW k, NEW s, NEW C, B = [l \in Boxes |-> B[l]], C = [l \in Boxes |-> C[l]],
           k \in Boxes, C[k] = s, \A l \in Boxes \ {k} : C[l] = B[l]
    PROVE  C = Put(B, k, s)
<1>1. DOMAIN B = Boxes OBVIOUS
<1>2. Put(B, k, s) = [l \in Boxes |-> IF l = k THEN s ELSE B[l]] BY <1>1 DEF Put
<1>3. \A l \in Boxes : C[l] = IF l = k THEN s ELSE B[l] OBVIOUS
<1> QED BY <1>2, <1>3

\* Boxes that differ in one box only, in any of the five variables.
LEMMA PutBox ==
    ASSUME NEW ha, NEW fl, NEW sl, NEW st, NEW qu, NEW hb, NEW fm, NEW sm, NEW su, NEW qv,
           NEW k \in Boxes, NEW s, InBox(hb, fm, sm, su, qv, k) = s,
           \A t \in Threads : (k # <<"handle", t>> => hb[t] = ha[t]) /\ (k # <<"flight", t>> => fm[t] = fl[t]),
           \A n \in Nodes : /\ k # <<"slot", n>> => sm[n] = sl[n]
                            /\ k # <<"staging", n>> => su[n] = st[n]
                            /\ k # <<"queue", n>> => qv[n] = qu[n]
    PROVE  BoxesOf(hb, fm, sm, su, qv) = Put(BoxesOf(ha, fl, sl, st, qu), k, s)
<1> DEFINE D(l) == InBox(ha, fl, sl, st, qu, l)
<1> DEFINE E(l) == InBox(hb, fm, sm, su, qv, l)
<1> DEFINE B == BoxesOf(ha, fl, sl, st, qu)
<1> DEFINE C == BoxesOf(hb, fm, sm, su, qv)
<1>1. B = [l \in Boxes |-> B[l]] /\ \A l \in Boxes : B[l] = D(l) BY BoxAt
<1>2. C = [l \in Boxes |-> C[l]] /\ \A l \in Boxes : C[l] = E(l) BY BoxAt
<1>3. C[k] = s BY <1>2
<1>4. ASSUME NEW l \in Boxes \ {k} PROVE D(l) = E(l)
  <2>1. CASE \E x \in Threads : l = <<"handle", x>>
    <3>1. PICK x \in Threads : l = <<"handle", x>> BY <2>1
    <3>2. D(<<"handle", x>>) = ha[x] /\ E(<<"handle", x>>) = hb[x] BY DEF InBox
    <3>3. hb[x] = ha[x] BY <3>1
    <3> QED BY <3>1, <3>2, <3>3
  <2>2. CASE \E x \in Threads : l = <<"flight", x>>
    <3>1. PICK x \in Threads : l = <<"flight", x>> BY <2>2
    <3>2. D(<<"flight", x>>) = fl[x] /\ E(<<"flight", x>>) = fm[x] BY DEF InBox
    <3>3. fm[x] = fl[x] BY <3>1
    <3> QED BY <3>1, <3>2, <3>3
  <2>3. CASE \E x \in Nodes : l = <<"slot", x>>
    <3>1. PICK x \in Nodes : l = <<"slot", x>> BY <2>3
    <3>2. D(<<"slot", x>>) = sl[x] /\ E(<<"slot", x>>) = sm[x] BY DEF InBox
    <3>3. sm[x] = sl[x] BY <3>1
    <3> QED BY <3>1, <3>2, <3>3
  <2>4. CASE \E x \in Nodes : l = <<"staging", x>>
    <3>1. PICK x \in Nodes : l = <<"staging", x>> BY <2>4
    <3>2. D(<<"staging", x>>) = st[x] /\ E(<<"staging", x>>) = su[x] BY DEF InBox
    <3>3. su[x] = st[x] BY <3>1
    <3> QED BY <3>1, <3>2, <3>3
  <2>5. CASE \E x \in Nodes : l = <<"queue", x>>
    <3>1. PICK x \in Nodes : l = <<"queue", x>> BY <2>5
    <3>2. D(<<"queue", x>>) = qu[x] /\ E(<<"queue", x>>) = qv[x] BY DEF InBox
    <3>3. qv[x] = qu[x] BY <3>1
    <3> QED BY <3>1, <3>2, <3>3
  <2> QED BY <2>1, <2>2, <2>3, <2>4, <2>5, BoxKinds
<1> HIDE DEF B, C, D, E
<1>5. C = Put(B, k, s) BY <1>1, <1>2, <1>3, <1>4, BoxesEqual
<1> QED BY <1>5 DEF C, B

\* One box is filled anew.
LEMMA PutHandle ==
    ASSUME NEW ha, NEW fl, NEW sl, NEW st, NEW qu, NEW t \in Threads, NEW s, DOMAIN ha = Threads
    PROVE  BoxesOf(Put(ha, t, s), fl, sl, st, qu) = Put(BoxesOf(ha, fl, sl, st, qu), <<"handle", t>>, s)
<1> DEFINE hb == Put(ha, t, s)
<1>1. hb[t] = s /\ \A x \in Threads : x # t => hb[x] = ha[x] BY DEF Put
<1> HIDE DEF hb
<1>2. InBox(hb, fl, sl, st, qu, <<"handle", t>>) = s BY <1>1 DEF InBox
<1>3. \A x \in Threads : /\ <<"handle", t>> # <<"handle", x>> => hb[x] = ha[x]
                         /\ <<"handle", t>> # <<"flight", x>> => fl[x] = fl[x]
  BY <1>1
<1>5. <<"handle", t>> \in Boxes BY BoxKinds
<1>6. BoxesOf(hb, fl, sl, st, qu) = Put(BoxesOf(ha, fl, sl, st, qu), <<"handle", t>>, s) BY <1>2, <1>3, <1>5, PutBox
<1> QED BY <1>6 DEF hb

\* The same for what is being delivered.
LEMMA PutFlight ==
    ASSUME NEW ha, NEW fl, NEW sl, NEW st, NEW qu, NEW t \in Threads, NEW s, DOMAIN fl = Threads
    PROVE  BoxesOf(ha, Put(fl, t, s), sl, st, qu) = Put(BoxesOf(ha, fl, sl, st, qu), <<"flight", t>>, s)
<1> DEFINE hb == Put(fl, t, s)
<1>1. hb[t] = s /\ \A x \in Threads : x # t => hb[x] = fl[x] BY DEF Put
<1> HIDE DEF hb
<1>2. InBox(ha, hb, sl, st, qu, <<"flight", t>>) = s BY <1>1 DEF InBox
<1>3. \A x \in Threads : /\ <<"flight", t>> # <<"flight", x>> => hb[x] = fl[x]
                         /\ <<"flight", t>> # <<"handle", x>> => ha[x] = ha[x]
  BY <1>1
<1>5. <<"flight", t>> \in Boxes BY BoxKinds
<1>6. BoxesOf(ha, hb, sl, st, qu) = Put(BoxesOf(ha, fl, sl, st, qu), <<"flight", t>>, s) BY <1>2, <1>3, <1>5, PutBox
<1> QED BY <1>6 DEF hb

\* The same for an input slot.
LEMMA PutSlot ==
    ASSUME NEW ha, NEW fl, NEW sl, NEW st, NEW qu, NEW t \in Nodes, NEW s, DOMAIN sl = Nodes
    PROVE  BoxesOf(ha, fl, Put(sl, t, s), st, qu) = Put(BoxesOf(ha, fl, sl, st, qu), <<"slot", t>>, s)
<1> DEFINE hb == Put(sl, t, s)
<1>1. hb[t] = s /\ \A x \in Nodes : x # t => hb[x] = sl[x] BY DEF Put
<1> HIDE DEF hb
<1>2. InBox(ha, fl, hb, st, qu, <<"slot", t>>) = s BY <1>1 DEF InBox
<1>3. \A x \in Nodes : <<"slot", t>> # <<"slot", x>> => hb[x] = sl[x] BY <1>1
<1>5. <<"slot", t>> \in Boxes BY BoxKinds
<1>6. BoxesOf(ha, fl, hb, st, qu) = Put(BoxesOf(ha, fl, sl, st, qu), <<"slot", t>>, s) BY <1>2, <1>3, <1>5, PutBox
<1> QED BY <1>6 DEF hb

\* The same for a staging.
LEMMA PutStaging ==
    ASSUME NEW ha, NEW fl, NEW sl, NEW st, NEW qu, NEW t \in Nodes, NEW s, DOMAIN st = Nodes
    PROVE  BoxesOf(ha, fl, sl, Put(st, t, s), qu) = Put(BoxesOf(ha, fl, sl, st, qu), <<"staging", t>>, s)
<1> DEFINE hb == Put(st, t, s)
<1>1. hb[t] = s /\ \A x \in Nodes : x # t => hb[x] = st[x] BY DEF Put
<1> HIDE DEF hb
<1>2. InBox(ha, fl, sl, hb, qu, <<"staging", t>>) = s BY <1>1 DEF InBox
<1>3. \A x \in Nodes : <<"staging", t>> # <<"staging", x>> => hb[x] = st[x] BY <1>1
<1>5. <<"staging", t>> \in Boxes BY BoxKinds
<1>6. BoxesOf(ha, fl, sl, hb, qu) = Put(BoxesOf(ha, fl, sl, st, qu), <<"staging", t>>, s) BY <1>2, <1>3, <1>5, PutBox
<1> QED BY <1>6 DEF hb

\* The same for a queue.
LEMMA PutQueue ==
    ASSUME NEW ha, NEW fl, NEW sl, NEW st, NEW qu, NEW t \in Nodes, NEW s, DOMAIN qu = Nodes
    PROVE  BoxesOf(ha, fl, sl, st, Put(qu, t, s)) = Put(BoxesOf(ha, fl, sl, st, qu), <<"queue", t>>, s)
<1> DEFINE hb == Put(qu, t, s)
<1>1. hb[t] = s /\ \A x \in Nodes : x # t => hb[x] = qu[x] BY DEF Put
<1> HIDE DEF hb
<1>2. InBox(ha, fl, sl, st, hb, <<"queue", t>>) = s BY <1>1 DEF InBox
<1>3. \A x \in Nodes : <<"queue", t>> # <<"queue", x>> => hb[x] = qu[x] BY <1>1
<1>5. <<"queue", t>> \in Boxes BY BoxKinds
<1>6. BoxesOf(ha, fl, sl, st, hb) = Put(BoxesOf(ha, fl, sl, st, qu), <<"queue", t>>, s) BY <1>2, <1>3, <1>5, PutBox
<1> QED BY <1>6 DEF hb

---------------------------------------------------------------------------
(* Packets that are being made writable.                                   *)

\* The last packet of box k has a body that nobody else refers to.
Sole(h, B, k) == B[k] # <<>> /\ B[k][Len(B[k])].own = Nobody /\ h.body[B[k][Len(B[k])].body].refs = 1
\* The body of r is not that of another packet of the boxes W.
Comes(h, B, W, r) ==
    \/ r.own # Nobody
    \/ h.body[r.body].refs = 0
    \/ \E m \in Boxes \ W : \E j \in DOMAIN B[m] : B[m][j].own = Nobody /\ B[m][j].body = r.body
Good(h, B, G, W) == Sound(h, B, G) /\ W \subseteq Boxes /\ \A k \in W : Sole(h, B, k)

\* A body with one reference keeps it, if what is put into other boxes has
\* other bodies.
LEMMA StaysSole ==
    ASSUME NEW h, NEW B, NEW G, Sound(h, B, G), NEW k \in Boxes, Sole(h, B, k),
           NEW g, NEW C, NEW F, Sound(g, C, F), C[k] = B[k],
           \A l \in Boxes \ {k} : \A j \in DOMAIN C[l] : Comes(h, B, {k}, C[l][j])
    PROVE  Sole(g, C, k)
<1> DEFINE i == Len(B[k])
<1> DEFINE r == B[k][i]
<1> DEFINE b == r.body
<1>0. /\ B \in [Boxes -> Seq(Refs)] /\ C \in [Boxes -> Seq(Refs)]
      /\ Contained(B) /\ Contained(C) /\ Counts(h, B) /\ Counts(g, C)
  BY DEF Sound, Contained
<1>1. B[k] \in Seq(Refs) /\ B[k] # <<>> /\ r.own = Nobody /\ h.body[b].refs = 1 BY <1>0 DEF Sole
<1>2. i \in DOMAIN B[k]
  <2>1. Len(B[k]) \in Nat /\ Len(B[k]) # 0 /\ DOMAIN B[k] = 1 .. Len(B[k]) BY <1>1, EmptySeq, LenProperties
  <2> QED BY <2>1
<1>3. b \in Bodies BY <1>0, <1>1, <1>2, Live
<1> HIDE DEF i
<1>4. Counted(B, Nobody, b) /\ Tally(B, Nobody, b) = 1 BY <1>0, <1>1, <1>3 DEF Contained, Counts
<1>5. ASSUME NEW m \in Boxes, NEW j \in DOMAIN B[m], B[m][j].own = Nobody, B[m][j].body = b
      PROVE  k = m /\ i = j
  <2>1. B[k][i].own = Nobody /\ B[k][i].body = b BY <1>1
  <2> HIDE DEF r, b
  <2>2. <<k, i>> \in PlacesOf(B, Nobody, b) /\ <<m, j>> \in PlacesOf(B, Nobody, b)
    BY <1>2, <1>5, <2>1 DEF PlacesOf, Part, Spots
  <2>3. PICK x : PlacesOf(B, Nobody, b) = {x} BY <1>4, FS_Singleton DEF Counted, Tally
  <2> QED BY <2>2, <2>3
<1>6. ASSUME NEW l \in Boxes, NEW j \in DOMAIN C[l], C[l][j].own = Nobody, C[l][j].body = b
      PROVE  l = k /\ j = i
  <2>1. CASE l = k
    <3>1. j \in DOMAIN B[k] /\ B[k][j].own = Nobody /\ B[k][j].body = b BY <1>6, <2>1
    <3> QED BY <1>5, <2>1, <3>1
  <2>2. CASE l # k
    <3>1. Comes(h, B, {k}, C[l][j]) BY <2>2
    <3>2. \E m \in Boxes \ {k} : \E n \in DOMAIN B[m] : B[m][n].own = Nobody /\ B[m][n].body = b
      BY <1>1, <1>6, <3>1 DEF Comes
    <3> QED BY <1>5, <3>2
  <2> QED BY <2>1, <2>2
<1>7. C[k][i].own = Nobody /\ C[k][i].body = b /\ i \in DOMAIN C[k] BY <1>1, <1>2
<1> HIDE DEF r, b
<1>8. PlacesOf(C, Nobody, b) = {<<k, i>>}
  <2>1. <<k, i>> \in PlacesOf(C, Nobody, b) BY <1>7 DEF PlacesOf, Part, Spots
  <2>2. ASSUME NEW x \in PlacesOf(C, Nobody, b) PROVE x = <<k, i>>
    <3>1. PICK l \in Boxes : x \in Part(l, C[l], Nobody, b) BY DEF PlacesOf
    <3>2. PICK j \in DOMAIN C[l] : x = <<l, j>> /\ C[l][j].own = Nobody /\ C[l][j].body = b
      BY <3>1 DEF Part, Spots
    <3> QED BY <1>6, <3>2
  <2> QED BY <2>1, <2>2
<1>9. Tally(C, Nobody, b) = 1 BY <1>8, FS_Singleton DEF Tally
<1>10. g.body[b].refs = 1 BY <1>0, <1>3, <1>9 DEF Counts
<1>11. C[k][i] = r BY <1>7 DEF r
<1> QED BY <1>1, <1>10, <1>11 DEF Sole, b, r, i

\* Writers stay alone with their packet if a box of somebody else changes and
\* what it then has comes from elsewhere.
LEMMA GoodKept ==
    ASSUME NEW h, NEW B, NEW G, NEW W, Good(h, B, G, W), NEW g, NEW F, NEW a \in Boxes \ W, NEW u,
           Sound(g, Put(B, a, u), F), \A j \in DOMAIN u : Comes(h, B, W, u[j])
    PROVE  Good(g, Put(B, a, u), F, W)
<1> DEFINE C == Put(B, a, u)
<1>1. Sound(h, B, G) /\ W \subseteq Boxes BY DEF Good
<1>2. B \in [Boxes -> Seq(Refs)] BY <1>1 DEF Sound, Contained
<1>3. C[a] = u /\ \A l \in Boxes \ {a} : C[l] = B[l] BY <1>2 DEF Put
<1> HIDE DEF C
<1>4. ASSUME NEW k \in W PROVE Sole(g, C, k)
  <2>1. k \in Boxes /\ k # a /\ Sole(h, B, k) BY <1>1 DEF Good
  <2>2. C[k] = B[k] BY <1>3, <2>1
  <2>3. ASSUME NEW l \in Boxes \ {k}, NEW j \in DOMAIN C[l] PROVE Comes(h, B, {k}, C[l][j])
    <3>1. CASE l = a
      <4>1. Comes(h, B, W, C[l][j]) BY <1>3, <3>1
      <4> QED BY <4>1 DEF Comes
    <3>2. CASE l # a
      <4>1. C[l] = B[l] BY <1>3, <3>2
      <4> QED BY <4>1 DEF Comes
    <3> QED BY <3>1, <3>2
  <2>4. Sound(g, C, F) BY DEF C
  <2> QED BY <1>1, <2>1, <2>2, <2>3, <2>4, StaysSole
<1> QED BY <1>1, <1>4 DEF Good, C

\* The same with the heap alone changed.
LEMMA GoodHeap ==
    ASSUME NEW h, NEW B, NEW G, NEW W, Good(h, B, G, W), NEW g, NEW F, Sound(g, B, F)
    PROVE  Good(g, B, F, W)
<1>1. Sound(h, B, G) /\ W \subseteq Boxes BY DEF Good
<1>2. ASSUME NEW k \in W PROVE Sole(g, B, k)
  <2>1. \A l \in Boxes \ {k} : \A j \in DOMAIN B[l] : Comes(h, B, {k}, B[l][j]) BY DEF Comes
  <2>2. k \in Boxes /\ Sole(h, B, k) BY DEF Good
  <2> QED BY <1>1, <2>1, <2>2, StaysSole
<1> QED BY <1>1, <1>2 DEF Good

\* A packet goes from one box to another.
LEMMA GoodMoved ==
    ASSUME NEW h, NEW B, NEW G, NEW W, Good(h, B, G, W), NEW k \in Boxes \ W, NEW l \in Boxes \ W, NEW u, NEW v,
           Sound(h, Put(Put(B, k, u), l, v), G)
    PROVE  Good(h, Put(Put(B, k, u), l, v), G, W)
<1> DEFINE C == Put(Put(B, k, u), l, v)
<1>1. Sound(h, B, G) /\ W \subseteq Boxes BY DEF Good
<1>2. B \in [Boxes -> Seq(Refs)] BY <1>1 DEF Sound, Contained
<1>3. \A m \in W : C[m] = B[m] BY <1>1, <1>2 DEF Put
<1> HIDE DEF C
<1>4. \A m \in W : Sole(h, C, m) BY <1>3 DEF Sole, Good
<1> QED BY <1>1, <1>4 DEF Good, C

---------------------------------------------------------------------------
(* The operations, beside packets that are being made writable.            *)

\* A reference to a body is dropped.
LEMMA DropGood ==
    ASSUME NEW h, NEW B, NEW G, NEW W, Good(h, B, G, W), NEW k \in Boxes \ W, NEW u, NEW r,
           Removes(B[k], u, r), r.own = Nobody
    PROVE  Good(DropBody(h, r.body), Put(B, k, u), G, W)
<1>1. Sound(h, B, G) /\ k \in Boxes BY DEF Good
<1>2. Sound(DropBody(h, r.body), Put(B, k, u), G) BY <1>1, DropSound
<1>3. \A j \in DOMAIN u : Comes(h, B, W, u[j]) BY DEF Removes, Comes
<1> QED BY <1>2, <1>3, GoodKept

\* An object that was never sent is dropped.
LEMMA DisposeGood ==
    ASSUME NEW h, NEW B, NEW G, NEW W, Good(h, B, G, W), NEW k \in Boxes \ W, NEW u,
           Removes(B[k], u, SelfBuilt)
    PROVE  Good(Dispose(h, Object), Put(B, k, u), G, W)
<1>1. Sound(h, B, G) /\ k \in Boxes BY DEF Good
<1>2. Sound(Dispose(h, Object), Put(B, k, u), G) BY <1>1, DisposeSound
<1>3. \A j \in DOMAIN u : Comes(h, B, W, u[j]) BY DEF Removes, Comes
<1> QED BY <1>2, <1>3, GoodKept

\* A reference is cloned.
LEMMA KeepGood ==
    ASSUME NEW h, NEW B, NEW G, NEW W, Good(h, B, G, W), NEW k \in Boxes \ W, NEW u, NEW r,
           Adds(B[k], u, r), r.own = Nobody, NEW m \in Boxes \ W, NEW i \in DOMAIN B[m], r = B[m][i]
    PROVE  Good(Retain(h, r.body), Put(B, k, u), G, W)
<1>1. Sound(h, B, G) /\ k \in Boxes BY DEF Good
<1>2. Sound(Retain(h, r.body), Put(B, k, u), G) BY <1>1, KeepSound
<1>3. \A j \in DOMAIN u : Comes(h, B, W, u[j]) BY DEF Adds, Comes
<1> QED BY <1>2, <1>3, GoodKept

\* A reference moves from a box to another.
LEMMA MoveGood ==
    ASSUME NEW h, NEW B, NEW G, NEW W, Good(h, B, G, W), NEW k \in Boxes \ W, NEW l \in Boxes \ W, k # l,
           NEW u, NEW v, NEW r, Removes(B[k], u, r), Adds(B[l], v, r)
    PROVE  Good(h, Put(Put(B, k, u), l, v), G, W)
<1>1. Sound(h, B, G) /\ k \in Boxes /\ l \in Boxes BY DEF Good
<1>2. Sound(h, Put(Put(B, k, u), l, v), G) BY <1>1, MoveSound
<1> QED BY <1>2, GoodMoved

\* All that a box has moves to an empty one.
LEMMA MoveAllGood ==
    ASSUME NEW h, NEW B, NEW G, NEW W, Good(h, B, G, W), NEW k \in Boxes \ W, NEW l \in Boxes \ W, k # l,
           B[l] = <<>>
    PROVE  Good(h, Put(Put(B, k, <<>>), l, B[k]), G, W)
<1>1. Sound(h, B, G) /\ k \in Boxes /\ l \in Boxes BY DEF Good
<1>2. Sound(h, Put(Put(B, k, <<>>), l, B[k]), G) BY <1>1, MoveAllSound
<1> QED BY <1>2, GoodMoved

\* A free body, where there is one.
LEMMA FreeOne ==
    ASSUME NEW h, NEW v, FreeBodies(h) # {}
    PROVE  /\ FreeBody(h) \in Bodies /\ h.body[FreeBody(h)].refs = 0
           /\ Ref(FreeBody(h), v).body = FreeBody(h) /\ Ref(FreeBody(h), v).own = Nobody
<1>1. FreeBody(h) \in FreeBodies(h) BY DEF FreeBody
<1> QED BY <1>1 DEF FreeBodies, Ref

\* A packet is made, of a value or of something that was not given yet.
LEMMA NewGood ==
    ASSUME NEW h, NEW B, NEW G, NEW W, Good(h, B, G, W), NEW k \in Boxes \ W, NEW u,
           FreeBodies(h) # {}, FreePayloads(h) # {},
           NEW kind \in Kinds, NEW own \in Owned, NEW copies \in BOOLEAN,
           kind = "foreign" => own = Object, own \in Resources => own \notin G,
           own \in Memory => h.cached[own] = 0 /\ Cardinality(Owners(h, own)) = 0,
           Adds(B[k], u, Ref(FreeBody(h), Fresh))
    PROVE  Good(NewPacket(h, kind, own, copies), Put(B, k, u), G \cup ({own} \cap Resources), W)
<1>1. Sound(h, B, G) /\ k \in Boxes BY DEF Good
<1>2. Sound(NewPacket(h, kind, own, copies), Put(B, k, u), G \cup ({own} \cap Resources)) BY <1>1, NewSound
<1>3. \A j \in DOMAIN u : Comes(h, B, W, u[j]) BY FreeOne DEF Adds, Comes
<1> QED BY <1>2, <1>3, GoodKept

\* The program builds a packet of its object.
LEMMA BuildGood ==
    ASSUME NEW h, NEW B, NEW G, NEW W, Good(h, B, G, W), NEW k \in Boxes \ W, NEW u,
           Object \notin G, Adds(B[k], u, SelfBuilt)
    PROVE  Good(h, Put(B, k, u), G \cup {Object}, W)
<1>1. Sound(h, B, G) /\ k \in Boxes BY DEF Good
<1>2. Sound(h, Put(B, k, u), G \cup {Object}) BY <1>1, BuildSound
<1>3. \A j \in DOMAIN u : Comes(h, B, W, u[j]) BY RefKinds DEF Adds, Comes
<1> QED BY <1>2, <1>3, GoodKept

\* The engine makes a body for an object that was built by hand (take_packet).
LEMMA TakeGood ==
    ASSUME NEW h, NEW B, NEW G, NEW W, Good(h, B, G, W), NEW k \in Boxes \ W, NEW u,
           FreeBodies(h) # {}, FreePayloads(h) # {},
           Replaces(B[k], u, SelfBuilt, Ref(FreeBody(h), Fresh))
    PROVE  Good(NewPacket(h, "foreign", Object, FALSE), Put(B, k, u), G, W)
<1>1. Sound(h, B, G) /\ k \in Boxes BY DEF Good
<1>2. Sound(NewPacket(h, "foreign", Object, FALSE), Put(B, k, u), G) BY <1>1, TakeSound
<1>3. \A j \in DOMAIN u : Comes(h, B, W, u[j]) BY FreeOne DEF Replaces, Comes
<1> QED BY <1>2, <1>3, GoodKept

\* A body of the packet's own (Arc::make_mut).
LEMMA OwnGood ==
    ASSUME NEW h, NEW B, NEW G, NEW W, Good(h, B, G, W), NEW k \in Boxes \ W, NEW u, NEW r,
           r.own = Nobody, FreeBodies(h) # {},
           Replaces(B[k], u, r, [r EXCEPT !.body = OwnedBody(h, r.body)])
    PROVE  /\ Good(OwnBody(h, r.body), Put(B, k, u), G, W)
           /\ r.body \in Bodies /\ OwnedBody(h, r.body) \in Bodies
           /\ OwnBody(h, r.body).body[OwnedBody(h, r.body)].refs = 1
<1>1. Sound(h, B, G) /\ k \in Boxes BY DEF Good
<1>2. /\ Sound(OwnBody(h, r.body), Put(B, k, u), G)
      /\ r.body \in Bodies /\ OwnedBody(h, r.body) \in Bodies
      /\ OwnBody(h, r.body).body[OwnedBody(h, r.body)].refs = 1
  BY <1>1, OwnSound
<1> DEFINE c == OwnedBody(h, r.body)
<1> DEFINE q == [r EXCEPT !.body = c]
<1>3. PICK j \in DOMAIN B[k] : r = B[k][j] BY DEF Replaces
<1>4. r \in EngineRef BY <1>1, <1>3, Live DEF Sound
<1>5. q.own = Nobody /\ q.body = c BY <1>4 DEF EngineRef
<1>6. c = r.body \/ h.body[c].refs = 0 BY FreeOne DEF OwnedBody
<1> HIDE DEF c
<1>7. Comes(h, B, W, q) BY <1>3, <1>5, <1>6 DEF Comes
<1> HIDE DEF q
<1>8. Replaces(B[k], u, r, q) BY DEF q, c
<1>9. \A i \in DOMAIN u : Comes(h, B, W, u[i]) BY <1>7, <1>8 DEF Replaces, Comes
<1> QED BY <1>2, <1>9, GoodKept

\* Metadata is written in a body that nobody else refers to.
LEMMA MetaGood ==
    ASSUME NEW h, NEW B, NEW G, NEW W, Good(h, B, G, W), NEW k \in Boxes \ W, NEW u, NEW r,
           r.own = Nobody, h.body[r.body].refs = 1,
           Replaces(B[k], u, r, [r EXCEPT !.value.meta = @ + 1])
    PROVE  Good([h EXCEPT !.body[r.body].meta = @ + 1], Put(B, k, u), G, W)
<1>1. Sound(h, B, G) /\ k \in Boxes BY DEF Good
<1>2. Sound([h EXCEPT !.body[r.body].meta = @ + 1], Put(B, k, u), G) BY <1>1, MetaSound
<1> DEFINE q == [r EXCEPT !.value.meta = @ + 1]
<1>3. PICK j \in DOMAIN B[k] : r = B[k][j] BY DEF Replaces
<1>4. r \in EngineRef BY <1>1, <1>3, Live DEF Sound
<1>5. q.own = Nobody /\ q.body = r.body BY <1>4 DEF EngineRef
<1> HIDE DEF q
<1>7. Comes(h, B, W, q) BY <1>3, <1>5 DEF Comes
<1>8. Replaces(B[k], u, r, q) BY DEF q
<1>9. \A i \in DOMAIN u : Comes(h, B, W, u[i]) BY SMTT(30), <1>7, <1>8 DEF Replaces, Comes
<1> QED BY <1>2, <1>9, GoodKept

\* Content is written in a payload that nobody else refers to, through a body that
\* nobody else refers to.
LEMMA WriteGood ==
    ASSUME NEW h, NEW B, NEW G, NEW W, Good(h, B, G, W), NEW k \in Boxes \ W, NEW u, NEW r,
           r.own = Nobody, h.body[r.body].refs = 1, h.payload[h.body[r.body].payload].refs = 1,
           Replaces(B[k], u, r, [r EXCEPT !.value.content = @ + 1])
    PROVE  Good([h EXCEPT !.payload[h.body[r.body].payload].content = @ + 1], Put(B, k, u), G, W)
<1>1. Sound(h, B, G) /\ k \in Boxes BY SMTT(30) DEF Good
<1>2. Sound([h EXCEPT !.payload[h.body[r.body].payload].content = @ + 1], Put(B, k, u), G) BY Zenon, <1>1, WriteSound
<1> DEFINE q == [r EXCEPT !.value.content = @ + 1]
<1>3. PICK j \in DOMAIN B[k] : r = B[k][j] BY SMTT(30) DEF Replaces
<1>4. r \in EngineRef BY <1>1, <1>3, Live DEF Sound
<1>5. q.own = Nobody /\ q.body = r.body BY SMTT(30), <1>4 DEF EngineRef
<1> HIDE DEF q
<1>7. Comes(h, B, W, q) BY <1>3, <1>5 DEF Comes
<1>8. Replaces(B[k], u, r, q) BY SMTT(30) DEF q
<1>9. \A i \in DOMAIN u : Comes(h, B, W, u[i]) BY <1>7, <1>8 DEF Replaces, Comes
<1> QED BY Zenon, <1>2, <1>9, GoodKept

\* A batch is queued for one more consumer.
LEMMA RetainAllGood ==
    ASSUME NEW h, NEW B, NEW G, NEW W, Good(h, B, G, W), NEW k \in Boxes \ W, NEW l \in Boxes \ W,
           \A i \in DOMAIN B[l] : B[l][i].own = Nobody
    PROVE  Good(RetainAll(h, B[l]), Put(B, k, B[k] \o B[l]), G, W)
<1>1. Sound(h, B, G) /\ k \in Boxes /\ l \in Boxes BY DEF Good
<1>2. Sound(RetainAll(h, B[l]), Put(B, k, B[k] \o B[l]), G) BY <1>1, RetainAllSound
<1> DEFINE u == B[k] \o B[l]
<1>3. B[k] \in Seq(Refs) /\ B[l] \in Seq(Refs) BY <1>1 DEF Sound, Contained
<1>4. \A i \in DOMAIN u : (\E j \in DOMAIN B[k] : u[i] = B[k][j]) \/ \E j \in DOMAIN B[l] : u[i] = B[l][j]
  BY <1>3, ConcatSpots
<1> HIDE DEF u
<1>5. \A j \in DOMAIN u : Comes(h, B, W, u[j]) BY <1>4 DEF Comes
<1> QED BY <1>2, <1>5, GoodKept DEF u

---------------------------------------------------------------------------
(* The invariant.                                                          *)

Labels == {"describe", "build", "run", "payload", "deliver", "idle", "ready", "done", "failed", "discard"}

FrameOK ==
    /\ source \in Descriptors \cup {Nobody} /\ consumers \in SUBSET Consumers /\ registered \in BOOLEAN
    /\ given \in SUBSET Resources /\ spoilt \in SUBSET Nodes
    /\ targets \in [Threads -> SUBSET Nodes] /\ pc \in [Threads -> Labels] /\ stopped \in BOOLEAN
    /\ cloned \in SUBSET Payloads
    /\ budget \in [packets : Int, buffers : Int, clones : Int, changes : Int, faults : Int]
BoxesOK ==
    /\ handle \in [Threads -> Seq(Refs)] /\ flight \in [Threads -> Seq(EngineRef)]
    /\ slot \in [Nodes -> Seq(EngineRef)] /\ staging \in [Nodes -> Seq(EngineRef)] /\ queue \in [Nodes -> Seq(EngineRef)]
TypeOK == FrameOK /\ BoxesOK /\ heap \in HeapType

\* A send or a flush has something to deliver, an invocation at most one
\* input, and none once it is over; what is discarded is there.
ShapeOK ==
    /\ \A t \in Threads : At(t, "deliver") <=> flight[t] # <<>>
    /\ \A n \in Nodes : /\ Len(slot[n]) <= 1
                        /\ pc[n] \in {"idle", "deliver"} => slot[n] = <<>>
                        /\ At(n, "discard") => staging[n] # <<>>
    /\ At(Host, "describe") => Adopted \notin given

\* The handles of the threads that are making a packet writable, but t.
Writers == {w \in Threads : At(w, "payload")}
Others(t) == {<<"handle", w>> : w \in Writers \ {t}}

PInv ==
    /\ TypeOK /\ ShapeOK
    /\ Good(heap, Contents, given, {<<"handle", w>> : w \in Writers})

\* A thread's own step starts from what it need not keep for itself.
LEMMA GoodBefore ==
    ASSUME PInv, NEW t
    PROVE  Good(heap, Contents, given, Others(t))
BY DEF PInv, Others, Good

\* No box but the handles of another writer is out of bounds.
LEMMA Mine ==
    ASSUME NEW t \in Threads
    PROVE  /\ <<"handle", t>> \in Boxes \ Others(t)
           /\ \A x \in Threads : <<"flight", x>> \in Boxes \ Others(t)
           /\ \A n \in Nodes : /\ <<"slot", n>> \in Boxes \ Others(t) /\ <<"staging", n>> \in Boxes \ Others(t)
                               /\ <<"queue", n>> \in Boxes \ Others(t)
BY DEF Boxes, Others, Threads

\* What each kind of box has.
LEMMA ContentsAt ==
    /\ \A t \in Threads : Contents[<<"handle", t>>] = handle[t] /\ Contents[<<"flight", t>>] = flight[t]
    /\ \A n \in Nodes : /\ Contents[<<"slot", n>>] = slot[n] /\ Contents[<<"staging", n>>] = staging[n]
                        /\ Contents[<<"queue", n>>] = queue[n]
<1>1. ASSUME NEW t \in Threads PROVE Contents[<<"handle", t>>] = handle[t] /\ Contents[<<"flight", t>>] = flight[t]
  BY BoxKinds DEF Contents
<1>2. ASSUME NEW n \in Nodes
      PROVE  /\ Contents[<<"slot", n>>] = slot[n] /\ Contents[<<"staging", n>>] = staging[n]
             /\ Contents[<<"queue", n>>] = queue[n]
  BY BoxKinds DEF Contents
<1> QED BY <1>1, <1>2

\* One variable changes, for one thread or node.
LEMMA HandleChanges ==
    ASSUME BoxesOK, NEW t \in Threads, NEW u, handle' = Put(handle, t, u), UNCHANGED <<nodes, delivery>>
    PROVE  Contents' = Put(Contents, <<"handle", t>>, u)
<1>1. DOMAIN handle = Threads BY DEF BoxesOK
<1>2. Contents' = BoxesOf(Put(handle, t, u), flight, slot, staging, queue)
  BY ContentsBoxes DEF nodes, delivery
<1>3. Contents = BoxesOf(handle, flight, slot, staging, queue) BY ContentsBoxes
<1>4. BoxesOf(Put(handle, t, u), flight, slot, staging, queue) = Put(BoxesOf(handle, flight, slot, staging, queue), <<"handle", t>>, u)
  BY <1>1, PutHandle
<1> QED BY <1>2, <1>3, <1>4

\* The same for a staging.
LEMMA StagingChanges ==
    ASSUME BoxesOK, NEW t \in Nodes, NEW u, staging' = Put(staging, t, u),
           UNCHANGED <<handle, slot, queue, delivery>>
    PROVE  Contents' = Put(Contents, <<"staging", t>>, u)
<1>1. DOMAIN staging = Nodes BY DEF BoxesOK
<1>2. Contents' = BoxesOf(handle, flight, slot, Put(staging, t, u), queue)
  BY ContentsBoxes DEF delivery
<1>3. Contents = BoxesOf(handle, flight, slot, staging, queue) BY ContentsBoxes
<1>4. BoxesOf(handle, flight, slot, Put(staging, t, u), queue) = Put(BoxesOf(handle, flight, slot, staging, queue), <<"staging", t>>, u)
  BY <1>1, PutStaging
<1> QED BY <1>2, <1>3, <1>4

\* The same for an input slot.
LEMMA SlotChanges ==
    ASSUME BoxesOK, NEW t \in Nodes, NEW u, slot' = Put(slot, t, u),
           UNCHANGED <<handle, staging, queue, delivery>>
    PROVE  Contents' = Put(Contents, <<"slot", t>>, u)
<1>1. DOMAIN slot = Nodes BY DEF BoxesOK
<1>2. Contents' = BoxesOf(handle, flight, Put(slot, t, u), staging, queue)
  BY ContentsBoxes DEF delivery
<1>3. Contents = BoxesOf(handle, flight, slot, staging, queue) BY ContentsBoxes
<1>4. BoxesOf(handle, flight, Put(slot, t, u), staging, queue) = Put(BoxesOf(handle, flight, slot, staging, queue), <<"slot", t>>, u)
  BY <1>1, PutSlot
<1> QED BY <1>2, <1>3, <1>4

\* The same for a queue.
LEMMA QueueChanges ==
    ASSUME BoxesOK, NEW t \in Nodes, NEW u, queue' = Put(queue, t, u),
           UNCHANGED <<handle, slot, staging, flight>>
    PROVE  Contents' = Put(Contents, <<"queue", t>>, u)
<1>1. DOMAIN queue = Nodes BY DEF BoxesOK
<1>2. Contents' = BoxesOf(handle, flight, slot, staging, Put(queue, t, u))
  BY ContentsBoxes
<1>3. Contents = BoxesOf(handle, flight, slot, staging, queue) BY ContentsBoxes
<1>4. BoxesOf(handle, flight, slot, staging, Put(queue, t, u)) = Put(BoxesOf(handle, flight, slot, staging, queue), <<"queue", t>>, u)
  BY <1>1, PutQueue
<1> QED BY <1>2, <1>3, <1>4

\* The same for what is being delivered.
LEMMA FlightChanges ==
    ASSUME BoxesOK, NEW t \in Threads, NEW u, flight' = Put(flight, t, u),
           UNCHANGED <<handle, slot, staging, queue>>
    PROVE  Contents' = Put(Contents, <<"flight", t>>, u)
<1>1. DOMAIN flight = Threads BY DEF BoxesOK
<1>2. Contents' = BoxesOf(handle, Put(flight, t, u), slot, staging, queue)
  BY ContentsBoxes
<1>3. Contents = BoxesOf(handle, flight, slot, staging, queue) BY ContentsBoxes
<1>4. BoxesOf(handle, Put(flight, t, u), slot, staging, queue) = Put(BoxesOf(handle, flight, slot, staging, queue), <<"flight", t>>, u)
  BY <1>1, PutFlight
<1> QED BY <1>2, <1>3, <1>4

\* No variable with packets changes.
LEMMA NothingChanges ==
    ASSUME UNCHANGED <<handle, nodes, delivery>>
    PROVE  Contents' = Contents
BY ContentsBoxes DEF nodes, delivery

\* The packet on top.
LEMMA OnTop ==
    ASSUME BoxesOK, NEW t \in Threads, Owns(t)
    PROVE  /\ Removes(handle[t], SubSeq(handle[t], 1, Len(handle[t]) - 1), Top(t)) /\ Top(t) \in Refs
           /\ Len(handle[t]) \in DOMAIN handle[t]
           /\ Engine(t) => Top(t) \in EngineRef /\ Top(t).own = Nobody
           /\ ~Engine(t) => Top(t) = SelfBuilt
           /\ SubSeq(handle[t], 1, Len(handle[t]) - 1) \in Seq(Refs)
<1> DEFINE s == handle[t]
<1>1. s \in Seq(Refs) /\ s # <<>> BY DEF BoxesOK, Owns
<1>2. Removes(s, SubSeq(s, 1, Len(s) - 1), s[Len(s)]) /\ s[Len(s)] \in Refs BY <1>1, FrontRemoves
<1>3. Len(s) \in DOMAIN s
  <2>1. Len(s) \in Nat /\ Len(s) # 0 /\ DOMAIN s = 1 .. Len(s) BY <1>1, EmptySeq, LenProperties
  <2> QED BY <2>1
<1> HIDE DEF s
<1>4. Top(t) = s[Len(s)] BY DEF Top, s
<1>5. /\ Engine(t) => Top(t) \in EngineRef /\ Top(t).own = Nobody
      /\ ~Engine(t) => Top(t) = SelfBuilt
  BY <1>2, <1>4, RefKinds DEF Engine
<1>6. SubSeq(s, 1, Len(s) - 1) \in Seq(Refs) BY <1>2 DEF Removes
<1> QED BY <1>2, <1>3, <1>4, <1>5, <1>6 DEF s

---------------------------------------------------------------------------
(* The handles of a thread.                                                *)

\* What a step of thread t must keep.
After(t) == Good(heap', Contents', given', Others(t)) /\ BoxesOK'
Hand(t) == <<"handle", t>>

\* The boxes keep their types when the handles of a thread change.
LEMMA HandleTyped ==
    ASSUME BoxesOK, NEW t \in Threads, NEW u \in Seq(Refs), handle' = Put(handle, t, u), UNCHANGED <<nodes, delivery>>
    PROVE  BoxesOK'
BY DEF BoxesOK, Put, nodes, delivery

\* Push, as a change of boxes.
LEMMA Pushing ==
    ASSUME BoxesOK, NEW t \in Threads, NEW r \in Refs, Push(t, r), UNCHANGED <<nodes, delivery>>
    PROVE  BoxesOK' /\ \E u : Contents' = Put(Contents, Hand(t), u) /\ Adds(Contents[Hand(t)], u, r)
<1> DEFINE u == Append(handle[t], r)
<1>1. handle' = Put(handle, t, u) BY DEF Push, Put
<1>2. handle[t] \in Seq(Refs) BY DEF BoxesOK
<1>3. u \in Seq(Refs) /\ Adds(handle[t], u, r) BY <1>2, AppendAdds, AppendProperties
<1> HIDE DEF u
<1>4. BoxesOK' BY <1>1, <1>3, HandleTyped
<1>5. Contents' = Put(Contents, Hand(t), u) BY <1>1, HandleChanges DEF Hand
<1>6. Contents[Hand(t)] = handle[t] BY ContentsAt DEF Hand
<1> QED BY <1>3, <1>4, <1>5, <1>6

\* Pop, as a change of boxes.
LEMMA Popping ==
    ASSUME BoxesOK, NEW t \in Threads, Owns(t), Pop(t), UNCHANGED <<nodes, delivery>>
    PROVE  BoxesOK' /\ \E u : Contents' = Put(Contents, Hand(t), u) /\ Removes(Contents[Hand(t)], u, Top(t))
<1> DEFINE u == SubSeq(handle[t], 1, Len(handle[t]) - 1)
<1>1. handle' = Put(handle, t, u) BY DEF Pop, Put
<1>3. u \in Seq(Refs) /\ Removes(handle[t], u, Top(t)) BY OnTop
<1> HIDE DEF u
<1>4. BoxesOK' BY <1>1, <1>3, HandleTyped
<1>5. Contents' = Put(Contents, Hand(t), u) BY <1>1, HandleChanges DEF Hand
<1>6. Contents[Hand(t)] = handle[t] BY ContentsAt DEF Hand
<1> QED BY <1>3, <1>4, <1>5, <1>6

\* SetTop, as a change of boxes.
LEMMA SettingTop ==
    ASSUME BoxesOK, NEW t \in Threads, Owns(t), NEW q \in Refs, SetTop(t, q), UNCHANGED <<nodes, delivery>>
    PROVE  /\ BoxesOK' /\ Owns(t)' /\ Top(t)' = q
           /\ \E u : Contents' = Put(Contents, Hand(t), u) /\ Replaces(Contents[Hand(t)], u, Top(t), q)
<1> DEFINE s == handle[t]
<1> DEFINE u == [s EXCEPT ![Len(s)] = q]
<1>1. handle' = Put(handle, t, u) BY DEF SetTop, Put
<1>2. s \in Seq(Refs) /\ s # <<>> /\ handle \in [Threads -> Seq(Refs)] BY DEF BoxesOK, Owns
<1>3. Replaces(s, u, Top(t), q) BY <1>2, LastReplaces DEF Top
<1>4. u \in Seq(Refs) BY <1>3 DEF Replaces
<1>5. Len(u) = Len(s) /\ u[Len(s)] = q /\ u # <<>>
  <2>1. Len(s) \in Nat /\ Len(s) # 0 /\ DOMAIN s = 1 .. Len(s) BY <1>2, EmptySeq, LenProperties
  <2>2. DOMAIN u = DOMAIN s BY <1>2
  <2>3. Len(u) \in Nat /\ DOMAIN u = 1 .. Len(u) BY <1>4, LenProperties
  <2>4. Len(u) = Len(s) BY <2>1, <2>2, <2>3
  <2> QED BY <1>4, <2>1, <2>4, EmptySeq
<1>6. handle'[t] = u BY <1>1, <1>2 DEF Put
<1> HIDE DEF u
<1>7. Owns(t)' /\ Top(t)' = q BY <1>5, <1>6 DEF Owns, Top
<1>8. BoxesOK' BY <1>1, <1>4, HandleTyped
<1>9. Contents' = Put(Contents, Hand(t), u) BY <1>1, HandleChanges DEF Hand
<1>10. Contents[Hand(t)] = handle[t] BY ContentsAt DEF Hand
<1> QED BY <1>3, <1>7, <1>8, <1>9, <1>10

\* What a step of thread t may rely on.
LEMMA Fits ==
    ASSUME PInv, NEW t \in Threads
    PROVE  /\ BoxesOK /\ Good(heap, Contents, given, Others(t)) /\ Hand(t) \in Boxes \ Others(t)
           /\ Sound(heap, Contents, given) /\ Contents[Hand(t)] = handle[t] /\ HeapOK(heap, 0) /\ heap \in HeapType
BY GoodBefore, Mine, ContentsAt DEF PInv, TypeOK, Hand, Good, Sound, HeapOK

\* The reference to a new packet has its type.
LEMMA FreshTyped ==
    ASSUME NEW h, FreeBodies(h) # {}
    PROVE  Ref(FreeBody(h), Fresh) \in Refs /\ FreeBody(h) \in Bodies
<1>1. FreeBody(h) \in Bodies /\ Fresh \in Values BY FreeOne DEF Fresh, Values
<1> QED BY <1>1, RefTyped, RefKinds

\* A new packet on top.
LEMMA NewOnTop ==
    ASSUME PInv, Room, NEW t \in Threads, NEW h, Good(h, Contents, given, Others(t)), h.body = heap.body, h.payload = heap.payload,
           NEW kind \in Kinds, NEW own \in Owned, NEW copies \in BOOLEAN,
           kind = "foreign" => own = Object, own \in Resources => own \notin given,
           own \in Memory => h.cached[own] = 0 /\ Cardinality(Owners(h, own)) = 0,
           heap' = NewPacket(h, kind, own, copies), Push(t, Ref(FreeBody(heap), Fresh)), UNCHANGED <<nodes, delivery>>,
           given' = given \cup ({own} \cap Resources)
    PROVE  After(t)
<1>1. FreeBodies(h) = FreeBodies(heap) /\ FreePayloads(h) = FreePayloads(heap) BY DEF FreeBodies, FreePayloads
<1>2. FreeBody(h) = FreeBody(heap) BY <1>1 DEF FreeBody
<1>3. FreeBodies(h) # {} /\ FreePayloads(h) # {} BY <1>1 DEF Room
<1>4. Ref(FreeBody(heap), Fresh) \in Refs BY FreshTyped DEF Room
<1>5. PICK u : /\ BoxesOK' /\ Contents' = Put(Contents, Hand(t), u)
               /\ Adds(Contents[Hand(t)], u, Ref(FreeBody(h), Fresh))
  BY <1>2, <1>4, Fits, Pushing
<1>6. Hand(t) \in Boxes \ Others(t) BY Fits
<1>7. Good(NewPacket(h, kind, own, copies), Put(Contents, Hand(t), u), given \cup ({own} \cap Resources), Others(t))
  BY <1>3, <1>5, <1>6, NewGood
<1> QED BY <1>5, <1>7 DEF After

\* The same for a packet that is not of pooled memory.
LEMMA NewHandleGood ==
    ASSUME PInv, Room, NEW t \in Threads,
           NEW kind \in Kinds, NEW own \in Owned, NEW copies \in BOOLEAN,
           kind = "foreign" => own = Object, own \in Resources => own \notin given, own \notin Memory,
           NewHandle(t, kind, own, copies), UNCHANGED <<nodes, delivery>>,
           given' = given \cup ({own} \cap Resources)
    PROVE  After(t)
<1>1. Good(heap, Contents, given, Others(t)) BY Fits
<1> QED BY <1>1, NewOnTop DEF NewHandle

\* The names of threads, owners and kinds are told apart.
LEMMA Names ==
    /\ Nobody \in Owned /\ Nobody \notin Resources /\ Nobody \notin Memory /\ Resources \subseteq Owned /\ Memory \subseteq Owned
    /\ Adopted \in Resources /\ Object \in Resources /\ Resources \cap Memory = {} /\ Adopted # Object
    /\ {Nobody} \cap Resources = {} /\ {Adopted} \cap Resources = {Adopted} /\ {Object} \cap Resources = {Object}
    /\ "builtin" \in Kinds /\ "external" \in Kinds /\ "readonly" \in Kinds /\ "foreign" \in Kinds
    /\ Host \in Threads /\ Nodes \subseteq Threads /\ TRUE \in BOOLEAN /\ FALSE \in BOOLEAN
BY PacketsAssumption DEF Owned, Resources, Kinds, Threads

\* Nothing that packets are in changes.
LEMMA StillGood ==
    ASSUME PInv, NEW t \in Threads, UNCHANGED <<heap, given, handle, slot, staging, queue, delivery>>
    PROVE  After(t)
<1>1. Contents' = Contents BY ContentsBoxes DEF delivery
<1>2. BoxesOK' BY Fits DEF BoxesOK, delivery
<1> QED BY <1>1, <1>2, Fits DEF After

---------------------------------------------------------------------------
(* Making packets.                                                         *)

\* lmflow_packet_from_bytes: a fresh packet on top, everything else as it was.
LEMMA MakeBuiltinGood ==
    ASSUME PInv, Room, NEW t \in Threads, MakeBuiltin(t)
    PROVE  After(t)
<1>1. given' = given \cup ({Nobody} \cap Resources) BY Names DEF MakeBuiltin
<1>2. NewHandle(t, "builtin", Nobody, TRUE) /\ UNCHANGED <<nodes, delivery>> BY DEF MakeBuiltin
<1> QED BY <1>1, <1>2, Names, NewHandleGood

\* lmflow_packet_from_buffer: a copy on top, or nothing.
LEMMA CopyBufferGood ==
    ASSUME PInv, Room, CopyBuffer
    PROVE  After(Host)
<1>1. CASE NewHandle(Host, "builtin", Nobody, TRUE)
  <2>1. given' = given \cup ({Nobody} \cap Resources) /\ UNCHANGED <<nodes, delivery>> BY Names DEF CopyBuffer
  <2> QED BY <1>1, <2>1, Names, NewHandleGood
<1>2. CASE UNCHANGED <<heap, handle>>
  BY <1>2, Names, StillGood DEF CopyBuffer, nodes
<1> QED BY <1>1, <1>2 DEF CopyBuffer

\* lmflow_packet_adopt_buffer: the host's buffer changes hands, or not.
LEMMA AdoptBufferGood ==
    ASSUME PInv, Room, AdoptBuffer
    PROVE  After(Host)
<1>1. CASE Buffer!Accepted(source)
  <2> DEFINE kind == IF source.readonly THEN "readonly" ELSE "external"
  <2> DEFINE copies == Buffer!LaysOut(source.shape, source.element)
  <2>1. /\ NewHandle(Host, kind, Adopted, copies) /\ given' = given \cup {Adopted}
        /\ UNCHANGED <<nodes, delivery>> /\ At(Host, "describe")
    BY <1>1 DEF AdoptBuffer
  <2>2. Adopted \notin given BY <2>1 DEF PInv, ShapeOK
  <2>3. copies \in BOOLEAN BY DEF Buffer!LaysOut
  <2>4. kind \in Kinds /\ kind # "foreign" BY DEF Kinds
  <2> HIDE DEF kind, copies
  <2>5. given' = given \cup ({Adopted} \cap Resources) BY <2>1, Names
  <2>6. Adopted \in Owned /\ Adopted \notin Memory /\ Host \in Threads BY Names
  <2> QED BY <2>1, <2>2, <2>3, <2>4, <2>5, <2>6, NewHandleGood
<1>2. CASE ~Buffer!Accepted(source)
  BY <1>2, Names, StillGood DEF AdoptBuffer, nodes
<1> QED BY <1>1, <1>2

\* lmflow_packet_new_buffer: memory that is pooled or nobody's.
LEMMA NewBufferGood ==
    ASSUME PInv, Room, NEW n \in Nodes, NewBuffer(n)
    PROVE  After(n)
<1>1. PICK m \in Memory : Available(m) /\ heap' = NewPacket(Allocated(m), "external", m, TRUE) BY DEF NewBuffer
<1> DEFINE h == Allocated(m)
<1>0. n \in Threads BY Names
<1>2. Good(heap, Contents, given, Others(n)) /\ Sound(heap, Contents, given) /\ HeapOK(heap, 0) BY <1>0, Fits
<1>3. /\ Good(h, Contents, given, Others(n)) /\ h.body = heap.body /\ h.payload = heap.payload
      /\ h.cached[m] = 0 /\ Cardinality(Owners(h, m)) = 0
  <2>1. CASE heap.cached[m] > 0
    <3>1. h = FromPool(heap, m) BY <2>1 DEF Allocated
    <3> HIDE DEF h
    <3>2. /\ Sound(h, Contents, given) /\ h.body = heap.body /\ h.payload = heap.payload
          /\ h.cached[m] = 0 /\ Cardinality(Owners(h, m)) = 0
      BY <1>2, <2>1, <3>1, FromPoolSound
    <3> QED BY <1>2, <3>2, GoodHeap
  <2>2. CASE ~(heap.cached[m] > 0)
    <3>1. h = heap BY <2>2 DEF Allocated
    <3>2. Owners(heap, m) = {} BY <1>1, <2>2 DEF Available, Owners
    <3>3. heap.cached[m] \in Nat BY <1>2, HeapParts DEF HeapOK
    <3>4. heap.cached[m] = 0 BY <2>2, <3>3
    <3> QED BY <1>2, <3>1, <3>2, <3>4, FS_EmptySet
  <2> QED BY <2>1, <2>2
<1>4. given' = given \cup ({m} \cap Resources) BY Names DEF NewBuffer
<1>5. Push(n, Ref(FreeBody(heap), Fresh)) /\ UNCHANGED <<nodes, delivery>> BY DEF NewBuffer
<1>6. m \in Owned /\ m \notin Resources BY Names
<1> HIDE DEF h
<1>7. heap' = NewPacket(h, "external", m, TRUE) BY <1>1 DEF h
<1> QED BY <1>0, <1>3, <1>4, <1>5, <1>6, <1>7, Names, NewOnTop

\* The program's own object changes hands without a body.
LEMMA BuildPacketGood ==
    ASSUME PInv, NEW t \in Threads, BuildPacket(t)
    PROVE  After(t)
<1>1. SelfBuilt \in Refs /\ Object \notin given BY RefKinds DEF BuildPacket
<1>2. PICK u : BoxesOK' /\ Contents' = Put(Contents, Hand(t), u) /\ Adds(Contents[Hand(t)], u, SelfBuilt)
  BY <1>1, Fits, Pushing DEF BuildPacket
<1>3. Good(heap, Put(Contents, Hand(t), u), given \cup {Object}, Others(t)) BY <1>1, <1>2, Fits, BuildGood
<1> QED BY <1>2, <1>3 DEF After, BuildPacket

\* Packet::new_interop: the object in a body.
LEMMA NewInteropGood ==
    ASSUME PInv, Room, NEW t \in Threads, NewInterop(t)
    PROVE  After(t)
<1>1. given' = given \cup ({Object} \cap Resources) BY Names DEF NewInterop
<1>2. /\ NewHandle(t, "foreign", Object, FALSE) /\ UNCHANGED <<nodes, delivery>> /\ Object \notin given
  BY DEF NewInterop
<1> QED BY <1>1, <1>2, Names, NewHandleGood

---------------------------------------------------------------------------
(* Operations on a packet.                                                 *)

\* lmflow_packet_clone.
LEMMA CloneGood ==
    ASSUME PInv, NEW t \in Threads, Clone(t)
    PROVE  After(t)
<1> DEFINE r == Top(t)
<1>1. Owns(t) /\ Engine(t) BY DEF Clone, Engine
<1>2. r \in Refs /\ r.own = Nobody /\ Len(handle[t]) \in DOMAIN handle[t] BY <1>1, Fits, OnTop
<1>3. r = handle[t][Len(handle[t])] BY DEF Top
<1> HIDE DEF r
<1>4. Push(t, r) /\ UNCHANGED <<nodes, delivery>> /\ heap' = Retain(heap, r.body) /\ given' = given BY DEF r, Clone
<1>5. PICK u : BoxesOK' /\ Contents' = Put(Contents, Hand(t), u) /\ Adds(Contents[Hand(t)], u, r)
  BY <1>2, <1>4, Fits, Pushing
<1>6. Contents[Hand(t)] = handle[t] /\ Hand(t) \in Boxes \ Others(t) /\ Good(heap, Contents, given, Others(t)) BY Fits
<1>7. Good(Retain(heap, r.body), Put(Contents, Hand(t), u), given, Others(t))
  BY <1>2, <1>3, <1>5, <1>6, KeepGood
<1> QED BY <1>4, <1>5, <1>7 DEF After

\* lmflow_packet_drop.
LEMMA DropPacketGood ==
    ASSUME PInv, NEW t \in Threads, Drop(t)
    PROVE  After(t)
<1> DEFINE r == Top(t)
<1>1. Owns(t) /\ Pop(t) /\ UNCHANGED <<given, nodes, delivery>> BY DEF Drop
<1>2. /\ Engine(t) => r.own = Nobody
      /\ ~Engine(t) => r = SelfBuilt
  BY <1>1, Fits, OnTop
<1>3. PICK u : BoxesOK' /\ Contents' = Put(Contents, Hand(t), u) /\ Removes(Contents[Hand(t)], u, r)
  BY <1>1, Fits, Popping
<1>4. Hand(t) \in Boxes \ Others(t) /\ Good(heap, Contents, given, Others(t)) BY Fits
<1>5. CASE Engine(t)
  <2>1. heap' = DropBody(heap, r.body) BY <1>5 DEF Drop
  <2> HIDE DEF r
  <2>2. Good(DropBody(heap, r.body), Put(Contents, Hand(t), u), given, Others(t))
    BY <1>2, <1>3, <1>4, <1>5, DropGood
  <2> QED BY <1>1, <1>3, <2>1, <2>2 DEF After
<1>6. CASE ~Engine(t)
  <2>1. heap' = Dispose(heap, Object) BY <1>2, <1>6, RefKinds DEF Drop
  <2> HIDE DEF r
  <2>2. Good(Dispose(heap, Object), Put(Contents, Hand(t), u), given, Others(t))
    BY <1>2, <1>3, <1>4, <1>6, DisposeGood
  <2> QED BY <1>1, <1>3, <2>1, <2>2 DEF After
<1> QED BY <1>5, <1>6

\* A body of the packet's own.
LEMMA OwningTop ==
    ASSUME PInv, NEW t \in Threads, Engine(t), Room, NEW h, NEW u,
           LET r == Top(t) IN Replaces(Contents[Hand(t)], u, r, [r EXCEPT !.body = OwnedBody(heap, r.body)])
    PROVE  /\ Good(OwnBody(heap, Top(t).body), Put(Contents, Hand(t), u), given, Others(t))
           /\ Top(t).body \in Bodies /\ OwnedBody(heap, Top(t).body) \in Bodies
           /\ OwnBody(heap, Top(t).body).body[OwnedBody(heap, Top(t).body)].refs = 1
<1>1. PICK r : r = Top(t) OBVIOUS
<1>2. r.own = Nobody BY <1>1 DEF Engine
<1>3. Replaces(Contents[Hand(t)], u, r, [r EXCEPT !.body = OwnedBody(heap, r.body)]) BY <1>1
<1>4. FreeBodies(heap) # {} BY DEF Room
<1>5. /\ Good(OwnBody(heap, r.body), Put(Contents, Hand(t), u), given, Others(t))
      /\ r.body \in Bodies /\ OwnedBody(heap, r.body) \in Bodies
      /\ OwnBody(heap, r.body).body[OwnedBody(heap, r.body)].refs = 1
  BY <1>2, <1>3, <1>4, Fits, OwnGood
<1> QED BY <1>1, <1>5

\* First half of a writable view: the body is the packet's own.
LEMMA MakeMutableGood ==
    ASSUME PInv, NEW t \in Threads, Room, MakeMutable(t)
    PROVE  After(t) /\ Sole(heap', Contents', Hand(t))
<1> DEFINE r == Top(t)
<1> DEFINE c == OwnedBody(heap, r.body)
<1> DEFINE q == [r EXCEPT !.body = c]
<1>1. /\ Owns(t) /\ Engine(t) /\ SetTop(t, q) /\ UNCHANGED <<given, nodes, delivery>>
      /\ heap' = OwnBody(heap, r.body)
  BY DEF MakeMutable, Engine
<1>2. r \in EngineRef /\ r.own = Nobody BY <1>1, Fits, OnTop
<1>3. c \in Bodies
  <2>1. r.body \in Bodies BY <1>2 DEF EngineRef
  <2> QED BY <2>1, FreshTyped DEF OwnedBody, Room
<1> HIDE DEF r, c
<1>4. q \in EngineRef /\ q \in Refs /\ q.own = Nobody /\ q.body = c BY <1>2, <1>3 DEF EngineRef, Refs
<1>5. PICK u : Contents' = Put(Contents, Hand(t), u) /\ Replaces(Contents[Hand(t)], u, r, q)
  <2> HIDE DEF q
  <2> QED BY <1>1, <1>4, Fits, SettingTop DEF r
<1>6. BoxesOK' /\ Owns(t)' /\ Top(t)' = q
  <2> HIDE DEF q
  <2> QED BY <1>1, <1>4, Fits, SettingTop
<1>7. LET x == Top(t) IN Replaces(Contents[Hand(t)], u, x, [x EXCEPT !.body = OwnedBody(heap, x.body)])
  BY <1>5 DEF r, c
<1>8. /\ Good(OwnBody(heap, r.body), Put(Contents, Hand(t), u), given, Others(t))
      /\ OwnBody(heap, r.body).body[c].refs = 1
  BY <1>1, <1>7, OwningTop DEF r, c
<1>9. After(t) BY <1>1, <1>5, <1>6, <1>8 DEF After
<1>10. Sole(heap', Contents', Hand(t))
  <2>1. Contents'[Hand(t)] = handle'[t]
    <3>1. Contents[Hand(t)] = handle[t] BY ContentsAt DEF Hand
    <3>2. Contents'[Hand(t)] = u
      <4>1. Hand(t) \in Boxes /\ DOMAIN Contents = Boxes BY Mine DEF Hand, Contents
      <4> QED BY <1>5, <4>1 DEF Put
    <3>3. Contents' = BoxesOf(handle', flight', slot', staging', queue') BY ContentsBoxes
    <3>4. Hand(t) \in Boxes BY Mine DEF Hand
    <3>5. Contents'[Hand(t)] = InBox(handle', flight', slot', staging', queue', Hand(t)) BY <3>3, <3>4, BoxAt
    <3> QED BY <3>5 DEF InBox, Hand
  <2> HIDE DEF q
  <2>2. handle'[t] # <<>> /\ handle'[t][Len(handle'[t])] = q BY <1>6 DEF Owns, Top
  <2> QED BY <1>1, <1>4, <1>8, <2>1, <2>2 DEF Sole
<1> QED BY <1>9, <1>10

---------------------------------------------------------------------------
(* Two changes.                                                            *)

\* s with its last packet replaced.
Retop(s, q) == [s EXCEPT ![Len(s)] = q]
Front(s) == SubSeq(s, 1, Len(s) - 1)

\* A box refilled twice has what it was given last.
LEMMA PutTwice ==
    ASSUME NEW B \in [Boxes -> Seq(Refs)], NEW k \in Boxes, NEW u, NEW v
    PROVE  Put(Put(B, k, u), k, v) = Put(B, k, v)
BY DEF Put

\* A box has what was put into it.
LEMMA PutGet ==
    ASSUME NEW B \in [Boxes -> Seq(Refs)], NEW k \in Boxes, NEW u
    PROVE  Put(B, k, u)[k] = u /\ Put(B, k, B[k]) = B
BY DEF Put

\* The top is replaced and nothing else.
LEMMA Retopped ==
    ASSUME NEW s \in Seq(Refs), s # <<>>, NEW q \in Refs
    PROVE  /\ Replaces(s, Retop(s, q), s[Len(s)], q) /\ Retop(s, q) \in Seq(Refs) /\ Retop(s, q) # <<>>
           /\ Len(Retop(s, q)) = Len(s) /\ Retop(s, q)[Len(s)] = q
           /\ Front(Retop(s, q)) = Front(s)
<1> DEFINE u == [s EXCEPT ![Len(s)] = q]
<1>1. Len(s) \in Nat /\ Len(s) # 0 /\ DOMAIN s = 1 .. Len(s) BY EmptySeq, LenProperties
<1>2. Len(s) \in DOMAIN s /\ s \in [1 .. Len(s) -> Refs] BY <1>1
<1>3. DOMAIN u = DOMAIN s /\ u[Len(s)] = q /\ \A i \in DOMAIN s \ {Len(s)} : u[i] = s[i] BY <1>2
<1>4. Replaces(s, u, s[Len(s)], q) BY LastReplaces
<1>5. u \in Seq(Refs) BY <1>4 DEF Replaces
<1>6. Len(u) = Len(s) /\ u # <<>>
  <2>1. Len(u) \in Nat /\ DOMAIN u = 1 .. Len(u) BY <1>5, LenProperties
  <2>2. Len(u) = Len(s) BY <1>1, <1>3, <2>1
  <2> QED BY <1>1, <1>5, <2>2, EmptySeq
<1> HIDE DEF u
<1>7. Front(u) = Front(s)
  <2>1. Front(u) = SubSeq(u, 1, Len(s) - 1) BY <1>6 DEF Front
  <2>2. Front(u) = [i \in 1 .. Len(s) - 1 |-> u[i]] BY <1>1, <1>5, <1>6, <2>1
  <2>3. Front(s) = [i \in 1 .. Len(s) - 1 |-> s[i]] BY <1>1 DEF Front
  <2>4. \A i \in 1 .. Len(s) - 1 : u[i] = s[i] BY <1>1, <1>3
  <2> QED BY <2>2, <2>3, <2>4
<1> QED BY <1>3, <1>4, <1>5, <1>6, <1>7 DEF u, Retop

\* The last replacement counts.
LEMMA RetoppedTwice ==
    ASSUME NEW s \in Seq(Refs), s # <<>>, NEW q \in Refs, NEW p
    PROVE  Retop(Retop(s, q), p) = Retop(s, p)
<1>1. Len(Retop(s, q)) = Len(s) BY Retopped
<1>2. Retop(Retop(s, q), p) = [Retop(s, q) EXCEPT ![Len(s)] = p] BY <1>1 DEF Retop
<1>3. Len(s) \in Nat /\ Len(s) # 0 /\ DOMAIN s = 1 .. Len(s) BY EmptySeq, LenProperties
<1> QED BY <1>2, <1>3 DEF Retop

\* Two replacements of the top in one step.
LEMMA SettingTwice ==
    ASSUME BoxesOK, NEW t \in Threads, Owns(t), NEW p \in Refs, NEW q \in Refs, SetTop(t, q), UNCHANGED <<nodes, delivery>>
    PROVE  /\ BoxesOK'
           /\ \E u, v : /\ Contents' = Put(Contents, Hand(t), v)
                        /\ Replaces(Contents[Hand(t)], u, Top(t), p) /\ Replaces(u, v, p, q)
<1> DEFINE s == handle[t]
<1>1. s \in Seq(Refs) /\ s # <<>> BY DEF BoxesOK, Owns
<1>2. handle' = Put(handle, t, Retop(s, q)) BY DEF SetTop, Put, Retop
<1>3. /\ Replaces(s, Retop(s, p), s[Len(s)], p) /\ Retop(s, p) \in Seq(Refs) /\ Retop(s, p) # <<>>
      /\ Len(Retop(s, p)) = Len(s) /\ Retop(s, p)[Len(s)] = p /\ Retop(Retop(s, p), q) = Retop(s, q)
  <2> HIDE DEF s
  <2>1. /\ Replaces(s, Retop(s, p), s[Len(s)], p) /\ Retop(s, p) \in Seq(Refs) /\ Retop(s, p) # <<>>
        /\ Len(Retop(s, p)) = Len(s) /\ Retop(s, p)[Len(s)] = p
    BY <1>1, Retopped
  <2>2. Retop(Retop(s, p), q) = Retop(s, q) BY <1>1, RetoppedTwice
  <2> QED BY <2>1, <2>2
<1>4. Top(t) = s[Len(s)] BY DEF Top
<1>5. Contents[Hand(t)] = s BY ContentsAt DEF Hand
<1> HIDE DEF s
<1> DEFINE u == Retop(s, p)
<1> HIDE DEF u
<1>6. Replaces(u, Retop(u, q), u[Len(u)], q) /\ Retop(u, q) \in Seq(Refs) BY <1>3, Retopped DEF u
<1>7. Retop(u, q) = Retop(s, q) /\ u[Len(u)] = p BY <1>3 DEF u
<1>8. BoxesOK' BY <1>2, <1>6, <1>7, HandleTyped DEF s
<1>9. Contents' = Put(Contents, Hand(t), Retop(s, q)) BY <1>2, HandleChanges DEF Hand, s
<1>10. Replaces(u, Retop(s, q), p, q) BY <1>6, <1>7
<1>11. Replaces(Contents[Hand(t)], u, Top(t), p) BY <1>3, <1>4, <1>5 DEF u
<1> QED BY <1>8, <1>9, <1>10, <1>11

\* lmflow_packet_set_metadata: a body of its own, then the metadata.
LEMMA SetMetadataGood ==
    ASSUME PInv, NEW t \in Threads, Room, SetMetadata(t)
    PROVE  After(t)
<1> DEFINE r == Top(t)
<1> DEFINE c == OwnedBody(heap, r.body)
<1> DEFINE h == OwnBody(heap, r.body)
<1> DEFINE p == [r EXCEPT !.body = c]
<1> DEFINE q == [p EXCEPT !.value.meta = @ + 1]
<1>1. /\ Owns(t) /\ Engine(t) /\ UNCHANGED <<given, nodes, delivery>>
      /\ SetTop(t, [r EXCEPT !.body = c, !.value.meta = @ + 1])
      /\ heap' = [h EXCEPT !.body[c].meta = @ + 1]
  BY DEF SetMetadata, Engine
<1>2. r \in EngineRef /\ r.own = Nobody BY <1>1, Fits, OnTop
<1>3. c \in Bodies
  <2>1. r.body \in Bodies BY <1>2 DEF EngineRef
  <2> QED BY <2>1, FreshTyped DEF OwnedBody, Room
<1>0. h = OwnBody(heap, r.body) OBVIOUS
<1> HIDE DEF r, c, h
<1>4. p \in EngineRef /\ p \in Refs /\ p.own = Nobody /\ p.body = c /\ p.value = r.value BY <1>2, <1>3 DEF EngineRef, Refs
<1>5. [r EXCEPT !.body = c, !.value.meta = @ + 1] = q BY <1>2 DEF EngineRef
<1>6. q \in Refs
  <2> HIDE DEF p
  <2>1. p.value \in Values /\ p \in EngineRef BY <1>4 DEF EngineRef
  <2>2. [p.value EXCEPT !.meta = @ + 1] \in Values BY <2>1 DEF Values
  <2>3. q = [p EXCEPT !.value = [p.value EXCEPT !.meta = @ + 1]] BY <2>1 DEF EngineRef
  <2> QED BY <2>1, <2>2, <2>3 DEF EngineRef, Refs
<1>7. SetTop(t, q) BY <1>1, <1>5
<1> HIDE DEF p, q
<1>8. PICK u, v : /\ Contents' = Put(Contents, Hand(t), v)
                  /\ Replaces(Contents[Hand(t)], u, r, p) /\ Replaces(u, v, p, q)
  BY <1>1, <1>4, <1>6, <1>7, Fits, SettingTwice DEF r
<1>9. BoxesOK' BY <1>1, <1>4, <1>6, <1>7, Fits, SettingTwice
<1>10. LET x == Top(t) IN Replaces(Contents[Hand(t)], u, x, [x EXCEPT !.body = OwnedBody(heap, x.body)])
  BY <1>8 DEF r, c, p
<1>11. Good(h, Put(Contents, Hand(t), u), given, Others(t)) /\ h.body[c].refs = 1
  BY <1>1, <1>10, OwningTop DEF r, c, h
<1> DEFINE B == Put(Contents, Hand(t), u)
<1>12. Hand(t) \in Boxes \ Others(t) /\ Contents \in [Boxes -> Seq(Refs)] BY Fits DEF Sound, Contained
<1>13. Put(B, Hand(t), v) = Put(Contents, Hand(t), v) /\ B[Hand(t)] = u
  <2>1. PICK k : k = Hand(t) OBVIOUS
  <2>2. Put(Put(Contents, k, u), k, v) = Put(Contents, k, v) BY <1>12, <2>1, PutTwice
  <2>3. Put(Contents, k, u)[k] = u BY <1>12, <2>1, PutGet
  <2> QED BY <2>1, <2>2, <2>3
<1> HIDE DEF B
<1>14. Good(h, B, given, Others(t)) BY <1>11 DEF B
<1>15. Replaces(B[Hand(t)], v, p, [p EXCEPT !.value.meta = @ + 1]) BY <1>8, <1>13 DEF q
<1>16. Good([h EXCEPT !.body[p.body].meta = @ + 1], Put(B, Hand(t), v), given, Others(t))
  BY <1>4, <1>11, <1>12, <1>14, <1>15, MetaGood
<1>17. heap' = [h EXCEPT !.body[p.body].meta = @ + 1] BY <1>1, <1>4
<1> QED BY <1>1, <1>8, <1>9, <1>13, <1>16, <1>17 DEF After

Written(r) == [r EXCEPT !.value.content = @ + 1]

\* The reference to a packet whose content was written.
LEMMA WrittenTyped ==
    ASSUME NEW r \in EngineRef
    PROVE  Written(r) \in EngineRef /\ Written(r) \in Refs
<1>1. PICK x : x = r.value OBVIOUS
<1>2. x \in [content : Nat, meta : Nat] BY <1>1 DEF EngineRef, Values
<1>3. [x EXCEPT !.content = @ + 1] \in Values BY <1>2 DEF Values
<1>4. Written(r) = [r EXCEPT !.value = [x EXCEPT !.content = @ + 1]] BY SMTT(30), <1>1 DEF EngineRef, Written
<1> QED BY <1>3, <1>4 DEF EngineRef, Refs

\* OwnPayload, once the packet has a payload of its own.
LEMMA WritingTop ==
    ASSUME PInv, NEW t \in Threads, Engine(t), NEW h, Good(h, Contents, given, Others(t)),
           h.body[Top(t).body].refs = 1, h.payload[h.body[Top(t).body].payload].refs = 1,
           heap' = [h EXCEPT !.payload[h.body[Top(t).body].payload].content = @ + 1],
           SetTop(t, [Top(t) EXCEPT !.value.content = @ + 1]), UNCHANGED <<given, nodes, delivery>>
    PROVE  After(t) /\ Owns(t)' /\ Top(t)' \in EngineRef
<1> DEFINE r == Top(t)
<1> DEFINE q == [r EXCEPT !.value.content = @ + 1]
<1>1. r \in EngineRef /\ r.own = Nobody /\ Owns(t) BY Zenon, Fits, OnTop DEF Engine
<1>0. SetTop(t, q) BY Zenon
<1>2. h.body[r.body].refs = 1 /\ h.payload[h.body[r.body].payload].refs = 1
      /\ heap' = [h EXCEPT !.payload[h.body[r.body].payload].content = @ + 1]
  BY Zenon
<1> HIDE DEF r
<1>3. q \in EngineRef /\ q \in Refs
  <2>1. q = Written(r) BY Zenon DEF Written
  <2> HIDE DEF q
  <2> QED BY Zenon, <1>1, <2>1, WrittenTyped
<1> HIDE DEF q
<1>4. PICK u : Contents' = Put(Contents, Hand(t), u) /\ Replaces(Contents[Hand(t)], u, r, q)
  BY Zenon, <1>0, <1>1, <1>3, Fits, SettingTop DEF r
<1>5. BoxesOK' /\ Owns(t)' /\ Top(t)' = q BY Zenon, <1>0, <1>1, <1>3, Fits, SettingTop
<1>6. Replaces(Contents[Hand(t)], u, r, [r EXCEPT !.value.content = @ + 1]) BY Zenon, <1>4 DEF q
<1>7. Hand(t) \in Boxes \ Others(t) BY Zenon, Fits
<1>8. Good([h EXCEPT !.payload[h.body[r.body].payload].content = @ + 1], Put(Contents, Hand(t), u), given, Others(t))
  BY Zenon, <1>1, <1>2, <1>6, <1>7, WriteGood
<1>9. given' = given BY Zenon
<1> QED BY Zenon, <1>2, <1>3, <1>4, <1>5, <1>8, <1>9 DEF After

\* The packet that t is making writable has a body of its own.
LEMMA Writing ==
    ASSUME PInv, NEW t \in Threads, At(t, "payload")
    PROVE  Engine(t) /\ heap.body[Top(t).body].refs = 1 /\ Top(t).body \in Bodies
<1>1. Hand(t) \in {<<"handle", w>> : w \in Writers} BY DEF Hand, Writers
<1>2. Sole(heap, Contents, Hand(t)) BY <1>1 DEF PInv, Good
<1>3. Contents[Hand(t)] = handle[t] BY Fits
<1>4. Engine(t) /\ heap.body[Top(t).body].refs = 1 BY <1>2, <1>3 DEF Sole, Engine, Owns, Top
<1>5. Top(t) \in EngineRef BY SMTT(30), <1>4, Fits, OnTop DEF Engine
<1> QED BY <1>4, <1>5 DEF EngineRef

\* Second half of a writable view: the payload or a copy of it, written; or a
\* refusal.
LEMMA OwnPayloadGood ==
    ASSUME PInv, NEW t \in Threads, Room, OwnPayload(t)
    PROVE  After(t)
<1> DEFINE b == Top(t).body
<1> DEFINE p == Wanted(t)
<1>1. Engine(t) /\ heap.body[b].refs = 1 /\ b \in Bodies BY Zenon, Writing DEF OwnPayload
<1>2. UNCHANGED <<given, nodes, delivery>> BY Zenon DEF OwnPayload
<1>3. p = heap.body[b].payload BY DEF Wanted
<1>4. CASE heap' = heap /\ handle' = handle BY SMTT(30), <1>2, <1>4, StillGood DEF nodes
<1>5. CASE /\ MustCopy(t)
           /\ heap' = [CopyPayload(t) EXCEPT !.payload[CopyPayload(t).body[b].payload].content = @ + 1]
           /\ SetTop(t, [Top(t) EXCEPT !.value.content = @ + 1])
  <2> DEFINE h == DropPayload(Detached(heap, b), heap.body[b].payload)
  <2>1. CopyPayload(t) = h BY <1>3 DEF CopyPayload, Detached, Wanted
  <2>2. FreePayloads(heap) # {} BY DEF Room
  <2>3. Sound(heap, Contents, given) /\ Good(heap, Contents, given, Others(t)) BY Fits
  <2>4. heap.body[b].refs # 0 BY SMTT(30), <1>1
  <2> HIDE DEF b
  <2>5. /\ Sound(h, Contents, given) /\ h.body[b].refs = heap.body[b].refs
        /\ h.payload[h.body[b].payload].refs = 1
    BY Zenon, <1>1, <2>2, <2>3, <2>4, CopyPayloadSound
  <2> HIDE DEF h
  <2>6. Good(h, Contents, given, Others(t)) BY <2>3, <2>5, GoodHeap
  <2> QED BY Zenon, <1>1, <1>2, <1>5, <2>1, <2>5, <2>6, WritingTop DEF b
<1>6. CASE /\ ~MustCopy(t)
           /\ heap' = [heap EXCEPT !.payload[heap.body[b].payload].content = @ + 1]
           /\ SetTop(t, [Top(t) EXCEPT !.value.content = @ + 1])
  <2>1. ~(heap.payload[heap.body[b].payload].refs > 1) BY Zenon, <1>6 DEF MustCopy, Wanted
  <2>2. HeapOK(heap, 0) /\ heap.body[b].refs # 0 BY <1>1, Fits
  <2>3. heap.payload[heap.body[b].payload].refs \in Nat \ {0}
    <3> HIDE DEF b
    <3> QED BY <1>1, <2>2, LivePayload
  <2>4. heap.payload[heap.body[b].payload].refs = 1 BY <2>1, <2>3
  <2>5. Good(heap, Contents, given, Others(t)) BY Fits
  <2> QED BY Zenon, <1>1, <1>2, <1>6, <2>4, <2>5, WritingTop
<1> QED BY Zenon, <1>4, <1>5, <1>6 DEF OwnPayload

---------------------------------------------------------------------------
(* Several boxes change.                                                   *)

\* A send changes a thread's handles and deliveries.
LEMMA HandleAndFlight ==
    ASSUME BoxesOK, NEW t \in Threads, NEW u, NEW v,
           handle' = Put(handle, t, u), flight' = Put(flight, t, v), UNCHANGED <<slot, staging, queue>>
    PROVE  Contents' = Put(Put(Contents, <<"handle", t>>, u), <<"flight", t>>, v)
<1>1. DOMAIN handle = Threads /\ DOMAIN flight = Threads /\ t \in Threads BY Names DEF BoxesOK
<1>2. Contents = BoxesOf(handle, flight, slot, staging, queue) BY ContentsBoxes
<1>3. BoxesOf(Put(handle, t, u), flight, slot, staging, queue) = Put(BoxesOf(handle, flight, slot, staging, queue), <<"handle", t>>, u)
  BY <1>1, PutHandle
<1>4. BoxesOf(Put(handle, t, u), Put(flight, t, v), slot, staging, queue) = Put(BoxesOf(Put(handle, t, u), flight, slot, staging, queue), <<"flight", t>>, v)
  BY <1>1, PutFlight
<1>5. Contents' = BoxesOf(Put(handle, t, u), Put(flight, t, v), slot, staging, queue) BY ContentsBoxes
<1> QED BY <1>2, <1>3, <1>4, <1>5

\* An emit changes a node's handles and staging.
LEMMA HandleAndStaging ==
    ASSUME BoxesOK, NEW t \in Nodes, NEW u, NEW v,
           handle' = Put(handle, t, u), staging' = Put(staging, t, v), UNCHANGED <<flight, slot, queue>>
    PROVE  Contents' = Put(Put(Contents, <<"handle", t>>, u), <<"staging", t>>, v)
<1>1. DOMAIN handle = Threads /\ DOMAIN staging = Nodes /\ t \in Threads BY Names DEF BoxesOK
<1>2. Contents = BoxesOf(handle, flight, slot, staging, queue) BY ContentsBoxes
<1>3. BoxesOf(Put(handle, t, u), flight, slot, staging, queue) = Put(BoxesOf(handle, flight, slot, staging, queue), <<"handle", t>>, u)
  BY <1>1, PutHandle
<1>4. BoxesOf(Put(handle, t, u), flight, slot, Put(staging, t, v), queue) = Put(BoxesOf(Put(handle, t, u), flight, slot, staging, queue), <<"staging", t>>, v)
  BY <1>1, PutStaging
<1>5. Contents' = BoxesOf(Put(handle, t, u), flight, slot, Put(staging, t, v), queue) BY ContentsBoxes
<1> QED BY <1>2, <1>3, <1>4, <1>5

\* Taking the input changes a node's slot and handles.
LEMMA SlotAndHandle ==
    ASSUME BoxesOK, NEW t \in Nodes, NEW u, NEW v,
           slot' = Put(slot, t, u), handle' = Put(handle, t, v), UNCHANGED <<flight, staging, queue>>
    PROVE  Contents' = Put(Put(Contents, <<"slot", t>>, u), <<"handle", t>>, v)
<1>1. DOMAIN slot = Nodes /\ DOMAIN handle = Threads /\ t \in Threads BY Names DEF BoxesOK
<1>2. Contents = BoxesOf(handle, flight, slot, staging, queue) BY ContentsBoxes
<1>3. BoxesOf(handle, flight, Put(slot, t, u), staging, queue) = Put(BoxesOf(handle, flight, slot, staging, queue), <<"slot", t>>, u)
  BY <1>1, PutSlot
<1>4. BoxesOf(Put(handle, t, v), flight, Put(slot, t, u), staging, queue) = Put(BoxesOf(handle, flight, Put(slot, t, u), staging, queue), <<"handle", t>>, v)
  BY <1>1, PutHandle
<1>5. Contents' = BoxesOf(Put(handle, t, v), flight, Put(slot, t, u), staging, queue) BY ContentsBoxes
<1> QED BY <1>2, <1>3, <1>4, <1>5

\* A claim changes a node's queue and slot.
LEMMA QueueAndSlot ==
    ASSUME BoxesOK, NEW t \in Nodes, NEW u, NEW v,
           queue' = Put(queue, t, u), slot' = Put(slot, t, v), UNCHANGED <<handle, flight, staging>>
    PROVE  Contents' = Put(Put(Contents, <<"queue", t>>, u), <<"slot", t>>, v)
<1>1. DOMAIN queue = Nodes /\ DOMAIN slot = Nodes /\ t \in Threads BY Names DEF BoxesOK
<1>2. Contents = BoxesOf(handle, flight, slot, staging, queue) BY ContentsBoxes
<1>3. BoxesOf(handle, flight, slot, staging, Put(queue, t, u)) = Put(BoxesOf(handle, flight, slot, staging, queue), <<"queue", t>>, u)
  BY <1>1, PutQueue
<1>4. BoxesOf(handle, flight, Put(slot, t, v), staging, Put(queue, t, u)) = Put(BoxesOf(handle, flight, slot, staging, Put(queue, t, u)), <<"slot", t>>, v)
  BY <1>1, PutSlot
<1>5. Contents' = BoxesOf(handle, flight, Put(slot, t, v), staging, Put(queue, t, u)) BY ContentsBoxes
<1> QED BY <1>2, <1>3, <1>4, <1>5

\* Completing changes a node's slot, staging and deliveries.
LEMMA InputAndOutput ==
    ASSUME BoxesOK, NEW t \in Nodes, NEW u, NEW v, NEW w,
           slot' = Put(slot, t, u), staging' = Put(staging, t, v), flight' = Put(flight, t, w), UNCHANGED <<handle, queue>>
    PROVE  Contents' = Put(Put(Put(Contents, <<"slot", t>>, u), <<"staging", t>>, v), <<"flight", t>>, w)
<1>1. DOMAIN slot = Nodes /\ DOMAIN staging = Nodes /\ DOMAIN flight = Threads /\ t \in Threads BY Names DEF BoxesOK
<1>2. Contents = BoxesOf(handle, flight, slot, staging, queue) BY ContentsBoxes
<1>3. BoxesOf(handle, flight, Put(slot, t, u), staging, queue) = Put(BoxesOf(handle, flight, slot, staging, queue), <<"slot", t>>, u)
  BY <1>1, PutSlot
<1>4. BoxesOf(handle, flight, Put(slot, t, u), Put(staging, t, v), queue) = Put(BoxesOf(handle, flight, Put(slot, t, u), staging, queue), <<"staging", t>>, v)
  BY <1>1, PutStaging
<1>5. BoxesOf(handle, Put(flight, t, w), Put(slot, t, u), Put(staging, t, v), queue) = Put(BoxesOf(handle, flight, Put(slot, t, u), Put(staging, t, v), queue), <<"flight", t>>, w)
  BY <1>1, PutFlight
<1>6. Contents' = BoxesOf(handle, Put(flight, t, w), Put(slot, t, u), Put(staging, t, v), queue) BY ContentsBoxes
<1> QED BY <1>2, <1>3, <1>4, <1>5, <1>6

\* Another box is as it was.
LEMMA PutOther ==
    ASSUME NEW B \in [Boxes -> Seq(Refs)], NEW k \in Boxes, NEW u, NEW l \in Boxes, l # k
    PROVE  Put(B, k, u)[l] = B[l]
BY DEF Put

---------------------------------------------------------------------------
(* The packet on top is handed over.                                       *)

Taken(t) == Ref(TakenBody(t), Top(t).value)

\* take_packet leaves a reference to a body, made for the purpose if need be.
LEMMA Taking ==
    ASSUME PInv, Room, NEW t \in Threads, Owns(t)
    PROVE  /\ Taken(t) \in EngineRef /\ Taken(t).own = Nobody /\ Taken(t).body = TakenBody(t)
           /\ \E u \in Seq(Refs) : /\ Good(TakenHeap(t), Put(Contents, Hand(t), u), given, Others(t))
                                   /\ Removes(u, Front(handle[t]), Taken(t))
<1> DEFINE s == handle[t]
<1>0. s \in Seq(Refs) /\ s # <<>> /\ Top(t) = s[Len(s)] BY Fits DEF BoxesOK, Owns, Top
<1>1. Contents[Hand(t)] = s /\ Hand(t) \in Boxes \ Others(t) /\ Good(heap, Contents, given, Others(t)) BY Fits
<1>2. CASE Engine(t)
  <2>1. Top(t) \in EngineRef BY <1>2, Fits, OnTop
  <2>2. Taken(t) = Top(t) BY <1>2, <2>1 DEF Taken, TakenBody, Ref, EngineRef
  <2>3. Taken(t) \in EngineRef /\ Taken(t).own = Nobody /\ Taken(t).body = TakenBody(t)
    BY <1>2, <2>1, <2>2 DEF TakenBody, EngineRef
  <2>4. Removes(s, Front(s), Taken(t)) BY <2>2, Fits, OnTop DEF Front
  <2>5. Contents \in [Boxes -> Seq(Refs)] BY Fits DEF Sound, Contained
  <2>6. Put(Contents, Hand(t), s) = Contents
    <3>1. PICK k : k = Hand(t) OBVIOUS
    <3>2. Put(Contents, k, Contents[k]) = Contents BY <1>1, <2>5, <3>1, PutGet
    <3> QED BY <1>1, <3>1, <3>2
  <2>7. TakenHeap(t) = heap BY <1>2 DEF TakenHeap
  <2> QED BY <1>0, <1>1, <2>3, <2>4, <2>6, <2>7
<1>3. CASE ~Engine(t)
  <2>1. Top(t) = SelfBuilt BY <1>3, Fits, OnTop
  <2>2. Taken(t) = Ref(FreeBody(heap), Fresh) BY <1>3, <2>1 DEF Taken, TakenBody, SelfBuilt
  <2>3. FreeBody(heap) \in Bodies /\ Fresh \in Values BY FreeOne DEF Room, Fresh, Values
  <2>4. Taken(t) \in EngineRef /\ Taken(t).own = Nobody /\ Taken(t).body = TakenBody(t) /\ Taken(t) \in Refs
    BY <1>3, <2>2, <2>3, RefTyped, RefKinds DEF TakenBody
  <2> DEFINE u == Retop(s, Taken(t))
  <2> HIDE DEF s
  <2>5. /\ Replaces(s, u, s[Len(s)], Taken(t)) /\ u \in Seq(Refs) /\ u # <<>>
        /\ Len(u) = Len(s) /\ u[Len(s)] = Taken(t) /\ Front(u) = Front(s)
    BY <1>0, <2>4, Retopped
  <2> HIDE DEF u
  <2>6. Removes(u, Front(u), u[Len(u)]) BY <2>5, FrontRemoves DEF Front
  <2>7. Removes(u, Front(s), Taken(t)) BY <2>5, <2>6
  <2>8. Replaces(Contents[Hand(t)], u, SelfBuilt, Ref(FreeBody(heap), Fresh)) BY <1>0, <1>1, <2>1, <2>2, <2>5
  <2>9. Good(NewPacket(heap, "foreign", Object, FALSE), Put(Contents, Hand(t), u), given, Others(t))
    BY <1>1, <2>8, TakeGood DEF Room
  <2>10. TakenHeap(t) = NewPacket(heap, "foreign", Object, FALSE) BY <1>3 DEF TakenHeap
  <2> QED BY <2>4, <2>5, <2>7, <2>9, <2>10 DEF s
<1> QED BY <1>2, <1>3

\* From a hand where r is the last packet to another box, or to nothing.
LEMMA HandMove ==
    ASSUME NEW h, NEW G, NEW W, NEW k \in Boxes \ W, NEW l \in Boxes \ W, k # l,
           NEW B \in [Boxes -> Seq(Refs)], NEW u \in Seq(Refs), NEW s, NEW v, NEW r,
           Good(h, Put(B, k, u), G, W), Removes(u, s, r), Adds(B[l], v, r)
    PROVE  Good(h, Put(Put(B, k, s), l, v), G, W)
<1> DEFINE C == Put(B, k, u)
<1>1. C[k] = u BY PutGet
<1>2. C[l] = B[l] BY PutOther
<1>3. Put(C, k, s) = Put(B, k, s) BY PutTwice
<1>4. Good(h, C, G, W) OBVIOUS
<1> HIDE DEF C
<1>5. Removes(C[k], s, r) /\ Adds(C[l], v, r) BY <1>1, <1>2
<1>6. Good(h, Put(Put(C, k, s), l, v), G, W) BY <1>4, <1>5, MoveGood
<1> QED BY <1>3, <1>6

\* The same for a drop.
LEMMA HandDrop ==
    ASSUME NEW h, NEW G, NEW W, NEW k \in Boxes \ W,
           NEW B \in [Boxes -> Seq(Refs)], NEW u \in Seq(Refs), NEW s, NEW r,
           Good(h, Put(B, k, u), G, W), Removes(u, s, r), r.own = Nobody
    PROVE  Good(DropBody(h, r.body), Put(B, k, s), G, W)
<1> DEFINE C == Put(B, k, u)
<1>1. C[k] = u BY PutGet
<1>3. Put(C, k, s) = Put(B, k, s) BY PutTwice
<1>4. Good(h, C, G, W) OBVIOUS
<1> HIDE DEF C
<1>5. Removes(C[k], s, r) BY <1>1
<1>6. Good(DropBody(h, r.body), Put(C, k, s), G, W) BY <1>4, <1>5, DropGood
<1> QED BY <1>3, <1>6

\* A packet is taken from the program and kept.
LEMMA TakenMove ==
    ASSUME PInv, Room, NEW t \in Threads, Owns(t), NEW l \in Boxes \ Others(t), l # Hand(t), NEW v,
           Adds(Contents[l], v, Taken(t))
    PROVE  Good(TakenHeap(t), Put(Put(Contents, Hand(t), Front(handle[t])), l, v), given, Others(t))
<1>1. PICK u \in Seq(Refs) : /\ Good(TakenHeap(t), Put(Contents, Hand(t), u), given, Others(t))
                             /\ Removes(u, Front(handle[t]), Taken(t))
  BY Taking
<1>2. Contents \in [Boxes -> Seq(Refs)] /\ Hand(t) \in Boxes \ Others(t) BY Fits DEF Sound, Contained
<1> QED BY <1>1, <1>2, HandMove

\* A packet is taken from the program and dropped.
LEMMA TakenDrop ==
    ASSUME PInv, Room, NEW t \in Threads, Owns(t)
    PROVE  Good(DropBody(TakenHeap(t), TakenBody(t)), Put(Contents, Hand(t), Front(handle[t])), given, Others(t))
<1>1. PICK u \in Seq(Refs) : /\ Good(TakenHeap(t), Put(Contents, Hand(t), u), given, Others(t))
                             /\ Removes(u, Front(handle[t]), Taken(t))
  BY Taking
<1>2. Contents \in [Boxes -> Seq(Refs)] /\ Hand(t) \in Boxes \ Others(t) BY Fits DEF Sound, Contained
<1>3. Taken(t).own = Nobody /\ Taken(t).body = TakenBody(t) BY Taking
<1> QED BY <1>1, <1>2, <1>3, HandDrop

\* Pop, as a change of one variable.
LEMMA FrontTyped ==
    ASSUME BoxesOK, NEW t \in Threads, Owns(t), Pop(t)
    PROVE  handle' = Put(handle, t, Front(handle[t])) /\ Front(handle[t]) \in Seq(Refs)
BY OnTop DEF Pop, Put, Front

\* A box with one reference.
LEMMA One ==
    ASSUME NEW r \in EngineRef
    PROVE  Adds(<<>>, <<r>>, r) /\ <<r>> \in Seq(EngineRef) /\ Removes(<<r>>, <<>>, r)
<1>1. r \in Refs BY DEF Refs
<1> QED BY <1>1, OneAdds

\* lmflow_input_send: delivered in the body it has or in one of its own, or dropped.
LEMMA SendGood ==
    ASSUME PInv, Room, Send
    PROVE  After(Host)
<1> DEFINE s == Front(handle[Host])
<1> DEFINE fl == <<"flight", Host>>
<1>1. Owns(Host) /\ Pop(Host) /\ Host \in Threads /\ UNCHANGED <<given, nodes>> BY Names DEF Send
<1>2. handle' = Put(handle, Host, s) /\ s \in Seq(Refs) BY <1>1, Fits, FrontTyped
<1>3. fl \in Boxes \ Others(Host) /\ fl # Hand(Host) /\ Hand(Host) \in Boxes \ Others(Host) BY <1>1, Mine, Fits DEF Hand
<1>4. Contents[fl] = <<>>
  <2>1. flight[Host] = <<>> BY <1>1 DEF Send, PInv, ShapeOK, Running, At
  <2> QED BY <1>1, <2>1, ContentsAt
<1>5. Contents \in [Boxes -> Seq(Refs)] BY <1>1, Fits DEF Sound, Contained
<1> HIDE DEF s
<1>6. ASSUME NEW h, NEW r \in EngineRef, Good(h, Put(Put(Contents, Hand(Host), s), fl, <<r>>), given, Others(Host)),
             heap' = h, flight' = [flight EXCEPT ![Host] = <<r>>]
      PROVE  After(Host)
  <2>1. flight' = Put(flight, Host, <<r>>) BY <1>6 DEF Put
  <2>2. Contents' = Put(Put(Contents, Hand(Host), s), fl, <<r>>)
    BY <1>1, <1>2, <2>1, Fits, HandleAndFlight DEF Hand, nodes
  <2>3. BoxesOK'
    <3>1. BoxesOK /\ <<r>> \in Seq(EngineRef) BY <1>1, <1>6, One, Fits
    <3> QED BY <1>1, <1>2, <2>1, <3>1 DEF BoxesOK, Put, nodes
  <2> QED BY <1>1, <1>6, <2>2, <2>3 DEF After
<1>7. CASE heap' = TakenHeap(Host) /\ flight' = [flight EXCEPT ![Host] = <<Ref(TakenBody(Host), Top(Host).value)>>]
  <2> DEFINE r == Taken(Host)
  <2>1. r \in EngineRef BY <1>1, Taking
  <2> HIDE DEF r
  <2>2. Adds(Contents[fl], <<r>>, r) BY <1>4, <2>1, One
  <2>3. Good(TakenHeap(Host), Put(Put(Contents, Hand(Host), s), fl, <<r>>), given, Others(Host))
    BY <1>1, <1>3, <2>2, TakenMove DEF r, s
  <2>4. flight' = [flight EXCEPT ![Host] = <<r>>] BY <1>7 DEF r, Taken
  <2> QED BY <1>6, <1>7, <2>1, <2>3, <2>4
<1>8. CASE /\ heap' = OwnBody(TakenHeap(Host), TakenBody(Host))
           /\ flight' = [flight EXCEPT ![Host] = <<Ref(OwnedBody(TakenHeap(Host), TakenBody(Host)), Top(Host).value)>>]
  <2>1. CASE Engine(Host)
    <3> DEFINE x == Top(Host)
    <3> DEFINE c == OwnedBody(heap, x.body)
    <3> DEFINE r == [x EXCEPT !.body = c]
    <3>1. TakenHeap(Host) = heap /\ TakenBody(Host) = x.body BY <2>1 DEF TakenHeap, TakenBody
    <3>2. x \in EngineRef BY <1>1, <2>1, Fits, OnTop
    <3>3. c \in Bodies
      <4>1. x.body \in Bodies BY <3>2 DEF EngineRef
      <4> QED BY <4>1, FreshTyped DEF OwnedBody, Room
    <3> HIDE DEF x, c
    <3>4. r \in EngineRef /\ r \in Refs /\ r = Ref(c, x.value) BY <3>2, <3>3 DEF EngineRef, Refs, Ref
    <3> HIDE DEF r
    <3>5. handle[Host] \in Seq(Refs) /\ handle[Host] # <<>> /\ x = handle[Host][Len(handle[Host])]
      BY <1>1, Fits DEF BoxesOK, Owns, Top, x
    <3> DEFINE z == handle[Host]
    <3> DEFINE u == Retop(z, r)
    <3> HIDE DEF z
    <3>6. /\ Replaces(z, u, z[Len(z)], r) /\ u \in Seq(Refs) /\ u # <<>>
          /\ Len(u) = Len(z) /\ u[Len(z)] = r /\ Front(u) = Front(z)
      BY <3>4, <3>5, Retopped DEF z
    <3> HIDE DEF u
    <3>7. Removes(u, Front(u), u[Len(u)]) BY <3>6, FrontRemoves DEF Front
    <3>8. Removes(u, s, r) BY <3>6, <3>7 DEF s, z
    <3>9. Contents[Hand(Host)] = z BY <1>1, Fits DEF z
    <3>10. Replaces(Contents[Hand(Host)], u, x, r) BY <3>5, <3>6, <3>9 DEF z
    <3>11. LET y == Top(Host) IN Replaces(Contents[Hand(Host)], u, y, [y EXCEPT !.body = OwnedBody(heap, y.body)])
      BY <3>10 DEF r, c, x
    <3>12. Good(OwnBody(heap, x.body), Put(Contents, Hand(Host), u), given, Others(Host))
      BY <1>1, <2>1, <3>11, OwningTop DEF x
    <3>13. Adds(Contents[fl], <<r>>, r) BY <1>4, <3>4, One
    <3>14. Good(OwnBody(heap, x.body), Put(Put(Contents, Hand(Host), s), fl, <<r>>), given, Others(Host))
      BY <1>3, <1>5, <3>6, <3>8, <3>12, <3>13, HandMove
    <3>15. heap' = OwnBody(heap, x.body) /\ flight' = [flight EXCEPT ![Host] = <<r>>]
      BY <1>8, <3>1, <3>4 DEF c, x
    <3> QED BY <1>6, <3>4, <3>14, <3>15
  <2>2. CASE ~Engine(Host)
    <3>1. TakenHeap(Host) = NewPacket(heap, "foreign", Object, FALSE) /\ TakenBody(Host) = FreeBody(heap)
      BY <2>2 DEF TakenHeap, TakenBody
    <3>2. FreeBody(heap) \in Bodies /\ heap \in HeapType BY <1>1, FreeOne, Fits DEF Room
    <3>3. NewPacket(heap, "foreign", Object, FALSE).body[FreeBody(heap)].refs = 1
      BY <3>2 DEF NewPacket, HeapType
    <3>4. /\ OwnBody(TakenHeap(Host), TakenBody(Host)) = TakenHeap(Host)
          /\ OwnedBody(TakenHeap(Host), TakenBody(Host)) = TakenBody(Host)
      BY <3>1, <3>3 DEF OwnBody, OwnedBody
    <3> QED BY <1>7, <1>8, <3>4
  <2> QED BY <2>1, <2>2
<1>9. CASE heap' = DropBody(TakenHeap(Host), TakenBody(Host)) /\ UNCHANGED delivery
  <2>1. Good(DropBody(TakenHeap(Host), TakenBody(Host)), Put(Contents, Hand(Host), s), given, Others(Host))
    BY <1>1, TakenDrop DEF s
  <2>2. Contents' = Put(Contents, Hand(Host), s) /\ BoxesOK' BY <1>1, <1>2, <1>9, Fits, HandleChanges, HandleTyped DEF Hand
  <2> QED BY <1>1, <1>9, <2>1, <2>2 DEF After
<1> QED BY <1>7, <1>8, <1>9 DEF Send

---------------------------------------------------------------------------
(* Deliveries and invocations.                                             *)

\* The references of the engine's own boxes are to bodies.
LEMMA TypedRefs ==
    ASSUME NEW s \in Seq(EngineRef)
    PROVE  /\ s \in Seq(Refs) /\ \A i \in DOMAIN s : s[i] \in EngineRef /\ s[i].own = Nobody
           /\ s # <<>> => /\ Head(s) \in EngineRef /\ Head(s).own = Nobody /\ Head(s) = s[1] /\ 1 \in DOMAIN s
                          /\ Tail(s) \in Seq(EngineRef)
<1>1. \A i \in DOMAIN s : s[i] \in EngineRef /\ s[i].own = Nobody BY RefKinds
<1>2. s \in Seq(Refs) BY DEF Refs
<1>3. ASSUME s # <<>> PROVE Head(s) = s[1] /\ 1 \in DOMAIN s /\ Tail(s) \in Seq(EngineRef)
  <2>1. Len(s) \in Nat /\ Len(s) # 0 /\ DOMAIN s = 1 .. Len(s) BY <1>3, EmptySeq, LenProperties
  <2> QED BY <1>3, <2>1, HeadTailProperties
<1> QED BY <1>1, <1>2, <1>3

\* The first packet of a box is dropped.
LEMMA DropFirst ==
    ASSUME NEW h, NEW B, NEW G, NEW W, Good(h, B, G, W), NEW k \in Boxes \ W, B[k] \in Seq(EngineRef), B[k] # <<>>
    PROVE  Good(DropBody(h, Head(B[k]).body), Put(B, k, Tail(B[k])), G, W)
<1>1. B[k] \in Seq(Refs) /\ Head(B[k]).own = Nobody BY TypedRefs
<1>2. Removes(B[k], Tail(B[k]), Head(B[k])) BY <1>1, TailRemoves
<1> QED BY <1>1, <1>2, DropGood

\* dispatch: a reference more for the consumer's queue, or none.
LEMMA DispatchGood ==
    ASSUME PInv, NEW t \in Threads, Dispatch(t)
    PROVE  After(t)
<1>1. PICK n \in targets[t] : IF stopped THEN UNCHANGED <<heap, queue>>
                                ELSE /\ heap' = RetainAll(heap, flight[t])
                                     /\ queue' = [queue EXCEPT ![n] = @ \o flight[t]]
  BY DEF Dispatch
<1>2. n \in Nodes BY DEF PInv, TypeOK, FrameOK
<1>3. UNCHANGED <<given, handle, slot, staging, flight>> BY DEF Dispatch
<1>4. CASE stopped
  <2>1. Contents' = Contents BY <1>1, <1>3, <1>4, ContentsBoxes
  <2>2. BoxesOK' BY <1>1, <1>3, <1>4, Fits DEF BoxesOK
  <2> QED BY <1>1, <1>3, <1>4, <2>1, <2>2, Fits DEF After
<1>5. CASE ~stopped
  <2> DEFINE k == <<"queue", n>>
  <2> DEFINE l == <<"flight", t>>
  <2>1. k \in Boxes \ Others(t) /\ l \in Boxes \ Others(t) BY <1>2, Mine
  <2>2. Contents[k] = queue[n] /\ Contents[l] = flight[t] BY <1>2, ContentsAt
  <2> HIDE DEF k, l
  <2>3. flight[t] \in Seq(EngineRef) /\ queue[n] \in Seq(EngineRef) /\ BoxesOK BY <1>2, Fits DEF BoxesOK
  <2>4. \A i \in DOMAIN Contents[l] : Contents[l][i].own = Nobody BY <2>2, <2>3, TypedRefs
  <2>5. Good(RetainAll(heap, Contents[l]), Put(Contents, k, Contents[k] \o Contents[l]), given, Others(t))
    BY <2>1, <2>4, Fits, RetainAllGood
  <2>6. queue' = Put(queue, n, queue[n] \o flight[t]) BY <1>1, <1>5 DEF Put
  <2>7. queue[n] \o flight[t] \in Seq(EngineRef) BY <2>3, ConcatProperties
  <2>8. Contents' = Put(Contents, k, queue[n] \o flight[t]) BY <1>2, <1>3, <2>3, <2>6, QueueChanges DEF k
  <2>9. BoxesOK' BY <1>2, <1>3, <2>3, <2>6, <2>7 DEF BoxesOK, Put
  <2> QED BY <1>1, <1>3, <1>5, <2>2, <2>5, <2>8, <2>9 DEF After
<1> QED BY <1>4, <1>5

\* flush_staging and send let go of what was delivered.
LEMMA DeliveredGood ==
    ASSUME PInv, NEW t \in Threads, Delivered(t)
    PROVE  After(t)
<1> DEFINE k == <<"flight", t>>
<1>1. flight[t] # <<>> /\ flight[t] \in Seq(EngineRef) /\ BoxesOK BY Fits DEF Delivered, PInv, ShapeOK, BoxesOK
<1>2. /\ heap' = DropBody(heap, Head(flight[t]).body) /\ flight' = Put(flight, t, Tail(flight[t]))
      /\ UNCHANGED <<given, handle, slot, staging, queue>>
  BY DEF Delivered, Put, nodes
<1>3. Tail(flight[t]) \in Seq(EngineRef) BY <1>1, TypedRefs
<1>4. Contents[k] = flight[t] /\ k \in Boxes \ Others(t) BY ContentsAt, Mine
<1>5. Contents' = Put(Contents, k, Tail(flight[t])) BY <1>1, <1>2, FlightChanges
<1> HIDE DEF k
<1>6. Good(DropBody(heap, Head(Contents[k]).body), Put(Contents, k, Tail(Contents[k])), given, Others(t))
  BY <1>1, <1>4, Fits, DropFirst
<1>7. BoxesOK' BY <1>1, <1>2, <1>3 DEF BoxesOK, Put
<1> QED BY <1>2, <1>4, <1>5, <1>6, <1>7 DEF After

\* discard_staging, one packet.
LEMMA UnstageGood ==
    ASSUME PInv, NEW n \in Nodes, Unstage(n)
    PROVE  After(n)
<1> DEFINE k == <<"staging", n>>
<1>0. n \in Threads BY Names
<1>1. staging[n] # <<>> /\ staging[n] \in Seq(EngineRef) /\ BoxesOK BY <1>0, Fits DEF Unstage, PInv, ShapeOK, BoxesOK
<1>2. /\ heap' = DropBody(heap, Head(staging[n]).body) /\ staging' = Put(staging, n, Tail(staging[n]))
      /\ UNCHANGED <<given, handle, slot, queue, delivery>>
  BY DEF Unstage, Put
<1>3. Tail(staging[n]) \in Seq(EngineRef) BY <1>1, TypedRefs
<1>4. Contents[k] = staging[n] /\ k \in Boxes \ Others(n) BY <1>0, ContentsAt, Mine
<1>5. Contents' = Put(Contents, k, Tail(staging[n])) BY <1>1, <1>2, StagingChanges
<1> HIDE DEF k
<1>6. Good(DropBody(heap, Head(Contents[k]).body), Put(Contents, k, Tail(Contents[k])), given, Others(n))
  BY <1>0, <1>1, <1>4, Fits, DropFirst
<1>7. BoxesOK' BY <1>1, <1>2, <1>3 DEF BoxesOK, Put, delivery
<1> QED BY <1>2, <1>4, <1>5, <1>6, <1>7 DEF After

\* discard_queued_inputs, one packet.
LEMMA DiscardGood ==
    ASSUME PInv, NEW n \in Nodes, Discard(n)
    PROVE  After(n)
<1> DEFINE k == <<"queue", n>>
<1>0. n \in Threads BY Names
<1>1. queue[n] # <<>> /\ queue[n] \in Seq(EngineRef) /\ BoxesOK BY <1>0, Fits DEF Discard, BoxesOK
<1>2. /\ heap' = DropBody(heap, Head(queue[n]).body) /\ queue' = Put(queue, n, Tail(queue[n]))
      /\ UNCHANGED <<given, handle, slot, staging, flight>>
  BY DEF Discard, Put, delivery
<1>3. Tail(queue[n]) \in Seq(EngineRef) BY <1>1, TypedRefs
<1>4. Contents[k] = queue[n] /\ k \in Boxes \ Others(n) BY <1>0, ContentsAt, Mine
<1>5. Contents' = Put(Contents, k, Tail(queue[n])) BY <1>1, <1>2, QueueChanges
<1> HIDE DEF k
<1>6. Good(DropBody(heap, Head(Contents[k]).body), Put(Contents, k, Tail(Contents[k])), given, Others(n))
  BY <1>0, <1>1, <1>4, Fits, DropFirst
<1>7. BoxesOK' BY <1>1, <1>2, <1>3 DEF BoxesOK, Put
<1> QED BY <1>2, <1>4, <1>5, <1>6, <1>7 DEF After

\* try_claim moves the head of the queue to the slot.
LEMMA ClaimGood ==
    ASSUME PInv, NEW n \in Nodes, Claim(n)
    PROVE  After(n)
<1> DEFINE k == <<"queue", n>>
<1> DEFINE l == <<"slot", n>>
<1> DEFINE r == Head(queue[n])
<1>0. n \in Threads /\ BoxesOK /\ Good(heap, Contents, given, Others(n)) BY Names, Fits
<1>1. queue[n] # <<>> /\ queue[n] \in Seq(EngineRef) BY <1>0 DEF Claim, BoxesOK
<1>2. slot[n] = <<>> BY DEF Claim, At, PInv, ShapeOK
<1>3. r \in EngineRef /\ Tail(queue[n]) \in Seq(EngineRef) /\ queue[n] \in Seq(Refs) BY <1>1, TypedRefs
<1>4. Removes(queue[n], Tail(queue[n]), r) BY <1>1, <1>3, TailRemoves
<1>5. /\ queue' = Put(queue, n, Tail(queue[n])) /\ slot' = Put(slot, n, <<r>>)
      /\ UNCHANGED <<heap, given, handle, staging, flight>>
  BY DEF Claim, Put, delivery
<1> HIDE DEF r
<1>6. Adds(<<>>, <<r>>, r) /\ <<r>> \in Seq(EngineRef) BY <1>3, One
<1>7. /\ Contents[k] = queue[n] /\ Contents[l] = <<>> /\ k \in Boxes \ Others(n) /\ l \in Boxes \ Others(n) /\ k # l
  BY <1>0, <1>2, ContentsAt, Mine
<1>8. Contents' = Put(Put(Contents, k, Tail(queue[n])), l, <<r>>) BY <1>0, <1>5, QueueAndSlot
<1> HIDE DEF k, l
<1>9. Removes(Contents[k], Tail(queue[n]), r) /\ Adds(Contents[l], <<r>>, r) BY <1>4, <1>6, <1>7
<1>10. Good(heap, Put(Put(Contents, k, Tail(queue[n])), l, <<r>>), given, Others(n))
  BY <1>0, <1>7, <1>9, MoveGood
<1>11. BoxesOK' BY <1>0, <1>3, <1>5, <1>6 DEF BoxesOK, Put
<1> QED BY <1>5, <1>8, <1>10, <1>11 DEF After

---------------------------------------------------------------------------
(* The callback.                                                           *)

\* The packet in the slot.
LEMMA InSlot ==
    ASSUME PInv, NEW n \in Nodes, slot[n] # <<>>
    PROVE  /\ slot[n][1] \in EngineRef /\ slot[n][1].own = Nobody /\ slot[n] = <<slot[n][1]>> /\ 1 \in DOMAIN slot[n]
           /\ Removes(slot[n], <<>>, slot[n][1]) /\ slot[n][1] \in Refs
<1> DEFINE s == slot[n]
<1>1. s \in Seq(EngineRef) /\ Len(s) <= 1 /\ s # <<>> BY DEF PInv, TypeOK, BoxesOK, ShapeOK
<1> HIDE DEF s
<1>2. s[1] \in EngineRef /\ s[1].own = Nobody /\ 1 \in DOMAIN s BY <1>1, TypedRefs
<1>3. s = <<s[1]>>
  <2>1. Len(s) \in Nat /\ Len(s) # 0 BY <1>1, EmptySeq, LenProperties
  <2>2. PICK m : m = Len(s) OBVIOUS
  <2>3. m \in Nat /\ m # 0 /\ m <= 1 BY <1>1, <2>1, <2>2
  <2>4. Len(s) = 1 BY <2>2, <2>3
  <2> DEFINE u == <<s[1]>>
  <2>5. u \in Seq(EngineRef) /\ Len(u) = 1 /\ u[1] = s[1] BY <1>2
  <2> HIDE DEF u
  <2>6. \A i \in 1 .. Len(s) : s[i] = u[i] BY <2>4, <2>5
  <2>7. s = u BY <1>1, <2>4, <2>5, <2>6, SeqEqual
  <2> QED BY <2>7 DEF u
<1>4. Removes(<<s[1]>>, <<>>, s[1])
  <2>1. PICK r \in EngineRef : r = s[1] BY <1>2
  <2>2. Removes(<<r>>, <<>>, r) BY One
  <2> QED BY <2>1, <2>2
<1>5. Removes(s, <<>>, s[1]) BY <1>3, <1>4
<1>6. s[1] \in Refs BY <1>2 DEF Refs
<1> QED BY <1>2, <1>3, <1>5, <1>6 DEF s

\* lmflow_ctx_take_input moves the input to the kernel.
LEMMA TakeInputGood ==
    ASSUME PInv, NEW n \in Nodes, TakeInput(n)
    PROVE  After(n)
<1> DEFINE k == <<"slot", n>>
<1> DEFINE r == slot[n][1]
<1> DEFINE u == Append(handle[n], r)
<1>0. n \in Threads /\ BoxesOK /\ Good(heap, Contents, given, Others(n)) BY Names, Fits
<1>1. slot[n] # <<>> BY DEF TakeInput
<1>2. Removes(slot[n], <<>>, r) /\ r \in Refs BY <1>1, InSlot
<1>3. handle[n] \in Seq(Refs) BY <1>0 DEF BoxesOK
<1>4. /\ handle' = Put(handle, n, u) /\ slot' = Put(slot, n, <<>>)
      /\ UNCHANGED <<heap, given, staging, queue, flight>>
  BY DEF TakeInput, Push, Put, delivery
<1> HIDE DEF r
<1>5. Adds(handle[n], u, r) /\ u \in Seq(Refs) BY <1>2, <1>3, AppendAdds, AppendProperties
<1> HIDE DEF u
<1>6. /\ Contents[k] = slot[n] /\ Contents[Hand(n)] = handle[n] /\ k \in Boxes \ Others(n)
      /\ Hand(n) \in Boxes \ Others(n) /\ k # Hand(n)
  BY <1>0, ContentsAt, Mine DEF Hand
<1>7. Contents' = Put(Put(Contents, k, <<>>), Hand(n), u) BY <1>0, <1>4, SlotAndHandle DEF Hand
<1> HIDE DEF k
<1>8. Removes(Contents[k], <<>>, r) /\ Adds(Contents[Hand(n)], u, r) BY <1>2, <1>5, <1>6
<1>9. Good(heap, Put(Put(Contents, k, <<>>), Hand(n), u), given, Others(n)) BY <1>0, <1>6, <1>8, MoveGood
<1>10. BoxesOK' BY <1>0, <1>4, <1>5 DEF BoxesOK, Put
<1> QED BY <1>4, <1>7, <1>9, <1>10 DEF After

\* The kernel clones the input it borrows.
LEMMA CloneInputGood ==
    ASSUME PInv, NEW n \in Nodes, CloneInput(n)
    PROVE  After(n)
<1> DEFINE k == <<"slot", n>>
<1> DEFINE r == slot[n][1]
<1>0. n \in Threads /\ BoxesOK /\ Good(heap, Contents, given, Others(n)) /\ Hand(n) \in Boxes \ Others(n) BY Names, Fits
<1>1. slot[n] # <<>> BY DEF CloneInput
<1>2. r \in Refs /\ r.own = Nobody /\ 1 \in DOMAIN slot[n] BY <1>1, InSlot
<1>3. Push(n, r) /\ heap' = Retain(heap, r.body) /\ UNCHANGED <<given, nodes, delivery>> BY DEF CloneInput
<1>4. Contents[k] = slot[n] /\ k \in Boxes \ Others(n) BY <1>0, ContentsAt, Mine
<1>5. 1 \in DOMAIN Contents[k] /\ r = Contents[k][1] BY <1>2, <1>4
<1> HIDE DEF r, k
<1>6. PICK u : BoxesOK' /\ Contents' = Put(Contents, Hand(n), u) /\ Adds(Contents[Hand(n)], u, r)
  BY <1>0, <1>2, <1>3, Pushing
<1>7. Good(Retain(heap, r.body), Put(Contents, Hand(n), u), given, Others(n))
  BY <1>0, <1>2, <1>4, <1>5, <1>6, KeepGood
<1> QED BY <1>3, <1>6, <1>7 DEF After

\* lmflow_ctx_emit stages the packet or drops it.
LEMMA EmitGood ==
    ASSUME PInv, Room, NEW n \in Nodes, Emit(n)
    PROVE  After(n)
<1> DEFINE k == <<"staging", n>>
<1> DEFINE s == Front(handle[n])
<1> DEFINE r == Taken(n)
<1>0. n \in Threads /\ BoxesOK BY Names, Fits
<1>1. Owns(n) /\ Pop(n) /\ UNCHANGED <<given, slot, queue, delivery>> BY DEF Emit
<1>2. handle' = Put(handle, n, s) /\ s \in Seq(Refs) BY <1>0, <1>1, FrontTyped
<1>3. r \in EngineRef BY <1>0, <1>1, Taking
<1>4. k \in Boxes \ Others(n) /\ k # Hand(n) /\ Contents[k] = staging[n] BY <1>0, Mine, ContentsAt DEF Hand
<1> HIDE DEF s
<1>5. CASE heap' = TakenHeap(n) /\ staging' = [staging EXCEPT ![n] = Append(@, Ref(TakenBody(n), Top(n).value))]
  <2> DEFINE u == Append(staging[n], r)
  <2>1. staging' = Put(staging, n, u) BY <1>5 DEF Put, Taken
  <2>2. staging[n] \in Seq(EngineRef) /\ staging[n] \in Seq(Refs) /\ r \in Refs BY <1>0, <1>3, TypedRefs DEF BoxesOK, Refs
  <2> HIDE DEF r
  <2>3. Adds(staging[n], u, r) /\ u \in Seq(EngineRef) BY <1>3, <2>2, AppendAdds, AppendProperties
  <2> HIDE DEF u
  <2>4. Adds(Contents[k], u, Taken(n)) BY <1>4, <2>3 DEF r
  <2>5. Contents' = Put(Put(Contents, Hand(n), s), k, u)
    <3>1. UNCHANGED <<flight, slot, queue>> BY <1>1 DEF delivery
    <3> QED BY <1>0, <1>2, <2>1, <3>1, HandleAndStaging DEF Hand
  <2> HIDE DEF k
  <2>6. Good(TakenHeap(n), Put(Put(Contents, Hand(n), s), k, u), given, Others(n))
    BY <1>0, <1>1, <1>4, <2>4, TakenMove DEF s
  <2>7. BoxesOK' BY <1>0, <1>1, <1>2, <2>1, <2>3 DEF BoxesOK, Put, delivery
  <2> QED BY <1>1, <1>5, <2>5, <2>6, <2>7 DEF After
<1>6. CASE heap' = DropBody(TakenHeap(n), TakenBody(n)) /\ UNCHANGED staging
  <2>1. Good(DropBody(TakenHeap(n), TakenBody(n)), Put(Contents, Hand(n), s), given, Others(n))
    BY <1>0, <1>1, TakenDrop DEF s
  <2>2. UNCHANGED <<slot, staging, queue, flight>> BY <1>1, <1>6 DEF nodes, delivery
  <2>3. Contents' = Put(Contents, Hand(n), s)
    <3>1. DOMAIN handle = Threads BY <1>0 DEF BoxesOK
    <3>2. Contents' = BoxesOf(Put(handle, n, s), flight, slot, staging, queue) BY <1>2, <2>2, ContentsBoxes
    <3>3. Contents = BoxesOf(handle, flight, slot, staging, queue) BY ContentsBoxes
    <3>4. BoxesOf(Put(handle, n, s), flight, slot, staging, queue)
            = Put(BoxesOf(handle, flight, slot, staging, queue), <<"handle", n>>, s)
      BY <1>0, <3>1, PutHandle
    <3> QED BY <3>2, <3>3, <3>4 DEF Hand
  <2>4. BoxesOK' BY <1>0, <1>2, <2>2 DEF BoxesOK, Put
  <2> QED BY <1>1, <1>6, <2>1, <2>3, <2>4 DEF After
<1> QED BY <1>5, <1>6 DEF Emit

\* lmflow_ctx_forward stages a clone of the input.
LEMMA ForwardGood ==
    ASSUME PInv, NEW n \in Nodes, Forward(n)
    PROVE  After(n)
<1> DEFINE k == <<"slot", n>>
<1> DEFINE l == <<"staging", n>>
<1> DEFINE r == slot[n][1]
<1>0. n \in Threads /\ BoxesOK /\ Good(heap, Contents, given, Others(n)) BY Names, Fits
<1>1. UNCHANGED <<given, handle, slot, queue, delivery>> BY DEF Forward
<1>2. CASE slot[n] = <<>>
  BY <1>0, <1>1, <1>2, StillGood DEF Forward
<1>3. CASE slot[n] # <<>>
  <2> DEFINE u == Append(staging[n], r)
  <2>1. r \in EngineRef /\ r \in Refs /\ r.own = Nobody /\ 1 \in DOMAIN slot[n] BY <1>3, InSlot
  <2>2. staging' = Put(staging, n, u) /\ heap' = Retain(heap, r.body) BY <1>3 DEF Forward, Put
  <2>3. staging[n] \in Seq(EngineRef) /\ staging[n] \in Seq(Refs) BY <1>0, TypedRefs DEF BoxesOK
  <2>4. /\ Contents[k] = slot[n] /\ Contents[l] = staging[n] /\ k \in Boxes \ Others(n) /\ l \in Boxes \ Others(n)
    BY <1>0, ContentsAt, Mine
  <2>5. 1 \in DOMAIN Contents[k] /\ r = Contents[k][1] BY <2>1, <2>4
  <2> HIDE DEF r
  <2>6. Adds(staging[n], u, r) /\ u \in Seq(EngineRef) BY <2>1, <2>3, AppendAdds, AppendProperties
  <2> HIDE DEF u
  <2>7. Contents' = Put(Contents, l, u) BY <1>0, <1>1, <2>2, StagingChanges
  <2> HIDE DEF k, l
  <2>8. Adds(Contents[l], u, r) BY <2>4, <2>6
  <2>9. Good(Retain(heap, r.body), Put(Contents, l, u), given, Others(n)) BY <1>0, <2>1, <2>4, <2>5, <2>8, KeepGood
  <2>10. BoxesOK' BY <1>0, <1>1, <2>2, <2>6 DEF BoxesOK, Put, delivery
  <2> QED BY <1>1, <2>2, <2>7, <2>9, <2>10 DEF After
<1> QED BY <1>2, <1>3

\* The input of an invocation is let go.
LEMMA InputDropped ==
    ASSUME PInv, NEW n \in Nodes
    PROVE  Good(IF slot[n] = <<>> THEN heap ELSE DropBody(heap, slot[n][1].body),
                Put(Contents, <<"slot", n>>, <<>>), given, Others(n))
<1> DEFINE k == <<"slot", n>>
<1>0. n \in Threads /\ BoxesOK /\ Good(heap, Contents, given, Others(n)) BY Names, Fits
<1>1. Contents[k] = slot[n] /\ k \in Boxes \ Others(n) BY <1>0, ContentsAt, Mine
<1> HIDE DEF k
<1>2. CASE slot[n] = <<>>
  <2>1. Contents \in [Boxes -> Seq(Refs)] BY <1>0, Fits DEF Sound, Contained
  <2>2. Put(Contents, k, Contents[k]) = Contents BY <1>1, <2>1, PutGet
  <2> QED BY <1>0, <1>1, <1>2, <2>2 DEF k
<1>3. CASE slot[n] # <<>>
  <2> DEFINE r == slot[n][1]
  <2>1. Removes(slot[n], <<>>, r) /\ r.own = Nobody BY <1>3, InSlot
  <2> HIDE DEF r
  <2>2. Removes(Contents[k], <<>>, r) BY <1>1, <2>1
  <2>3. Good(DropBody(heap, r.body), Put(Contents, k, <<>>), given, Others(n)) BY <1>0, <1>1, <2>1, <2>2, DropGood
  <2> QED BY <1>3, <2>3 DEF r, k
<1> QED BY <1>2, <1>3

\* complete_invocation lets the input go and flushes or keeps the staging.
LEMMA CompleteGood ==
    ASSUME PInv, NEW n \in Nodes, Complete(n)
    PROVE  After(n)
<1> DEFINE a == <<"slot", n>>
<1> DEFINE k == <<"staging", n>>
<1> DEFINE l == <<"flight", n>>
<1> DEFINE B == Put(Contents, a, <<>>)
<1>0. n \in Threads /\ BoxesOK BY Names, Fits
<1>1. /\ heap' = IF slot[n] = <<>> THEN heap ELSE DropBody(heap, slot[n][1].body)
      /\ slot' = Put(slot, n, <<>>) /\ UNCHANGED <<given, handle, queue>> /\ pc[n] \in {"done", "failed"}
  BY DEF Complete, Put
<1>2. Good(heap', B, given', Others(n)) BY <1>1, InputDropped
<1>3. CASE UNCHANGED <<staging, delivery>>
  <2>1. Contents' = B BY <1>0, <1>1, <1>3, SlotChanges
  <2>2. <<>> \in Seq(EngineRef) OBVIOUS
  <2>3. BoxesOK' BY <1>0, <1>1, <1>3, <2>2 DEF BoxesOK, Put, delivery
  <2> QED BY <1>2, <2>1, <2>3 DEF After
<1>4. CASE flight' = [flight EXCEPT ![n] = staging[n]] /\ staging' = [staging EXCEPT ![n] = <<>>]
  <2>1. flight' = Put(flight, n, staging[n]) /\ staging' = Put(staging, n, <<>>) BY <1>4 DEF Put
  <2>2. flight[n] = <<>> BY <1>0, <1>1 DEF PInv, ShapeOK, At
  <2>3. Contents' = Put(Put(B, k, <<>>), l, staging[n]) BY <1>0, <1>1, <2>1, InputAndOutput
  <2>4. Contents \in [Boxes -> Seq(Refs)] BY <1>0, Fits DEF Sound, Contained
  <2>5. /\ a \in Boxes /\ k \in Boxes \ Others(n) /\ l \in Boxes \ Others(n) /\ k # l /\ a # k /\ a # l
        /\ Contents[k] = staging[n] /\ Contents[l] = <<>>
    BY <1>0, <2>2, Mine, ContentsAt
  <2> HIDE DEF a, k, l
  <2>6. B[k] = staging[n] /\ B[l] = <<>> BY <2>4, <2>5, PutOther
  <2> HIDE DEF B
  <2>7. Good(heap', Put(Put(B, k, <<>>), l, B[k]), given', Others(n)) BY <1>2, <2>5, <2>6, MoveAllGood
  <2>8. <<>> \in Seq(EngineRef) OBVIOUS
  <2>9. BoxesOK' BY <1>0, <1>1, <2>1, <2>8 DEF BoxesOK, Put
  <2> QED BY <2>3, <2>6, <2>7, <2>9 DEF After
<1> QED BY <1>3, <1>4 DEF Complete

---------------------------------------------------------------------------
(* The rest of the state.                                                  *)

\* A step of thread t keeps PInv if it keeps the parts of it.
LEMMA Settled ==
    ASSUME PInv, NEW t \in Threads, After(t), FrameOK', ShapeOK', \A w \in Threads \ {t} : pc'[w] = pc[w],
           pc'[t] # "payload" \/ Sole(heap', Contents', Hand(t))
    PROVE  PInv'
<1>1. Good(heap', Contents', given', Others(t)) /\ BoxesOK' BY DEF After
<1>2. heap' \in HeapType BY <1>1 DEF Good, Sound, HeapOK
<1>3. ASSUME NEW w \in Writers' PROVE Sole(heap', Contents', <<"handle", w>>) /\ <<"handle", w>> \in Boxes
  <2>1. w \in Threads /\ pc'[w] = "payload" BY DEF Writers, At
  <2>2. CASE w = t BY <2>1, <2>2, BoxKinds DEF Hand
  <2>3. CASE w # t
    <3>1. w \in Writers \ {t} BY <2>1, <2>3 DEF Writers, At
    <3>2. <<"handle", w>> \in Others(t) BY <3>1 DEF Others
    <3> QED BY <1>1, <2>1, <3>2, BoxKinds DEF Good
  <2> QED BY <2>2, <2>3
<1>4. Good(heap', Contents', given', {<<"handle", w>> : w \in Writers'}) BY <1>1, <1>3 DEF Good
<1> QED BY <1>1, <1>2, <1>4 DEF PInv, TypeOK

\* A packet that is held has a payload.
LEMMA HeldLive ==
    ASSUME PInv, NEW k \in Boxes, NEW i \in DOMAIN Contents[k], Contents[k][i].own = Nobody
    PROVE  heap.body[Contents[k][i].body].payload \in Payloads
<1>1. HeapOK(heap, 0) /\ Contained(Contents) /\ Counts(heap, Contents) BY DEF PInv, Good, Sound
<1>2. Contents[k][i].body \in Bodies /\ heap.body[Contents[k][i].body].refs # 0 BY <1>1, Live
<1> QED BY <1>1, <1>2, LivePayload

\* So has the one on top of a thread's handles,
LEMMA TopLive ==
    ASSUME PInv, NEW t \in Threads, Engine(t)
    PROVE  heap.body[Top(t).body].payload \in Payloads
<1>1. Len(handle[t]) \in DOMAIN handle[t] BY Fits, OnTop DEF Engine
<1>2. Contents[Hand(t)] = handle[t] /\ Hand(t) \in Boxes BY Fits
<1>3. Contents[Hand(t)][Len(handle[t])] = Top(t) BY <1>2 DEF Top
<1>4. Top(t).own = Nobody BY DEF Engine
<1> QED BY <1>1, <1>2, <1>3, <1>4, HeldLive

\* the one in a slot,
LEMMA SlotLive ==
    ASSUME PInv, NEW n \in Nodes, slot[n] # <<>>
    PROVE  heap.body[slot[n][1].body].payload \in Payloads
<1> DEFINE k == <<"slot", n>>
<1>1. slot[n][1].own = Nobody /\ 1 \in DOMAIN slot[n] BY InSlot
<1>2. Contents[k] = slot[n] /\ k \in Boxes BY ContentsAt, BoxKinds
<1> HIDE DEF k
<1> QED BY <1>1, <1>2, HeldLive

\* and the one that is staged again.
LEMMA AgainTyped ==
    ASSUME PInv, NEW n \in Nodes, NEW b, Again(n, b)
    PROVE  cloned' \in SUBSET Payloads
<1> DEFINE p == heap.body[b].payload
<1> DEFINE k == <<"staging", n>>
<1>1. cloned \in SUBSET Payloads /\ staging[n] \in Seq(EngineRef) BY DEF PInv, TypeOK, FrameOK, BoxesOK
<1>2. Contents[k] = staging[n] /\ k \in Boxes BY ContentsAt, BoxKinds
<1> HIDE DEF k
<1>3. ASSUME Staged(n, p) PROVE p \in Payloads
  <2>1. PICK i \in DOMAIN staging[n] : heap.body[staging[n][i].body].payload = p BY <1>3 DEF Staged
  <2>2. staging[n][i].own = Nobody BY <1>1, TypedRefs
  <2>3. i \in DOMAIN Contents[k] /\ Contents[k][i].own = Nobody /\ Contents[k][i] = staging[n][i] BY <1>2, <2>1, <2>2
  <2>4. heap.body[Contents[k][i].body].payload \in Payloads BY <1>2, <2>3, HeldLive
  <2> QED BY <2>1, <2>3, <2>4
<1> QED BY <1>1, <1>3 DEF Again

\* Forgetting leaves payloads.
LEMMA ForgetTyped ==
    ASSUME PInv, cloned' = Forget(heap', cloned)
    PROVE  cloned' \in SUBSET Payloads
BY DEF PInv, TypeOK, FrameOK, Forget

\* The last of several is not the last.
LEMMA MoreThanOne ==
    ASSUME NEW s \in Seq(EngineRef), s # <<>>
    PROVE  (Len(s) > 1) <=> Tail(s) # <<>>
<1>1. Len(s) \in Nat /\ Len(s) # 0 BY EmptySeq, LenProperties
<1>2. Tail(s) \in Seq(EngineRef) /\ Len(Tail(s)) = Len(s) - 1 BY HeadTailProperties
<1>3. Tail(s) = <<>> <=> Len(Tail(s)) = 0 BY <1>2, EmptySeq
<1> QED BY <1>1, <1>2, <1>3

---------------------------------------------------------------------------
(* Every step keeps the invariant.                                         *)

\* The invariant is kept by making a value.
LEMMA MakeBuiltinStep ==
    ASSUME PInv, Room, NEW t \in Threads, MakeBuiltin(t)
    PROVE  PInv'
<1>1. After(t) BY MakeBuiltinGood
<1>2. cloned' \in SUBSET Payloads BY DEF MakeBuiltin, PInv, TypeOK, FrameOK
<1>3. FrameOK' BY <1>2 DEF MakeBuiltin, PInv, TypeOK, FrameOK, Spend, Goto, Labels, graph, nodes, delivery
<1>4. ShapeOK' BY DEF MakeBuiltin, PInv, TypeOK, FrameOK, ShapeOK, BoxesOK, At, Running, Goto, nodes, delivery
<1>5. (\A w \in Threads \ {t} : pc'[w] = pc[w]) /\ pc'[t] # "payload"
  BY DEF MakeBuiltin, PInv, TypeOK, FrameOK, At, Running, Goto
<1> QED BY <1>1, <1>3, <1>4, <1>5, Settled

\* The invariant is kept by copying a buffer.
LEMMA CopyBufferStep ==
    ASSUME PInv, Room, CopyBuffer
    PROVE  PInv'
<1>0. Host \in Threads BY Names
<1>1. After(Host) BY <1>0, CopyBufferGood
<1>2. cloned' \in SUBSET Payloads BY DEF CopyBuffer, PInv, TypeOK, FrameOK
<1>3. FrameOK' BY <1>0, <1>2 DEF CopyBuffer, PInv, TypeOK, FrameOK, Spend, Goto, Labels, graph, nodes, delivery
<1>4. ShapeOK' BY <1>0 DEF CopyBuffer, PInv, TypeOK, FrameOK, ShapeOK, BoxesOK, At, Running, Goto, nodes, delivery
<1>5. (\A w \in Threads \ {Host} : pc'[w] = pc[w]) /\ pc'[Host] # "payload"
  BY <1>0 DEF CopyBuffer, PInv, TypeOK, FrameOK, At, Running, Goto
<1> QED BY <1>0, <1>1, <1>3, <1>4, <1>5, Settled

\* The invariant is kept by adopting a buffer.
LEMMA AdoptBufferStep ==
    ASSUME PInv, Room, AdoptBuffer
    PROVE  PInv'
<1>0. Host \in Threads BY Names
<1>1. After(Host) BY <1>0, AdoptBufferGood
<1>2. cloned' \in SUBSET Payloads BY DEF AdoptBuffer, PInv, TypeOK, FrameOK
<1>3. FrameOK' BY <1>0, <1>2, Names DEF AdoptBuffer, PInv, TypeOK, FrameOK, Spend, Goto, Labels, graph, nodes, delivery
<1>4. ShapeOK' BY <1>0 DEF AdoptBuffer, PInv, TypeOK, FrameOK, ShapeOK, BoxesOK, At, Running, Goto, nodes, delivery
<1>5. (\A w \in Threads \ {Host} : pc'[w] = pc[w]) /\ pc'[Host] # "payload"
  BY <1>0 DEF AdoptBuffer, PInv, TypeOK, FrameOK, At, Running, Goto
<1> QED BY <1>0, <1>1, <1>3, <1>4, <1>5, Settled

\* The invariant is kept by a pooled buffer.
LEMMA NewBufferStep ==
    ASSUME PInv, Room, NEW n \in Nodes, NewBuffer(n)
    PROVE  PInv'
<1>0. n \in Threads BY Names
<1>1. After(n) BY <1>0, NewBufferGood
<1>2. cloned' \in SUBSET Payloads BY DEF NewBuffer, PInv, TypeOK, FrameOK
<1>3. FrameOK' BY <1>0, <1>2 DEF NewBuffer, PInv, TypeOK, FrameOK, Spend, Goto, Labels, graph, nodes, delivery
<1>4. ShapeOK' BY <1>0 DEF NewBuffer, PInv, TypeOK, FrameOK, ShapeOK, BoxesOK, At, Running, Goto, nodes, delivery
<1>5. (\A w \in Threads \ {n} : pc'[w] = pc[w]) /\ pc'[n] # "payload"
  BY <1>0 DEF NewBuffer, PInv, TypeOK, FrameOK, At, Running, Goto
<1> QED BY <1>0, <1>1, <1>3, <1>4, <1>5, Settled

\* The invariant is kept by an object built by hand.
LEMMA BuildPacketStep ==
    ASSUME PInv, Room, NEW t \in Threads, BuildPacket(t)
    PROVE  PInv'
<1>1. After(t) BY BuildPacketGood
<1>2. cloned' \in SUBSET Payloads BY DEF BuildPacket, PInv, TypeOK, FrameOK
<1>3. FrameOK' BY <1>2, Names DEF BuildPacket, PInv, TypeOK, FrameOK, Spend, Goto, Labels, graph, nodes, delivery
<1>4. ShapeOK' BY Names DEF BuildPacket, Push, PInv, TypeOK, FrameOK, ShapeOK, BoxesOK, At, Running, nodes, delivery
<1>5. (\A w \in Threads \ {t} : pc'[w] = pc[w]) /\ pc'[t] # "payload"
  BY DEF BuildPacket, PInv, TypeOK, FrameOK, At, Running, Goto
<1> QED BY <1>1, <1>3, <1>4, <1>5, Settled

\* The invariant is kept by an object in a body.
LEMMA NewInteropStep ==
    ASSUME PInv, Room, NEW t \in Threads, NewInterop(t)
    PROVE  PInv'
<1>1. After(t) BY NewInteropGood
<1>2. cloned' \in SUBSET Payloads BY DEF NewInterop, PInv, TypeOK, FrameOK
<1>3. FrameOK' BY <1>2, Names DEF NewInterop, PInv, TypeOK, FrameOK, Spend, Goto, Labels, graph, nodes, delivery
<1>4. ShapeOK' BY Names DEF NewInterop, PInv, TypeOK, FrameOK, ShapeOK, BoxesOK, At, Running, nodes, delivery
<1>5. (\A w \in Threads \ {t} : pc'[w] = pc[w]) /\ pc'[t] # "payload"
  BY DEF NewInterop, PInv, TypeOK, FrameOK, At, Running, Goto
<1> QED BY <1>1, <1>3, <1>4, <1>5, Settled

\* The invariant is kept by a clone.
LEMMA CloneStep ==
    ASSUME PInv, Room, NEW t \in Threads, Clone(t)
    PROVE  PInv'
<1>1. After(t) BY CloneGood
<1>2. cloned' \in SUBSET Payloads BY TopLive DEF Clone, MarkCloned, PInv, TypeOK, FrameOK
<1>3. FrameOK' BY <1>2 DEF Clone, PInv, TypeOK, FrameOK, Spend, Goto, Labels, graph, nodes, delivery
<1>4. ShapeOK' BY DEF Clone, PInv, TypeOK, FrameOK, ShapeOK, BoxesOK, At, Running, Goto, nodes, delivery
<1>5. (\A w \in Threads \ {t} : pc'[w] = pc[w]) /\ pc'[t] # "payload"
  BY DEF Clone, PInv, TypeOK, FrameOK, At, Running, Goto
<1> QED BY <1>1, <1>3, <1>4, <1>5, Settled

\* The invariant is kept by a drop.
LEMMA DropStep ==
    ASSUME PInv, Room, NEW t \in Threads, Drop(t)
    PROVE  PInv'
<1>1. After(t) BY DropPacketGood
<1>2. cloned' \in SUBSET Payloads BY ForgetTyped DEF Drop
<1>3. FrameOK' BY <1>2 DEF Drop, PInv, TypeOK, FrameOK, Spend, Goto, Labels, graph, nodes, delivery
<1>4. ShapeOK' BY DEF Drop, PInv, TypeOK, FrameOK, ShapeOK, BoxesOK, At, Running, Goto, nodes, delivery
<1>5. (\A w \in Threads \ {t} : pc'[w] = pc[w]) /\ pc'[t] # "payload"
  BY DEF Drop, PInv, TypeOK, FrameOK, At, Running, Goto
<1> QED BY <1>1, <1>3, <1>4, <1>5, Settled

\* The invariant is kept by changed metadata.
LEMMA SetMetadataStep ==
    ASSUME PInv, Room, NEW t \in Threads, SetMetadata(t)
    PROVE  PInv'
<1>1. After(t) BY SetMetadataGood
<1>2. cloned' \in SUBSET Payloads BY DEF SetMetadata, PInv, TypeOK, FrameOK
<1>3. FrameOK' BY <1>2 DEF SetMetadata, PInv, TypeOK, FrameOK, Spend, Goto, Labels, graph, nodes, delivery
<1>4. ShapeOK' BY DEF SetMetadata, PInv, TypeOK, FrameOK, ShapeOK, BoxesOK, At, Running, Goto, nodes, delivery
<1>5. (\A w \in Threads \ {t} : pc'[w] = pc[w]) /\ pc'[t] # "payload"
  BY DEF SetMetadata, PInv, TypeOK, FrameOK, At, Running, Goto
<1> QED BY <1>1, <1>3, <1>4, <1>5, Settled

\* The invariant is kept by the first half of a writable view.
LEMMA MakeMutableStep ==
    ASSUME PInv, Room, NEW t \in Threads, MakeMutable(t)
    PROVE  PInv'
<1>1. After(t) BY MakeMutableGood
<1>2. cloned' \in SUBSET Payloads BY DEF MakeMutable, PInv, TypeOK, FrameOK
<1>3. FrameOK' BY <1>2 DEF MakeMutable, PInv, TypeOK, FrameOK, Spend, Goto, Labels, graph, nodes, delivery
<1>4. ShapeOK' BY DEF MakeMutable, PInv, TypeOK, FrameOK, ShapeOK, BoxesOK, At, Running, Goto, nodes, delivery
<1>5. (\A w \in Threads \ {t} : pc'[w] = pc[w]) /\ Sole(heap', Contents', Hand(t))
  BY MakeMutableGood DEF MakeMutable, PInv, TypeOK, FrameOK, Goto
<1> QED BY <1>1, <1>3, <1>4, <1>5, Settled

\* The invariant is kept by the second half of a writable view.
LEMMA OwnPayloadStep ==
    ASSUME PInv, Room, NEW t \in Threads, OwnPayload(t)
    PROVE  PInv'
<1>1. After(t) BY OwnPayloadGood
<1>2. cloned' \in SUBSET Payloads BY Zenon, ForgetTyped DEF OwnPayload
<1>3. FrameOK' BY Zenon, <1>2 DEF OwnPayload, PInv, TypeOK, FrameOK, Spend, Goto, Labels, graph, nodes, delivery
<1>4. ShapeOK'
  <2>1. At(t, "payload") /\ pc' = [pc EXCEPT ![t] = "run"] /\ UNCHANGED <<flight, slot, staging, given>>
    BY Zenon DEF OwnPayload, Goto, nodes, delivery
  <2> QED BY SMTT(30), <2>1 DEF PInv, TypeOK, FrameOK, ShapeOK, At
<1>5. (\A w \in Threads \ {t} : pc'[w] = pc[w]) /\ pc'[t] # "payload"
  BY Zenon DEF OwnPayload, PInv, TypeOK, FrameOK, At, Running, Goto
<1> QED BY <1>1, <1>3, <1>4, <1>5, Settled

\* The invariant is kept by a send.
LEMMA SendStep ==
    ASSUME PInv, Room, Send
    PROVE  PInv'
<1>0. Host \in Threads BY Names
<1>1. After(Host) BY <1>0, SendGood
<1>2. cloned' \in SUBSET Payloads BY ForgetTyped DEF Send
<1>6. /\ At(Host, "run") /\ UNCHANGED <<source, consumers, registered, spoilt, slot, staging, given, stopped, budget>>
      /\ \/ \E r : /\ flight' = [flight EXCEPT ![Host] = <<r>>] /\ targets' = [targets EXCEPT ![Host] = {Producer}]
                   /\ pc' = [pc EXCEPT ![Host] = "deliver"]
         \/ UNCHANGED <<flight, targets, pc>>
  BY DEF Send, Running, At, Goto, graph, nodes, delivery
<1>3. FrameOK' BY <1>0, <1>2, <1>6 DEF PInv, TypeOK, FrameOK, Labels, Nodes
<1>4. ShapeOK'
  <2>1. Host \notin Nodes /\ Adopted # Object BY PacketsAssumption DEF Nodes
  <2>2. CASE UNCHANGED <<flight, targets, pc>> BY <1>6, <2>2 DEF PInv, ShapeOK, At
  <2>3. CASE ~UNCHANGED <<flight, targets, pc>>
    <3>1. PICK r : flight' = [flight EXCEPT ![Host] = <<r>>] /\ pc' = [pc EXCEPT ![Host] = "deliver"] BY <1>6, <2>3
    <3>2. <<r>> # <<>> OBVIOUS
    <3> QED BY <1>0, <1>6, <2>1, <3>1, <3>2 DEF PInv, TypeOK, FrameOK, ShapeOK, BoxesOK, At
  <2> QED BY <2>2, <2>3
<1>5. (\A w \in Threads \ {Host} : pc'[w] = pc[w]) /\ pc'[Host] # "payload"
  BY <1>0 DEF Send, PInv, TypeOK, FrameOK, At, Running, Goto
<1> QED BY <1>0, <1>1, <1>3, <1>4, <1>5, Settled

\* The invariant is kept by a dispatch.
LEMMA DispatchStep ==
    ASSUME PInv, Room, NEW t \in Threads, Dispatch(t)
    PROVE  PInv'
<1>1. After(t) BY DispatchGood
<1>2. cloned' \in SUBSET Payloads BY DEF Dispatch, PInv, TypeOK, FrameOK
<1>3. FrameOK' BY <1>2 DEF Dispatch, PInv, TypeOK, FrameOK, Spend, Goto, Labels, graph, nodes, delivery
<1>4. ShapeOK' BY DEF Dispatch, PInv, TypeOK, FrameOK, ShapeOK, BoxesOK, At, Running, Goto, nodes, delivery
<1>5. (\A w \in Threads \ {t} : pc'[w] = pc[w]) /\ pc'[t] # "payload"
  BY DEF Dispatch, PInv, TypeOK, FrameOK, At, Running, Goto
<1> QED BY <1>1, <1>3, <1>4, <1>5, Settled

\* The invariant is kept by the end of a delivery.
LEMMA DeliveredStep ==
    ASSUME PInv, Room, NEW t \in Threads, Delivered(t)
    PROVE  PInv'
<1>1. After(t) BY DeliveredGood
<1>2. cloned' \in SUBSET Payloads BY ForgetTyped DEF Delivered
<1>3. FrameOK' BY <1>2 DEF Delivered, PInv, TypeOK, FrameOK, Spend, Goto, Labels, graph, nodes, delivery
<1>4. ShapeOK'
  <2>1. flight[t] # <<>> /\ flight[t] \in Seq(EngineRef) BY Fits DEF Delivered, PInv, ShapeOK, BoxesOK
  <2>2. (Len(flight[t]) > 1) <=> Tail(flight[t]) # <<>> BY <2>1, MoreThanOne
  <2>3. UNCHANGED <<slot, staging, given>> /\ flight' = [flight EXCEPT ![t] = Tail(flight[t])] /\ At(t, "deliver")
    BY DEF Delivered, nodes
  <2>4. CASE Tail(flight[t]) # <<>>
    <3>1. UNCHANGED pc BY <2>2, <2>4 DEF Delivered
    <3> QED BY <2>3, <2>4, <3>1 DEF PInv, TypeOK, FrameOK, ShapeOK, BoxesOK, At
  <2>5. CASE Tail(flight[t]) = <<>>
    <3>1. PICK l \in {"run", "idle"} : pc' = [pc EXCEPT ![t] = l] BY <2>2, <2>5 DEF Delivered, Goto
    <3>2. t \in Nodes => slot[t] = <<>> BY <2>3 DEF PInv, ShapeOK, At
    <3> QED BY SMTT(30), <2>3, <2>5, <3>1, <3>2 DEF PInv, TypeOK, FrameOK, ShapeOK, BoxesOK, At
  <2> QED BY <2>4, <2>5
<1>5. (\A w \in Threads \ {t} : pc'[w] = pc[w]) /\ pc'[t] # "payload"
  BY DEF Delivered, PInv, TypeOK, FrameOK, At, Running, Goto
<1> QED BY <1>1, <1>3, <1>4, <1>5, Settled

\* The invariant is kept by a claim.
LEMMA ClaimStep ==
    ASSUME PInv, Room, NEW n \in Nodes, Claim(n)
    PROVE  PInv'
<1>0. n \in Threads BY Names
<1>1. After(n) BY <1>0, ClaimGood
<1>2. cloned' \in SUBSET Payloads BY DEF Claim, PInv, TypeOK, FrameOK
<1>3. FrameOK' BY <1>0, <1>2 DEF Claim, PInv, TypeOK, FrameOK, Spend, Goto, Labels, graph, nodes, delivery
<1>4. ShapeOK'
  <2>1. Len(<<Head(queue[n])>>) = 1 OBVIOUS
  <2> QED BY SMTT(30), <1>0, <2>1 DEF Claim, PInv, TypeOK, FrameOK, ShapeOK, BoxesOK, At, Goto, delivery
<1>5. (\A w \in Threads \ {n} : pc'[w] = pc[w]) /\ pc'[n] # "payload"
  BY <1>0 DEF Claim, PInv, TypeOK, FrameOK, At, Running, Goto
<1> QED BY <1>0, <1>1, <1>3, <1>4, <1>5, Settled

\* The invariant is kept by discarding a staged packet.
LEMMA UnstageStep ==
    ASSUME PInv, Room, NEW n \in Nodes, Unstage(n)
    PROVE  PInv'
<1>0. n \in Threads BY Names
<1>1. After(n) BY <1>0, UnstageGood
<1>2. cloned' \in SUBSET Payloads BY ForgetTyped DEF Unstage
<1>3. FrameOK' BY <1>0, <1>2 DEF Unstage, PInv, TypeOK, FrameOK, Spend, Goto, Labels, graph, nodes, delivery
<1>4. ShapeOK'
  <2>1. staging[n] # <<>> /\ staging[n] \in Seq(EngineRef) BY <1>0, Fits DEF Unstage, PInv, ShapeOK, BoxesOK
  <2>2. (Len(staging[n]) > 1) <=> Tail(staging[n]) # <<>> BY <2>1, MoreThanOne
  <2>3. UNCHANGED <<slot, flight, given>> /\ staging' = [staging EXCEPT ![n] = Tail(staging[n])] /\ At(n, "discard")
    BY DEF Unstage, delivery
  <2>4. CASE Tail(staging[n]) # <<>>
    <3>1. UNCHANGED pc BY <2>2, <2>4 DEF Unstage
    <3> QED BY <1>0, <2>3, <2>4, <3>1 DEF PInv, TypeOK, FrameOK, ShapeOK, BoxesOK, At
  <2>5. CASE Tail(staging[n]) = <<>>
    <3>1. pc' = [pc EXCEPT ![n] = "done"] BY <2>2, <2>5 DEF Unstage, Goto
    <3> QED BY SMTT(30), <1>0, <2>3, <2>5, <3>1 DEF PInv, TypeOK, FrameOK, ShapeOK, BoxesOK, At
  <2> QED BY <2>4, <2>5
<1>5. (\A w \in Threads \ {n} : pc'[w] = pc[w]) /\ pc'[n] # "payload"
  BY <1>0 DEF Unstage, PInv, TypeOK, FrameOK, At, Running, Goto
<1> QED BY <1>0, <1>1, <1>3, <1>4, <1>5, Settled

\* The invariant is kept by taking the input.
LEMMA TakeInputStep ==
    ASSUME PInv, Room, NEW n \in Nodes, TakeInput(n)
    PROVE  PInv'
<1>0. n \in Threads BY Names
<1>1. After(n) BY <1>0, TakeInputGood
<1>2. cloned' \in SUBSET Payloads BY AgainTyped DEF TakeInput
<1>3. FrameOK' BY <1>0, <1>2 DEF TakeInput, PInv, TypeOK, FrameOK, Spend, Goto, Labels, graph, nodes, delivery
<1>4. ShapeOK' BY <1>0 DEF TakeInput, PInv, TypeOK, FrameOK, ShapeOK, BoxesOK, At, Running, Goto, nodes, delivery
<1>5. (\A w \in Threads \ {n} : pc'[w] = pc[w]) /\ pc'[n] # "payload"
  BY <1>0 DEF TakeInput, PInv, TypeOK, FrameOK, At, Running, Goto
<1> QED BY <1>0, <1>1, <1>3, <1>4, <1>5, Settled

\* The invariant is kept by cloning the input.
LEMMA CloneInputStep ==
    ASSUME PInv, Room, NEW n \in Nodes, CloneInput(n)
    PROVE  PInv'
<1>0. n \in Threads BY Names
<1>1. After(n) BY <1>0, CloneInputGood
<1>2. cloned' \in SUBSET Payloads BY SlotLive DEF CloneInput, MarkCloned, PInv, TypeOK, FrameOK
<1>3. FrameOK' BY <1>0, <1>2 DEF CloneInput, PInv, TypeOK, FrameOK, Spend, Goto, Labels, graph, nodes, delivery
<1>4. ShapeOK' BY <1>0 DEF CloneInput, PInv, TypeOK, FrameOK, ShapeOK, BoxesOK, At, Running, Goto, nodes, delivery
<1>5. (\A w \in Threads \ {n} : pc'[w] = pc[w]) /\ pc'[n] # "payload"
  BY <1>0 DEF CloneInput, PInv, TypeOK, FrameOK, At, Running, Goto
<1> QED BY <1>0, <1>1, <1>3, <1>4, <1>5, Settled

\* The invariant is kept by an emit.
LEMMA EmitStep ==
    ASSUME PInv, Room, NEW n \in Nodes, Emit(n)
    PROVE  PInv'
<1>0. n \in Threads BY Names
<1>1. After(n) BY <1>0, EmitGood
<1>2. cloned' \in SUBSET Payloads BY AgainTyped, ForgetTyped DEF Emit
<1>3. FrameOK' BY <1>0, <1>2 DEF Emit, PInv, TypeOK, FrameOK, Spend, Goto, Labels, graph, nodes, delivery, Spoil
<1>4. ShapeOK' BY <1>0 DEF Emit, PInv, TypeOK, FrameOK, ShapeOK, BoxesOK, At, Running, Goto, nodes, delivery, Spoil
<1>5. (\A w \in Threads \ {n} : pc'[w] = pc[w]) /\ pc'[n] # "payload"
  BY <1>0 DEF Emit, PInv, TypeOK, FrameOK, At, Running, Goto, Spoil
<1> QED BY <1>0, <1>1, <1>3, <1>4, <1>5, Settled

\* The invariant is kept by a forward.
LEMMA ForwardStep ==
    ASSUME PInv, Room, NEW n \in Nodes, Forward(n)
    PROVE  PInv'
<1>0. n \in Threads BY Names
<1>1. After(n) BY <1>0, ForwardGood
<1>2. cloned' \in SUBSET Payloads BY AgainTyped DEF Forward, PInv, TypeOK, FrameOK
<1>3. FrameOK' BY <1>0, <1>2 DEF Forward, PInv, TypeOK, FrameOK, Spend, Goto, Labels, graph, nodes, delivery, Spoil
<1>4. ShapeOK' BY <1>0 DEF Forward, PInv, TypeOK, FrameOK, ShapeOK, BoxesOK, At, Running, Goto, nodes, delivery, Spoil
<1>5. (\A w \in Threads \ {n} : pc'[w] = pc[w]) /\ pc'[n] # "payload"
  BY <1>0 DEF Forward, PInv, TypeOK, FrameOK, At, Running, Goto, Spoil
<1> QED BY <1>0, <1>1, <1>3, <1>4, <1>5, Settled

\* The invariant is kept by the end of an invocation.
LEMMA CompleteStep ==
    ASSUME PInv, Room, NEW n \in Nodes, Complete(n)
    PROVE  PInv'
<1>0. n \in Threads BY Names
<1>1. After(n) BY <1>0, CompleteGood
<1>2. cloned' \in SUBSET Payloads BY ForgetTyped DEF Complete
<1>6. /\ pc[n] \in {"done", "failed"} /\ UNCHANGED <<source, consumers, registered, spoilt, given, stopped, budget>>
      /\ slot' = [slot EXCEPT ![n] = <<>>]
      /\ \/ pc' = [pc EXCEPT ![n] = "idle"] /\ UNCHANGED <<staging, flight, targets>>
         \/ /\ staging[n] # <<>> /\ pc' = [pc EXCEPT ![n] = "deliver"]
            /\ flight' = [flight EXCEPT ![n] = staging[n]] /\ targets' = [targets EXCEPT ![n] = consumers]
            /\ staging' = [staging EXCEPT ![n] = <<>>]
         \/ staging[n] # <<>> /\ pc' = [pc EXCEPT ![n] = "discard"] /\ UNCHANGED <<staging, flight, targets>>
  BY DEF Complete, Goto, graph, delivery
<1>7. consumers \in SUBSET Nodes BY DEF PInv, TypeOK, FrameOK, Nodes
<1>3. FrameOK' BY <1>0, <1>2, <1>6, <1>7 DEF PInv, TypeOK, FrameOK, Labels
<1>4. ShapeOK'
  <2>1. Len(<<>>) <= 1 OBVIOUS
  <2> QED BY Zenon, <1>0, <1>6, <2>1, Names DEF PInv, TypeOK, FrameOK, ShapeOK, BoxesOK, At
<1>5. (\A w \in Threads \ {n} : pc'[w] = pc[w]) /\ pc'[n] # "payload"
  BY <1>0 DEF Complete, PInv, TypeOK, FrameOK, At, Running, Goto
<1> QED BY <1>0, <1>1, <1>3, <1>4, <1>5, Settled

\* The invariant is kept by discarding a queued packet.
LEMMA DiscardStep ==
    ASSUME PInv, Room, NEW n \in Nodes, Discard(n)
    PROVE  PInv'
<1>0. n \in Threads BY Names
<1>1. After(n) BY <1>0, DiscardGood
<1>2. cloned' \in SUBSET Payloads BY ForgetTyped DEF Discard
<1>3. FrameOK' BY <1>0, <1>2 DEF Discard, PInv, TypeOK, FrameOK, Spend, Goto, Labels, graph, nodes, delivery
<1>4. ShapeOK' BY <1>0 DEF Discard, PInv, TypeOK, FrameOK, ShapeOK, BoxesOK, At, Running, Goto, nodes, delivery
<1>5. (\A w \in Threads \ {n} : pc'[w] = pc[w]) /\ pc'[n] # "payload"
  BY <1>0 DEF Discard, PInv, TypeOK, FrameOK, At, Running, Goto
<1> QED BY <1>0, <1>1, <1>3, <1>4, <1>5, Settled

\* Checking the inputs keeps the invariant, whatever it finds.
LEMMA StartStep ==
    ASSUME PInv, Room, NEW n \in Nodes, Start(n)
    PROVE  PInv'
<1>0. n \in Threads BY Names
<1>1. After(n) BY <1>0, StillGood DEF Start, nodes
<1>2. cloned' \in SUBSET Payloads BY DEF Start, PInv, TypeOK, FrameOK
<1>6. \E l \in {"failed", "run", "done", "discard"} : pc' = [pc EXCEPT ![n] = l] /\ (l = "discard" => staging[n] # <<>>)
  BY DEF Start, Fail, Goto
<1>7. UNCHANGED <<source, consumers, registered, slot, staging, delivery, given>> /\ pc[n] \in {"ready", "run"} /\ stopped' \in BOOLEAN
  BY DEF Start, Fail, Running, At, graph, nodes, PInv, TypeOK, FrameOK
<1>8. spoilt' \in SUBSET Nodes /\ budget' \in [packets : Int, buffers : Int, clones : Int, changes : Int, faults : Int]
  BY DEF Start, Fail, Spend, graph, nodes, PInv, TypeOK, FrameOK
<1>3. FrameOK' BY <1>0, <1>2, <1>6, <1>7, <1>8 DEF PInv, TypeOK, FrameOK, Labels, delivery
<1>4. ShapeOK' BY <1>0, <1>6, <1>7 DEF PInv, TypeOK, FrameOK, ShapeOK, At, delivery
<1>5. (\A w \in Threads \ {n} : pc'[w] = pc[w]) /\ pc'[n] # "payload"
  BY <1>0 DEF Start, PInv, TypeOK, FrameOK, At, Running, Goto, Fail
<1> QED BY <1>0, <1>1, <1>3, <1>4, <1>5, Settled

\* The end of a callback keeps the invariant, good or bad.
LEMMA ReturnStep ==
    ASSUME PInv, Room, NEW n \in Nodes, Return(n)
    PROVE  PInv'
<1>0. n \in Threads BY Names
<1>1. After(n) BY <1>0, StillGood DEF Return, nodes
<1>2. cloned' \in SUBSET Payloads BY DEF Return, PInv, TypeOK, FrameOK
<1>6. \E l \in {"failed", "run", "done", "discard"} : pc' = [pc EXCEPT ![n] = l] /\ (l = "discard" => staging[n] # <<>>)
  BY DEF Return, Fail, Goto
<1>7. UNCHANGED <<source, consumers, registered, slot, staging, delivery, given>> /\ pc[n] \in {"ready", "run"} /\ stopped' \in BOOLEAN
  BY DEF Return, Fail, Running, At, graph, nodes, PInv, TypeOK, FrameOK
<1>8. spoilt' \in SUBSET Nodes /\ budget' \in [packets : Int, buffers : Int, clones : Int, changes : Int, faults : Int]
  BY DEF Return, Fail, Spend, graph, nodes, PInv, TypeOK, FrameOK
<1>3. FrameOK' BY <1>0, <1>2, <1>6, <1>7, <1>8 DEF PInv, TypeOK, FrameOK, Labels, delivery
<1>4. ShapeOK' BY <1>0, <1>6, <1>7 DEF PInv, TypeOK, FrameOK, ShapeOK, At, delivery
<1>5. (\A w \in Threads \ {n} : pc'[w] = pc[w]) /\ pc'[n] # "payload"
  BY <1>0 DEF Return, PInv, TypeOK, FrameOK, At, Running, Goto, Fail
<1> QED BY <1>0, <1>1, <1>3, <1>4, <1>5, Settled

\* register_type_descriptor keeps the invariant.
LEMMA RegisterStep ==
    ASSUME PInv, Room, Register
    PROVE  PInv'
<1>1. /\ UNCHANGED <<source, consumers, heap, given, handle, slot, staging, queue, spoilt, delivery, pc, cloned>>
      /\ registered' \in BOOLEAN /\ stopped' \in BOOLEAN
      /\ budget' \in [packets : Int, buffers : Int, clones : Int, changes : Int, faults : Int]
  BY DEF Register, Spend, graph, nodes, PInv, TypeOK, FrameOK
<1>2. FrameOK' BY <1>1 DEF PInv, TypeOK, FrameOK, delivery
<1>3. BoxesOK' /\ heap' \in HeapType BY <1>1 DEF PInv, TypeOK, BoxesOK, delivery
<1>4. ShapeOK' BY <1>1 DEF PInv, ShapeOK, At, delivery
<1>5. Contents' = Contents BY <1>1, NothingChanges DEF nodes
<1>6. Writers' = Writers BY <1>1 DEF Writers, At
<1>7. Good(heap', Contents', given', {<<"handle", w>> : w \in Writers'}) BY <1>1, <1>5, <1>6 DEF PInv
<1> QED BY <1>2, <1>3, <1>4, <1>7 DEF PInv, TypeOK

\* Starting the graph keeps the invariant.
LEMMA BuildGraphStep ==
    ASSUME PInv, Room, BuildGraph
    PROVE  PInv'
<1>0. Host \in Threads BY Names
<1>1. After(Host) BY <1>0, StillGood DEF BuildGraph, nodes
<1>2. cloned' \in SUBSET Payloads BY DEF BuildGraph, PInv, TypeOK, FrameOK
<1>6. budget' \in [packets : Int, buffers : Int, clones : Int, changes : Int, faults : Int]
  <2>1. PICK b \in Budgets : budget' = [b EXCEPT !.packets = @ - Len(handle[Host])] BY DEF BuildGraph
  <2>2. b \in [packets : Nat, buffers : Nat, clones : Nat, changes : Nat, faults : Nat] BY PacketsAssumption
  <2>3. PICK m \in Nat : m = Len(handle[Host]) BY <1>0, LenProperties DEF PInv, TypeOK, BoxesOK
  <2> QED BY <2>1, <2>2, <2>3
<1>7. consumers' \in SUBSET Consumers BY PacketsAssumption DEF BuildGraph
<1>8. /\ UNCHANGED <<source, registered, given, spoilt, delivery, stopped>>
      /\ pc' = [pc EXCEPT ![Host] = "run"]
  BY DEF BuildGraph, Goto, nodes
<1>3. FrameOK' BY <1>0, <1>2, <1>6, <1>7, <1>8 DEF PInv, TypeOK, FrameOK, Labels, delivery
<1>4. ShapeOK' BY <1>0 DEF BuildGraph, PInv, TypeOK, FrameOK, ShapeOK, BoxesOK, At, Running, Goto, nodes, delivery
<1>5. (\A w \in Threads \ {Host} : pc'[w] = pc[w]) /\ pc'[Host] # "payload"
  BY <1>0 DEF BuildGraph, PInv, TypeOK, FrameOK, At, Running, Goto
<1> QED BY <1>0, <1>1, <1>3, <1>4, <1>5, Settled

\* Cancelling keeps the invariant.
LEMMA CancelStep ==
    ASSUME PInv, Room, Cancel
    PROVE  PInv'
<1>1. /\ UNCHANGED <<source, consumers, heap, given, handle, slot, staging, queue, spoilt, delivery, pc, cloned>>
      /\ registered' \in BOOLEAN /\ stopped' \in BOOLEAN
      /\ budget' \in [packets : Int, buffers : Int, clones : Int, changes : Int, faults : Int]
  BY DEF Cancel, Spend, graph, nodes, PInv, TypeOK, FrameOK
<1>2. FrameOK' BY <1>1 DEF PInv, TypeOK, FrameOK, delivery
<1>3. BoxesOK' /\ heap' \in HeapType BY <1>1 DEF PInv, TypeOK, BoxesOK, delivery
<1>4. ShapeOK' BY <1>1 DEF PInv, ShapeOK, At, delivery
<1>5. Contents' = Contents BY <1>1, NothingChanges DEF nodes
<1>6. Writers' = Writers BY <1>1 DEF Writers, At
<1>7. Good(heap', Contents', given', {<<"handle", w>> : w \in Writers'}) BY <1>1, <1>5, <1>6 DEF PInv
<1> QED BY <1>2, <1>3, <1>4, <1>7 DEF PInv, TypeOK

---------------------------------------------------------------------------
(* The beginning.                                                          *)

\* Empty boxes have no references.
LEMMA NothingHeld ==
    ASSUME NEW B, \A k \in Boxes : B[k] = <<>>
    PROVE  \A o, b : PlacesOf(B, o, b) = {} /\ Counted(B, o, b) /\ Tally(B, o, b) = 0
<1> SUFFICES ASSUME NEW o, NEW b
             PROVE  PlacesOf(B, o, b) = {} /\ Counted(B, o, b) /\ Tally(B, o, b) = 0
  OBVIOUS
<1>1. \A k \in Boxes : Part(k, B[k], o, b) = {} BY DEF Part, Spots
<1>2. PlacesOf(B, o, b) = {} BY <1>1 DEF PlacesOf
<1> QED BY <1>2, FS_EmptySet DEF Counted, Tally

\* The empty heap is consistent.
LEMMA EmptyHeapOK == HeapOK(EmptyHeap, 0) /\ \A o \in Resources : Cardinality(Owners(EmptyHeap, o)) = 0
<1>1. EmptyHeap \in HeapType
  <2>1. NoBody \in BodyType BY DEF NoBody, BodyType
  <2>2. NoPayload \in PayloadType BY Names DEF NoPayload, PayloadType, Kinds
  <2> QED BY <2>1, <2>2 DEF EmptyHeap, HeapType
<1>2. /\ \A b \in Bodies : EmptyHeap.body[b] = NoBody
      /\ \A p \in Payloads : EmptyHeap.payload[p] = NoPayload
      /\ \A m \in Memory : EmptyHeap.cached[m] = 0
      /\ EmptyHeap.bytes = 0
  BY DEF EmptyHeap
<1>3. BodiesOK(EmptyHeap) BY <1>2 DEF BodiesOK, NoBody
<1>4. SharersOK(EmptyHeap, 0)
  <2> SUFFICES ASSUME NEW q \in Payloads
               PROVE /\ EmptyHeap.payload[q].refs = Cardinality(Sharers(EmptyHeap, q)) + (IF q = 0 THEN 1 ELSE 0)
                     /\ EmptyHeap.payload[q].refs = 0 => EmptyHeap.payload[q] = NoPayload
    BY DEF SharersOK
  <2>1. q # 0 BY PacketsAssumption
  <2>2. Sharers(EmptyHeap, q) = {} BY <1>2, <2>1 DEF Sharers, NoBody
  <2>3. Cardinality(Sharers(EmptyHeap, q)) = 0 BY <2>2, FS_EmptySet
  <2>4. EmptyHeap.payload[q] = NoPayload /\ NoPayload.refs = 0 BY <1>2 DEF NoPayload
  <2> QED BY <2>1, <2>3, <2>4
<1>5. KindsOK(EmptyHeap) BY <1>2 DEF KindsOK, NoPayload
<1>6. \A o : o # Nobody => Cardinality(Owners(EmptyHeap, o)) = 0
  <2> SUFFICES ASSUME NEW o, o # Nobody PROVE Cardinality(Owners(EmptyHeap, o)) = 0 OBVIOUS
  <2>1. Owners(EmptyHeap, o) = {} BY <1>2 DEF Owners, NoPayload
  <2> QED BY <2>1, FS_EmptySet
<1>7. MemoryOK(EmptyHeap)
  <2> SUFFICES ASSUME NEW m \in Memory
               PROVE  EmptyHeap.cached[m] + Cardinality(Owners(EmptyHeap, m)) \in {0, 1}
    BY DEF MemoryOK
  <2>1. Cardinality(Owners(EmptyHeap, m)) = 0 /\ EmptyHeap.cached[m] = 0 BY <1>2, <1>6, Names
  <2> QED BY <2>1
<1>8. PoolOK(EmptyHeap)
  <2>1. \A m \in Memory : {m} \X (1 .. EmptyHeap.cached[m] * MemorySize[m]) = {}
    <3> SUFFICES ASSUME NEW m \in Memory PROVE {m} \X (1 .. EmptyHeap.cached[m] * MemorySize[m]) = {} OBVIOUS
    <3>1. MemorySize[m] \in Nat BY PacketsAssumption
    <3>2. EmptyHeap.cached[m] * MemorySize[m] = 0 BY <1>2, <3>1
    <3>3. 1 .. 0 = {} OBVIOUS
    <3> QED BY <3>2, <3>3
  <2>2. CachedBytes(EmptyHeap.cached) = {} BY <2>1 DEF CachedBytes
  <2>3. IsFiniteSet(CachedBytes(EmptyHeap.cached)) /\ Cardinality(CachedBytes(EmptyHeap.cached)) = 0
    BY <2>2, FS_EmptySet
  <2>4. 0 <= PoolBytes BY PacketsAssumption
  <2> QED BY <1>2, <2>3, <2>4 DEF PoolOK
<1>9. \A o \in Resources : Cardinality(Owners(EmptyHeap, o)) = 0 BY <1>6, Names
<1> QED BY <1>1, <1>3, <1>4, <1>5, <1>7, <1>8, <1>9 DEF HeapOK

\* The invariant holds at the start.
LEMMA InitInv == Init => PInv
<1> SUFFICES ASSUME Init PROVE PInv OBVIOUS
<1> USE DEF Init
<1>1. FrameOK
  <2>1. targets \in [Threads -> SUBSET Nodes] /\ pc \in [Threads -> Labels] BY DEF Labels
  <2>2. /\ source \in Descriptors \cup {Nobody} /\ consumers \in SUBSET Consumers /\ registered \in BOOLEAN
        /\ given \in SUBSET Resources /\ spoilt \in SUBSET Nodes /\ stopped \in BOOLEAN /\ cloned \in SUBSET Payloads
    OBVIOUS
  <2>3. budget \in [packets : Int, buffers : Int, clones : Int, changes : Int, faults : Int] OBVIOUS
  <2> QED BY <2>1, <2>2, <2>3 DEF FrameOK
<1>2. <<>> \in Seq(Refs) /\ <<>> \in Seq(EngineRef) /\ Len(<<>>) <= 1 OBVIOUS
<1>3. BoxesOK BY <1>2 DEF BoxesOK
<1>4. ShapeOK
  <2>1. Host \notin Nodes /\ Adopted \notin {} BY PacketsAssumption DEF Nodes
  <2> QED BY <1>2, <2>1, BoxKinds DEF ShapeOK, At
<1>5. \A k \in Boxes : Contents[k] = <<>>
  <2>1. ASSUME NEW t \in Threads PROVE Contents[<<"handle", t>>] = <<>> /\ Contents[<<"flight", t>>] = <<>>
    <3>1. handle[t] = <<>> /\ flight[t] = <<>> OBVIOUS
    <3> QED BY <3>1, ContentsAt
  <2>2. ASSUME NEW n \in Nodes
        PROVE  /\ Contents[<<"slot", n>>] = <<>> /\ Contents[<<"staging", n>>] = <<>>
               /\ Contents[<<"queue", n>>] = <<>>
    <3>1. slot[n] = <<>> /\ staging[n] = <<>> /\ queue[n] = <<>> OBVIOUS
    <3> QED BY <3>1, ContentsAt
  <2> HIDE DEF Init
  <2> SUFFICES ASSUME NEW k \in Boxes PROVE Contents[k] = <<>> OBVIOUS
  <2>3. CASE \E t \in Threads : k = <<"handle", t>> \/ k = <<"flight", t>> BY <2>1, <2>3
  <2>4. CASE \E n \in Nodes : k = <<"slot", n>> \/ k = <<"staging", n>> \/ k = <<"queue", n>> BY <2>2, <2>4
  <2> QED BY <2>3, <2>4, BoxKinds
<1>6. \A o, b : Counted(Contents, o, b) /\ Tally(Contents, o, b) = 0 BY <1>5, NothingHeld
<1>7. Contained(Contents)
  <2>1. Contents \in [Boxes -> Seq(Refs)]
    <3>1. Contents = [k \in Boxes |-> Contents[k]] BY ContentsBoxes, BoxAt
    <3> QED BY <1>2, <1>5, <3>1
  <2> QED BY <1>6, <2>1 DEF Contained
<1>8. Counts(heap, Contents) BY <1>6 DEF Counts, EmptyHeap, NoBody
<1>9. HeapOK(heap, 0) /\ heap \in HeapType BY EmptyHeapOK DEF HeapOK
<1>10. Balance(heap, Contents, given)
  <2> SUFFICES ASSUME NEW o \in Resources
               PROVE  heap.released[o] + Cardinality(Owners(heap, o)) + Tally(Contents, o, 0) = IF o \in given THEN 1 ELSE 0
    BY DEF Balance
  <2>1. heap.released[o] = 0 BY DEF EmptyHeap
  <2>2. Cardinality(Owners(heap, o)) = 0 BY EmptyHeapOK
  <2>3. Tally(Contents, o, 0) = 0 /\ o \notin given BY <1>6
  <2> QED BY <2>1, <2>2, <2>3
<1>11. Faithful(heap, Contents) BY <1>5 DEF Faithful
<1>12. Writers = {} BY DEF Writers, At
<1>13. Good(heap, Contents, given, {<<"handle", w>> : w \in Writers})
  BY <1>7, <1>8, <1>9, <1>10, <1>11, <1>12 DEF Good, Sound
<1> QED BY <1>1, <1>3, <1>4, <1>9, <1>13 DEF PInv, TypeOK

---------------------------------------------------------------------------
(* Every step.                                                             *)

\* Every step keeps the invariant.
LEMMA NextInv == PInv /\ Next => PInv'
<1> SUFFICES ASSUME PInv, Next PROVE PInv' OBVIOUS
<1>1. Room BY DEF Next
<1>2. CASE HostStep
  <2>1. Host \in Threads BY Names
  <2> QED BY <1>1, <1>2, <2>1, CopyBufferStep, AdoptBufferStep, BuildGraphStep, MakeBuiltinStep, RegisterStep,
          SendStep, CancelStep DEF HostStep
<1>3. ASSUME NEW t \in Threads, PacketStep(t) PROVE PInv'
  BY <1>1, <1>3, BuildPacketStep, NewInteropStep, CloneStep, DropStep, SetMetadataStep, MakeMutableStep,
     OwnPayloadStep DEF PacketStep
<1>4. ASSUME NEW t \in Threads, DeliveryStep(t) PROVE PInv'
  BY <1>1, <1>4, DispatchStep, DeliveredStep DEF DeliveryStep
<1>5. ASSUME NEW n \in Nodes, KernelStep(n) PROVE PInv'
  BY <1>1, <1>5, NewBufferStep, TakeInputStep, CloneInputStep, EmitStep, ForwardStep, ReturnStep DEF KernelStep
<1>6. ASSUME NEW n \in Nodes, NodeStep(n) PROVE PInv'
  BY <1>1, <1>6, ClaimStep, StartStep, CompleteStep, UnstageStep, DiscardStep DEF NodeStep
<1> QED BY <1>2, <1>3, <1>4, <1>5, <1>6 DEF Next

\* So does a step of something else.
LEMMA StutterInv == PInv /\ UNCHANGED vars => PInv'
<1> SUFFICES ASSUME PInv, UNCHANGED vars PROVE PInv' OBVIOUS
<1>1. UNCHANGED <<source, consumers, registered, heap, given, handle, slot, staging, queue, spoilt, delivery, flight, targets, pc, stopped, cloned, budget>>
  BY DEF vars, graph, nodes, delivery
<1>2. FrameOK' BY <1>1 DEF PInv, TypeOK, FrameOK
<1>3. BoxesOK' /\ heap' \in HeapType BY <1>1 DEF PInv, TypeOK, BoxesOK
<1>4. ShapeOK' BY <1>1 DEF PInv, ShapeOK, At
<1>5. Contents' = Contents BY <1>1, NothingChanges DEF nodes
<1>6. Writers' = Writers BY <1>1 DEF Writers, At
<1>7. Good(heap', Contents', given', {<<"handle", w>> : w \in Writers'}) BY <1>1, <1>5, <1>6 DEF PInv
<1> QED BY <1>2, <1>3, <1>4, <1>7 DEF PInv, TypeOK

\* Both together.
LEMMA StepInv == PInv /\ [Next]_vars => PInv'
BY NextInv, StutterInv

\* The invariant holds always.
LEMMA Always == Spec => []PInv
BY InitInv, StepInv, PTL DEF Spec

---------------------------------------------------------------------------
(* What it says.                                                           *)

\* A place is a position in a box.
LEMMA PlaceIn ==
    ASSUME NEW x \in Places
    PROVE  x[1] \in Boxes /\ x[2] \in DOMAIN Contents[x[1]] /\ RefAt(x) = Contents[x[1]][x[2]]
BY DEF Places, RefAt

\* What is counted is in a place.
LEMMA PlaceOf ==
    ASSUME NEW o, NEW b, NEW x \in PlacesOf(Contents, o, b)
    PROVE  x \in Places /\ RefAt(x).own = o /\ RefAt(x).body = b
BY DEF PlacesOf, Part, Spots, Places, RefAt

\* The invariant implies that packets are values.
LEMMA KeepsValues == PInv => ValuesKept
<1> SUFFICES ASSUME PInv, NEW x \in Held PROVE Value(heap, RefAt(x).body) = RefAt(x).value BY DEF ValuesKept
<1>1. x \in Places /\ RefAt(x).own = Nobody BY DEF Held
<1>2. Faithful(heap, Contents) BY DEF PInv, Good, Sound
<1> QED BY <1>1, <1>2, PlaceIn DEF Faithful

\* Who owns something is reachable, and conversely.
LEMMA ReachedOwner ==
    ASSUME PInv, NEW o, o # Nobody
    PROVE  o \in Reachable <=> (Owners(heap, o) # {} \/ PlacesOf(Contents, o, 0) # {})
<1>1. HeapOK(heap, 0) /\ Contained(Contents) /\ Counts(heap, Contents) BY DEF PInv, Good, Sound
<1>2. ASSUME NEW x \in Held, heap.payload[PayloadAt(x)].own = o PROVE Owners(heap, o) # {}
  <2>1. x \in Places /\ RefAt(x).own = Nobody BY DEF Held
  <2>2. RefAt(x).body \in Bodies /\ heap.body[RefAt(x).body].refs # 0 BY <1>1, <2>1, PlaceIn, Live
  <2>3. PayloadAt(x) \in Payloads BY <1>1, <2>2, LivePayload DEF PayloadAt
  <2> QED BY <1>2, <2>3 DEF Owners
<1>3. ASSUME NEW x \in Places, RefAt(x).own = o PROVE PlacesOf(Contents, o, 0) # {}
  <2>1. RefAt(x) \in Refs BY <1>1, PlaceIn DEF Contained
  <2>2. RefAt(x).body = 0 BY <1>3, <2>1, RefKinds
  <2>3. <<x[1], x[2]>> \in PlacesOf(Contents, o, 0) BY <1>3, <2>2, PlaceIn DEF PlacesOf, Part, Spots
  <2> QED BY <2>3
<1>4. ASSUME NEW p \in Owners(heap, o) PROVE o \in Reachable
  <2>1. p \in Payloads /\ heap.payload[p].own = o BY DEF Owners
  <2>2. heap.payload[p].refs # 0 BY <1>1, <2>1 DEF HeapOK, SharersOK, NoPayload
  <2>3. p # 0 BY <2>1, PacketsAssumption
  <2>4. heap.payload[p].refs = Cardinality(Sharers(heap, p)) + (IF p = 0 THEN 1 ELSE 0)
    BY <1>1, <2>1 DEF HeapOK, SharersOK
  <2>5. Cardinality(Sharers(heap, p)) \in Nat BY FiniteHolders
  <2>6. Cardinality(Sharers(heap, p)) # 0 BY <2>2, <2>3, <2>4, <2>5
  <2>7. PICK b \in Bodies : heap.body[b].payload = p BY <2>6, FS_EmptySet DEF Sharers
  <2>8. heap.body[b].refs # 0 BY <1>1, <2>3, <2>7 DEF HeapOK, BodiesOK, NoBody
  <2>9. Tally(Contents, Nobody, b) # 0 BY <1>1, <2>8 DEF Counts
  <2>10. PICK x : x \in PlacesOf(Contents, Nobody, b) BY <2>9, FS_EmptySet DEF Tally
  <2>11. x \in Held /\ RefAt(x).body = b BY <2>10, PlaceOf DEF Held
  <2> QED BY <2>1, <2>7, <2>11 DEF Reachable, PayloadAt
<1>5. ASSUME NEW x \in PlacesOf(Contents, o, 0) PROVE o \in Reachable
  BY PlaceOf DEF Reachable
<1> QED BY <1>2, <1>3, <1>4, <1>5 DEF Reachable

\* The invariant implies that lifetimes are exact: a resource that some packet has is
\* not released, and one that was given and no packet has is, by Balance; pooled
\* memory is nobody's, by MemoryOK.
LEMMA KeepsLifetimes == PInv => Lifetimes
<1> SUFFICES ASSUME PInv PROVE Lifetimes OBVIOUS
<1>1. /\ HeapOK(heap, 0) /\ Contained(Contents) /\ Counts(heap, Contents) /\ Balance(heap, Contents, given)
      /\ heap \in HeapType /\ MemoryOK(heap) /\ PoolOK(heap)
  BY DEF PInv, Good, Sound, HeapOK
<1>2. ASSUME NEW x \in Held
      PROVE  heap.body[RefAt(x).body].refs > 0 /\ heap.payload[PayloadAt(x)].refs > 0
  <2>1. x \in Places /\ RefAt(x).own = Nobody BY DEF Held
  <2>2. RefAt(x).body \in Bodies /\ heap.body[RefAt(x).body].refs # 0 BY <1>1, <2>1, PlaceIn, Live
  <2>3. heap.payload[PayloadAt(x)].refs \in Nat \ {0} BY <1>1, <2>2, LivePayload DEF PayloadAt
  <2>4. heap.body[RefAt(x).body].refs \in Nat BY <1>1, <2>2 DEF HeapType, BodyType
  <2> QED BY <2>2, <2>3, <2>4
<1>3. ASSUME NEW r \in Resources PROVE heap.released[r] = IF r \in given \ Reachable THEN 1 ELSE 0
  <2>1. r # Nobody BY Names
  <2>2. r \in Reachable <=> (Owners(heap, r) # {} \/ PlacesOf(Contents, r, 0) # {}) BY <2>1, ReachedOwner
  <2>3. IsFiniteSet(Owners(heap, r)) /\ IsFiniteSet(PlacesOf(Contents, r, 0))
    BY <1>1, FiniteHolders DEF Contained, Counted
  <2>4. /\ Cardinality(Owners(heap, r)) \in Nat /\ Tally(Contents, r, 0) \in Nat
        /\ Cardinality(Owners(heap, r)) = 0 <=> Owners(heap, r) = {}
        /\ Tally(Contents, r, 0) = 0 <=> PlacesOf(Contents, r, 0) = {}
    BY <2>3, FS_EmptySet, FS_CardinalityType DEF Tally
  <2>5. heap.released[r] + Cardinality(Owners(heap, r)) + Tally(Contents, r, 0) = IF r \in given THEN 1 ELSE 0
    BY <1>1 DEF Balance
  <2>6. heap.released[r] \in Nat BY <1>1 DEF HeapType
  <2> QED BY <2>2, <2>4, <2>5, <2>6
<1>4. ASSUME NEW m \in Memory PROVE heap.cached[m] <= IF m \in Reachable THEN 0 ELSE 1
  <2>1. m # Nobody BY Names
  <2>2. PlacesOf(Contents, m, 0) = {}
    <3>1. ASSUME NEW x \in PlacesOf(Contents, m, 0) PROVE FALSE
      <4>1. x \in Places /\ RefAt(x).own = m BY PlaceOf
      <4>2. RefAt(x) \in Refs BY <1>1, <4>1, PlaceIn DEF Contained
      <4>3. RefAt(x).own \in {Nobody, Object} BY <4>2, RefKinds
      <4> QED BY <4>1, <4>3, Names, PacketsAssumption
    <3> QED BY <3>1
  <2>3. m \in Reachable <=> Owners(heap, m) # {} BY <2>1, <2>2, ReachedOwner
  <2>4. Cardinality(Owners(heap, m)) \in Nat /\ (Cardinality(Owners(heap, m)) = 0 <=> Owners(heap, m) = {})
    BY FiniteHolders, FS_EmptySet
  <2>5. heap.cached[m] + Cardinality(Owners(heap, m)) \in {0, 1} /\ heap.cached[m] \in Nat
    BY <1>1 DEF MemoryOK, HeapType
  <2> QED BY <2>3, <2>4, <2>5
<1>5. /\ heap.bytes = Cardinality(UNION {{m} \X (1 .. heap.cached[m] * MemorySize[m]) : m \in Memory})
      /\ heap.bytes <= PoolBytes
  BY <1>1 DEF PoolOK, CachedBytes
<1> QED BY <1>2, <1>3, <1>4, <1>5 DEF Lifetimes

---------------------------------------------------------------------------
(* Results.                                                                *)

(***************************************************************************)
(* Every variable has its type, and every reference that the engine itself *)
(* keeps is to a body.                                                     *)
(***************************************************************************)
THEOREM PacketTypes == Spec => []TypeOK
<1>1. PInv => TypeOK BY DEF PInv
<1> QED BY <1>1, Always, PTL

(***************************************************************************)
(* Packets are values: nobody changes what another holder of a packet      *)
(* reads, as whoever writes is alone with the body and the payload.        *)
(***************************************************************************)
THEOREM PacketsKeepValues == Spec => []ValuesKept
BY KeepsValues, Always, PTL

(***************************************************************************)
(* What a packet refers to is there, what no packet refers to any more is  *)
(* released once or in the pool, and the pool keeps its limit.             *)
(***************************************************************************)
THEOREM PacketsOwnExactly == Spec => []Lifetimes
BY KeepsLifetimes, Always, PTL

---------------------------------------------------------------------------
(* Who shares a payload of which the program made no second packet.        *)

\* Reference r is to payload p; a box has such a reference, has one at most.
Bears(h, r, p) == r.own = Nobody /\ h.body[r.body].payload = p
Has(h, s, p) == \E i \in DOMAIN s : Bears(h, s[i], p)
Once(h, s, p) == \A i, j \in DOMAIN s : Bears(h, s[i], p) /\ Bears(h, s[j], p) => i = j

\* Box l may have the payload that box k has: both are of consumers, one for
\* each; the input has been forwarded; a delivery to the consumers is not over;
\* a send is not over but has delivered.
May(T, S, k, l) ==
    \/ k[1] # "flight" /\ l[1] # "flight" /\ k[2] \in Consumers /\ l[2] \in Consumers /\ k[2] # l[2]
    \/ k = <<"slot", Producer>> /\ l = <<"staging", Producer>>
    \/ k = <<"flight", Producer>> /\ l[1] # "flight" /\ l[2] \in S \ T[Producer]
    \/ k = <<"flight", Host>> /\ T[Host] = {} /\ l[2] # Host
Apart(T, S, k, l) == May(T, S, k, l) \/ May(T, S, l, k)

Flows(h, B, T, S, p) ==
    /\ \A k \in Boxes : Once(h, B[k], p)
    /\ \A k, l \in Boxes : k # l /\ Has(h, B[k], p) /\ Has(h, B[l], p) => Apart(T, S, k, l)

FlowOK == \A p \in Payloads \ cloned : Flows(heap, Contents, targets, consumers, p)

\* Deliveries are to the producer or to its consumers, only the producer has
\* outputs, and the nodes behind it that no packet is for do nothing.
CalmOK ==
    /\ targets[Host] \subseteq {Producer} /\ targets[Producer] \subseteq consumers
    /\ \A n \in Consumers : staging[n] = <<>> /\ flight[n] = <<>>
    /\ \A n \in Consumers \ consumers : At(n, "idle") /\ queue[n] = <<>> /\ handle[n] = <<>>
    /\ pc[Host] \in {"describe", "build"} => consumers = {}

\* The references of s that are to bodies are to bodies that h has.
Old(h, s) == \A i \in DOMAIN s : s[i].own = Nobody => s[i].body \in Bodies /\ h.body[s[i].body].refs # 0
\* A body that is there before and after has payload p only if it had it.
Follows(h, g, p) ==
    \A b \in Bodies : h.body[b].refs # 0 /\ g.body[b].refs # 0 /\ g.body[b].payload = p => h.body[b].payload = p
Shrinks(h, s, u, p) == (Has(h, u, p) => Has(h, s, p)) /\ (Once(h, s, p) => Once(h, u, p))
Lesser(h, s, g, u, p) == (Has(g, u, p) => Has(h, s, p)) /\ (Once(h, s, p) => Once(g, u, p))
\* What is left of a box, and a box to which N says that references to p come.
Cut(s, u) == u = s \/ u = <<>> \/ (s # <<>> /\ (u = Tail(s) \/ u = Front(s)))
Joins(h, s, g, u, p, N) ==
    (Has(g, u, p) => Has(h, s, p) \/ N) /\ (Once(h, s, p) /\ ~(Has(h, s, p) /\ N) => Once(g, u, p))
Wider(T, S, T2, S2) == T2[Host] \subseteq T[Host] /\ T2[Producer] \subseteq T[Producer] /\ S \subseteq S2
\* Boxes that may share still may, but for box l if it is empty.
StillApart(T, S, T2, S2, B, l) ==
    /\ \A a, m \in Boxes \ {l} : Apart(T, S, a, m) => Apart(T2, S2, a, m)
    /\ B[l] = <<>> \/ \A m \in Boxes : Apart(T, S, l, m) => Apart(T2, S2, l, m)

\* An empty box has no reference.
LEMMA EmptyHas == \A h, p : ~Has(h, <<>>, p) /\ Once(h, <<>>, p)
<1>1. DOMAIN <<>> = {} OBVIOUS
<1> QED BY <1>1 DEF Has, Once

\* A box without its first reference has no payload more, and not that of the first if it had it once.
LEMMA TailShrinks ==
    ASSUME NEW h, NEW p, NEW s \in Seq(Refs), s # <<>>
    PROVE  /\ Shrinks(h, s, Tail(s), p)
           /\ Bears(h, Head(s), p) => Has(h, s, p)
           /\ Bears(h, Head(s), p) /\ Once(h, s, p) => ~Has(h, Tail(s), p)
<1> DEFINE u == Tail(s)
<1>1. Len(s) \in Nat /\ Len(s) # 0 /\ DOMAIN s = 1 .. Len(s) BY EmptySeq, LenProperties
<1>2. Len(s) >= 1 /\ 1 \in DOMAIN s BY <1>1
<1>3. /\ u \in Seq(Refs) /\ Len(u) = Len(s) - 1 /\ DOMAIN u = 1 .. Len(u)
      /\ \A i \in 1 .. Len(u) : u[i] = s[i + 1]
  BY <1>1, HeadTailProperties, LenProperties
<1>4. Head(s) = s[1] OBVIOUS
<1> HIDE DEF u
<1>5. \A i \in DOMAIN u : i + 1 \in DOMAIN s /\ i + 1 # 1 /\ u[i] = s[i + 1] /\ i \in Nat BY <1>1, <1>3
<1>6. Has(h, u, p) => Has(h, s, p) BY <1>5 DEF Has
<1>7. Once(h, s, p) => Once(h, u, p)
  <2> SUFFICES ASSUME Once(h, s, p), NEW i \in DOMAIN u, NEW j \in DOMAIN u, Bears(h, u[i], p), Bears(h, u[j], p)
               PROVE  i = j
    BY DEF Once
  <2>1. Bears(h, s[i + 1], p) /\ Bears(h, s[j + 1], p) /\ i + 1 \in DOMAIN s /\ j + 1 \in DOMAIN s BY <1>5
  <2>2. i + 1 = j + 1 BY <2>1 DEF Once
  <2> QED BY <1>5, <2>2
<1>8. Bears(h, Head(s), p) => Has(h, s, p) BY <1>2, <1>4 DEF Has
<1>9. ASSUME Bears(h, Head(s), p), Once(h, s, p), NEW i \in DOMAIN u, Bears(h, u[i], p) PROVE FALSE
  <2>1. Bears(h, s[i + 1], p) /\ i + 1 \in DOMAIN s /\ i + 1 # 1 BY <1>5, <1>9
  <2> QED BY <1>2, <1>4, <1>9, <2>1 DEF Once
<1> QED BY <1>6, <1>7, <1>8, <1>9 DEF Shrinks, Has, u

\* Front(s) is s but for the last position.
LEMMA FrontDomain ==
    ASSUME NEW s \in Seq(Refs), s # <<>>
    PROVE  \A i \in DOMAIN Front(s) : i \in DOMAIN s /\ i # Len(s) /\ Front(s)[i] = s[i]
<1> DEFINE u == SubSeq(s, 1, Len(s) - 1)
<1>1. Len(s) \in Nat /\ Len(s) # 0 /\ DOMAIN s = 1 .. Len(s) BY EmptySeq, LenProperties
<1>3. DOMAIN u = 1 .. Len(s) - 1 /\ \A i \in DOMAIN u : u[i] = s[i]
  <2>1. 1 \in 1 .. Len(s) + 1 /\ Len(s) - 1 \in 0 .. Len(s) BY <1>1
  <2>2. /\ u \in Seq(Refs) /\ Len(u) = IF 1 <= Len(s) - 1 THEN Len(s) - 1 - 1 + 1 ELSE 0
        /\ \A i \in 1 .. Len(s) - 1 - 1 + 1 : u[i] = s[1 + i - 1]
    BY <1>1, <2>1, SubSeqProperties
  <2>3. Len(u) = Len(s) - 1 /\ DOMAIN u = 1 .. Len(u) BY <1>1, <2>2, LenProperties
  <2>4. \A i \in 1 .. Len(s) - 1 : u[i] = s[i]
    <3> SUFFICES ASSUME NEW i \in 1 .. Len(s) - 1 PROVE u[i] = s[i] OBVIOUS
    <3>1. i \in 1 .. Len(s) - 1 - 1 + 1 /\ 1 + i - 1 = i BY <1>1
    <3> QED BY <2>2, <3>1
  <2> QED BY <2>3, <2>4
<1> HIDE DEF u
<1> QED BY <1>1, <1>3 DEF Front, u

\* The same without the last reference.
LEMMA FrontShrinks ==
    ASSUME NEW h, NEW p, NEW s \in Seq(Refs), s # <<>>
    PROVE  /\ Shrinks(h, s, Front(s), p)
           /\ Bears(h, s[Len(s)], p) => Has(h, s, p)
           /\ Bears(h, s[Len(s)], p) /\ Once(h, s, p) => ~Has(h, Front(s), p)
<1> DEFINE u == Front(s)
<1>1. Len(s) \in Nat /\ Len(s) # 0 /\ DOMAIN s = 1 .. Len(s) BY EmptySeq, LenProperties
<1>2. Len(s) \in DOMAIN s BY <1>1
<1>5. \A i \in DOMAIN u : i \in DOMAIN s /\ i # Len(s) /\ u[i] = s[i] BY FrontDomain
<1> HIDE DEF u
<1>6. Has(h, u, p) => Has(h, s, p) BY <1>5 DEF Has
<1>7. Once(h, s, p) => Once(h, u, p) BY <1>5 DEF Once
<1>8. Bears(h, s[Len(s)], p) => Has(h, s, p) BY <1>2 DEF Has
<1>9. ASSUME Bears(h, s[Len(s)], p), Once(h, s, p), NEW i \in DOMAIN u, Bears(h, u[i], p) PROVE FALSE
  BY <1>2, <1>5, <1>9 DEF Once
<1> QED BY <1>6, <1>7, <1>8, <1>9 DEF Shrinks, Has, u

\* A reference more at the end.
LEMMA AppendHas ==
    ASSUME NEW h, NEW p, NEW s \in Seq(Refs), NEW r \in Refs
    PROVE  /\ Has(h, Append(s, r), p) <=> Has(h, s, p) \/ Bears(h, r, p)
           /\ Once(h, s, p) /\ ~(Has(h, s, p) /\ Bears(h, r, p)) => Once(h, Append(s, r), p)
<1> DEFINE u == Append(s, r)
<1>1. /\ u \in Seq(Refs) /\ Len(u) = Len(s) + 1 /\ Len(s) \in Nat
      /\ DOMAIN s = 1 .. Len(s) /\ DOMAIN u = 1 .. Len(u)
      /\ u[Len(s) + 1] = r /\ \A i \in 1 .. Len(s) : u[i] = s[i]
  BY AppendProperties, LenProperties
<1> HIDE DEF u
<1>2. /\ DOMAIN u = DOMAIN s \cup {Len(s) + 1} /\ Len(s) + 1 \notin DOMAIN s
      /\ \A i \in DOMAIN s : u[i] = s[i]
  BY <1>1
<1>3. Has(h, u, p) <=> Has(h, s, p) \/ Bears(h, r, p) BY <1>1, <1>2 DEF Has
<1>4. ASSUME Once(h, s, p), ~(Has(h, s, p) /\ Bears(h, r, p)) PROVE Once(h, u, p)
  <2> SUFFICES ASSUME NEW i \in DOMAIN u, NEW j \in DOMAIN u, Bears(h, u[i], p), Bears(h, u[j], p)
               PROVE  i = j
    BY DEF Once
  <2>1. CASE i \in DOMAIN s /\ j \in DOMAIN s BY <1>2, <1>4, <2>1 DEF Once
  <2>2. CASE i \notin DOMAIN s /\ j \notin DOMAIN s BY <1>2, <2>2
  <2>3. CASE i \in DOMAIN s /\ j \notin DOMAIN s
    <3>1. Has(h, s, p) /\ Bears(h, r, p) BY <1>1, <1>2, <2>3 DEF Has
    <3> QED BY <1>4, <3>1
  <2>4. CASE i \notin DOMAIN s /\ j \in DOMAIN s
    <3>1. Has(h, s, p) /\ Bears(h, r, p) BY <1>1, <1>2, <2>4 DEF Has
    <3> QED BY <1>4, <3>1
  <2> QED BY <2>1, <2>2, <2>3, <2>4
<1> QED BY <1>3, <1>4 DEF u

\* A batch more at the end.
LEMMA ConcatHas ==
    ASSUME NEW h, NEW p, NEW s \in Seq(Refs), NEW q \in Seq(Refs)
    PROVE  /\ Has(h, s \o q, p) => Has(h, s, p) \/ Has(h, q, p)
           /\ Once(h, s, p) /\ Once(h, q, p) /\ ~(Has(h, s, p) /\ Has(h, q, p)) => Once(h, s \o q, p)
<1> DEFINE u == s \o q
<1> DEFINE n == Len(s)
<1>1. /\ u \in Seq(Refs) /\ Len(u) = n + Len(q) /\ n \in Nat /\ Len(q) \in Nat
      /\ DOMAIN s = 1 .. n /\ DOMAIN q = 1 .. Len(q) /\ DOMAIN u = 1 .. Len(u)
      /\ \A i \in 1 .. Len(u) : u[i] = IF i <= n THEN s[i] ELSE q[i - n]
  BY ConcatProperties, LenProperties
<1> HIDE DEF u, n
<1>2. \A i \in DOMAIN u : /\ i \in Nat
                          /\ \/ i \in DOMAIN s /\ u[i] = s[i]
                             \/ i \notin DOMAIN s /\ i - n \in DOMAIN q /\ u[i] = q[i - n]
  BY <1>1
<1>3. Has(h, u, p) => Has(h, s, p) \/ Has(h, q, p) BY <1>2 DEF Has
<1>4. ASSUME Once(h, s, p), Once(h, q, p), ~(Has(h, s, p) /\ Has(h, q, p)) PROVE Once(h, u, p)
  <2> SUFFICES ASSUME NEW i \in DOMAIN u, NEW j \in DOMAIN u, Bears(h, u[i], p), Bears(h, u[j], p)
               PROVE  i = j
    BY DEF Once
  <2>1. CASE i \in DOMAIN s /\ j \in DOMAIN s BY <1>2, <1>4, <2>1 DEF Once
  <2>2. CASE i \notin DOMAIN s /\ j \notin DOMAIN s
    <3>1. /\ i - n \in DOMAIN q /\ j - n \in DOMAIN q /\ i \in Nat /\ j \in Nat
          /\ Bears(h, q[i - n], p) /\ Bears(h, q[j - n], p)
      BY <1>2, <2>2
    <3>2. i - n = j - n BY <1>4, <3>1 DEF Once
    <3> QED BY <1>1, <3>1, <3>2
  <2>3. CASE i \in DOMAIN s /\ j \notin DOMAIN s
    <3>1. Has(h, s, p) /\ Has(h, q, p) BY <1>2, <2>3 DEF Has
    <3> QED BY <1>4, <3>1
  <2>4. CASE i \notin DOMAIN s /\ j \in DOMAIN s
    <3>1. Has(h, s, p) /\ Has(h, q, p) BY <1>2, <2>4 DEF Has
    <3> QED BY <1>4, <3>1
  <2> QED BY <2>1, <2>2, <2>3, <2>4
<1> QED BY <1>3, <1>4 DEF u

\* A box of one reference.
LEMMA SingleHas == \A h, p, r : Once(h, <<r>>, p) /\ (Has(h, <<r>>, p) <=> Bears(h, r, p))
<1> SUFFICES ASSUME NEW h, NEW p, NEW r PROVE Once(h, <<r>>, p) /\ (Has(h, <<r>>, p) <=> Bears(h, r, p)) OBVIOUS
<1>1. DOMAIN <<r>> = {1} /\ <<r>>[1] = r OBVIOUS
<1> QED BY <1>1 DEF Once, Has

\* The references are to what they were to, or to something else than p.
LEMMA PointwiseLess ==
    ASSUME NEW h, NEW g, NEW p, NEW s, NEW u, DOMAIN u = DOMAIN s,
           \A i \in DOMAIN s : Bears(g, u[i], p) => Bears(h, s[i], p)
    PROVE  Lesser(h, s, g, u, p)
BY DEF Has, Once, Lesser

\* References to bodies that stay are to p only if they were.
LEMMA FollowOld ==
    ASSUME NEW h, NEW g, NEW p, NEW u, Old(h, u), Old(g, u), Follows(h, g, p)
    PROVE  Lesser(h, u, g, u, p)
<1>1. ASSUME NEW i \in DOMAIN u, Bears(g, u[i], p) PROVE Bears(h, u[i], p) BY <1>1 DEF Bears, Old, Follows
<1> QED BY <1>1, PointwiseLess

\* Fewer references, then another heap.
LEMMA LessTwice ==
    ASSUME NEW h, NEW g, NEW p, NEW s, NEW u, Shrinks(h, s, u, p), Lesser(h, u, g, u, p)
    PROVE  Lesser(h, s, g, u, p)
BY DEF Shrinks, Lesser

\* What is left of a box of old references is old, and less.
LEMMA CutLess ==
    ASSUME NEW h, NEW p, NEW s \in Seq(Refs), NEW u, Cut(s, u), Old(h, s)
    PROVE  Old(h, u) /\ Shrinks(h, s, u, p)
<1>1. CASE u = s BY <1>1 DEF Shrinks
<1>2. CASE u = <<>>
  <2>1. DOMAIN u = {} BY <1>2
  <2> QED BY <1>2, <2>1, EmptyHas DEF Shrinks, Old
<1>3. CASE s # <<>> /\ u = Tail(s)
  <2>1. Shrinks(h, s, u, p) BY <1>3, TailShrinks
  <2>2. Len(s) \in Nat /\ Len(s) # 0 /\ DOMAIN s = 1 .. Len(s) BY <1>3, EmptySeq, LenProperties
  <2>3. /\ u \in Seq(Refs) /\ Len(u) = Len(s) - 1 /\ DOMAIN u = 1 .. Len(u)
        /\ \A i \in 1 .. Len(u) : u[i] = s[i + 1]
    BY <1>3, <2>2, HeadTailProperties, LenProperties
  <2>4. \A i \in DOMAIN u : i + 1 \in DOMAIN s /\ u[i] = s[i + 1] BY <2>2, <2>3
  <2> QED BY <2>1, <2>4 DEF Old
<1>4. CASE s # <<>> /\ u = Front(s)
  <2>1. Shrinks(h, s, u, p) BY <1>4, FrontShrinks
  <2>2. \A i \in DOMAIN u : i \in DOMAIN s /\ u[i] = s[i] BY <1>4, FrontDomain
  <2> QED BY <2>1, <2>2 DEF Old
<1> QED BY <1>1, <1>2, <1>3, <1>4 DEF Cut

\* The references of a box are to bodies that are there.
LEMMA OldBox ==
    ASSUME NEW h, NEW B, Contained(B), Counts(h, B), NEW k \in Boxes
    PROVE  Old(h, B[k])
BY Live DEF Old

\* A box of which something is left, in the next heap, has p only if it had it.
LEMMA BoxLess ==
    ASSUME NEW h, NEW B, Contained(B), Counts(h, B), NEW g, NEW C, Contained(C), Counts(g, C), NEW p, Follows(h, g, p),
           NEW k \in Boxes, Cut(B[k], C[k])
    PROVE  Lesser(h, B[k], g, C[k], p) /\ Shrinks(h, B[k], C[k], p)
<1>1. Old(h, B[k]) /\ Old(g, C[k]) /\ B[k] \in Seq(Refs) BY OldBox DEF Contained
<1>2. Old(h, C[k]) /\ Shrinks(h, B[k], C[k], p) BY <1>1, CutLess
<1>3. Lesser(h, C[k], g, C[k], p) BY <1>1, <1>2, FollowOld
<1> QED BY <1>2, <1>3, LessTwice

\* A box that gets one reference.
LEMMA AppendJoins ==
    ASSUME NEW h, NEW g, NEW p, NEW s \in Seq(Refs), NEW r \in Refs, Old(h, s), Old(g, Append(s, r)), Follows(h, g, p)
    PROVE  Joins(h, s, g, Append(s, r), p, Bears(g, r, p))
<1>1. /\ Has(g, Append(s, r), p) <=> Has(g, s, p) \/ Bears(g, r, p)
      /\ Once(g, s, p) /\ ~(Has(g, s, p) /\ Bears(g, r, p)) => Once(g, Append(s, r), p)
  BY AppendHas
<1>2. \A i \in DOMAIN s : i \in DOMAIN Append(s, r) /\ Append(s, r)[i] = s[i] BY AppendProperties, LenProperties
<1>3. Old(g, s) BY <1>2 DEF Old
<1>4. Lesser(h, s, g, s, p) BY <1>3, FollowOld
<1> QED BY <1>1, <1>4 DEF Joins, Lesser

\* A box that gets a batch.
LEMMA ConcatJoins ==
    ASSUME NEW h, NEW g, NEW p, NEW s \in Seq(Refs), NEW q \in Seq(Refs), Old(h, s), Old(h, q), Old(g, s), Old(g, q),
           Follows(h, g, p), Once(h, q, p)
    PROVE  Joins(h, s, g, s \o q, p, Has(h, q, p))
<1>1. /\ Has(g, s \o q, p) => Has(g, s, p) \/ Has(g, q, p)
      /\ Once(g, s, p) /\ Once(g, q, p) /\ ~(Has(g, s, p) /\ Has(g, q, p)) => Once(g, s \o q, p)
  BY ConcatHas
<1>2. Lesser(h, s, g, s, p) /\ Lesser(h, q, g, q, p) BY FollowOld
<1> QED BY <1>1, <1>2 DEF Joins, Lesser

---------------------------------------------------------------------------
(* Flows.                                                                  *)

\* Boxes that may share still may when deliveries get nearer to their end.
LEMMA WiderApart ==
    ASSUME NEW T, NEW S, NEW T2, NEW S2, Wider(T, S, T2, S2), NEW k, NEW l, Apart(T, S, k, l)
    PROVE  Apart(T2, S2, k, l)
BY DEF Wider, Apart, May

\* Nothing gained: the payload flows as before.
LEMMA FlowLess ==
    ASSUME NEW h, NEW B, NEW g, NEW C, NEW p, NEW T, NEW S, NEW T2, NEW S2, Flows(h, B, T, S, p), Wider(T, S, T2, S2),
           \A k \in Boxes : Lesser(h, B[k], g, C[k], p)
    PROVE  Flows(g, C, T2, S2, p)
<1>1. \A k \in Boxes : Once(g, C[k], p) BY DEF Flows, Lesser
<1>2. ASSUME NEW k \in Boxes, NEW l \in Boxes, k # l, Has(g, C[k], p), Has(g, C[l], p) PROVE Apart(T2, S2, k, l)
  <2>1. Apart(T, S, k, l) BY <1>2 DEF Flows, Lesser
  <2> QED BY <2>1, WiderApart
<1> QED BY <1>1, <1>2 DEF Flows

\* Box l gains p: it had it not, and may share it with every box that has it.
LEMMA FlowGain ==
    ASSUME NEW h, NEW B, Contained(B), Counts(h, B), NEW g, NEW C, Contained(C), Counts(g, C), NEW p, Follows(h, g, p),
           NEW T, NEW S, NEW T2, NEW S2, Flows(h, B, T, S, p), NEW l \in Boxes, StillApart(T, S, T2, S2, B, l),
           \A k \in Boxes \ {l} : Cut(B[k], C[k]),
           NEW N, Joins(h, B[l], g, C[l], p, N),
           N => ~Has(h, B[l], p) /\ \A m \in Boxes \ {l} : Has(h, C[m], p) => Apart(T2, S2, l, m)
    PROVE  Flows(g, C, T2, S2, p)
<1>1. \A k \in Boxes \ {l} : Lesser(h, B[k], g, C[k], p) BY BoxLess
<1>2. Once(g, C[l], p) BY DEF Flows, Joins
<1>3. \A k \in Boxes : Once(g, C[k], p) BY <1>1, <1>2 DEF Flows, Lesser
<1>4. ASSUME NEW m \in Boxes \ {l}, Has(g, C[m], p), Has(g, C[l], p) PROVE Apart(T2, S2, l, m)
  <2>1. Has(h, B[m], p) BY <1>1, <1>4 DEF Lesser
  <2>2. CASE N
    <3>1. Old(h, B[m]) /\ Old(g, C[m]) /\ B[m] \in Seq(Refs) BY OldBox DEF Contained
    <3>2. Old(h, C[m]) BY <3>1, CutLess
    <3>3. Has(h, C[m], p) BY <1>4, <3>1, <3>2, FollowOld DEF Lesser
    <3> QED BY <2>2, <3>3
  <2>3. CASE ~N
    <3>1. Has(h, B[l], p) BY <1>4, <2>3 DEF Joins
    <3>2. B[l] # <<>> BY <3>1, EmptyHas
    <3>3. Apart(T, S, l, m) BY <2>1, <3>1 DEF Flows
    <3> QED BY <3>2, <3>3 DEF StillApart
  <2> QED BY <2>2, <2>3
<1>5. ASSUME NEW k \in Boxes, NEW m \in Boxes, k # m, Has(g, C[k], p), Has(g, C[m], p) PROVE Apart(T2, S2, k, m)
  <2>1. CASE k # l /\ m # l
    <3>1. Apart(T, S, k, m) BY <1>1, <1>5, <2>1 DEF Flows, Lesser
    <3> QED BY <1>5, <2>1, <3>1 DEF StillApart
  <2>2. CASE k = l \/ m = l
    <3>1. Apart(T2, S2, k, m) \/ Apart(T2, S2, m, k) BY <1>4, <1>5, <2>2
    <3> QED BY <3>1 DEF Apart
  <2> QED BY <2>1, <2>2
<1> QED BY <1>3, <1>5 DEF Flows

\* A payload that is gone is in no box.
LEMMA GoneFlows ==
    ASSUME NEW h, NEW B, NEW p, HeapOK(h, 0), Contained(B), Counts(h, B), h.payload[p].refs = 0,
           NEW T, NEW S
    PROVE  Flows(h, B, T, S, p)
<1>1. ASSUME NEW k \in Boxes, NEW i \in DOMAIN B[k], Bears(h, B[k][i], p) PROVE FALSE
  <2>1. B[k][i].own = Nobody /\ h.body[B[k][i].body].payload = p BY <1>1 DEF Bears
  <2>2. B[k][i].body \in Bodies /\ h.body[B[k][i].body].refs # 0 BY <2>1, Live
  <2>3. h.payload[h.body[B[k][i].body].payload].refs \in Nat \ {0} BY <2>2, LivePayload
  <2> QED BY <2>1, <2>3
<1>2. \A k \in Boxes : ~Has(h, B[k], p) /\ Once(h, B[k], p) BY <1>1 DEF Has, Once
<1> QED BY <1>2 DEF Flows

\* A payload of one body, which has one reference, is in one box.
LEMMA LoneFlows ==
    ASSUME NEW h, NEW B, NEW p, Contained(B), Counts(h, B), NEW c \in Bodies,
           h.body[c].refs = 1, \A d \in Bodies \ {c} : h.body[d].refs # 0 => h.body[d].payload # p,
           NEW T, NEW S
    PROVE  Flows(h, B, T, S, p)
<1>1. ASSUME NEW k \in Boxes, NEW i \in DOMAIN B[k], Bears(h, B[k][i], p)
      PROVE  B[k][i].own = Nobody /\ B[k][i].body = c
  <2>1. B[k][i].own = Nobody /\ h.body[B[k][i].body].payload = p BY <1>1 DEF Bears
  <2>2. B[k][i].body \in Bodies /\ h.body[B[k][i].body].refs # 0 BY <2>1, Live
  <2> QED BY <2>1, <2>2
<1>2. Tally(B, Nobody, c) = 1 /\ Counted(B, Nobody, c) /\ B \in [Boxes -> Seq(Refs)] BY DEF Counts, Contained
<1>3. ASSUME NEW k \in Boxes, NEW i \in DOMAIN B[k], Bears(h, B[k][i], p),
             NEW l \in Boxes, NEW j \in DOMAIN B[l], Bears(h, B[l][j], p)
      PROVE  k = l /\ i = j
  <2>1. B[k][i].own = Nobody /\ B[k][i].body = c /\ B[l][j].own = Nobody /\ B[l][j].body = c BY <1>1, <1>3
  <2> QED BY <1>2, <2>1, Alone
<1>4. \A k \in Boxes : Once(h, B[k], p) BY <1>3 DEF Once
<1>5. \A k, l \in Boxes : Has(h, B[k], p) /\ Has(h, B[l], p) => k = l BY <1>3 DEF Has
<1> QED BY <1>4, <1>5 DEF Flows

\* What a step may rely on.
LEMMA Facts ==
    /\ PInv => /\ HeapOK(heap, 0) /\ Contained(Contents) /\ Counts(heap, Contents) /\ BoxesOK /\ ShapeOK /\ FrameOK
    /\ PInv' => /\ HeapOK(heap', 0) /\ Contained(Contents') /\ Counts(heap', Contents') /\ BoxesOK' /\ ShapeOK'
BY DEF PInv, Good, Sound, TypeOK

\* The payloads that a step has to be right for.
Concerns(p) == p \in Payloads \ cloned' /\ heap'.payload[p].refs # 0

\* It is enough to look at the payloads of which no second packet was made and that are there.
LEMMA FlowEach ==
    ASSUME PInv', \A p : Concerns(p) => Flows(heap', Contents', targets', consumers', p)
    PROVE  FlowOK'
<1> SUFFICES ASSUME NEW p \in Payloads \ cloned' PROVE Flows(heap', Contents', targets', consumers', p) BY DEF FlowOK
<1>1. CASE heap'.payload[p].refs = 0 BY <1>1, Facts, GoneFlows
<1>2. CASE heap'.payload[p].refs # 0 BY <1>2 DEF Concerns
<1> QED BY <1>1, <1>2

\* Most steps: no box gains.
LEMMA FlowQuiet ==
    ASSUME PInv, FlowOK, PInv', Wider(targets, consumers, targets', consumers'),
           \A p : Concerns(p) => p \notin cloned /\ Follows(heap, heap', p),
           \A k \in Boxes : Cut(Contents[k], Contents'[k])
    PROVE  FlowOK'
<1> SUFFICES ASSUME NEW p, Concerns(p) PROVE Flows(heap', Contents', targets', consumers', p) BY FlowEach
<1>1. Flows(heap, Contents, targets, consumers, p) BY DEF FlowOK, Concerns
<1>2. \A k \in Boxes : Lesser(heap, Contents[k], heap', Contents'[k], p) BY Facts, BoxLess
<1> QED BY <1>1, <1>2, FlowLess

---------------------------------------------------------------------------
(* Deliveries and idle nodes.                                              *)

\* The threads are different ones.
LEMMA Apartness ==
    /\ Host # Producer /\ Host \notin Consumers /\ Producer \notin Consumers /\ Host \notin Nodes
    /\ Host \in Threads /\ Producer \in Nodes /\ Producer \in Threads /\ Consumers \subseteq Nodes
    /\ Nodes \subseteq Threads /\ Threads = {Host} \cup Nodes /\ Nodes = {Producer} \cup Consumers
BY PacketsAssumption DEF Nodes, Threads

\* A step of t that touches none of the nodes that no packet is for.
LEMMA CalmRest ==
    ASSUME CalmOK, NEW t \in Threads, UNCHANGED consumers, t \in Consumers => t \in consumers,
           \A w \in Threads \ {t} : pc'[w] = pc[w],
           \A n \in Consumers \ consumers : handle'[n] = handle[n] /\ queue'[n] = queue[n],
           \A n \in Consumers : staging'[n] = <<>> /\ flight'[n] = <<>>,
           targets'[Host] \subseteq {Producer} /\ targets'[Producer] \subseteq consumers,
           pc'[Host] \in {"describe", "build"} => pc[Host] \in {"describe", "build"}
    PROVE  CalmOK'
BY Apartness DEF CalmOK, At

\* A node that does something is one that packets are for.
LEMMA Busy ==
    ASSUME CalmOK, NEW n \in Threads, ~At(n, "idle")
    PROVE  n \in Consumers => n \in consumers
BY DEF CalmOK

\* Idle nodes stay so after making a value.
LEMMA MakeBuiltinCalm ==
    ASSUME PInv, CalmOK, NEW t \in Threads, MakeBuiltin(t)
    PROVE  CalmOK'
BY Apartness DEF MakeBuiltin, NewHandle, Push, PInv, TypeOK, FrameOK, ShapeOK, BoxesOK, CalmOK, At, Running, Goto, graph, nodes, delivery

\* Idle nodes stay so after an object in a body.
LEMMA NewInteropCalm ==
    ASSUME PInv, CalmOK, NEW t \in Threads, NewInterop(t)
    PROVE  CalmOK'
BY Apartness DEF NewInterop, NewHandle, Push, PInv, TypeOK, FrameOK, ShapeOK, BoxesOK, CalmOK, At, Running, Goto, graph, nodes, delivery

\* Idle nodes stay so after an object built by hand.
LEMMA BuildPacketCalm ==
    ASSUME PInv, CalmOK, NEW t \in Threads, BuildPacket(t)
    PROVE  CalmOK'
BY Apartness DEF BuildPacket, Push, PInv, TypeOK, FrameOK, ShapeOK, BoxesOK, CalmOK, At, Running, Goto, graph, nodes, delivery

\* Idle nodes stay so after a clone.
LEMMA CloneCalm ==
    ASSUME PInv, CalmOK, NEW t \in Threads, Clone(t)
    PROVE  CalmOK'
BY Apartness DEF Clone, Push, PInv, TypeOK, FrameOK, ShapeOK, BoxesOK, CalmOK, At, Running, Goto, graph, nodes, delivery

\* Idle nodes stay so after a drop.
LEMMA DropCalm ==
    ASSUME PInv, CalmOK, NEW t \in Threads, Drop(t)
    PROVE  CalmOK'
BY Apartness DEF Drop, Pop, PInv, TypeOK, FrameOK, ShapeOK, BoxesOK, CalmOK, At, Running, Goto, graph, nodes, delivery

\* Idle nodes stay so after changed metadata.
LEMMA SetMetadataCalm ==
    ASSUME PInv, CalmOK, NEW t \in Threads, SetMetadata(t)
    PROVE  CalmOK'
BY Apartness DEF SetMetadata, SetTop, PInv, TypeOK, FrameOK, ShapeOK, BoxesOK, CalmOK, At, Running, Goto, graph, nodes, delivery

\* Idle nodes stay so after the first half of a writable view.
LEMMA MakeMutableCalm ==
    ASSUME PInv, CalmOK, NEW t \in Threads, MakeMutable(t)
    PROVE  CalmOK'
BY Apartness DEF MakeMutable, SetTop, PInv, TypeOK, FrameOK, ShapeOK, BoxesOK, CalmOK, At, Running, Goto, graph, nodes, delivery

\* Idle nodes stay so after the second half of a writable view.
LEMMA OwnPayloadCalm ==
    ASSUME PInv, CalmOK, NEW t \in Threads, OwnPayload(t)
    PROVE  CalmOK'
BY Apartness DEF OwnPayload, SetTop, PInv, TypeOK, FrameOK, ShapeOK, BoxesOK, CalmOK, At, Running, Goto, graph, nodes, delivery

\* Idle nodes stay so after a dispatch.
LEMMA DispatchCalm ==
    ASSUME PInv, CalmOK, NEW t \in Threads, Dispatch(t)
    PROVE  CalmOK'
<1>1. t \in Threads /\ (t \in Consumers => t \in consumers) BY Apartness, Busy DEF Dispatch, At, Running
<1>2. UNCHANGED consumers /\ \A w \in Threads \ {t} : pc'[w] = pc[w] BY <1>1 DEF Dispatch, Goto, PInv, TypeOK, FrameOK, graph
<1>3. \A n \in Consumers \ consumers : handle'[n] = handle[n] /\ queue'[n] = queue[n]
  <2>1. flight[t] # <<>> BY DEF Dispatch, PInv, ShapeOK
  <2>2. t \in {Host, Producer} BY <2>1, Apartness DEF CalmOK
  <2>3. targets[t] \cap (Consumers \ consumers) = {} BY <2>2, Apartness DEF CalmOK
  <2>4. UNCHANGED handle /\ \E n \in targets[t] : queue' = queue \/ \E s : queue' = [queue EXCEPT ![n] = s]
    BY DEF Dispatch
  <2> QED BY <2>3, <2>4, Apartness DEF PInv, TypeOK, BoxesOK
<1>4. \A n \in Consumers : staging'[n] = <<>> /\ flight'[n] = <<>>
  BY Apartness DEF Dispatch, CalmOK, PInv, TypeOK, BoxesOK, nodes, delivery
<1>5. targets'[Host] \subseteq {Producer} /\ targets'[Producer] \subseteq consumers
  BY Apartness DEF Dispatch, CalmOK, PInv, TypeOK, FrameOK, delivery
<1>6. pc'[Host] \in {"describe", "build"} => pc[Host] \in {"describe", "build"}
  BY <1>2, Apartness DEF Dispatch, At, Running, Goto, PInv, TypeOK, FrameOK
<1> QED BY <1>1, <1>2, <1>3, <1>4, <1>5, <1>6, CalmRest

\* Idle nodes stay so after the end of a delivery.
LEMMA DeliveredCalm ==
    ASSUME PInv, CalmOK, NEW t \in Threads, Delivered(t)
    PROVE  CalmOK'
<1>1. t \in Threads /\ (t \in Consumers => t \in consumers) BY Apartness, Busy DEF Delivered, At, Running
<1>2. UNCHANGED consumers /\ \A w \in Threads \ {t} : pc'[w] = pc[w] BY <1>1 DEF Delivered, Goto, PInv, TypeOK, FrameOK, graph
<1>3. \A n \in Consumers \ consumers : handle'[n] = handle[n] /\ queue'[n] = queue[n]
  BY <1>1 DEF Delivered, PInv, TypeOK, BoxesOK, CalmOK, nodes
<1>4. \A n \in Consumers : staging'[n] = <<>> /\ flight'[n] = <<>>
  BY Apartness DEF Delivered, CalmOK, PInv, TypeOK, BoxesOK, nodes, delivery
<1>5. targets'[Host] \subseteq {Producer} /\ targets'[Producer] \subseteq consumers
  BY Apartness DEF Delivered, CalmOK, PInv, TypeOK, FrameOK, delivery
<1>6. pc'[Host] \in {"describe", "build"} => pc[Host] \in {"describe", "build"}
  BY <1>2, Apartness DEF Delivered, At, Running, Goto, PInv, TypeOK, FrameOK
<1> QED BY <1>1, <1>2, <1>3, <1>4, <1>5, <1>6, CalmRest

\* Idle nodes stay so after a pooled buffer.
LEMMA NewBufferCalm ==
    ASSUME PInv, CalmOK, NEW n \in Nodes, NewBuffer(n)
    PROVE  CalmOK'
BY Apartness DEF NewBuffer, Push, PInv, TypeOK, FrameOK, ShapeOK, BoxesOK, CalmOK, At, Running, Goto, graph, nodes, delivery

\* Idle nodes stay so after taking the input.
LEMMA TakeInputCalm ==
    ASSUME PInv, CalmOK, NEW n \in Nodes, TakeInput(n)
    PROVE  CalmOK'
BY Apartness DEF TakeInput, Push, PInv, TypeOK, FrameOK, ShapeOK, BoxesOK, CalmOK, At, Running, Goto, graph, nodes, delivery

\* Idle nodes stay so after cloning the input.
LEMMA CloneInputCalm ==
    ASSUME PInv, CalmOK, NEW n \in Nodes, CloneInput(n)
    PROVE  CalmOK'
BY Apartness DEF CloneInput, Push, PInv, TypeOK, FrameOK, ShapeOK, BoxesOK, CalmOK, At, Running, Goto, graph, nodes, delivery

\* Idle nodes stay so after an emit.
LEMMA EmitCalm ==
    ASSUME PInv, CalmOK, NEW n \in Nodes, Emit(n)
    PROVE  CalmOK'
<1>1. n \in Threads /\ (n \in Consumers => n \in consumers) BY Apartness, Busy DEF Emit, At, Running
<1>2. UNCHANGED consumers /\ \A w \in Threads \ {n} : pc'[w] = pc[w] BY <1>1 DEF Emit, Pop, Goto, PInv, TypeOK, FrameOK, graph
<1>3. \A m \in Consumers \ consumers : handle'[m] = handle[m] /\ queue'[m] = queue[m]
  BY <1>1 DEF Emit, Pop, PInv, TypeOK, BoxesOK, CalmOK, nodes
<1>4. \A m \in Consumers : staging'[m] = <<>> /\ flight'[m] = <<>>
  BY Apartness DEF Emit, CalmOK, PInv, TypeOK, BoxesOK, nodes, delivery
<1>5. targets'[Host] \subseteq {Producer} /\ targets'[Producer] \subseteq consumers
  BY Apartness DEF Emit, CalmOK, PInv, TypeOK, FrameOK, delivery
<1>6. pc'[Host] \in {"describe", "build"} => pc[Host] \in {"describe", "build"}
  BY <1>2, Apartness DEF Emit, Pop, At, Running, Goto, PInv, TypeOK, FrameOK
<1> QED BY <1>1, <1>2, <1>3, <1>4, <1>5, <1>6, CalmRest

\* Idle nodes stay so after a forward.
LEMMA ForwardCalm ==
    ASSUME PInv, CalmOK, NEW n \in Nodes, Forward(n)
    PROVE  CalmOK'
BY Apartness DEF Forward, PInv, TypeOK, FrameOK, ShapeOK, BoxesOK, CalmOK, At, Running, Goto, graph, nodes, delivery

\* Idle nodes stay so after the return of a callback.
LEMMA ReturnCalm ==
    ASSUME PInv, CalmOK, NEW n \in Nodes, Return(n)
    PROVE  CalmOK'
<1>1. n \in Threads /\ (n \in Consumers => n \in consumers) BY Apartness, Busy DEF Return, At, Running
<1>2. UNCHANGED consumers /\ \A w \in Threads \ {n} : pc'[w] = pc[w] BY <1>1 DEF Return, Fail, Goto, PInv, TypeOK, FrameOK, graph
<1>3. \A m \in Consumers \ consumers : handle'[m] = handle[m] /\ queue'[m] = queue[m]
  BY <1>1 DEF Return, Fail, PInv, TypeOK, BoxesOK, CalmOK, nodes
<1>4. \A m \in Consumers : staging'[m] = <<>> /\ flight'[m] = <<>>
  BY Apartness DEF Return, CalmOK, PInv, TypeOK, BoxesOK, nodes, delivery
<1>5. targets'[Host] \subseteq {Producer} /\ targets'[Producer] \subseteq consumers
  BY Apartness DEF Return, CalmOK, PInv, TypeOK, FrameOK, delivery
<1>6. pc'[Host] \in {"describe", "build"} => pc[Host] \in {"describe", "build"}
  BY <1>2, Apartness DEF Return, Fail, At, Running, Goto, PInv, TypeOK, FrameOK
<1> QED BY <1>1, <1>2, <1>3, <1>4, <1>5, <1>6, CalmRest

\* Idle nodes stay so after a claim.
LEMMA ClaimCalm ==
    ASSUME PInv, CalmOK, NEW n \in Nodes, Claim(n)
    PROVE  CalmOK'
BY Apartness DEF Claim, PInv, TypeOK, FrameOK, ShapeOK, BoxesOK, CalmOK, At, Running, Goto, graph, nodes, delivery

\* Idle nodes stay so after the start of an invocation.
LEMMA StartCalm ==
    ASSUME PInv, CalmOK, NEW n \in Nodes, Start(n)
    PROVE  CalmOK'
<1>1. n \in Threads /\ (n \in Consumers => n \in consumers) BY Apartness, Busy DEF Start, At, Running
<1>2. UNCHANGED consumers /\ \A w \in Threads \ {n} : pc'[w] = pc[w] BY <1>1 DEF Start, Fail, Goto, PInv, TypeOK, FrameOK, graph
<1>3. \A m \in Consumers \ consumers : handle'[m] = handle[m] /\ queue'[m] = queue[m]
  BY <1>1 DEF Start, Fail, PInv, TypeOK, BoxesOK, CalmOK, nodes
<1>4. \A m \in Consumers : staging'[m] = <<>> /\ flight'[m] = <<>>
  BY Apartness DEF Start, CalmOK, PInv, TypeOK, BoxesOK, nodes, delivery
<1>5. targets'[Host] \subseteq {Producer} /\ targets'[Producer] \subseteq consumers
  BY Apartness DEF Start, CalmOK, PInv, TypeOK, FrameOK, delivery
<1>6. pc'[Host] \in {"describe", "build"} => pc[Host] \in {"describe", "build"}
  BY <1>2, Apartness DEF Start, Fail, At, Running, Goto, PInv, TypeOK, FrameOK
<1> QED BY <1>1, <1>2, <1>3, <1>4, <1>5, <1>6, CalmRest

\* Idle nodes stay so after the end of an invocation.
LEMMA CompleteCalm ==
    ASSUME PInv, CalmOK, NEW n \in Nodes, Complete(n)
    PROVE  CalmOK'
<1>1. n \in Threads /\ (n \in Consumers => n \in consumers) BY Apartness, Busy DEF Complete, At, Running
<1>2. UNCHANGED consumers /\ \A w \in Threads \ {n} : pc'[w] = pc[w] BY <1>1 DEF Complete, Goto, PInv, TypeOK, FrameOK, graph
<1>3. \A m \in Consumers \ consumers : handle'[m] = handle[m] /\ queue'[m] = queue[m]
  BY <1>1 DEF Complete, PInv, TypeOK, BoxesOK, CalmOK, nodes
<1>4. \A m \in Consumers : staging'[m] = <<>> /\ flight'[m] = <<>>
  BY Apartness DEF Complete, CalmOK, PInv, TypeOK, BoxesOK, nodes, delivery
<1>5. targets'[Host] \subseteq {Producer} /\ targets'[Producer] \subseteq consumers
  BY Apartness DEF Complete, CalmOK, PInv, TypeOK, FrameOK, delivery
<1>6. pc'[Host] \in {"describe", "build"} => pc[Host] \in {"describe", "build"}
  BY <1>2, Apartness DEF Complete, At, Running, Goto, PInv, TypeOK, FrameOK
<1> QED BY <1>1, <1>2, <1>3, <1>4, <1>5, <1>6, CalmRest

\* Idle nodes stay so after discarding a staged packet.
LEMMA UnstageCalm ==
    ASSUME PInv, CalmOK, NEW n \in Nodes, Unstage(n)
    PROVE  CalmOK'
<1>1. n \in Threads /\ (n \in Consumers => n \in consumers) BY Apartness, Busy DEF Unstage, At, Running
<1>2. UNCHANGED consumers /\ \A w \in Threads \ {n} : pc'[w] = pc[w] BY <1>1 DEF Unstage, Goto, PInv, TypeOK, FrameOK, graph
<1>3. \A m \in Consumers \ consumers : handle'[m] = handle[m] /\ queue'[m] = queue[m]
  BY <1>1 DEF Unstage, PInv, TypeOK, BoxesOK, CalmOK, nodes
<1>4. \A m \in Consumers : staging'[m] = <<>> /\ flight'[m] = <<>>
  BY Apartness DEF Unstage, CalmOK, PInv, TypeOK, BoxesOK, nodes, delivery
<1>5. targets'[Host] \subseteq {Producer} /\ targets'[Producer] \subseteq consumers
  BY Apartness DEF Unstage, CalmOK, PInv, TypeOK, FrameOK, delivery
<1>6. pc'[Host] \in {"describe", "build"} => pc[Host] \in {"describe", "build"}
  BY <1>2, Apartness DEF Unstage, At, Running, Goto, PInv, TypeOK, FrameOK
<1> QED BY <1>1, <1>2, <1>3, <1>4, <1>5, <1>6, CalmRest

\* Idle nodes stay so after discarding a queued packet.
LEMMA DiscardCalm ==
    ASSUME PInv, CalmOK, NEW n \in Nodes, Discard(n)
    PROVE  CalmOK'
BY Apartness DEF Discard, PInv, TypeOK, FrameOK, ShapeOK, BoxesOK, CalmOK, At, Running, Goto, graph, nodes, delivery

\* Idle nodes stay so after copying a buffer.
LEMMA CopyBufferCalm ==
    ASSUME PInv, CalmOK, CopyBuffer
    PROVE  CalmOK'
<1>1. Host \in Threads /\ (Host \in Consumers => Host \in consumers) BY Apartness, Busy DEF CopyBuffer, At, Running
<1>2. UNCHANGED consumers /\ \A w \in Threads \ {Host} : pc'[w] = pc[w] BY <1>1 DEF CopyBuffer, NewHandle, Push, Goto, PInv, TypeOK, FrameOK, graph
<1>3. \A n \in Consumers \ consumers : handle'[n] = handle[n] /\ queue'[n] = queue[n]
  <2>1. UNCHANGED queue /\ (handle' = handle \/ \E s : handle' = [handle EXCEPT ![Host] = s])
    BY DEF CopyBuffer, NewHandle, Push, nodes
  <2> QED BY <2>1, Apartness DEF PInv, TypeOK, BoxesOK
<1>4. \A n \in Consumers : staging'[n] = <<>> /\ flight'[n] = <<>>
  BY Apartness DEF CopyBuffer, CalmOK, PInv, TypeOK, BoxesOK, nodes, delivery
<1>5. targets'[Host] \subseteq {Producer} /\ targets'[Producer] \subseteq consumers
  BY Apartness DEF CopyBuffer, CalmOK, PInv, TypeOK, FrameOK, delivery
<1>6. pc'[Host] \in {"describe", "build"} => pc[Host] \in {"describe", "build"}
  BY <1>2, Apartness DEF CopyBuffer, NewHandle, Push, At, Running, Goto, PInv, TypeOK, FrameOK
<1> QED BY <1>1, <1>2, <1>3, <1>4, <1>5, <1>6, CalmRest

\* Idle nodes stay so after adopting a buffer.
LEMMA AdoptBufferCalm ==
    ASSUME PInv, CalmOK, AdoptBuffer
    PROVE  CalmOK'
BY Apartness DEF AdoptBuffer, NewHandle, Push, PInv, TypeOK, FrameOK, ShapeOK, BoxesOK, CalmOK, At, Running, Goto, graph, nodes, delivery

\* Idle nodes stay so after the start of the graph.
LEMMA BuildGraphCalm ==
    ASSUME PInv, CalmOK, BuildGraph
    PROVE  CalmOK'
BY Apartness DEF BuildGraph, PInv, TypeOK, FrameOK, ShapeOK, BoxesOK, CalmOK, At, Running, Goto, graph, nodes, delivery

\* Idle nodes stay so after a registration.
LEMMA RegisterCalm ==
    ASSUME PInv, CalmOK, Register
    PROVE  CalmOK'
BY Apartness DEF Register, PInv, TypeOK, FrameOK, ShapeOK, BoxesOK, CalmOK, At, Running, Goto, graph, nodes, delivery

\* Idle nodes stay so after a send.
LEMMA SendCalm ==
    ASSUME PInv, CalmOK, Send
    PROVE  CalmOK'
<1>1. Host \in Threads /\ (Host \in Consumers => Host \in consumers) BY Apartness, Busy DEF Send, At, Running
<1>2. UNCHANGED consumers /\ \A w \in Threads \ {Host} : pc'[w] = pc[w] BY <1>1 DEF Send, Pop, Goto, PInv, TypeOK, FrameOK, graph
<1>3. \A n \in Consumers \ consumers : handle'[n] = handle[n] /\ queue'[n] = queue[n]
  BY <1>1 DEF Send, Pop, PInv, TypeOK, BoxesOK, CalmOK, nodes
<1>4. \A n \in Consumers : staging'[n] = <<>> /\ flight'[n] = <<>>
  BY Apartness DEF Send, CalmOK, PInv, TypeOK, BoxesOK, nodes, delivery
<1>5. targets'[Host] \subseteq {Producer} /\ targets'[Producer] \subseteq consumers
  BY Apartness DEF Send, CalmOK, PInv, TypeOK, FrameOK, delivery
<1>6. pc'[Host] \in {"describe", "build"} => pc[Host] \in {"describe", "build"}
  BY <1>2, Apartness DEF Send, Pop, At, Running, Goto, PInv, TypeOK, FrameOK
<1> QED BY <1>1, <1>2, <1>3, <1>4, <1>5, <1>6, CalmRest

\* Idle nodes stay so after a cancellation.
LEMMA CancelCalm ==
    ASSUME PInv, CalmOK, Cancel
    PROVE  CalmOK'
BY Apartness DEF Cancel, PInv, TypeOK, FrameOK, ShapeOK, BoxesOK, CalmOK, At, Running, Goto, graph, nodes, delivery

---------------------------------------------------------------------------
(* What the heap does to payloads that are there.                          *)

\* A drop gives no body another payload.
LEMMA DropFollows ==
    ASSUME NEW h, HeapOK(h, 0), NEW b \in Bodies, h.body[b].refs # 0, NEW p
    PROVE  Follows(h, DropBody(h, b), p)
<1> DEFINE g == DropBody(h, b)
<1>1. /\ \A c \in Bodies \ {b} : g.body[c] = h.body[c]
      /\ g.body[b].refs # 0 => g.body[b].payload = h.body[b].payload
  BY DropBodyKeeps
<1> HIDE DEF g
<1>2. Follows(h, g, p) BY <1>1 DEF Follows
<1> QED BY <1>2 DEF g

\* Nor does a reference more.
LEMMA RetainFollows ==
    ASSUME NEW h, HeapOK(h, 0), NEW b \in Bodies, h.body[b].refs # 0, NEW p
    PROVE  Follows(h, Retain(h, b), p)
<1> DEFINE g == Retain(h, b)
<1>1. (\A c \in Bodies \ {b} : g.body[c] = h.body[c]) /\ SameBody(h, g, b) BY RetainKeeps
<1> HIDE DEF g
<1>2. Follows(h, g, p) BY <1>1 DEF Follows, SameBody
<1> QED BY <1>2 DEF g

\* Nor does a batch of them.
LEMMA RetainAllFollows ==
    ASSUME NEW h, HeapOK(h, 0), NEW s \in Seq(Refs), Old(h, s), \A i \in DOMAIN s : s[i].own = Nobody, NEW p
    PROVE  Follows(h, RetainAll(h, s), p)
<1> DEFINE g == RetainAll(h, s)
<1>1. \A b \in Bodies : SameBody(h, g, b) BY RetainAllKeeps DEF Old
<1> HIDE DEF g
<1>2. Follows(h, g, p) BY <1>1 DEF Follows, SameBody
<1> QED BY <1>2 DEF g

\* A new packet is the only one of its payload.
LEMMA NewFollows ==
    ASSUME NEW h, HeapOK(h, 0), FreeBodies(h) # {}, FreePayloads(h) # {}, NEW kind, NEW own, NEW copies
    PROVE  LET g == NewPacket(h, kind, own, copies)
               c == FreeBody(h)
               q == FreePayload(h)
           IN  /\ \A p : Follows(h, g, p)
               /\ c \in Bodies /\ h.body[c].refs = 0 /\ g.body[c].refs = 1 /\ g.body[c].payload = q
               /\ \A d \in Bodies \ {c} : g.body[d] = h.body[d] /\ g.body[d].payload # q
<1> DEFINE g == NewPacket(h, kind, own, copies)
<1> DEFINE c == FreeBody(h)
<1> DEFINE q == FreePayload(h)
<1>1. h \in HeapType BY DEF HeapOK
<1>2. h.body \in [Bodies -> BodyType] BY <1>1, HeapParts
<1>3. c \in Bodies /\ h.body[c] = NoBody /\ \A b \in Bodies : h.body[b].payload # q BY FreeOnes
<1>4. g.body = [h.body EXCEPT ![c] = [refs |-> 1, payload |-> q, meta |-> 0]]
  BY <1>1 DEF NewPacket, HeapType
<1> HIDE DEF g, c, q
<1>5. g.body[c] = [refs |-> 1, payload |-> q, meta |-> 0] /\ \A d \in Bodies \ {c} : g.body[d] = h.body[d]
  BY <1>2, <1>3, <1>4
<1>6. h.body[c].refs = 0 /\ g.body[c].refs = 1 /\ g.body[c].payload = q BY <1>3, <1>5 DEF NoBody
<1>7. \A p : Follows(h, g, p) BY <1>5, <1>6 DEF Follows
<1> QED BY <1>3, <1>5, <1>6, <1>7 DEF g, c, q

\* A body of the packet's own has the payload of the shared one.
LEMMA OwnFollows ==
    ASSUME NEW h, HeapOK(h, 0), NEW b \in Bodies, h.body[b].refs # 0, FreeBodies(h) # {}, NEW p
    PROVE  /\ Follows(h, OwnBody(h, b), p) /\ OwnBody(h, b).body[OwnedBody(h, b)].payload = h.body[b].payload
           /\ OwnedBody(h, b) \in Bodies
<1> DEFINE g == OwnBody(h, b)
<1> DEFINE c == OwnedBody(h, b)
<1>1. CASE h.body[b].refs = 1
  <2>1. g = h /\ c = b BY <1>1 DEF OwnBody, OwnedBody
  <2> QED BY <2>1 DEF Follows
<1>2. CASE h.body[b].refs # 1
  <2>1. g = CopyBody(h, b) /\ c = FreeBody(h) BY <1>2 DEF OwnBody, OwnedBody
  <2>2. /\ c \in Bodies /\ c # b /\ h.body[c].refs = 0 /\ g.body[c].payload = h.body[b].payload
        /\ SameBody(h, g, b) /\ \A d \in Bodies \ {b, c} : g.body[d] = h.body[d]
    BY <1>2, <2>1, CopyBodyKeeps
  <2> HIDE DEF g, c
  <2>3. Follows(h, g, p) BY <2>2 DEF Follows, SameBody
  <2> QED BY <2>2, <2>3 DEF g, c
<1> QED BY <1>1, <1>2

\* Nor does a step that leaves the bodies.
LEMMA FollowsBodies ==
    ASSUME NEW h, NEW g, g.body = h.body, NEW p
    PROVE  Follows(h, g, p)
BY DEF Follows

\* Two steps, the first of which drops nothing.
LEMMA FollowsOn ==
    ASSUME NEW h, NEW m, NEW g, NEW p, Follows(h, m, p), Follows(m, g, p),
           \A b \in Bodies : h.body[b].refs # 0 => m.body[b].refs # 0
    PROVE  Follows(h, g, p)
BY DEF Follows

---------------------------------------------------------------------------
(* Boxes and the history.                                                  *)

\* What the boxes have after a step.
LEMMA ContentsNext ==
    /\ \A t \in Threads : Contents'[<<"handle", t>>] = handle'[t] /\ Contents'[<<"flight", t>>] = flight'[t]
    /\ \A n \in Nodes : /\ Contents'[<<"slot", n>>] = slot'[n] /\ Contents'[<<"staging", n>>] = staging'[n]
                        /\ Contents'[<<"queue", n>>] = queue'[n]
<1>1. Contents' = BoxesOf(handle', flight', slot', staging', queue') BY ContentsBoxes
<1>2. \A k \in Boxes : Contents'[k] = InBox(handle', flight', slot', staging', queue', k) BY <1>1, BoxAt
<1> QED BY <1>2, BoxKinds DEF InBox

\* All boxes but l are left or cut.
LEMMA CutOthers ==
    ASSUME NEW l,
           \A t \in Threads : /\ l # <<"handle", t>> => Cut(handle[t], handle'[t])
                              /\ l # <<"flight", t>> => Cut(flight[t], flight'[t]),
           \A n \in Nodes : /\ l # <<"slot", n>> => Cut(slot[n], slot'[n])
                            /\ l # <<"staging", n>> => Cut(staging[n], staging'[n])
                            /\ l # <<"queue", n>> => Cut(queue[n], queue'[n])
    PROVE  \A k \in Boxes \ {l} : Cut(Contents[k], Contents'[k])
<1> SUFFICES ASSUME NEW k \in Boxes \ {l} PROVE Cut(Contents[k], Contents'[k]) OBVIOUS
<1>1. ASSUME NEW t \in Threads, k = <<"handle", t>> PROVE Cut(Contents[k], Contents'[k])
  BY <1>1, ContentsAt, ContentsNext
<1>2. ASSUME NEW t \in Threads, k = <<"flight", t>> PROVE Cut(Contents[k], Contents'[k])
  BY <1>2, ContentsAt, ContentsNext
<1>3. ASSUME NEW n \in Nodes, k = <<"slot", n>> PROVE Cut(Contents[k], Contents'[k])
  BY <1>3, ContentsAt, ContentsNext
<1>4. ASSUME NEW n \in Nodes, k = <<"staging", n>> PROVE Cut(Contents[k], Contents'[k])
  BY <1>4, ContentsAt, ContentsNext
<1>5. ASSUME NEW n \in Nodes, k = <<"queue", n>> PROVE Cut(Contents[k], Contents'[k])
  BY <1>5, ContentsAt, ContentsNext
<1> QED BY <1>1, <1>2, <1>3, <1>4, <1>5, BoxKinds

\* All boxes are left or cut.
LEMMA CutAll ==
    ASSUME \A t \in Threads : Cut(handle[t], handle'[t]) /\ Cut(flight[t], flight'[t]),
           \A n \in Nodes : Cut(slot[n], slot'[n]) /\ Cut(staging[n], staging'[n]) /\ Cut(queue[n], queue'[n])
    PROVE  \A k \in Boxes : Cut(Contents[k], Contents'[k])
<1> SUFFICES ASSUME NEW k \in Boxes PROVE Cut(Contents[k], Contents'[k]) OBVIOUS
<1>1. ASSUME NEW t \in Threads, k = <<"handle", t>> PROVE Cut(Contents[k], Contents'[k])
  BY <1>1, ContentsAt, ContentsNext
<1>2. ASSUME NEW t \in Threads, k = <<"flight", t>> PROVE Cut(Contents[k], Contents'[k])
  BY <1>2, ContentsAt, ContentsNext
<1>3. ASSUME NEW n \in Nodes, k = <<"slot", n>> PROVE Cut(Contents[k], Contents'[k])
  BY <1>3, ContentsAt, ContentsNext
<1>4. ASSUME NEW n \in Nodes, k = <<"staging", n>> PROVE Cut(Contents[k], Contents'[k])
  BY <1>4, ContentsAt, ContentsNext
<1>5. ASSUME NEW n \in Nodes, k = <<"queue", n>> PROVE Cut(Contents[k], Contents'[k])
  BY <1>5, ContentsAt, ContentsNext
<1> QED BY <1>1, <1>2, <1>3, <1>4, <1>5, BoxKinds

\* To leave a box and to empty it are cuts.
LEMMA NoCut == \A s : Cut(s, s) /\ Cut(s, <<>>)
BY DEF Cut

\* A payload that is there is not forgotten.
LEMMA ForgetConcerns ==
    ASSUME PInv', cloned' = Forget(heap', cloned), NEW p, Concerns(p)
    PROVE  p \notin cloned
<1>1. heap' \in HeapType BY Facts DEF HeapOK
<1>2. heap'.payload[p].refs \in Nat \ {0}
  <2>1. p \in Payloads /\ heap'.payload[p].refs # 0 BY DEF Concerns
  <2> QED BY <1>1, <2>1, HeapParts
<1>3. heap'.payload[p].refs > 0 BY <1>2
<1> QED BY <1>3 DEF Forget, Concerns

\* Where what the boxes have is.
LEMMA BoxRefs ==
    ASSUME PInv
    PROVE  /\ \A t \in Threads : /\ handle[t] \in Seq(Refs) /\ Old(heap, handle[t])
                                 /\ flight[t] \in Seq(EngineRef) /\ flight[t] \in Seq(Refs) /\ Old(heap, flight[t])
           /\ \A n \in Nodes :
                 /\ slot[n] \in Seq(EngineRef) /\ staging[n] \in Seq(EngineRef) /\ queue[n] \in Seq(EngineRef)
                 /\ slot[n] \in Seq(Refs) /\ staging[n] \in Seq(Refs) /\ queue[n] \in Seq(Refs)
                 /\ Old(heap, slot[n]) /\ Old(heap, staging[n]) /\ Old(heap, queue[n])
<1>1. Contained(Contents) /\ Counts(heap, Contents) /\ BoxesOK BY Facts
<1>2. \A k \in Boxes : Old(heap, Contents[k]) BY <1>1, OldBox
<1>3. ASSUME NEW t \in Threads
      PROVE  /\ handle[t] \in Seq(Refs) /\ Old(heap, handle[t])
             /\ flight[t] \in Seq(EngineRef) /\ flight[t] \in Seq(Refs) /\ Old(heap, flight[t])
  <2>1. handle[t] \in Seq(Refs) /\ flight[t] \in Seq(EngineRef) BY <1>1 DEF BoxesOK
  <2> QED BY <1>2, <2>1, ContentsAt, BoxKinds, TypedRefs
<1>4. ASSUME NEW n \in Nodes
      PROVE  /\ slot[n] \in Seq(EngineRef) /\ staging[n] \in Seq(EngineRef) /\ queue[n] \in Seq(EngineRef)
             /\ slot[n] \in Seq(Refs) /\ staging[n] \in Seq(Refs) /\ queue[n] \in Seq(Refs)
             /\ Old(heap, slot[n]) /\ Old(heap, staging[n]) /\ Old(heap, queue[n])
  <2>1. slot[n] \in Seq(EngineRef) /\ staging[n] \in Seq(EngineRef) /\ queue[n] \in Seq(EngineRef) BY <1>1 DEF BoxesOK
  <2> QED BY <1>2, <2>1, ContentsAt, BoxKinds, TypedRefs
<1> QED BY <1>3, <1>4

\* The first reference of a box is to a body that is there.
LEMMA HeadOld ==
    ASSUME NEW h, NEW s \in Seq(EngineRef), s # <<>>, Old(h, s)
    PROVE  Head(s).body \in Bodies /\ h.body[Head(s).body].refs # 0 /\ Head(s).own = Nobody /\ Head(s) = s[1]
BY TypedRefs DEF Old

\* So is the packet on top, if it has a body.
LEMMA TopOld ==
    ASSUME PInv, NEW t \in Threads, Engine(t)
    PROVE  /\ Top(t).body \in Bodies /\ heap.body[Top(t).body].refs # 0 /\ Top(t).own = Nobody
           /\ Len(handle[t]) \in DOMAIN handle[t] /\ Top(t) = handle[t][Len(handle[t])]
<1>1. BoxesOK /\ Owns(t) BY Facts DEF Engine
<1>2. Len(handle[t]) \in DOMAIN handle[t] /\ Top(t).own = Nobody BY <1>1, OnTop
<1> QED BY <1>2, BoxRefs DEF Old, Top

\* Nothing is delivered.
LEMMA SameTargets == ASSUME UNCHANGED <<targets, consumers>> PROVE Wider(targets, consumers, targets', consumers')
BY DEF Wider

---------------------------------------------------------------------------
(* Steps that move nothing, and steps that drop.                           *)

\* Nothing changes but the deliveries.
LEMMA FlowSame ==
    ASSUME PInv, PInv', FlowOK, UNCHANGED <<heap, handle, slot, staging, queue, flight, cloned>>,
           Wider(targets, consumers, targets', consumers')
    PROVE  FlowOK'
<1>1. \A k \in Boxes : Cut(Contents[k], Contents'[k]) BY NoCut, CutAll
<1>2. \A p : Concerns(p) => p \notin cloned /\ Follows(heap, heap', p) BY FollowsBodies DEF Concerns
<1> QED BY <1>1, <1>2, FlowQuiet

\* Payloads flow as they may after the start of an invocation.
LEMMA StartFlow ==
    ASSUME PInv, PInv', FlowOK, NEW n \in Nodes, Start(n)
    PROVE  FlowOK'
<1>1. UNCHANGED <<heap, handle, slot, staging, queue, flight, cloned, targets, consumers>> BY DEF Start, graph, nodes, delivery
<1> QED BY <1>1, SameTargets, FlowSame

\* Payloads flow as they may after the return of a callback.
LEMMA ReturnFlow ==
    ASSUME PInv, PInv', FlowOK, NEW n \in Nodes, Return(n)
    PROVE  FlowOK'
<1>1. UNCHANGED <<heap, handle, slot, staging, queue, flight, cloned, targets, consumers>> BY DEF Return, graph, delivery
<1> QED BY <1>1, SameTargets, FlowSame

\* Payloads flow as they may after a registration.
LEMMA RegisterFlow ==
    ASSUME PInv, PInv', FlowOK, Register
    PROVE  FlowOK'
<1>1. UNCHANGED <<heap, handle, slot, staging, queue, flight, cloned, targets, consumers>> BY DEF Register, nodes, delivery
<1> QED BY <1>1, SameTargets, FlowSame

\* Payloads flow as they may after a cancellation.
LEMMA CancelFlow ==
    ASSUME PInv, PInv', FlowOK, Cancel
    PROVE  FlowOK'
<1>1. UNCHANGED <<heap, handle, slot, staging, queue, flight, cloned, targets, consumers>> BY DEF Cancel, graph, nodes, delivery
<1> QED BY <1>1, SameTargets, FlowSame

\* Payloads flow as they may after the start of the graph.
LEMMA BuildGraphFlow ==
    ASSUME PInv, PInv', CalmOK, FlowOK, BuildGraph
    PROVE  FlowOK'
<1>1. UNCHANGED <<heap, handle, slot, staging, queue, flight, cloned, targets>> BY DEF BuildGraph, nodes, delivery
<1>2. consumers = {} BY DEF BuildGraph, CalmOK, At
<1>3. Wider(targets, consumers, targets', consumers') BY <1>1, <1>2 DEF Wider
<1> QED BY <1>1, <1>3, FlowSame

\* A release leaves the bodies.
LEMMA DisposeBody == \A h \in HeapType : \A o : Dispose(h, o).body = h.body
<1> SUFFICES ASSUME NEW h \in HeapType, NEW o PROVE Dispose(h, o).body = h.body OBVIOUS
<1>1. CASE o \in Resources
  <2>1. o \notin Memory BY <1>1, Names
  <2>2. Dispose(h, o) = [h EXCEPT !.released[o] = @ + 1] BY <1>1, <2>1 DEF Dispose
  <2> QED BY <2>2 DEF HeapType
<1>2. CASE o \notin Resources /\ o \in Memory
  <2>1. Dispose(h, o) = ToPool(h, o) BY <1>2 DEF Dispose
  <2>2. ToPool(h, o).body = h.body
    <3>1. CASE h.bytes + MemorySize[o] <= PoolBytes
      <4>1. ToPool(h, o) = [h EXCEPT !.cached[o] = @ + 1, !.bytes = @ + MemorySize[o]] BY <3>1 DEF ToPool
      <4> QED BY <4>1 DEF HeapType
    <3>2. CASE ~(h.bytes + MemorySize[o] <= PoolBytes) BY <3>2 DEF ToPool
    <3> QED BY <3>1, <3>2
  <2> QED BY <2>1, <2>2
<1>3. CASE o \notin Resources /\ o \notin Memory BY <1>3 DEF Dispose
<1> QED BY <1>1, <1>2, <1>3

\* A packet of a node's or a call's is dropped; nothing else changes.
LEMMA HeadDropped ==
    ASSUME PInv, PInv', FlowOK, NEW s \in Seq(EngineRef), s # <<>>, Old(heap, s),
           heap' = DropBody(heap, Head(s).body), cloned' = Forget(heap', cloned),
           UNCHANGED <<targets, consumers>>, \A k \in Boxes : Cut(Contents[k], Contents'[k])
    PROVE  FlowOK'
<1>1. Head(s).body \in Bodies /\ heap.body[Head(s).body].refs # 0 /\ HeapOK(heap, 0) BY HeadOld, Facts
<1>2. \A p : Follows(heap, heap', p) BY <1>1, DropFollows
<1>3. \A p : Concerns(p) => p \notin cloned BY ForgetConcerns
<1> QED BY <1>2, <1>3, SameTargets, FlowQuiet

\* Payloads flow as they may after a drop.
LEMMA DropFlow ==
    ASSUME PInv, PInv', FlowOK, NEW t \in Threads, Drop(t)
    PROVE  FlowOK'
<1>0. Owns(t) /\ UNCHANGED <<slot, staging, queue, flight, targets, consumers>> /\ cloned' = Forget(heap', cloned)
  BY DEF Drop, graph, nodes, delivery
<1>1. handle' = Put(handle, t, Front(handle[t])) BY <1>0, Facts, FrontTyped DEF Drop
<1>2. \A w \in Threads : Cut(handle[w], handle'[w])
  <2>1. handle[t] # <<>> /\ handle \in [Threads -> Seq(Refs)] BY <1>0, Facts DEF Owns, BoxesOK
  <2> QED BY <1>1, <2>1 DEF Cut, Put
<1>3. \A k \in Boxes : Cut(Contents[k], Contents'[k]) BY <1>0, <1>2, NoCut, CutAll
<1>4. \A p : Follows(heap, heap', p)
  <2>1. CASE Engine(t)
    <3>1. heap' = DropBody(heap, Top(t).body) BY <2>1 DEF Drop
    <3> QED BY <2>1, <3>1, TopOld, Facts, DropFollows
  <2>2. CASE ~Engine(t)
    <3>1. heap' = Dispose(heap, Top(t).own) BY <2>2 DEF Drop
    <3> QED BY <3>1, Facts, DisposeBody, FollowsBodies DEF HeapOK
  <2> QED BY <2>1, <2>2
<1>5. \A p : Concerns(p) => p \notin cloned BY <1>0, ForgetConcerns
<1> QED BY <1>0, <1>3, <1>4, <1>5, SameTargets, FlowQuiet

\* Payloads flow as they may after the end of a delivery.
LEMMA DeliveredFlow ==
    ASSUME PInv, PInv', FlowOK, NEW t \in Threads, Delivered(t)
    PROVE  FlowOK'
<1>1. /\ flight' = [flight EXCEPT ![t] = Tail(flight[t])] /\ heap' = DropBody(heap, Head(flight[t]).body)
      /\ UNCHANGED <<handle, slot, staging, queue, targets, consumers>> /\ cloned' = Forget(heap', cloned) /\ At(t, "deliver")
  BY DEF Delivered, graph, nodes
<1>2. flight[t] # <<>> /\ flight \in [Threads -> Seq(EngineRef)] BY <1>1, Facts DEF ShapeOK, BoxesOK
<1>3. \A w \in Threads : Cut(flight[w], flight'[w]) BY <1>1, <1>2 DEF Cut
<1>4. \A k \in Boxes : Cut(Contents[k], Contents'[k]) BY <1>1, <1>3, NoCut, CutAll
<1>5. flight[t] \in Seq(EngineRef) /\ Old(heap, flight[t]) BY BoxRefs
<1> QED BY <1>1, <1>2, <1>4, <1>5, HeadDropped

\* Payloads flow as they may after discarding a staged packet.
LEMMA UnstageFlow ==
    ASSUME PInv, PInv', FlowOK, NEW n \in Nodes, Unstage(n)
    PROVE  FlowOK'
<1>1. /\ staging' = [staging EXCEPT ![n] = Tail(staging[n])] /\ heap' = DropBody(heap, Head(staging[n]).body)
      /\ UNCHANGED <<handle, slot, flight, queue, targets, consumers>> /\ cloned' = Forget(heap', cloned) /\ At(n, "discard")
  BY DEF Unstage, graph, delivery
<1>2. staging[n] # <<>> /\ staging \in [Nodes -> Seq(EngineRef)] BY <1>1, Facts DEF ShapeOK, BoxesOK
<1>3. \A w \in Nodes : Cut(staging[w], staging'[w]) BY <1>1, <1>2 DEF Cut
<1>4. \A k \in Boxes : Cut(Contents[k], Contents'[k]) BY <1>1, <1>3, NoCut, CutAll
<1>5. staging[n] \in Seq(EngineRef) /\ Old(heap, staging[n]) BY BoxRefs
<1> QED BY <1>1, <1>2, <1>4, <1>5, HeadDropped

\* Payloads flow as they may after discarding a queued packet.
LEMMA DiscardFlow ==
    ASSUME PInv, PInv', FlowOK, NEW n \in Nodes, Discard(n)
    PROVE  FlowOK'
<1>1. /\ queue' = [queue EXCEPT ![n] = Tail(queue[n])] /\ heap' = DropBody(heap, Head(queue[n]).body)
      /\ UNCHANGED <<handle, slot, flight, staging, targets, consumers>> /\ cloned' = Forget(heap', cloned) /\ queue[n] # <<>>
  BY DEF Discard, graph, delivery
<1>2. queue \in [Nodes -> Seq(EngineRef)] BY Facts DEF BoxesOK
<1>3. \A w \in Nodes : Cut(queue[w], queue'[w]) BY <1>1, <1>2 DEF Cut
<1>4. \A k \in Boxes : Cut(Contents[k], Contents'[k]) BY <1>1, <1>3, NoCut, CutAll
<1>5. queue[n] \in Seq(EngineRef) /\ Old(heap, queue[n]) BY BoxRefs
<1> QED BY <1>1, <1>4, <1>5, HeadDropped

---------------------------------------------------------------------------
(* Steps after which a thread has one packet more, of no payload that      *)
(* counts, and steps that change the packet on top.                        *)

\* A thread gets a packet of no payload that counts.
LEMMA HandGains ==
    ASSUME PInv, PInv', FlowOK, NEW t \in Threads, NEW r \in Refs, Push(t, r),
           UNCHANGED <<slot, staging, queue, flight, targets, consumers>>,
           \A p : Follows(heap, heap', p), UNCHANGED cloned \/ cloned \subseteq cloned',
           \A p : Concerns(p) /\ Bears(heap', r, p) => Flows(heap', Contents', targets', consumers', p)
    PROVE  FlowOK'
<1> SUFFICES ASSUME NEW p, Concerns(p) PROVE Flows(heap', Contents', targets', consumers', p) BY FlowEach
<1>1. CASE Bears(heap', r, p) BY <1>1
<1>2. CASE ~Bears(heap', r, p)
  <2>1. Flows(heap, Contents, targets, consumers, p) BY DEF FlowOK, Concerns
  <2>2. handle' = [handle EXCEPT ![t] = Append(handle[t], r)] /\ handle \in [Threads -> Seq(Refs)]
    BY Facts DEF Push, BoxesOK
  <2>3. Hand(t) \in Boxes BY BoxKinds DEF Hand
  <2>4. \A k \in Boxes \ {Hand(t)} : Cut(Contents[k], Contents'[k])
    <3>1. \A w \in Threads : Hand(t) # <<"handle", w>> => Cut(handle[w], handle'[w]) BY <2>2, NoCut DEF Hand
    <3> QED BY <3>1, NoCut, CutOthers
  <2>5. Contents[Hand(t)] = handle[t] /\ Contents'[Hand(t)] = Append(handle[t], r)
    <3>1. handle'[t] = Append(handle[t], r) BY <2>2
    <3> QED BY <3>1, ContentsAt, ContentsNext DEF Hand
  <2>6. Old(heap, handle[t]) /\ handle[t] \in Seq(Refs) BY BoxRefs
  <2>7. Old(heap', Append(handle[t], r)) BY <2>3, <2>5, Facts, OldBox
  <2>8. Joins(heap, handle[t], heap', Append(handle[t], r), p, Bears(heap', r, p)) BY <2>6, <2>7, AppendJoins
  <2>9. Joins(heap, Contents[Hand(t)], heap', Contents'[Hand(t)], p, FALSE) BY <1>2, <2>5, <2>8 DEF Joins
  <2>10. StillApart(targets, consumers, targets', consumers', Contents, Hand(t)) BY DEF StillApart
  <2> QED BY <2>1, <2>3, <2>4, <2>9, <2>10, Facts, FlowGain
<1> QED BY <1>1, <1>2

\* The packet on top of t becomes r: of the same payload, or of one that nobody else has.
LEMMA TopFlow ==
    ASSUME PInv, PInv', FlowOK, NEW t \in Threads, NEW r, SetTop(t, r),
           UNCHANGED <<slot, staging, queue, flight, targets, consumers>>,
           \A p : Concerns(p) =>
              /\ p \notin cloned
              /\ \/ Flows(heap', Contents', targets', consumers', p)
                 \/ Follows(heap, heap', p) /\ (Bears(heap', r, p) => Bears(heap, Top(t), p))
    PROVE  FlowOK'
<1> SUFFICES ASSUME NEW p, Concerns(p), Follows(heap, heap', p), Bears(heap', r, p) => Bears(heap, Top(t), p)
             PROVE  Flows(heap', Contents', targets', consumers', p)
  BY FlowEach
<1>1. Flows(heap, Contents, targets, consumers, p) BY DEF FlowOK, Concerns
<1> DEFINE s == handle[t]
<1> DEFINE u == handle'[t]
<1>2. handle' = [handle EXCEPT ![t] = [s EXCEPT ![Len(s)] = r]] /\ handle \in [Threads -> Seq(Refs)]
  BY Facts DEF SetTop, BoxesOK
<1>3. u = [s EXCEPT ![Len(s)] = r] /\ \A w \in Threads \ {t} : handle'[w] = handle[w] BY <1>2
<1>4. DOMAIN u = DOMAIN s /\ \A i \in DOMAIN s : u[i] = IF i = Len(s) THEN r ELSE s[i] BY <1>3
<1>5. Contents[Hand(t)] = s /\ Contents'[Hand(t)] = u /\ Hand(t) \in Boxes
  BY ContentsAt, ContentsNext, BoxKinds DEF Hand
<1>6. Old(heap, s) BY BoxRefs
<1>7. Old(heap', u) BY <1>5, Facts, OldBox
<1>8. Top(t) = s[Len(s)] BY DEF Top
<1>9. \A k \in Boxes \ {Hand(t)} : Cut(Contents[k], Contents'[k])
  <2>1. \A w \in Threads : Hand(t) # <<"handle", w>> => Cut(handle[w], handle'[w]) BY <1>3, NoCut DEF Hand
  <2> QED BY <2>1, NoCut, CutOthers
<1> HIDE DEF s, u
<1>10. ASSUME NEW i \in DOMAIN s, Bears(heap', u[i], p) PROVE Bears(heap, s[i], p)
  <2>1. CASE i = Len(s) BY <1>4, <1>8, <1>10, <2>1
  <2>2. CASE i # Len(s)
    <3>1. u[i] = s[i] BY <1>4, <2>2
    <3> QED BY <1>4, <1>6, <1>7, <1>10, <3>1 DEF Bears, Old, Follows
  <2> QED BY <2>1, <2>2
<1>11. Lesser(heap, s, heap', u, p) BY <1>4, <1>10, PointwiseLess
<1>12. \A k \in Boxes \ {Hand(t)} : Lesser(heap, Contents[k], heap', Contents'[k], p) BY <1>9, Facts, BoxLess
<1>13. \A k \in Boxes : Lesser(heap, Contents[k], heap', Contents'[k], p) BY <1>5, <1>11, <1>12
<1> QED BY <1>1, <1>13, SameTargets, FlowLess

---------------------------------------------------------------------------
(* New packets and clones.                                                 *)

\* A new packet is the only one of its payload.
LEMMA NewFlow ==
    ASSUME PInv, PInv', FlowOK, Room, NEW t \in Threads, NEW h, HeapOK(h, 0), h.body = heap.body, h.payload = heap.payload,
           NEW kind, NEW own, NEW copies, heap' = NewPacket(h, kind, own, copies), Push(t, Ref(FreeBody(heap), Fresh)),
           UNCHANGED <<slot, staging, queue, flight, targets, consumers, cloned>>
    PROVE  FlowOK'
<1> DEFINE c == FreeBody(heap)
<1> DEFINE q == FreePayload(heap)
<1>1. FreeBodies(h) = FreeBodies(heap) /\ FreePayloads(h) = FreePayloads(heap) BY DEF FreeBodies, FreePayloads
<1>2. FreeBody(h) = c /\ FreePayload(h) = q BY <1>1 DEF FreeBody, FreePayload
<1>3. FreeBodies(h) # {} /\ FreePayloads(h) # {} BY <1>1 DEF Room
<1>4. Ref(c, Fresh) \in Refs /\ Ref(c, Fresh).body = c BY FreshTyped DEF Room, Ref
<1> HIDE DEF c, q
<1>5. /\ \A p : Follows(h, heap', p)
      /\ c \in Bodies /\ heap'.body[c].refs = 1 /\ heap'.body[c].payload = q
      /\ \A d \in Bodies \ {c} : heap'.body[d].payload # q
  BY <1>2, <1>3, NewFollows
<1>6. \A p : Follows(heap, heap', p) BY <1>5 DEF Follows
<1>7. ASSUME NEW p, Concerns(p), Bears(heap', Ref(c, Fresh), p)
      PROVE  Flows(heap', Contents', targets', consumers', p)
  <2>1. p = q BY <1>4, <1>5, <1>7 DEF Bears
  <2> QED BY <1>5, <2>1, Facts, LoneFlows
<1> QED BY <1>4, <1>6, <1>7, HandGains DEF c

\* A new packet in the hand of t.
LEMMA NewHandleFlow ==
    ASSUME PInv, PInv', FlowOK, Room, NEW t \in Threads, NEW kind, NEW own, NEW copies, NewHandle(t, kind, own, copies),
           UNCHANGED <<slot, staging, queue, flight, targets, consumers, cloned>>
    PROVE  FlowOK'
<1>1. HeapOK(heap, 0) BY Facts
<1>2. heap' = NewPacket(heap, kind, own, copies) /\ Push(t, Ref(FreeBody(heap), Fresh)) BY DEF NewHandle
<1> QED BY <1>1, <1>2, NewFlow

\* Payloads flow as they may after making a value.
LEMMA MakeBuiltinFlow ==
    ASSUME PInv, PInv', FlowOK, Room, NEW t \in Threads, MakeBuiltin(t)
    PROVE  FlowOK'
<1>1. NewHandle(t, "builtin", Nobody, TRUE) /\ UNCHANGED <<slot, staging, queue, flight, targets, consumers, cloned>>
  BY DEF MakeBuiltin, graph, nodes, delivery
<1> QED BY <1>1, NewHandleFlow

\* Payloads flow as they may after an object in a body.
LEMMA NewInteropFlow ==
    ASSUME PInv, PInv', FlowOK, Room, NEW t \in Threads, NewInterop(t)
    PROVE  FlowOK'
<1>1. NewHandle(t, "foreign", Object, FALSE) /\ UNCHANGED <<slot, staging, queue, flight, targets, consumers, cloned>>
  BY DEF NewInterop, graph, nodes, delivery
<1> QED BY <1>1, NewHandleFlow

\* Payloads flow as they may after copying a buffer.
LEMMA CopyBufferFlow ==
    ASSUME PInv, PInv', FlowOK, Room, CopyBuffer
    PROVE  FlowOK'
<1>1. UNCHANGED <<slot, staging, queue, flight, targets, consumers, cloned>> /\ Host \in Threads
  BY Names DEF CopyBuffer, nodes, delivery
<1>2. NewHandle(Host, "builtin", Nobody, TRUE) \/ UNCHANGED <<heap, handle>> BY DEF CopyBuffer
<1>3. CASE NewHandle(Host, "builtin", Nobody, TRUE) BY <1>1, <1>3, NewHandleFlow
<1>4. CASE UNCHANGED <<heap, handle>> BY <1>1, <1>4, SameTargets, FlowSame
<1> QED BY <1>2, <1>3, <1>4

\* Payloads flow as they may after adopting a buffer.
LEMMA AdoptBufferFlow ==
    ASSUME PInv, PInv', FlowOK, Room, AdoptBuffer
    PROVE  FlowOK'
<1>1. UNCHANGED <<slot, staging, queue, flight, targets, consumers, cloned>> /\ Host \in Threads
  BY Names DEF AdoptBuffer, nodes, delivery
<1>2. (\E kind, copies : NewHandle(Host, kind, Adopted, copies)) \/ UNCHANGED <<heap, handle>>
  BY Zenon DEF AdoptBuffer
<1>3. CASE \E kind, copies : NewHandle(Host, kind, Adopted, copies)
  <2>1. PICK kind, copies : NewHandle(Host, kind, Adopted, copies) BY <1>3
  <2> QED BY <1>1, <2>1, NewHandleFlow
<1>4. CASE UNCHANGED <<heap, handle>> BY <1>1, <1>4, SameTargets, FlowSame
<1> QED BY <1>2, <1>3, <1>4

\* Payloads flow as they may after a pooled buffer.
LEMMA NewBufferFlow ==
    ASSUME PInv, PInv', FlowOK, Room, NEW n \in Nodes, NewBuffer(n)
    PROVE  FlowOK'
<1>1. PICK m \in Memory : heap' = NewPacket(Allocated(m), "external", m, TRUE) BY DEF NewBuffer
<1> DEFINE h == Allocated(m)
<1>2. HeapOK(h, 0) /\ h.body = heap.body /\ h.payload = heap.payload
  <2>0. n \in Threads BY Names
  <2>1. CASE heap.cached[m] > 0
    <3>1. h = FromPool(heap, m) BY <2>1 DEF Allocated
    <3> HIDE DEF h
    <3>2. Sound(heap, Contents, given) BY <2>0, Fits
    <3>3. Sound(h, Contents, given) /\ h.body = heap.body /\ h.payload = heap.payload
      BY <2>1, <3>1, <3>2, FromPoolSound
    <3> QED BY <3>3 DEF Sound
  <2>2. CASE ~(heap.cached[m] > 0) BY <2>2, Facts DEF Allocated
  <2> QED BY <2>1, <2>2
<1>3. Push(n, Ref(FreeBody(heap), Fresh)) /\ UNCHANGED <<slot, staging, queue, flight, targets, consumers, cloned>>
  BY DEF NewBuffer, graph, nodes, delivery
<1>4. n \in Threads /\ heap' = NewPacket(h, "external", m, TRUE) BY <1>1, Names
<1> HIDE DEF h
<1> QED BY <1>2, <1>3, <1>4, NewFlow

\* Payloads flow as they may after an object built by hand.
LEMMA BuildPacketFlow ==
    ASSUME PInv, PInv', FlowOK, NEW t \in Threads, BuildPacket(t)
    PROVE  FlowOK'
<1>1. Push(t, SelfBuilt) /\ UNCHANGED <<heap, slot, staging, queue, flight, targets, consumers, cloned>>
  BY DEF BuildPacket, graph, nodes, delivery
<1>2. SelfBuilt \in Refs /\ \A p : ~Bears(heap', SelfBuilt, p) BY RefKinds DEF Bears
<1>3. \A p : Follows(heap, heap', p) BY <1>1, FollowsBodies
<1> QED BY <1>1, <1>2, <1>3, HandGains

\* A clone: its payload does not count any more.
LEMMA CloneOf ==
    ASSUME PInv, PInv', FlowOK, NEW t \in Threads, NEW r \in Refs, r.own = Nobody, r.body \in Bodies,
           heap.body[r.body].refs # 0, heap' = Retain(heap, r.body), Push(t, r), MarkCloned(r.body),
           UNCHANGED <<slot, staging, queue, flight, targets, consumers>>
    PROVE  FlowOK'
<1>1. HeapOK(heap, 0) BY Facts
<1>2. \A p : Follows(heap, heap', p) BY <1>1, RetainFollows
<1>3. SameBody(heap, heap', r.body) BY <1>1, RetainKeeps
<1>4. ASSUME NEW p, Concerns(p), Bears(heap', r, p) PROVE FALSE
  BY <1>3, <1>4 DEF Bears, SameBody, MarkCloned, Concerns
<1> QED BY <1>2, <1>4, HandGains DEF MarkCloned

\* Payloads flow as they may after a clone.
LEMMA CloneFlow ==
    ASSUME PInv, PInv', FlowOK, NEW t \in Threads, Clone(t)
    PROVE  FlowOK'
<1>1. Engine(t) /\ UNCHANGED <<slot, staging, queue, flight, targets, consumers>>
  BY DEF Clone, graph, nodes, delivery
<1>2. heap' = Retain(heap, Top(t).body) /\ Push(t, Top(t)) /\ MarkCloned(Top(t).body) BY DEF Clone
<1>3. Top(t) \in Refs BY <1>1, Facts, OnTop DEF Engine
<1>4. Top(t).own = Nobody /\ Top(t).body \in Bodies /\ heap.body[Top(t).body].refs # 0 BY <1>1, TopOld
<1> QED BY <1>1, <1>2, <1>3, <1>4, CloneOf

\* The input is a packet that is there.
LEMMA SlotOld ==
    ASSUME PInv, NEW n \in Nodes, slot[n] # <<>>
    PROVE  /\ slot[n][1] \in EngineRef /\ slot[n][1] \in Refs /\ slot[n][1].own = Nobody /\ slot[n] = <<slot[n][1]>>
           /\ slot[n][1].body \in Bodies /\ heap.body[slot[n][1].body].refs # 0
BY InSlot, BoxRefs DEF Old

\* Payloads flow as they may after cloning the input.
LEMMA CloneInputFlow ==
    ASSUME PInv, PInv', FlowOK, NEW n \in Nodes, CloneInput(n)
    PROVE  FlowOK'
<1>1. slot[n] # <<>> /\ UNCHANGED <<slot, staging, queue, flight, targets, consumers>>
  BY DEF CloneInput, graph, nodes, delivery
<1>2. heap' = Retain(heap, slot[n][1].body) /\ Push(n, slot[n][1]) /\ MarkCloned(slot[n][1].body) BY DEF CloneInput
<1>3. n \in Threads BY Names
<1> QED BY <1>1, <1>2, <1>3, SlotOld, CloneOf

---------------------------------------------------------------------------
(* Packets that change.                                                    *)

\* The body of the packet's own has one reference.
LEMMA OwnedHeap ==
    ASSUME NEW h, HeapOK(h, 0), NEW b \in Bodies, h.body[b].refs # 0, FreeBodies(h) # {}
    PROVE  HeapOK(OwnBody(h, b), 0) /\ OwnBody(h, b).body[OwnedBody(h, b)].refs = 1
<1>1. CASE h.body[b].refs = 1 BY <1>1 DEF OwnBody, OwnedBody
<1>2. CASE h.body[b].refs # 1
  <2>1. OwnBody(h, b) = CopyBody(h, b) /\ OwnedBody(h, b) = FreeBody(h) BY <1>2 DEF OwnBody, OwnedBody
  <2>2. HeapOK(CopyBody(h, b), 0) /\ CopyBody(h, b).body[FreeBody(h)].refs = 1 BY <1>2, CopyBodyKeeps
  <2> QED BY <2>1, <2>2
<1> QED BY <1>1, <1>2

\* Payloads flow as they may after changed metadata.
LEMMA SetMetadataFlow ==
    ASSUME PInv, PInv', FlowOK, Room, NEW t \in Threads, SetMetadata(t)
    PROVE  FlowOK'
<1> DEFINE b == Top(t).body
<1> DEFINE c == OwnedBody(heap, b)
<1> DEFINE h == OwnBody(heap, b)
<1> DEFINE r == [Top(t) EXCEPT !.body = c, !.value.meta = @ + 1]
<1>1. /\ Engine(t) /\ SetTop(t, r) /\ heap' = [h EXCEPT !.body[c].meta = @ + 1]
      /\ UNCHANGED <<slot, staging, queue, flight, targets, consumers, cloned>>
  BY DEF SetMetadata, graph, nodes, delivery
<1>2. b \in Bodies /\ heap.body[b].refs # 0 /\ Top(t).own = Nobody /\ Top(t) \in EngineRef
  BY <1>1, TopOld, Facts, OnTop DEF Engine
<1>3. r.own = Nobody /\ r.body = c BY <1>2 DEF EngineRef
<1> HIDE DEF r
<1>4. \A p : Follows(heap, h, p) BY <1>2, Facts, OwnFollows DEF Room
<1>5. h.body[c].payload = heap.body[b].payload /\ c \in Bodies BY <1>2, Facts, OwnFollows DEF Room
<1>6. HeapOK(h, 0) /\ h.body[c].refs = 1
  BY <1>2, Facts, OwnedHeap DEF Room
<1> HIDE DEF h, c
<1>7. /\ \A d \in Bodies \ {c} : heap'.body[d] = h.body[d]
      /\ heap'.body[c].refs = h.body[c].refs /\ heap'.body[c].payload = h.body[c].payload
  BY <1>1, <1>5, <1>6, MetaKeeps
<1>8. \A p : Follows(heap, heap', p) BY <1>4, <1>7 DEF Follows
<1>9. \A p : Bears(heap', r, p) => Bears(heap, Top(t), p) BY <1>2, <1>3, <1>5, <1>7 DEF Bears
<1>10. \A p : Concerns(p) => p \notin cloned BY <1>1 DEF Concerns
<1> QED BY <1>1, <1>8, <1>9, <1>10, TopFlow

\* Payloads flow as they may after the first half of a writable view.
LEMMA MakeMutableFlow ==
    ASSUME PInv, PInv', FlowOK, Room, NEW t \in Threads, MakeMutable(t)
    PROVE  FlowOK'
<1> DEFINE b == Top(t).body
<1> DEFINE c == OwnedBody(heap, b)
<1> DEFINE r == [Top(t) EXCEPT !.body = c]
<1>1. /\ Engine(t) /\ SetTop(t, r) /\ heap' = OwnBody(heap, b)
      /\ UNCHANGED <<slot, staging, queue, flight, targets, consumers, cloned>>
  BY DEF MakeMutable, graph, nodes, delivery
<1>2. b \in Bodies /\ heap.body[b].refs # 0 /\ Top(t).own = Nobody /\ Top(t) \in EngineRef
  BY <1>1, TopOld, Facts, OnTop DEF Engine
<1>3. r.own = Nobody /\ r.body = c BY <1>2 DEF EngineRef
<1> HIDE DEF r
<1>4. \A p : Follows(heap, heap', p) BY <1>1, <1>2, Facts, OwnFollows DEF Room
<1>5. heap'.body[c].payload = heap.body[b].payload BY <1>1, <1>2, Facts, OwnFollows DEF Room
<1> HIDE DEF c
<1>6. \A p : Bears(heap', r, p) => Bears(heap, Top(t), p) BY <1>2, <1>3, <1>5 DEF Bears
<1>7. \A p : Concerns(p) => p \notin cloned BY <1>1 DEF Concerns
<1> QED BY <1>1, <1>4, <1>6, <1>7, TopFlow

\* The two ways to a payload that may be written, b the body of the packet.
LEMMA WroteFollows ==
    ASSUME NEW h, HeapOK(h, 0), NEW b \in Bodies, h.body[b].refs # 0, NEW p,
           NEW g, g = [h EXCEPT !.payload[h.body[b].payload].content = @ + 1]
    PROVE  Follows(h, g, p) /\ g.body = h.body
<1>1. h.body[b].payload \in Payloads /\ h.payload[h.body[b].payload].refs # 0 BY LivePayload
<1>2. g.body = h.body
  <2>1. PICK q : q = h.body[b].payload OBVIOUS
  <2>2. g = [h EXCEPT !.payload[q].content = @ + 1] /\ q \in Payloads /\ h.payload[q].refs # 0 BY <1>1, <2>1
  <2> QED BY <2>2, WriteKeeps
<1> QED BY <1>2, FollowsBodies

\* The copy is a payload that no other body has.
LEMMA CopiedFollows ==
    ASSUME NEW h, HeapOK(h, 0), NEW b \in Bodies, h.body[b].refs # 0, FreePayloads(h) # {}, NEW p
    PROVE  LET g == DropPayload(Detached(h, b), h.body[b].payload)
           IN  /\ HeapOK(g, 0) /\ g.body[b].refs = h.body[b].refs /\ g.body[b].payload = FreePayload(h)
               /\ \A d \in Bodies \ {b} : g.body[d].payload # FreePayload(h)
               /\ p # FreePayload(h) => Follows(h, g, p)
<1> DEFINE g == DropPayload(Detached(h, b), h.body[b].payload)
<1>1. /\ HeapOK(g, 0) /\ \A d \in Bodies \ {b} : g.body[d] = h.body[d]
      /\ g.body[b].refs = h.body[b].refs /\ g.body[b].payload = FreePayload(h)
  BY CopyPayloadKeeps
<1>2. \A d \in Bodies : h.body[d].payload # FreePayload(h) BY FreeOnes
<1> HIDE DEF g
<1>3. p # FreePayload(h) => Follows(h, g, p) BY <1>1 DEF Follows
<1>4. \A d \in Bodies \ {b} : g.body[d].payload # FreePayload(h) BY <1>1, <1>2
<1> QED BY <1>1, <1>3, <1>4 DEF g

\* Payloads flow as they may after the second half of a writable view.
LEMMA OwnPayloadFlow ==
    ASSUME PInv, PInv', FlowOK, Room, NEW t \in Threads, OwnPayload(t)
    PROVE  FlowOK'
<1> DEFINE b == Top(t).body
<1> DEFINE r == [Top(t) EXCEPT !.value.content = @ + 1]
<1>1. Engine(t) /\ heap.body[b].refs = 1 /\ b \in Bodies BY Zenon, Writing DEF OwnPayload
<1>2. UNCHANGED <<slot, staging, queue, flight, targets, consumers>> /\ cloned' = Forget(heap', cloned)
  BY Zenon DEF OwnPayload, graph, nodes, delivery
<1>3. HeapOK(heap, 0) /\ heap.body[b].refs # 0
  <2> HIDE DEF b
  <2> QED BY <1>1, Facts
<1>4. \A p : Concerns(p) => p \notin cloned BY Zenon, <1>2, ForgetConcerns
<1>5. r.own = Nobody /\ r.body = b
  <2>1. Top(t) \in EngineRef BY Zenon, <1>1, Facts, OnTop DEF Engine
  <2>2. r.own = Top(t).own /\ r.body = Top(t).body
    <3>1. PICK x \in EngineRef : x = Top(t) BY Zenon, <2>1
    <3>2. PICK v : v = x.value OBVIOUS
    <3>3. r = [x EXCEPT !.value = [v EXCEPT !.content = @ + 1]] BY SMTT(30), <3>1, <3>2 DEF EngineRef
    <3> HIDE DEF r
    <3> QED BY <3>1, <3>3 DEF EngineRef
  <2> QED BY Zenon, <1>1, <2>2 DEF Engine
<1> HIDE DEF r
<1>6. CASE heap' = heap /\ handle' = handle
  <2>1. \A k \in Boxes : Cut(Contents[k], Contents'[k]) BY Zenon, <1>2, <1>6, NoCut, CutAll
  <2>2. \A p : Follows(heap, heap', p) BY <1>6, FollowsBodies
  <2> QED BY Zenon, <1>2, <1>4, <2>1, <2>2, SameTargets, FlowQuiet
<1>7. CASE /\ heap' = [heap EXCEPT !.payload[heap.body[b].payload].content = @ + 1]
           /\ SetTop(t, r)
  <2>1. \A p : Follows(heap, heap', p) /\ heap'.body = heap.body
    <3> HIDE DEF b
    <3> QED BY Zenon, <1>1, <1>3, <1>7, WroteFollows
  <2>2. \A p : Bears(heap', r, p) => Bears(heap, Top(t), p) BY Zenon, <1>1, <1>5, <2>1 DEF Bears, Engine
  <2> QED BY Zenon, <1>2, <1>4, <1>7, <2>1, <2>2, TopFlow
<1>8. CASE /\ heap' = [CopyPayload(t) EXCEPT !.payload[CopyPayload(t).body[b].payload].content = @ + 1]
           /\ SetTop(t, r)
  <2> DEFINE h == DropPayload(Detached(heap, b), heap.body[b].payload)
  <2> DEFINE q == FreePayload(heap)
  <2>1. CopyPayload(t) = h BY Zenon DEF CopyPayload, Detached, Wanted
  <2>2. FreePayloads(heap) # {} BY DEF Room
  <2> HIDE DEF b
  <2>3. /\ HeapOK(h, 0) /\ h.body[b].refs = heap.body[b].refs /\ h.body[b].payload = q
        /\ \A d \in Bodies \ {b} : h.body[d].payload # q
        /\ \A p : p # q => Follows(heap, h, p)
    BY Zenon, <1>1, <1>3, <2>2, CopiedFollows
  <2>4. heap' = [h EXCEPT !.payload[h.body[b].payload].content = @ + 1] BY Zenon, <1>8, <2>1
  <2> HIDE DEF h, q
  <2>5. h.body[b].refs # 0 BY Zenon, <1>3, <2>3
  <2>6. heap'.body = h.body BY Zenon, <1>1, <2>3, <2>4, <2>5, WroteFollows
  <2>7. ASSUME NEW p, Concerns(p)
        PROVE  \/ Flows(heap', Contents', targets', consumers', p)
               \/ Follows(heap, heap', p) /\ (Bears(heap', r, p) => Bears(heap, Top(t), p))
    <3>1. CASE p = q
      <4>1. heap'.body[b].refs = 1 /\ \A d \in Bodies \ {b} : heap'.body[d].refs # 0 => heap'.body[d].payload # p
        BY Zenon, <1>1, <2>3, <2>6, <3>1
      <4> QED BY Zenon, <1>1, <4>1, Facts, LoneFlows
    <3>2. CASE p # q
      <4>1. Follows(heap, heap', p) BY Zenon, <2>3, <2>6, <3>2 DEF Follows
      <4>2. ~Bears(heap', r, p) BY Zenon, <1>5, <2>3, <2>6, <3>2 DEF Bears
      <4> QED BY <4>1, <4>2
    <3> QED BY <3>1, <3>2
  <2> QED BY Zenon, <1>2, <1>4, <1>8, <2>7, TopFlow
<1> QED BY Zenon, <1>6, <1>7, <1>8 DEF OwnPayload, Wanted, r

---------------------------------------------------------------------------
(* A reference goes from one box to another.                               *)

\* Box l gets r, whose payload box k had: everyone who shares with k may share with l,
\* and k with l unless it lost it.
LEMMA BoxMoves ==
    ASSUME PInv, PInv', FlowOK, NEW p, Concerns(p), p \notin cloned, Follows(heap, heap', p),
           NEW k \in Boxes, NEW l \in Boxes, k # l, NEW r \in Refs,
           StillApart(targets, consumers, targets', consumers', Contents, l),
           \A m \in Boxes \ {l} : Cut(Contents[m], Contents'[m]),
           Contents'[l] = Append(Contents[l], r),
           Bears(heap', r, p) =>
              /\ Has(heap, Contents[k], p) /\ ~Has(heap, Contents[l], p)
              /\ Has(heap, Contents'[k], p) => Apart(targets', consumers', l, k)
              /\ \A m \in Boxes \ {k, l} :
                    Has(heap, Contents[m], p) /\ Apart(targets, consumers, k, m) => Apart(targets', consumers', l, m)
    PROVE  Flows(heap', Contents', targets', consumers', p)
<1>1. Flows(heap, Contents, targets, consumers, p) BY DEF FlowOK, Concerns
<1>2. Contained(Contents) /\ Counts(heap, Contents) /\ Contained(Contents') /\ Counts(heap', Contents') BY Facts
<1>3. Contents[l] \in Seq(Refs) /\ Old(heap, Contents[l]) /\ Old(heap', Contents'[l])
  BY <1>2, OldBox DEF Contained
<1>4. Joins(heap, Contents[l], heap', Contents'[l], p, Bears(heap', r, p)) BY <1>3, AppendJoins
<1>5. ASSUME Bears(heap', r, p), NEW m \in Boxes \ {l}, Has(heap, Contents'[m], p)
      PROVE  Apart(targets', consumers', l, m)
  <2>1. CASE m = k BY <1>5, <2>1
  <2>2. CASE m # k
    <3>1. Contents[m] \in Seq(Refs) /\ Old(heap, Contents[m]) BY <1>2, OldBox DEF Contained
    <3>2. Has(heap, Contents[m], p) BY <1>5, <3>1, CutLess DEF Shrinks
    <3>3. Apart(targets, consumers, k, m) BY <1>1, <1>5, <2>2, <3>2 DEF Flows
    <3> QED BY <1>5, <2>2, <3>2, <3>3
  <2> QED BY <2>1, <2>2
<1>6. Bears(heap', r, p) =>
         ~Has(heap, Contents[l], p) /\ \A m \in Boxes \ {l} : Has(heap, Contents'[m], p) => Apart(targets', consumers', l, m)
  BY <1>5
<1> QED BY <1>1, <1>2, <1>4, <1>6, FlowGain

\* A box of the same node or thread may share with others as much.
LEMMA SameNode ==
    ASSUME NEW T, NEW S, NEW k, NEW l, NEW m, k[1] # "flight", l[1] # "flight", k[2] = l[2],
           k # <<"staging", Producer>>, k # <<"slot", Producer>> \/ m # <<"staging", Producer>>,
           Apart(T, S, k, m)
    PROVE  Apart(T, S, l, m)
<1>1. CASE May(T, S, k, m) BY <1>1 DEF May, Apart
<1>2. CASE May(T, S, m, k) BY <1>2 DEF May, Apart
<1> QED BY <1>1, <1>2 DEF Apart

\* An object that is taken is the packet of a body of its own.
LEMMA NewForeign ==
    ASSUME NEW h, HeapOK(h, 0), FreeBodies(h) # {}, FreePayloads(h) # {},
           NEW kind, NEW own, NEW copies \in BOOLEAN, kind = "foreign", own = Object,
           NEW g, NEW c, NEW q, g = NewPacket(h, kind, own, copies), c = FreeBody(h), q = FreePayload(h)
    PROVE  /\ HeapOK(g, 0) /\ \A p : Follows(h, g, p)
           /\ c \in Bodies /\ h.body[c].refs = 0 /\ g.body[c].refs = 1 /\ g.body[c].payload = q
           /\ \A d \in Bodies \ {c} : g.body[d] = h.body[d] /\ g.body[d].payload # q
<1>1. /\ kind \in Kinds /\ own \in Owned
      /\ (kind = "foreign" => own = Object) /\ own \notin Memory
  BY PacketsAssumption DEF Kinds, Owned, Resources
<1>2. HeapOK(g, 0) BY <1>1, NewPacketKeeps
<1>3. /\ \A p : Follows(h, g, p)
      /\ c \in Bodies /\ h.body[c].refs = 0 /\ g.body[c].refs = 1 /\ g.body[c].payload = q
      /\ \A d \in Bodies \ {c} : g.body[d] = h.body[d] /\ g.body[d].payload # q
  BY NewFollows
<1> QED BY Zenon, <1>2, <1>3

\* The same, from the hand of a thread.
LEMMA TakenNew ==
    ASSUME PInv, Room, NEW t, ~Engine(t)
    PROVE  LET g == TakenHeap(t)
               c == TakenBody(t)
               q == FreePayload(heap)
           IN  /\ HeapOK(g, 0) /\ \A p : Follows(heap, g, p)
               /\ c \in Bodies /\ heap.body[c].refs = 0 /\ g.body[c].refs = 1 /\ g.body[c].payload = q
               /\ \A d \in Bodies \ {c} : g.body[d] = heap.body[d] /\ g.body[d].payload # q
<1>1. HeapOK(heap, 0) /\ FreeBodies(heap) # {} /\ FreePayloads(heap) # {} BY Facts DEF Room
<1>2. PICK kind, own : kind = "foreign" /\ own = Object OBVIOUS
<1>3. TakenBody(t) = FreeBody(heap) /\ \E copies \in BOOLEAN : TakenHeap(t) = NewPacket(heap, kind, own, copies)
  BY Zenon, <1>2 DEF TakenHeap, TakenBody
<1>4. PICK g, c, q : g = TakenHeap(t) /\ c = TakenBody(t) /\ q = FreePayload(heap) OBVIOUS
<1>5. /\ HeapOK(g, 0) /\ \A p : Follows(heap, g, p)
      /\ c \in Bodies /\ heap.body[c].refs = 0 /\ g.body[c].refs = 1 /\ g.body[c].payload = q
      /\ \A d \in Bodies \ {c} : g.body[d] = heap.body[d] /\ g.body[d].payload # q
  BY <1>1, <1>2, <1>3, <1>4, NewForeign
<1> QED BY Zenon, <1>4, <1>5

\* The packet that is taken from a hand, and what is left there.
LEMMA Handed ==
    ASSUME PInv, Room, NEW t \in Threads, Owns(t), NEW p, NEW g, NEW c,
           \/ g = TakenHeap(t) /\ c = TakenBody(t)
           \/ g = OwnBody(TakenHeap(t), TakenBody(t)) /\ c = OwnedBody(TakenHeap(t), TakenBody(t))
    PROVE  /\ Follows(heap, g, p) /\ c \in Bodies
           /\ \/ g.body[c].payload = p => Engine(t) /\ Bears(heap, Top(t), p)
              \/ g.body[c].refs = 1 /\ \A d \in Bodies \ {c} : g.body[d].refs # 0 => g.body[d].payload # p
<1>1. HeapOK(heap, 0) /\ FreeBodies(heap) # {} /\ FreePayloads(heap) # {} BY Facts DEF Room
<1>2. CASE Engine(t)
  <2> DEFINE b == Top(t).body
  <2>1. TakenHeap(t) = heap /\ TakenBody(t) = b BY <1>2 DEF TakenHeap, TakenBody
  <2>2. b \in Bodies /\ heap.body[b].refs # 0 /\ Top(t).own = Nobody BY <1>2, TopOld
  <2>3. Bears(heap, Top(t), p) <=> heap.body[b].payload = p BY <2>2 DEF Bears
  <2> HIDE DEF b
  <2>4. CASE g = heap /\ c = b BY <1>2, <2>2, <2>3, <2>4 DEF Follows
  <2>5. CASE g = OwnBody(heap, b) /\ c = OwnedBody(heap, b)
    <3>1. Follows(heap, g, p) /\ g.body[c].payload = heap.body[b].payload /\ c \in Bodies
      BY <1>1, <2>2, <2>5, OwnFollows
    <3> QED BY <1>2, <2>3, <3>1
  <2> QED BY <2>1, <2>4, <2>5
<1>3. CASE ~Engine(t)
  <2> DEFINE h == TakenHeap(t)
  <2> DEFINE b == TakenBody(t)
  <2> DEFINE q == FreePayload(heap)
  <2>2. /\ \A x : Follows(heap, h, x)
        /\ b \in Bodies /\ h.body[b].refs = 1 /\ h.body[b].payload = q
        /\ \A d \in Bodies \ {b} : h.body[d].payload # q
    BY Zenon, <1>3, TakenNew
  <2>1. \/ g = h /\ c = b
        \/ g = OwnBody(h, b) /\ c = OwnedBody(h, b)
    OBVIOUS
  <2> HIDE DEF h, b, q
  <2>3. OwnBody(h, b) = h /\ OwnedBody(h, b) = b BY <2>2 DEF OwnBody, OwnedBody
  <2>4. g = h /\ c = b BY <2>1, <2>3
  <2>5. Follows(heap, g, p) /\ c \in Bodies BY <2>2, <2>4
  <2>6. g.body[c].refs = 1 /\ g.body[c].payload = q /\ \A d \in Bodies \ {c} : g.body[d].payload # q BY <2>2, <2>4
  <2>7. CASE p = q BY <2>5, <2>6, <2>7
  <2>8. CASE p # q BY <2>5, <2>6, <2>8
  <2> QED BY <2>7, <2>8
<1> QED BY <1>2, <1>3

\* Dropping what is taken gives no body another payload.
LEMMA HandedDrop ==
    ASSUME PInv, Room, NEW t \in Threads, Owns(t), NEW p
    PROVE  Follows(heap, DropBody(TakenHeap(t), TakenBody(t)), p)
<1>1. HeapOK(heap, 0) /\ FreeBodies(heap) # {} /\ FreePayloads(heap) # {} BY Facts DEF Room
<1>2. CASE Engine(t)
  <2>1. TakenHeap(t) = heap /\ TakenBody(t) = Top(t).body BY <1>2 DEF TakenHeap, TakenBody
  <2> QED BY <1>1, <1>2, <2>1, TopOld, DropFollows
<1>3. CASE ~Engine(t)
  <2> DEFINE h == TakenHeap(t)
  <2> DEFINE b == TakenBody(t)
  <2>2. /\ HeapOK(h, 0) /\ Follows(heap, h, p)
        /\ b \in Bodies /\ heap.body[b].refs = 0 /\ h.body[b].refs = 1 /\ \A d \in Bodies \ {b} : h.body[d] = heap.body[d]
    BY Zenon, <1>3, TakenNew
  <2> HIDE DEF h, b
  <2>4. Follows(h, DropBody(h, b), p) BY <2>2, DropFollows
  <2>5. \A d \in Bodies : heap.body[d].refs # 0 => h.body[d].refs # 0 BY <2>2
  <2>6. Follows(heap, DropBody(h, b), p) BY <2>2, <2>4, <2>5, FollowsOn
  <2> QED BY <2>6 DEF h, b
<1> QED BY <1>2, <1>3

\* A hand that loses its last packet.
LEMMA HandLess ==
    ASSUME PInv, FlowOK, NEW t \in Threads, Owns(t), Pop(t), NEW p \in Payloads \ cloned
    PROVE  /\ handle' = Put(handle, t, Front(handle[t]))
           /\ Contents[Hand(t)] = handle[t] /\ Contents'[Hand(t)] = Front(handle[t]) /\ Hand(t) \in Boxes
           /\ \A w \in Threads : Cut(handle[w], handle'[w])
           /\ Bears(heap, Top(t), p) => Has(heap, handle[t], p) /\ ~Has(heap, Front(handle[t]), p)
<1>1. handle[t] \in Seq(Refs) /\ handle[t] # <<>> /\ handle \in [Threads -> Seq(Refs)] BY Facts DEF BoxesOK, Owns
<1>2. handle' = Put(handle, t, Front(handle[t])) BY Facts, FrontTyped
<1>3. Contents[Hand(t)] = handle[t] /\ Contents'[Hand(t)] = Front(handle[t]) /\ Hand(t) \in Boxes
  <2>1. handle'[t] = Front(handle[t]) BY <1>1, <1>2 DEF Put
  <2> QED BY <2>1, ContentsAt, ContentsNext, BoxKinds DEF Hand
<1>4. \A w \in Threads : Cut(handle[w], handle'[w]) BY <1>1, <1>2 DEF Cut, Put
<1>5. Flows(heap, Contents, targets, consumers, p) BY DEF FlowOK
<1>6. Once(heap, handle[t], p) BY <1>3, <1>5 DEF Flows
<1>7. Top(t) = handle[t][Len(handle[t])] BY DEF Top
<1>8. Bears(heap, Top(t), p) => Has(heap, handle[t], p) /\ ~Has(heap, Front(handle[t]), p)
  BY <1>1, <1>6, <1>7, FrontShrinks
<1> QED BY <1>2, <1>3, <1>4, <1>8

\* Who may share stays the same.
LEMMA StayApart == ASSUME UNCHANGED <<targets, consumers>>, NEW l PROVE StillApart(targets, consumers, targets', consumers', Contents, l)
BY DEF StillApart

\* The first reference of a box.
LEMMA FirstOf == ASSUME NEW r PROVE Append(<<>>, r) = <<r>>
OBVIOUS

\* Payloads flow as they may after a claim.
LEMMA ClaimFlow ==
    ASSUME PInv, PInv', FlowOK, NEW n \in Nodes, Claim(n)
    PROVE  FlowOK'
<1> DEFINE k == <<"queue", n>>
<1> DEFINE l == <<"slot", n>>
<1> DEFINE r == Head(queue[n])
<1>1. /\ queue[n] # <<>> /\ slot' = [slot EXCEPT ![n] = <<r>>] /\ queue' = [queue EXCEPT ![n] = Tail(queue[n])]
      /\ UNCHANGED <<heap, handle, staging, flight, targets, consumers, cloned>>
  BY DEF Claim, graph, delivery
<1>2. slot \in [Nodes -> Seq(EngineRef)] /\ queue \in [Nodes -> Seq(EngineRef)] BY Facts DEF BoxesOK
<1>3. slot[n] = <<>> BY Facts DEF Claim, At, ShapeOK
<1>4. queue[n] \in Seq(Refs) /\ r \in Refs
  <2>1. r \in EngineRef /\ queue[n] \in Seq(Refs) BY <1>1, <1>2, TypedRefs
  <2> QED BY <2>1 DEF Refs
<1>5. slot'[n] = <<r>> /\ queue'[n] = Tail(queue[n]) BY <1>1, <1>2
<1>6. \A m \in Boxes \ {l} : Cut(Contents[m], Contents'[m])
  <2>1. \A w \in Nodes : Cut(queue[w], queue'[w]) BY <1>1, <1>2 DEF Cut
  <2>2. \A w \in Nodes : l # <<"slot", w>> => Cut(slot[w], slot'[w]) BY <1>1, <1>2, NoCut
  <2> QED BY <1>1, <2>1, <2>2, NoCut, CutOthers
<1>7. /\ Contents[k] = queue[n] /\ Contents'[k] = Tail(queue[n]) /\ Contents[l] = <<>> /\ Contents'[l] = <<r>>
      /\ k \in Boxes /\ l \in Boxes /\ k # l
  BY <1>3, <1>5, ContentsAt, ContentsNext, BoxKinds
<1> SUFFICES ASSUME NEW p, Concerns(p) PROVE Flows(heap', Contents', targets', consumers', p) BY FlowEach
<1>8. p \in Payloads \ cloned BY <1>1 DEF Concerns
<1>9. Follows(heap, heap', p) BY <1>1, FollowsBodies
<1>10. StillApart(targets, consumers, targets', consumers', Contents, l) BY <1>1, StayApart
<1>11. Contents'[l] = Append(Contents[l], r) BY <1>7, FirstOf
<1>12. ~Has(heap, Contents[l], p) BY <1>7, EmptyHas
<1>13. Bears(heap', r, p) => Has(heap, Contents[k], p) /\ ~Has(heap, Contents'[k], p)
  <2>1. Flows(heap, Contents, targets, consumers, p) BY <1>8 DEF FlowOK
  <2>2. Once(heap, queue[n], p) BY <1>7, <2>1 DEF Flows
  <2>3. Bears(heap, r, p) => Has(heap, queue[n], p) /\ ~Has(heap, Tail(queue[n]), p) BY <1>1, <1>4, <2>2, TailShrinks
  <2> QED BY <1>1, <1>7, <2>3
<1>14. \A m \in Boxes \ {k, l} : Apart(targets, consumers, k, m) => Apart(targets', consumers', l, m)
  <2>1. k[1] = "queue" /\ k[2] = n /\ l[1] = "slot" /\ l[2] = n OBVIOUS
  <2>2. k # <<"staging", Producer>> /\ k # <<"slot", Producer>> OBVIOUS
  <2> HIDE DEF k, l
  <2>3. \A m : Apart(targets, consumers, k, m) => Apart(targets, consumers, l, m) BY <2>1, <2>2, SameNode
  <2> QED BY <1>1, <2>3
<1> HIDE DEF k, l, r
<1> QED BY <1>4, <1>6, <1>7, <1>8, <1>9, <1>10, <1>11, <1>12, <1>13, <1>14, BoxMoves

\* Payloads flow as they may after taking the input.
LEMMA TakeInputFlow ==
    ASSUME PInv, PInv', FlowOK, NEW n \in Nodes, TakeInput(n)
    PROVE  FlowOK'
<1> DEFINE k == <<"slot", n>>
<1> DEFINE l == <<"handle", n>>
<1> DEFINE r == slot[n][1]
<1>0. n \in Threads BY Names
<1>1. /\ slot[n] # <<>> /\ slot' = [slot EXCEPT ![n] = <<>>] /\ handle' = [handle EXCEPT ![n] = Append(handle[n], r)]
      /\ UNCHANGED <<heap, staging, queue, flight, targets, consumers>> /\ Again(n, r.body)
  BY DEF TakeInput, Push, graph, delivery
<1>2. slot \in [Nodes -> Seq(EngineRef)] /\ handle \in [Threads -> Seq(Refs)] BY Facts DEF BoxesOK
<1>3. r \in Refs /\ slot[n] = <<r>> BY <1>1, InSlot
<1>5. slot'[n] = <<>> /\ handle'[n] = Append(handle[n], r) BY <1>0, <1>1, <1>2
<1>6. \A m \in Boxes \ {l} : Cut(Contents[m], Contents'[m])
  <2>1. \A w \in Nodes : Cut(slot[w], slot'[w]) BY <1>1, <1>2 DEF Cut
  <2>2. \A w \in Threads : l # <<"handle", w>> => Cut(handle[w], handle'[w]) BY <1>1, <1>2, NoCut
  <2> QED BY <1>1, <2>1, <2>2, NoCut, CutOthers
<1>7. /\ Contents[k] = slot[n] /\ Contents'[k] = <<>> /\ Contents[l] = handle[n] /\ Contents'[l] = Append(handle[n], r)
      /\ k \in Boxes /\ l \in Boxes /\ k # l /\ Contents[<<"staging", n>>] = staging[n]
  BY <1>0, <1>5, ContentsAt, ContentsNext, BoxKinds
<1> SUFFICES ASSUME NEW p, Concerns(p) PROVE Flows(heap', Contents', targets', consumers', p) BY FlowEach
<1>8. p \in Payloads \ cloned BY <1>1 DEF Concerns, Again
<1>9. Follows(heap, heap', p) BY <1>1, FollowsBodies
<1>10. StillApart(targets, consumers, targets', consumers', Contents, l) BY <1>1, StayApart
<1>11. Contents'[l] = Append(Contents[l], r) BY <1>7
<1>12. ~Has(heap, Contents'[k], p) BY <1>7, EmptyHas
<1>13. Bears(heap', r, p) => Has(heap, Contents[k], p) BY <1>1, <1>3, <1>7, SingleHas
<1>14. Bears(heap', r, p) => ~Has(heap, staging[n], p)
  BY <1>1 DEF Bears, Has, Again, Staged, Concerns
<1>15. k[1] = "slot" /\ k[2] = n /\ l[1] = "handle" /\ l[2] = n /\ k # <<"staging", Producer>> OBVIOUS
<1>16. k = <<"slot", Producer>> => n = Producer OBVIOUS
<1>17. ~Apart(targets, consumers, k, l)
  BY <1>15, Apartness DEF Apart, May
<1> HIDE DEF k, l, r
<1>18. ASSUME Bears(heap', r, p), NEW m \in Boxes \ {k, l}, Has(heap, Contents[m], p), Apart(targets, consumers, k, m)
       PROVE  Apart(targets', consumers', l, m)
  <2>1. n = Producer => m # <<"staging", Producer>> BY <1>7, <1>14, <1>18
  <2>2. Apart(targets, consumers, l, m) BY <1>15, <1>16, <1>18, <2>1, SameNode
  <2> QED BY <1>1, <2>2
<1>19. Bears(heap', r, p) => ~Has(heap, Contents[l], p)
  <2>1. Flows(heap, Contents, targets, consumers, p) BY <1>8 DEF FlowOK
  <2> QED BY <1>7, <1>13, <1>17, <2>1 DEF Flows
<1> QED BY <1>3, <1>6, <1>7, <1>8, <1>9, <1>10, <1>11, <1>12, <1>13, <1>18, <1>19, BoxMoves

\* Payloads flow as they may after a forward.
LEMMA ForwardFlow ==
    ASSUME PInv, PInv', FlowOK, NEW n \in Nodes, Forward(n)
    PROVE  FlowOK'
<1> DEFINE k == <<"slot", n>>
<1> DEFINE l == <<"staging", n>>
<1> DEFINE r == slot[n][1]
<1>1. n = Producer /\ UNCHANGED <<handle, slot, queue, flight, targets, consumers>> BY DEF Forward, graph, delivery
<1>2. CASE slot[n] = <<>>
  <2>1. UNCHANGED <<heap, staging, cloned>> BY <1>2 DEF Forward
  <2> QED BY <1>1, <2>1, SameTargets, FlowSame
<1>3. CASE slot[n] # <<>>
  <2>1. heap' = Retain(heap, r.body) /\ staging' = [staging EXCEPT ![n] = Append(staging[n], r)] /\ Again(n, r.body)
    BY <1>3 DEF Forward
  <2>2. staging \in [Nodes -> Seq(EngineRef)] BY Facts DEF BoxesOK
  <2>3. r \in Refs /\ r.own = Nobody /\ slot[n] = <<r>> /\ r.body \in Bodies /\ heap.body[r.body].refs # 0 BY <1>3, SlotOld
  <2>4. HeapOK(heap, 0) BY Facts
  <2>5. staging'[n] = Append(staging[n], r) BY <2>1, <2>2
  <2>6. \A m \in Boxes \ {l} : Cut(Contents[m], Contents'[m])
    <3>1. \A w \in Nodes : l # <<"staging", w>> => Cut(staging[w], staging'[w]) BY <2>1, <2>2, NoCut
    <3> QED BY <1>1, <3>1, NoCut, CutOthers
  <2>7. /\ Contents[k] = slot[n] /\ Contents[l] = staging[n] /\ Contents'[l] = Append(staging[n], r)
        /\ k \in Boxes /\ l \in Boxes /\ k # l
    BY <2>5, ContentsAt, ContentsNext, BoxKinds
  <2> SUFFICES ASSUME NEW p, Concerns(p) PROVE Flows(heap', Contents', targets', consumers', p) BY FlowEach
  <2>8. p \in Payloads \ cloned BY <2>1 DEF Concerns, Again
  <2>9. Follows(heap, heap', p) BY <2>1, <2>3, <2>4, RetainFollows
  <2>10. StillApart(targets, consumers, targets', consumers', Contents, l) BY <1>1, StayApart
  <2>11. Bears(heap', r, p) => Bears(heap, r, p)
    <3>1. SameBody(heap, heap', r.body) BY <2>1, <2>3, <2>4, RetainKeeps
    <3> QED BY <3>1 DEF SameBody, Bears
  <2>12. Bears(heap', r, p) => Has(heap, Contents[k], p) BY <2>3, <2>7, <2>11, SingleHas
  <2>13. Bears(heap', r, p) => ~Has(heap, Contents[l], p)
    BY <2>1, <2>7, <2>11 DEF Bears, Has, Again, Staged, Concerns
  <2>14. k[1] = "slot" /\ k[2] = n /\ l[1] = "staging" /\ l[2] = n /\ k # <<"staging", Producer>> OBVIOUS
  <2>15. k = <<"slot", Producer>> /\ l = <<"staging", Producer>> BY <1>1
  <2>16. Apart(targets', consumers', l, k) BY <2>15 DEF Apart, May
  <2>17. Contents'[l] = Append(Contents[l], r) BY <2>7
  <2> HIDE DEF k, l, r
  <2>18. \A m \in Boxes \ {k, l} : Apart(targets, consumers, k, m) => Apart(targets', consumers', l, m)
    BY <1>1, <2>14, <2>15, SameNode
  <2> QED BY <2>3, <2>6, <2>7, <2>8, <2>9, <2>10, <2>12, <2>13, <2>16, <2>17, <2>18, BoxMoves
<1> QED BY <1>2, <1>3

\* A packet that is handed over and dropped.
LEMMA HandedAway ==
    ASSUME PInv, PInv', FlowOK, Room, NEW t \in Threads, Owns(t), Pop(t), heap' = DropBody(TakenHeap(t), TakenBody(t)),
           cloned' = Forget(heap', cloned), UNCHANGED <<slot, staging, queue, flight, targets, consumers>>
    PROVE  FlowOK'
<1>1. handle' = Put(handle, t, Front(handle[t])) BY Facts, FrontTyped
<1>2. \A w \in Threads : Cut(handle[w], handle'[w])
  <2>1. handle[t] # <<>> /\ handle \in [Threads -> Seq(Refs)] BY Facts DEF Owns, BoxesOK
  <2> QED BY <1>1, <2>1 DEF Cut, Put
<1>3. \A k \in Boxes : Cut(Contents[k], Contents'[k]) BY <1>2, NoCut, CutAll
<1>4. \A p : Follows(heap, heap', p) BY HandedDrop
<1>5. \A p : Concerns(p) => p \notin cloned BY ForgetConcerns
<1> QED BY <1>3, <1>4, <1>5, SameTargets, FlowQuiet

\* Payloads flow as they may after an emit.
LEMMA EmitFlow ==
    ASSUME PInv, PInv', FlowOK, Room, NEW n \in Nodes, Emit(n)
    PROVE  FlowOK'
<1> DEFINE k == <<"handle", n>>
<1> DEFINE l == <<"staging", n>>
<1> DEFINE r == Taken(n)
<1>0. n \in Threads BY Names
<1>1. Owns(n) /\ Pop(n) /\ UNCHANGED <<slot, queue, flight, targets, consumers>> BY DEF Emit, graph, delivery
<1>2. CASE heap' = DropBody(TakenHeap(n), TakenBody(n)) /\ cloned' = Forget(heap', cloned) /\ UNCHANGED staging
  BY <1>0, <1>1, <1>2, HandedAway
<1>3. CASE /\ n = Producer /\ heap' = TakenHeap(n) /\ Again(n, TakenBody(n))
           /\ staging' = [staging EXCEPT ![n] = Append(staging[n], Ref(TakenBody(n), Top(n).value))]
  <2>1. r \in EngineRef /\ r \in Refs /\ r.own = Nobody /\ r.body = TakenBody(n)
    <3>1. r \in EngineRef /\ r.own = Nobody /\ r.body = TakenBody(n) BY <1>0, <1>1, Taking
    <3> QED BY <3>1 DEF Refs
  <2>2. staging' = [staging EXCEPT ![n] = Append(staging[n], r)] BY <1>3 DEF Taken
  <2> HIDE DEF r
  <2>3. staging \in [Nodes -> Seq(EngineRef)] BY Facts DEF BoxesOK
  <2>4. staging'[n] = Append(staging[n], r) BY <2>2, <2>3
  <2>5. /\ Contents[l] = staging[n] /\ Contents'[l] = Append(staging[n], r) /\ k \in Boxes /\ l \in Boxes /\ k # l
    BY <1>0, <2>4, ContentsAt, ContentsNext, BoxKinds
  <2> SUFFICES ASSUME NEW p, Concerns(p) PROVE Flows(heap', Contents', targets', consumers', p) BY FlowEach
  <2>6. p \in Payloads \ cloned BY <1>3 DEF Concerns, Again
  <2>7. /\ k = Hand(n) /\ Contents[k] = handle[n] /\ Contents'[k] = Front(handle[n])
        /\ \A w \in Threads : Cut(handle[w], handle'[w])
        /\ Bears(heap, Top(n), p) => Has(heap, handle[n], p) /\ ~Has(heap, Front(handle[n]), p)
    BY <1>0, <1>1, <2>6, HandLess DEF Hand
  <2>8. \A m \in Boxes \ {l} : Cut(Contents[m], Contents'[m])
    <3>1. \A w \in Nodes : l # <<"staging", w>> => Cut(staging[w], staging'[w]) BY <2>2, <2>3, NoCut
    <3> QED BY <1>1, <2>7, <3>1, NoCut, CutOthers
  <2>9. /\ Follows(heap, heap', p) /\ TakenBody(n) \in Bodies
        /\ \/ heap'.body[TakenBody(n)].payload = p => Engine(n) /\ Bears(heap, Top(n), p)
           \/ /\ heap'.body[TakenBody(n)].refs = 1
              /\ \A d \in Bodies \ {TakenBody(n)} : heap'.body[d].refs # 0 => heap'.body[d].payload # p
    <3>1. PICK g, c : g = heap' /\ c = TakenBody(n) OBVIOUS
    <3>2. \/ g = TakenHeap(n) /\ c = TakenBody(n)
          \/ g = OwnBody(TakenHeap(n), TakenBody(n)) /\ c = OwnedBody(TakenHeap(n), TakenBody(n))
      BY Zenon, <1>3, <3>1
    <3>3. /\ Follows(heap, g, p) /\ c \in Bodies
          /\ \/ g.body[c].payload = p => Engine(n) /\ Bears(heap, Top(n), p)
             \/ g.body[c].refs = 1 /\ \A d \in Bodies \ {c} : g.body[d].refs # 0 => g.body[d].payload # p
      BY <1>0, <1>1, <3>2, Handed
    <3> QED BY Zenon, <3>1, <3>3
  <2>10. CASE /\ heap'.body[TakenBody(n)].refs = 1
              /\ \A d \in Bodies \ {TakenBody(n)} : heap'.body[d].refs # 0 => heap'.body[d].payload # p
    BY <2>9, <2>10, Facts, LoneFlows
  <2>11. CASE heap'.body[TakenBody(n)].payload = p => Engine(n) /\ Bears(heap, Top(n), p)
    <3>1. Bears(heap', r, p) => Engine(n) /\ Bears(heap, Top(n), p) BY <2>1, <2>11 DEF Bears
    <3>2. Bears(heap', r, p) => Has(heap, Contents[k], p) /\ ~Has(heap, Contents'[k], p) BY <2>7, <3>1
    <3>3. Bears(heap', r, p) => ~Has(heap, Contents[l], p)
      <4>1. ASSUME Bears(heap', r, p), Has(heap, staging[n], p) PROVE FALSE
        <5>1. Engine(n) /\ Bears(heap, Top(n), p) BY <3>1, <4>1
        <5>2. heap.body[TakenBody(n)].payload = p BY <5>1 DEF TakenBody, Bears
        <5>3. Staged(n, p) BY <4>1 DEF Staged, Has, Bears
        <5>4. p \in cloned' BY <1>3, <5>2, <5>3 DEF Again
        <5> QED BY <5>4 DEF Concerns
      <4> QED BY <2>5, <4>1
    <3>4. k[1] = "handle" /\ k[2] = n /\ l[1] = "staging" /\ l[2] = n OBVIOUS
    <3>5. k # <<"staging", Producer>> /\ k # <<"slot", Producer>> OBVIOUS
    <3>6. StillApart(targets, consumers, targets', consumers', Contents, l) BY <1>1, StayApart
    <3>7. Contents'[l] = Append(Contents[l], r) BY <2>5
    <3> HIDE DEF k, l
    <3>8. \A m : Apart(targets, consumers, k, m) => Apart(targets', consumers', l, m) BY <1>1, <3>4, <3>5, SameNode
    <3> QED BY <2>1, <2>5, <2>6, <2>8, <2>9, <3>2, <3>3, <3>6, <3>7, <3>8, BoxMoves
  <2> QED BY <2>9, <2>10, <2>11
<1> QED BY <1>2, <1>3 DEF Emit

\* Payloads flow as they may after a send.
LEMMA SendFlow ==
    ASSUME PInv, PInv', FlowOK, Room, Send
    PROVE  FlowOK'
<1> DEFINE k == <<"handle", Host>>
<1> DEFINE l == <<"flight", Host>>
<1>0. Host \in Threads BY Names
<1>1. Owns(Host) /\ Pop(Host) /\ UNCHANGED <<slot, staging, queue, consumers>> /\ cloned' = Forget(heap', cloned)
  BY DEF Send, graph, nodes
<1>2. CASE heap' = DropBody(TakenHeap(Host), TakenBody(Host)) /\ UNCHANGED <<flight, targets>>
  BY <1>0, <1>1, <1>2, HandedAway
<1>3. ASSUME NEW c,
             \/ heap' = TakenHeap(Host) /\ c = TakenBody(Host)
             \/ heap' = OwnBody(TakenHeap(Host), TakenBody(Host)) /\ c = OwnedBody(TakenHeap(Host), TakenBody(Host)),
             flight' = [flight EXCEPT ![Host] = <<Ref(c, Top(Host).value)>>],
             targets' = [targets EXCEPT ![Host] = {Producer}]
      PROVE  FlowOK'
  <2> DEFINE r == Ref(c, Top(Host).value)
  <2>1. Top(Host).value \in Values
    <3>1. Taken(Host) \in EngineRef BY <1>0, <1>1, Taking
    <3>2. Taken(Host).value = Top(Host).value BY DEF Taken, Ref
    <3> QED BY <3>1, <3>2 DEF EngineRef
  <2>2. c \in Bodies BY <1>0, <1>1, <1>3, Handed
  <2>3. r \in Refs /\ r.own = Nobody /\ r.body = c
    <3>1. r \in EngineRef /\ r.own = Nobody /\ r.body = c BY <2>1, <2>2, RefTyped
    <3> QED BY <3>1 DEF Refs
  <2> HIDE DEF r
  <2>4. flight \in [Threads -> Seq(EngineRef)] /\ targets \in [Threads -> SUBSET Nodes]
        /\ consumers \subseteq Consumers
    BY Facts DEF BoxesOK, FrameOK
  <2>5. flight[Host] = <<>> BY <1>0, Facts DEF Send, Running, At, ShapeOK
  <2>6. flight'[Host] = <<r>> BY <1>0, <1>3, <2>4 DEF r
  <2>7. /\ Contents[l] = <<>> /\ Contents'[l] = <<r>> /\ k \in Boxes /\ l \in Boxes /\ k # l
    BY <1>0, <2>5, <2>6, ContentsAt, ContentsNext, BoxKinds
  <2>8. StillApart(targets, consumers, targets', consumers', Contents, l)
    <3>1. targets'[Producer] = targets[Producer] BY <1>3, <2>4, Apartness
    <3>2. ASSUME NEW a, NEW m, a # l, May(targets, consumers, a, m) PROVE May(targets', consumers', a, m)
      BY <1>1, <3>1, <3>2 DEF May
    <3> QED BY <2>7, <3>2 DEF StillApart, Apart
  <2> SUFFICES ASSUME NEW p, Concerns(p) PROVE Flows(heap', Contents', targets', consumers', p) BY FlowEach
  <2>9. p \in Payloads \ cloned
    <3>1. p \notin cloned BY <1>1, ForgetConcerns
    <3> QED BY <3>1 DEF Concerns
  <2>10. /\ k = Hand(Host) /\ Contents[k] = handle[Host] /\ Contents'[k] = Front(handle[Host])
         /\ \A w \in Threads : Cut(handle[w], handle'[w])
         /\ Bears(heap, Top(Host), p) => Has(heap, handle[Host], p) /\ ~Has(heap, Front(handle[Host]), p)
    BY <1>0, <1>1, <2>9, HandLess DEF Hand
  <2>11. \A m \in Boxes \ {l} : Cut(Contents[m], Contents'[m])
    <3>1. \A w \in Threads : l # <<"flight", w>> => Cut(flight[w], flight'[w]) BY <1>3, <2>4, NoCut
    <3> HIDE DEF l
    <3> QED BY Zenon, <1>1, <2>7, <2>10, <3>1, NoCut, CutOthers
  <2>12. /\ Follows(heap, heap', p)
         /\ \/ heap'.body[c].payload = p => Engine(Host) /\ Bears(heap, Top(Host), p)
            \/ heap'.body[c].refs = 1 /\ \A d \in Bodies \ {c} : heap'.body[d].refs # 0 => heap'.body[d].payload # p
    <3>1. PICK g : g = heap' OBVIOUS
    <3>2. \/ g = TakenHeap(Host) /\ c = TakenBody(Host)
          \/ g = OwnBody(TakenHeap(Host), TakenBody(Host)) /\ c = OwnedBody(TakenHeap(Host), TakenBody(Host))
      BY Zenon, <1>3, <3>1
    <3>3. /\ Follows(heap, g, p)
          /\ \/ g.body[c].payload = p => Engine(Host) /\ Bears(heap, Top(Host), p)
             \/ g.body[c].refs = 1 /\ \A d \in Bodies \ {c} : g.body[d].refs # 0 => g.body[d].payload # p
      BY <1>0, <1>1, <3>2, Handed
    <3> QED BY Zenon, <3>1, <3>3
  <2>13. CASE heap'.body[c].refs = 1 /\ \A d \in Bodies \ {c} : heap'.body[d].refs # 0 => heap'.body[d].payload # p
    BY <2>2, <2>13, Facts, LoneFlows
  <2>14. CASE heap'.body[c].payload = p => Engine(Host) /\ Bears(heap, Top(Host), p)
    <3>1. Bears(heap', r, p) => Bears(heap, Top(Host), p) BY <2>3, <2>14 DEF Bears
    <3>2. Bears(heap', r, p) => Has(heap, Contents[k], p) /\ ~Has(heap, Contents'[k], p) BY Zenon, <2>10, <3>1
    <3>3. ~Has(heap, Contents[l], p) BY <2>7, EmptyHas
    <3>4. \A m : ~Apart(targets, consumers, k, m)
      <4>1. \A m : ~May(targets, consumers, k, m) BY Apartness DEF May
      <4>2. \A m : ~May(targets, consumers, m, k) BY <2>4, Apartness DEF May
      <4> QED BY <4>1, <4>2 DEF Apart
    <3>5. Contents'[l] = Append(Contents[l], r) BY <2>7, FirstOf
    <3> HIDE DEF k, l
    <3> QED BY <2>3, <2>7, <2>8, <2>9, <2>11, <2>12, <3>2, <3>3, <3>4, <3>5, BoxMoves
  <2> QED BY <2>12, <2>13, <2>14
<1> DEFINE b == TakenBody(Host)
<1> DEFINE D(h, c) == /\ heap' = h
                      /\ flight' = [flight EXCEPT ![Host] = <<Ref(c, Top(Host).value)>>]
                      /\ targets' = [targets EXCEPT ![Host] = {Producer}]
<1>4. \/ D(TakenHeap(Host), b)
      \/ D(OwnBody(TakenHeap(Host), b), OwnedBody(TakenHeap(Host), b))
      \/ heap' = DropBody(TakenHeap(Host), b) /\ UNCHANGED <<flight, targets>>
  BY Zenon DEF Send, delivery
<1>5. CASE D(TakenHeap(Host), b)
  <2>1. PICK c : c = b OBVIOUS
  <2> QED BY <1>3, <1>5, <2>1
<1>6. CASE D(OwnBody(TakenHeap(Host), b), OwnedBody(TakenHeap(Host), b))
  <2>1. PICK c : c = OwnedBody(TakenHeap(Host), b) OBVIOUS
  <2> QED BY <1>3, <1>6, <2>1
<1> QED BY <1>2, <1>4, <1>5, <1>6

\* Both parts of a box of old references.
LEMMA OldPart ==
    ASSUME NEW g, NEW s \in Seq(Refs), NEW q \in Seq(Refs), Old(g, s \o q)
    PROVE  Old(g, s) /\ Old(g, q)
<1> DEFINE u == s \o q
<1> DEFINE n == Len(s)
<1>1. /\ Len(u) = n + Len(q) /\ n \in Nat /\ Len(q) \in Nat
      /\ DOMAIN s = 1 .. n /\ DOMAIN q = 1 .. Len(q) /\ DOMAIN u = 1 .. Len(u)
      /\ \A i \in 1 .. Len(u) : u[i] = IF i <= n THEN s[i] ELSE q[i - n]
  BY ConcatProperties, LenProperties
<1>2. Old(g, u) OBVIOUS
<1> HIDE DEF u, n
<1>3. \A i \in DOMAIN s : i \in DOMAIN u /\ u[i] = s[i] BY <1>1
<1>4. ASSUME NEW i \in DOMAIN q PROVE i + n \in DOMAIN u /\ u[i + n] = q[i]
  <2>1. i \in Nat /\ i >= 1 /\ i <= Len(q) BY <1>1
  <2>2. i + n \in 1 .. Len(u) /\ ~(i + n <= n) /\ i + n - n = i BY <1>1, <2>1
  <2> QED BY <1>1, <2>2
<1> QED BY <1>2, <1>3, <1>4 DEF Old

\* What is in box k comes to box l as well, or instead.
LEMMA BoxGathers ==
    ASSUME PInv, PInv', FlowOK, NEW p, Concerns(p), p \notin cloned, Follows(heap, heap', p),
           NEW k \in Boxes, NEW l \in Boxes, k # l,
           StillApart(targets, consumers, targets', consumers', Contents, l),
           \A m \in Boxes \ {l} : Cut(Contents[m], Contents'[m]),
           Contents'[l] = Contents[l] \o Contents[k],
           ~Apart(targets, consumers, k, l) \/ Contents[l] = <<>>,
           Contents'[k] = <<>> \/ Apart(targets', consumers', l, k),
           \A m \in Boxes \ {k, l} :
              Contents'[m] # <<>> /\ Apart(targets, consumers, k, m) => Apart(targets', consumers', l, m)
    PROVE  Flows(heap', Contents', targets', consumers', p)
<1> DEFINE s == Contents[l]
<1> DEFINE q == Contents[k]
<1>1. Flows(heap, Contents, targets, consumers, p) BY DEF FlowOK, Concerns
<1>2. Contained(Contents) /\ Counts(heap, Contents) /\ Contained(Contents') /\ Counts(heap', Contents') BY Facts
<1>3. s \in Seq(Refs) /\ q \in Seq(Refs) /\ Old(heap, s) /\ Old(heap, q) /\ Old(heap', Contents'[l])
  BY <1>2, OldBox DEF Contained
<1>4. Old(heap', s) /\ Old(heap', q)
  <2>1. PICK g, u, v : g = heap' /\ u = s /\ v = q OBVIOUS
  <2>2. Old(g, u \o v) /\ u \in Seq(Refs) /\ v \in Seq(Refs) BY <1>3, <2>1
  <2> QED BY <2>1, <2>2, OldPart
<1>5. Once(heap, q, p) BY <1>1 DEF Flows
<1>6. Joins(heap, s, heap', Contents'[l], p, Has(heap, q, p)) BY <1>3, <1>4, <1>5, ConcatJoins
<1>7. Has(heap, q, p) => ~Has(heap, s, p) BY <1>1, EmptyHas DEF Flows
<1>8. ASSUME Has(heap, q, p), NEW m \in Boxes \ {l}, Has(heap, Contents'[m], p)
      PROVE  Apart(targets', consumers', l, m)
  <2>0. Contents'[m] # <<>> BY <1>8, EmptyHas
  <2>1. CASE m = k BY <2>0, <2>1
  <2>2. CASE m # k
    <3>1. Contents[m] \in Seq(Refs) /\ Old(heap, Contents[m]) BY <1>2, OldBox DEF Contained
    <3>2. Has(heap, Contents[m], p) BY <1>8, <3>1, CutLess DEF Shrinks
    <3>3. Apart(targets, consumers, k, m) BY <1>1, <1>8, <2>2, <3>2 DEF Flows
    <3> QED BY <1>8, <2>0, <2>2, <3>3
  <2> QED BY <2>1, <2>2
<1>9. Has(heap, q, p) =>
         ~Has(heap, s, p) /\ \A m \in Boxes \ {l} : Has(heap, Contents'[m], p) => Apart(targets', consumers', l, m)
  BY <1>7, <1>8
<1> QED BY <1>1, <1>2, <1>6, <1>9, FlowGain

\* What goes to an empty box.
LEMMA EmptyConcat == ASSUME NEW s \in Seq(Refs) PROVE <<>> \o s = s
BY ConcatEmptySeq

\* Payloads flow as they may after the end of an invocation.
LEMMA CompleteFlow ==
    ASSUME PInv, PInv', CalmOK, FlowOK, NEW n \in Nodes, Complete(n)
    PROVE  FlowOK'
<1> DEFINE k == <<"staging", n>>
<1> DEFINE l == <<"flight", n>>
<1>0. n \in Threads BY Names
<1>1. /\ heap' = IF slot[n] = <<>> THEN heap ELSE DropBody(heap, slot[n][1].body)
      /\ cloned' = Forget(heap', cloned) /\ slot' = [slot EXCEPT ![n] = <<>>] /\ UNCHANGED <<handle, queue, consumers>>
      /\ pc[n] \in {"done", "failed"}
  BY DEF Complete, graph
<1>2. slot \in [Nodes -> Seq(EngineRef)] /\ staging \in [Nodes -> Seq(EngineRef)] /\ flight \in [Threads -> Seq(EngineRef)]
      /\ targets \in [Threads -> SUBSET Nodes] /\ consumers \subseteq Consumers
  BY Facts DEF BoxesOK, FrameOK
<1>3. \A p : Follows(heap, heap', p)
  <2>1. CASE slot[n] = <<>> BY <1>1, <2>1, FollowsBodies
  <2>2. CASE slot[n] # <<>>
    <3>1. PICK r : r = slot[n][1] OBVIOUS
    <3>2. heap' = DropBody(heap, r.body) BY <1>1, <2>2, <3>1
    <3>3. r.body \in Bodies /\ heap.body[r.body].refs # 0 BY <2>2, <3>1, SlotOld
    <3> QED BY <3>2, <3>3, Facts, DropFollows
  <2> QED BY <2>1, <2>2
<1>4. \A p : Concerns(p) => p \notin cloned BY <1>1, ForgetConcerns
<1>5. slot'[n] = <<>> /\ \A w \in Nodes : Cut(slot[w], slot'[w]) BY <1>1, <1>2 DEF Cut
<1>6. CASE UNCHANGED <<staging, flight, targets>>
  <2>1. \A m \in Boxes : Cut(Contents[m], Contents'[m]) BY <1>1, <1>5, <1>6, NoCut, CutAll
  <2> QED BY <1>1, <1>3, <1>4, <1>6, <2>1, SameTargets, FlowQuiet
<1>7. CASE /\ staging[n] # <<>> /\ flight' = [flight EXCEPT ![n] = staging[n]]
           /\ targets' = [targets EXCEPT ![n] = consumers] /\ staging' = [staging EXCEPT ![n] = <<>>]
  <2>1. n = Producer BY <1>7, Apartness DEF CalmOK
  <2>2. flight[n] = <<>> BY <1>0, <1>1, Facts DEF ShapeOK, At
  <2>3. flight'[n] = staging[n] /\ staging'[n] = <<>> BY <1>0, <1>2, <1>7
  <2>4. targets'[Producer] = consumers /\ targets'[Host] = targets[Host] BY <1>2, <1>7, <2>1, Apartness
  <2>5. /\ Contents[k] = staging[n] /\ Contents'[k] = <<>> /\ Contents[l] = <<>> /\ Contents'[l] = staging[n]
        /\ k \in Boxes /\ l \in Boxes /\ k # l /\ Contents'[<<"slot", n>>] = <<>>
    BY <1>0, <1>5, <2>2, <2>3, ContentsAt, ContentsNext, BoxKinds
  <2>6. Contents'[l] = Contents[l] \o Contents[k]
    <3>1. staging[n] \in Seq(Refs) BY BoxRefs
    <3> QED BY <2>5, <3>1, EmptyConcat
  <2>7. \A m \in Boxes \ {l} : Cut(Contents[m], Contents'[m])
    <3>1. \A w \in Threads : l # <<"flight", w>> => Cut(flight[w], flight'[w]) BY <1>2, <1>7, NoCut
    <3>2. \A w \in Nodes : Cut(staging[w], staging'[w]) BY <1>2, <1>7 DEF Cut
    <3> QED BY <1>1, <1>5, <3>1, <3>2, NoCut, CutOthers
  <2>8. StillApart(targets, consumers, targets', consumers', Contents, l)
    <3>1. ASSUME NEW a, NEW m, a # l, May(targets, consumers, a, m) PROVE May(targets', consumers', a, m)
      BY <1>1, <2>1, <2>4, <3>1 DEF May
    <3> QED BY <2>5, <3>1 DEF StillApart, Apart
  <2>9. ASSUME NEW m \in Boxes \ {k, l}, Contents'[m] # <<>>, Apart(targets, consumers, k, m)
        PROVE  Apart(targets', consumers', l, m)
    <3>1. m # <<"slot", Producer>> BY <2>1, <2>5, <2>9
    <3>2. ~May(targets, consumers, k, m) BY <2>1, Apartness DEF May
    <3>3. May(targets, consumers, m, k) BY <2>9, <3>2 DEF Apart
    <3>4. m = <<"flight", Host>> /\ targets[Host] = {} BY <1>2, <2>1, <3>1, <3>3, Apartness DEF May
    <3>5. May(targets', consumers', m, l) BY <2>1, <2>4, <3>4, Apartness DEF May
    <3> QED BY <3>5 DEF Apart
  <2> SUFFICES ASSUME NEW p, Concerns(p) PROVE Flows(heap', Contents', targets', consumers', p) BY FlowEach
  <2> HIDE DEF k, l
  <2> QED BY <1>3, <1>4, <2>5, <2>6, <2>7, <2>8, <2>9, BoxGathers
<1> QED BY <1>6, <1>7 DEF Complete, delivery

\* Payloads flow as they may after a dispatch.
LEMMA DispatchFlow ==
    ASSUME PInv, PInv', CalmOK, FlowOK, NEW t \in Threads, Dispatch(t)
    PROVE  FlowOK'
<1>1. PICK n \in targets[t] :
         /\ targets' = [targets EXCEPT ![t] = targets[t] \ {n}]
         /\ IF stopped THEN UNCHANGED <<heap, queue>>
                       ELSE heap' = RetainAll(heap, flight[t]) /\ queue' = [queue EXCEPT ![n] = queue[n] \o flight[t]]
  BY DEF Dispatch
<1>2. UNCHANGED <<handle, slot, staging, flight, cloned, consumers>> /\ At(t, "deliver") BY DEF Dispatch, graph
<1>3. /\ queue \in [Nodes -> Seq(EngineRef)] /\ targets \in [Threads -> SUBSET Nodes] /\ consumers \subseteq Consumers
      /\ flight[t] # <<>>
  BY <1>2, Facts DEF BoxesOK, FrameOK, ShapeOK
<1>4. n \in Nodes /\ n # Host BY <1>3, Apartness
<1>5. /\ targets'[t] = targets[t] \ {n} /\ \A w \in Threads \ {t} : targets'[w] = targets[w]
  BY <1>1, <1>3
<1>6. Wider(targets, consumers, targets', consumers') BY <1>2, <1>5, Apartness DEF Wider
<1>7. CASE stopped
  <2>1. UNCHANGED <<heap, queue>> BY <1>1, <1>7
  <2> QED BY <1>2, <1>6, <2>1, FlowSame
<1>8. CASE ~stopped
  <2> DEFINE k == <<"flight", t>>
  <2> DEFINE l == <<"queue", n>>
  <2>1. heap' = RetainAll(heap, flight[t]) /\ queue' = [queue EXCEPT ![n] = queue[n] \o flight[t]] BY <1>1, <1>8
  <2>2. \A p : Follows(heap, heap', p)
    <3>1. flight[t] \in Seq(Refs) /\ flight[t] \in Seq(EngineRef) /\ Old(heap, flight[t]) BY BoxRefs
    <3>2. \A i \in DOMAIN flight[t] : flight[t][i].own = Nobody BY <3>1, TypedRefs
    <3> QED BY <2>1, <3>1, <3>2, Facts, RetainAllFollows
  <2>3. queue'[n] = queue[n] \o flight[t] BY <1>3, <1>4, <2>1
  <2>4. /\ Contents[k] = flight[t] /\ Contents[l] = queue[n] /\ Contents'[l] = queue[n] \o flight[t]
        /\ k \in Boxes /\ l \in Boxes /\ k # l
    BY <1>4, <2>3, ContentsAt, ContentsNext, BoxKinds
  <2>5. \A m \in Boxes \ {l} : Cut(Contents[m], Contents'[m])
    <3>1. \A w \in Nodes : l # <<"queue", w>> => Cut(queue[w], queue'[w]) BY <1>3, <2>1, NoCut
    <3> QED BY <1>2, <3>1, NoCut, CutOthers
  <2>6. StillApart(targets, consumers, targets', consumers', Contents, l) BY <1>6, WiderApart DEF StillApart
  <2>7. CASE t = Host
    <3>1. n = Producer /\ targets[Host] # {} /\ targets'[Host] = {} BY <1>1, <1>5, <2>7 DEF CalmOK
    <3>2. \A m : ~May(targets, consumers, k, m) BY <2>7, <3>1, Apartness DEF May
    <3>3. \A m : ~May(targets, consumers, m, k) BY <2>7, <3>1, Apartness DEF May
    <3>4. \A m : ~Apart(targets, consumers, k, m) BY <3>2, <3>3 DEF Apart
    <3>5. Apart(targets', consumers', l, k) BY <1>4, <2>7, <3>1 DEF Apart, May
    <3> SUFFICES ASSUME NEW p, Concerns(p) PROVE Flows(heap', Contents', targets', consumers', p) BY FlowEach
    <3>6. p \notin cloned BY <1>2 DEF Concerns
    <3> HIDE DEF k, l
    <3> QED BY <2>2, <2>4, <2>5, <2>6, <3>4, <3>5, <3>6, BoxGathers
  <2>8. CASE t = Producer
    <3>1. n \in consumers /\ n \in Consumers /\ n \in targets[Producer] /\ targets'[Producer] = targets[Producer] \ {n}
          /\ targets'[Host] = targets[Host] /\ consumers' = consumers
      BY <1>1, <1>2, <1>3, <1>5, <2>8, Apartness DEF CalmOK
    <3>2. ~Apart(targets, consumers, k, l)
      <4>1. ~May(targets, consumers, k, l) BY <2>8, <3>1, Apartness DEF May
      <4>2. ~May(targets, consumers, l, k) BY <2>8, <3>1, Apartness DEF May
      <4> QED BY <4>1, <4>2 DEF Apart
    <3>3. Apart(targets', consumers', l, k) BY <2>8, <3>1 DEF Apart, May
    <3>4. ASSUME NEW m \in Boxes \ {k, l}, Apart(targets, consumers, k, m) PROVE Apart(targets', consumers', l, m)
      <4>1. CASE May(targets, consumers, k, m)
        <5>1. m[1] # "flight" /\ m[2] \in consumers \ targets[Producer] BY <2>8, <4>1, Apartness DEF May
        <5>2. May(targets', consumers', l, m) BY <1>3, <3>1, <5>1 DEF May
        <5> QED BY <5>2 DEF Apart
      <4>2. CASE May(targets, consumers, m, k)
        <5>1. m = <<"flight", Host>> /\ targets[Host] = {} BY <2>8, <4>2, Apartness DEF May
        <5>2. May(targets', consumers', m, l) BY <1>4, <3>1, <5>1 DEF May
        <5> QED BY <5>2 DEF Apart
      <4> QED BY <3>4, <4>1, <4>2 DEF Apart
    <3> SUFFICES ASSUME NEW p, Concerns(p) PROVE Flows(heap', Contents', targets', consumers', p) BY FlowEach
    <3>5. p \notin cloned BY <1>2 DEF Concerns
    <3> HIDE DEF k, l
    <3> QED BY <2>2, <2>4, <2>5, <2>6, <3>2, <3>3, <3>4, <3>5, BoxGathers
  <2>9. t \in {Host, Producer} BY <1>3, Apartness DEF CalmOK
  <2> QED BY <2>7, <2>8, <2>9
<1> QED BY <1>7, <1>8

---------------------------------------------------------------------------
(* The invariant of who shares.                                            *)

KInv == PInv /\ CalmOK /\ FlowOK

\* Nothing is there at the start.
LEMMA InitKept == Init => KInv
<1> SUFFICES ASSUME Init PROVE KInv OBVIOUS
<1>1. PInv BY InitInv
<1>2. CalmOK BY Apartness DEF Init, CalmOK, At
<1>3. FlowOK
  <2>1. \A p \in Payloads : heap.payload[p].refs = 0 BY DEF Init, EmptyHeap, NoPayload
  <2>2. HeapOK(heap, 0) /\ Contained(Contents) /\ Counts(heap, Contents) BY <1>1, Facts
  <2>3. \A p \in Payloads : Flows(heap, Contents, targets, consumers, p) BY <2>1, <2>2, GoneFlows
  <2> QED BY <2>3 DEF FlowOK
<1> QED BY <1>1, <1>2, <1>3 DEF KInv

\* Every step keeps the nodes that no packet is for at rest.
LEMMA NextCalm == PInv /\ CalmOK /\ Next => CalmOK'
<1> SUFFICES ASSUME PInv, CalmOK, Next PROVE CalmOK' OBVIOUS
<1>2. CASE HostStep
  <2>1. Host \in Threads BY Names
  <2> QED BY <1>2, <2>1, CopyBufferCalm, AdoptBufferCalm, BuildGraphCalm, MakeBuiltinCalm, RegisterCalm,
          SendCalm, CancelCalm DEF HostStep
<1>3. ASSUME NEW t \in Threads, PacketStep(t) PROVE CalmOK'
  BY <1>3, BuildPacketCalm, NewInteropCalm, CloneCalm, DropCalm, SetMetadataCalm, MakeMutableCalm,
     OwnPayloadCalm DEF PacketStep
<1>4. ASSUME NEW t \in Threads, DeliveryStep(t) PROVE CalmOK'
  BY <1>4, DispatchCalm, DeliveredCalm DEF DeliveryStep
<1>5. ASSUME NEW n \in Nodes, KernelStep(n) PROVE CalmOK'
  BY <1>5, NewBufferCalm, TakeInputCalm, CloneInputCalm, EmitCalm, ForwardCalm, ReturnCalm DEF KernelStep
<1>6. ASSUME NEW n \in Nodes, NodeStep(n) PROVE CalmOK'
  BY <1>6, ClaimCalm, StartCalm, CompleteCalm, UnstageCalm, DiscardCalm DEF NodeStep
<1> QED BY <1>2, <1>3, <1>4, <1>5, <1>6 DEF Next

\* Every step lets the payloads flow as they may.
LEMMA NextFlow == PInv /\ PInv' /\ CalmOK /\ FlowOK /\ Next => FlowOK'
<1> SUFFICES ASSUME PInv, PInv', CalmOK, FlowOK, Next PROVE FlowOK' OBVIOUS
<1>1. Room BY DEF Next
<1>2. CASE HostStep
  <2>1. Host \in Threads BY Names
  <2> QED BY <1>1, <1>2, <2>1, CopyBufferFlow, AdoptBufferFlow, BuildGraphFlow, MakeBuiltinFlow, RegisterFlow,
          SendFlow, CancelFlow DEF HostStep
<1>3. ASSUME NEW t \in Threads, PacketStep(t) PROVE FlowOK'
  BY <1>1, <1>3, BuildPacketFlow, NewInteropFlow, CloneFlow, DropFlow, SetMetadataFlow, MakeMutableFlow,
     OwnPayloadFlow DEF PacketStep
<1>4. ASSUME NEW t \in Threads, DeliveryStep(t) PROVE FlowOK'
  BY <1>4, DispatchFlow, DeliveredFlow DEF DeliveryStep
<1>5. ASSUME NEW n \in Nodes, KernelStep(n) PROVE FlowOK'
  BY <1>1, <1>5, NewBufferFlow, TakeInputFlow, CloneInputFlow, EmitFlow, ForwardFlow, ReturnFlow DEF KernelStep
<1>6. ASSUME NEW n \in Nodes, NodeStep(n) PROVE FlowOK'
  BY <1>6, ClaimFlow, StartFlow, CompleteFlow, UnstageFlow, DiscardFlow DEF NodeStep
<1> QED BY <1>2, <1>3, <1>4, <1>5, <1>6 DEF Next

\* So does a step of something else.
LEMMA StutterKept == KInv /\ UNCHANGED vars => KInv'
<1> SUFFICES ASSUME KInv, UNCHANGED vars PROVE KInv' OBVIOUS
<1>1. UNCHANGED <<consumers, heap, handle, slot, staging, queue, flight, targets, pc, cloned>>
  BY DEF vars, graph, nodes, delivery
<1>2. PInv /\ CalmOK /\ FlowOK BY DEF KInv
<1>3. PInv' BY <1>2, StutterInv
<1>4. CalmOK' BY <1>1, <1>2 DEF CalmOK, At
<1>5. FlowOK' BY <1>1, <1>2, <1>3, SameTargets, FlowSame
<1> QED BY <1>3, <1>4, <1>5 DEF KInv

\* Both together.
LEMMA StepKept == KInv /\ [Next]_vars => KInv'
<1>1. KInv /\ Next => KInv'
  <2> SUFFICES ASSUME KInv, Next PROVE KInv' OBVIOUS
  <2>1. PInv /\ CalmOK /\ FlowOK BY DEF KInv
  <2>2. PInv' BY <2>1, NextInv
  <2>3. CalmOK' BY <2>1, NextCalm
  <2>4. FlowOK' BY <2>1, <2>2, NextFlow
  <2> QED BY <2>2, <2>3, <2>4 DEF KInv
<1> QED BY <1>1, StutterKept

\* The invariant holds always.
LEMMA AlwaysKept == Spec => []KInv
BY InitKept, StepKept, PTL DEF Spec

\* Of the consumers that there may be, the only one there is.
LEMMA OnlyConsumer ==
    ASSUME PInv, Cardinality(consumers) = 1, NEW a \in consumers, NEW c, c # a
    PROVE  c \notin consumers
<1>1. consumers \subseteq Consumers /\ IsFiniteSet(Consumers)
  BY Facts, PacketsAssumption DEF FrameOK
<1>2. IsFiniteSet(consumers) BY <1>1, FS_Subset
<1>3. \E d : consumers = {d} BY <1>2, FS_Singleton
<1> QED BY <1>3

\* A consumer that there is not has nothing.
LEMMA AbsentEmpty ==
    ASSUME PInv, CalmOK, NEW k \in Boxes, k[2] \in Consumers \ consumers
    PROVE  Contents[k] = <<>>
<1> DEFINE n == k[2]
<1>1. n \in Nodes /\ n \in Threads BY Apartness
<1>2. staging[n] = <<>> /\ flight[n] = <<>> /\ At(n, "idle") /\ queue[n] = <<>> /\ handle[n] = <<>> BY DEF CalmOK
<1>3. slot[n] = <<>> BY <1>1, <1>2, Facts DEF ShapeOK, At
<1>4. k \in {<<"handle", n>>, <<"flight", n>>, <<"slot", n>>, <<"staging", n>>, <<"queue", n>>} BY BoxKinds
<1> QED BY <1>1, <1>2, <1>3, <1>4, ContentsAt

\* Whoever shares with the hand of n is a delivery, or a consumer like n; where there is one
\* consumer only, the others have nothing.
LEMMA KeepsNothing == KInv => NothingKept
<1> SUFFICES ASSUME KInv PROVE NothingKept OBVIOUS
<1>1. PInv /\ CalmOK /\ FlowOK BY DEF KInv
<1>2. ASSUME NEW n \in Nodes, At(n, "payload"), Cardinality(consumers) = 1 \/ n = Producer, Wanted(n) \notin cloned,
             NEW x \in Held, PayloadAt(x) = Wanted(n)
      PROVE  x[1][1] = "flight" \/ x[1] \in {<<"handle", n>>, <<"staging", n>>}
  <2> DEFINE p == Wanted(n)
  <2> DEFINE k == x[1]
  <2>0. n \in Threads BY Names
  <2>1. Engine(n) BY <1>1, <1>2, <2>0, Writing
  <2>2. p \in Payloads \ cloned BY <1>1, <1>2, <2>0, <2>1, TopLive DEF Wanted
  <2>3. Flows(heap, Contents, targets, consumers, p) BY <1>1, <2>2 DEF FlowOK
  <2>4. k \in Boxes /\ Has(heap, Contents[k], p)
    <3>1. x \in Places /\ RefAt(x).own = Nobody BY DEF Held
    <3>2. k \in Boxes /\ x[2] \in DOMAIN Contents[k] /\ RefAt(x) = Contents[k][x[2]] BY <3>1, PlaceIn
    <3>3. Bears(heap, Contents[k][x[2]], p) BY <1>2, <3>1, <3>2 DEF Bears, PayloadAt
    <3> QED BY <3>2, <3>3 DEF Has
  <2>5. Hand(n) \in Boxes /\ Has(heap, Contents[Hand(n)], p)
    <3>1. Hand(n) \in Boxes /\ Contents[Hand(n)] = handle[n] BY <2>0, ContentsAt, BoxKinds DEF Hand
    <3>2. Len(handle[n]) \in DOMAIN handle[n] /\ Top(n) = handle[n][Len(handle[n])] /\ Top(n).own = Nobody
      BY <1>1, <2>0, <2>1, TopOld
    <3> QED BY <3>1, <3>2 DEF Has, Bears, Wanted
  <2> HIDE DEF p, k
  <2>6. CASE k = Hand(n) BY <2>6 DEF Hand, k
  <2>7. CASE k # Hand(n)
    <3>1. Apart(targets, consumers, Hand(n), k) BY <2>3, <2>4, <2>5, <2>7 DEF Flows
    <3>2. CASE k[1] = "flight" BY <3>2 DEF k
    <3>3. CASE k[1] # "flight"
      <4>1. n \in Consumers /\ k[2] \in Consumers /\ k[2] # n BY <3>1, <3>3 DEF Apart, May, Hand
      <4>2. n \in consumers BY <1>1, <1>2, <2>0, <4>1, Busy DEF At
      <4>3. Cardinality(consumers) = 1 BY <1>2, <4>1, Apartness
      <4>4. k[2] \notin consumers BY <1>1, <4>1, <4>2, <4>3, OnlyConsumer
      <4>5. Contents[k] = <<>> BY <1>1, <2>4, <4>1, <4>4, AbsentEmpty
      <4> QED BY <2>4, <4>5, EmptyHas
    <3> QED BY <3>2, <3>3
  <2> QED BY <2>6, <2>7
<1> QED BY <1>2 DEF NothingKept

---------------------------------------------------------------------------
(***************************************************************************)
(* A delivered packet is kept by nobody: where a node has one consumer,    *)
(* whoever wants a writable view of a payload of which the program made no *)
(* second packet shares it, if at all, with a delivery that has not        *)
(* returned and with packets of its own.                                   *)
(***************************************************************************)
THEOREM PacketsNotKept == Spec => []NothingKept
BY KeepsNothing, AlwaysKept, PTL
=============================================================================
