----------------------------- MODULE OrderLemmas -----------------------------
(***************************************************************************)
(* Facts about finite sets of numbers and their order, for the proofs: a   *)
(* set of frames or positions has, for each i up to its size, a member     *)
(* that is the i-th lowest, and there is one way only to go through it     *)
(* upwards.  What is picked from a sequence by position follows it when    *)
(* the sequence grows at its end, changes elsewhere or loses its head.     *)
(***************************************************************************)
EXTENDS Positions, Integers, SequenceTheorems, FiniteSetTheorems, WellFoundedInduction, TLAPS

(* The number of members of S up to f: its place in S. *)
UpToIn(S, f) == { g \in S : g <= f }

(* A set of natural numbers that is not empty has a least member. *)
LEMMA LeastNat ==
    ASSUME NEW S \in SUBSET Nat, S # {}
    PROVE  \E x \in S : \A y \in S : x <= y
  <1>1. PICK x \in S : \A y \in S : ~ (<< y, x >> \in OpToRel(<, Nat))
    BY NatLessThanWellFounded, WFMin
  <1>2. \A y \in S : ~ (y < x)
    BY <1>1 DEF OpToRel
  <1>3. x \in Nat /\ \A y \in S : y \in Nat
    OBVIOUS
  <1>4. \A y \in S : x <= y
    BY <1>2, <1>3
  <1> QED BY <1>4

(* Every place in a finite set is somebody's. *)
LEMMA EveryPlace ==
    ASSUME NEW S \in SUBSET Nat, IsFiniteSet(S), NEW i \in 1 .. Cardinality(S)
    PROVE  \E f \in S : Cardinality(UpToIn(S, f)) = i
  <1> DEFINE N == Cardinality(S)
             Taken(k) == \E f \in S : Cardinality(UpToIn(S, f)) = k
             T == { k \in 1 .. N : ~ Taken(k) }
  <1>1. N \in Nat
    BY FS_CardinalityType
  <1>2. \A f : IsFiniteSet(UpToIn(S, f)) /\ Cardinality(UpToIn(S, f)) \in Nat
    BY FS_Subset, FS_CardinalityType DEF UpToIn
  <1>3. ASSUME T # {} PROVE FALSE
    <2>1. T \in SUBSET Nat
      BY <1>1
    <2>2. PICK k \in T : \A y \in T : k <= y
      BY <1>3, <2>1, LeastNat
    <2>3. k \in Nat /\ k \in 1 .. N /\ ~ Taken(k)
      BY <1>1, <2>2
    (* The members before place k... *)
    <2>4. \E B \in SUBSET S : /\ IsFiniteSet(B) /\ Cardinality(B) = k - 1
                              /\ \A b \in B, s \in S : s <= b => s \in B
      <3>1. CASE k = 1
        <4>1. {} \in SUBSET S /\ IsFiniteSet({}) /\ Cardinality({}) = k - 1
          BY <3>1, FS_EmptySet
        <4> QED BY <4>1
      <3>2. CASE k # 1
        <4>1. k - 1 \in 1 .. N /\ ~ (k <= k - 1)
          BY <1>1, <2>3, <3>2
        <4>2. Taken(k - 1)
          BY <2>2, <4>1
        <4>3. PICK f \in S : Cardinality(UpToIn(S, f)) = k - 1
          BY <4>2
        <4>4. UpToIn(S, f) \in SUBSET S /\ IsFiniteSet(UpToIn(S, f))
          BY <1>2 DEF UpToIn
        <4>5. ASSUME NEW b \in UpToIn(S, f), NEW s \in S, s <= b PROVE s \in UpToIn(S, f)
          <5>1. s \in Nat /\ b \in Nat /\ f \in Nat /\ b <= f
            BY DEF UpToIn
          <5> QED BY <4>5, <5>1 DEF UpToIn
        <4> QED BY <4>3, <4>4, <4>5
      <3> QED BY <3>1, <3>2
    <2>5. PICK B \in SUBSET S : /\ IsFiniteSet(B) /\ Cardinality(B) = k - 1
                                /\ \A b \in B, s \in S : s <= b => s \in B
      BY <2>4
    (* ... are not all, and the lowest of the others has place k. *)
    <2>6. S \ B # {} /\ S \ B \in SUBSET Nat
      <3>1. Cardinality(B) # Cardinality(S)
        BY <1>1, <2>3, <2>5
      <3>2. B # S /\ B \subseteq S
        BY <3>1
      <3>3. S \ B # {}
        BY <3>2
      <3>4. S \ B \in SUBSET Nat
        OBVIOUS
      <3> QED BY <3>3, <3>4
    <2>7. PICK f \in S \ B : \A y \in S \ B : f <= y
      BY <2>6, LeastNat
    <2>8. ASSUME NEW g \in S PROVE g <= f <=> g \in B \cup {f}
      <3>1. g \in Nat /\ f \in Nat
        OBVIOUS
      <3>2. CASE g \in B
        <4>1. ~ (f <= g)
          BY <2>5, <2>7, <3>2
        <4> QED BY <3>1, <3>2, <4>1
      <3>3. CASE g \notin B
        <4>1. f <= g
          BY <2>7, <3>3
        <4> QED BY <3>1, <3>3, <4>1
      <3> QED BY <3>2, <3>3
    <2>9. UpToIn(S, f) = B \cup {f}
      BY <2>5, <2>7, <2>8 DEF UpToIn
    <2>10. Cardinality(B \cup {f}) = Cardinality(B) + 1
      BY <2>5, <2>7, FS_AddElement
    <2>11. Cardinality(UpToIn(S, f)) = k
      BY <2>3, <2>5, <2>9, <2>10
    <2> QED BY <2>3, <2>7, <2>11
  <1> QED BY <1>3

(* Ascending goes through a finite set of positions, each once. *)
LEMMA AscendingFacts ==
    ASSUME NEW S \in SUBSET Nat, IsFiniteSet(S)
    PROVE  /\ Cardinality(S) \in Nat
           /\ Ascending(S) \in [1 .. Cardinality(S) -> S]
           /\ \A k, l \in 1 .. Cardinality(S) : Ascending(S)[k] = Ascending(S)[l] => k = l
           /\ \A s \in S : \E k \in 1 .. Cardinality(S) : Ascending(S)[k] = s
           /\ \A k, l \in 1 .. Cardinality(S) : k < l => Ascending(S)[k] < Ascending(S)[l]
  <1> DEFINE N == Cardinality(S)
             Place(s) == Cardinality(UpToIn(S, s))
             At(k) == CHOOSE s \in S : Place(s) = k
  <1>1. N \in Nat
    BY FS_CardinalityType
  <1>2. \A s \in S : UpToIn(S, s) = { j \in S : j <= s }
    BY DEF UpToIn
  <1>3. Ascending(S) = [k \in 1 .. N |-> CHOOSE i \in S : Cardinality({ j \in S : j <= i }) = k]
    BY DEF Ascending
  <1>4. \A k \in 1 .. N : (CHOOSE i \in S : Cardinality({ j \in S : j <= i }) = k) = At(k)
    BY DEF UpToIn
  <1>5. Ascending(S) = [k \in 1 .. N |-> At(k)]
    BY <1>3, <1>4
  <1>6. \A k \in 1 .. N : \E s \in S : Place(s) = k
    BY EveryPlace
  <1>7. \A k \in 1 .. N : At(k) \in S /\ Place(At(k)) = k
    BY <1>6
  <1>8. \A s : IsFiniteSet(UpToIn(S, s)) /\ Place(s) \in Nat /\ Place(s) <= N
    BY FS_Subset, FS_CardinalityType DEF UpToIn
  <1>9. ASSUME NEW s \in S, NEW t \in S, s < t PROVE Place(s) < Place(t)
    <2>1. s \in Nat /\ t \in Nat
      OBVIOUS
    <2>2. UpToIn(S, s) \subseteq UpToIn(S, t) /\ t \in UpToIn(S, t) /\ t \notin UpToIn(S, s)
      <3>1. ASSUME NEW j \in S, j <= s PROVE j <= t
        <4>1. j \in Nat
          OBVIOUS
        <4> QED BY <1>9, <2>1, <3>1, <4>1
      <3>2. t <= t /\ ~ (t <= s)
        BY <1>9, <2>1
      <3> QED BY <3>1, <3>2 DEF UpToIn
    <2>3. UpToIn(S, s) \in SUBSET UpToIn(S, t) /\ UpToIn(S, s) # UpToIn(S, t)
      BY <2>2
    <2>4. Place(s) <= Place(t) /\ Place(s) # Place(t)
      BY <1>8, <2>3, FS_Subset
    <2> QED BY <1>8, <2>4
  <1>10. \A s, t \in S : Place(s) = Place(t) => s = t
    <2> SUFFICES ASSUME NEW s \in S, NEW t \in S, s # t PROVE Place(s) # Place(t)
      OBVIOUS
    <2>1. s < t \/ t < s
      <3>1. s \in Nat /\ t \in Nat
        OBVIOUS
      <3> QED BY <3>1
    <2>2. Place(s) < Place(t) \/ Place(t) < Place(s)
      BY <1>9, <2>1
    <2> QED BY <1>8, <2>2
  <1>11. ASSUME NEW s \in S PROVE \E k \in 1 .. N : At(k) = s
    <2>1. {s} \in SUBSET UpToIn(S, s) /\ Cardinality({s}) = 1
      <3>1. s \in Nat
        OBVIOUS
      <3>2. s <= s
        BY <3>1
      <3>3. Cardinality({s}) = 1
        BY FS_Singleton
      <3> QED BY <3>2, <3>3 DEF UpToIn
    <2>2. 1 <= Place(s)
      BY <1>8, <2>1, FS_Subset
    <2>3. Place(s) \in 1 .. N
      BY <1>1, <1>8, <2>2
    <2>4. At(Place(s)) = s
      BY <1>7, <1>10, <2>3
    <2> QED BY <2>3, <2>4
  <1> HIDE DEF At, Place, N
  <1>12. Ascending(S) \in [1 .. N -> S] /\ \A k \in 1 .. N : Ascending(S)[k] = At(k)
    BY <1>5, <1>7
  <1>13. \A k, l \in 1 .. N : At(k) = At(l) => k = l
    BY <1>7
  <1>14. ASSUME NEW k \in 1 .. N, NEW l \in 1 .. N, k < l PROVE At(k) < At(l)
    <2>1. At(k) \in S /\ At(l) \in S /\ Place(At(k)) = k /\ Place(At(l)) = l
      BY <1>7
    <2>2. At(k) \in Nat /\ At(l) \in Nat /\ k \in Nat /\ l \in Nat
      <3>1. k \in Nat /\ l \in Nat
        BY <1>1
      <3>2. \A s \in S : s \in Nat
        OBVIOUS
      <3> QED BY <2>1, <3>1, <3>2
    <2>3. ~ (At(l) < At(k))
      <3>1. At(l) < At(k) => l < k
        BY <1>9, <2>1
      <3> QED BY <1>14, <2>2, <3>1
    <2>4. At(k) # At(l)
      BY <1>14, <2>1, <2>2
    <2> QED BY <2>2, <2>3, <2>4
  <1> QED BY <1>1, <1>11, <1>12, <1>13, <1>14 DEF N

(* f goes through S from its lowest to its highest member, in n steps. *)
Lists(f, n, S) ==
    /\ f \in [1 .. n -> S]
    /\ \A k, l \in 1 .. n : k < l => f[k] < f[l]
    /\ \A s \in S : \E k \in 1 .. n : f[k] = s

(* Two ways to go through a set upwards do not part at any step. *)
LEMMA ListsAgree ==
    ASSUME NEW S \in SUBSET Nat, NEW n \in Nat, NEW m \in Nat, NEW f, NEW g,
           Lists(f, n, S), Lists(g, m, S),
           NEW k \in 1 .. n, k \in 1 .. m,
           \A l \in 1 .. n : l < k => l \in 1 .. m /\ f[l] = g[l]
    PROVE  g[k] <= f[k]
  <1>1. f[k] \in S /\ g[k] \in S
    BY DEF Lists
  <1>2. f[k] \in Nat /\ g[k] \in Nat
    BY <1>1
  <1>3. ASSUME f[k] < g[k] PROVE FALSE
    <2>1. PICK l \in 1 .. m : g[l] = f[k]
      BY <1>1 DEF Lists
    <2>2. g[l] < g[k]
      BY <1>3, <2>1
    <2>3. ~ (k < l) /\ l # k
      <3>1. k < l => g[k] < g[l]
        BY DEF Lists
      <3>2. g[l] \in Nat
        BY <1>2, <2>1
      <3> QED BY <1>2, <2>2, <3>1, <3>2
    <2>4. l \in 1 .. n /\ l < k
      BY <2>3
    <2>5. f[l] = g[l] /\ f[l] < f[k]
      BY <2>4 DEF Lists
    <2> QED BY <1>2, <2>1, <2>5
  <1> QED BY <1>2, <1>3

(* The one who goes through n members has not more steps than the other. *)
LEMMA ListsCover ==
    ASSUME NEW S \in SUBSET Nat, NEW n \in Nat, NEW m \in Nat, NEW f, NEW g,
           Lists(f, n, S), Lists(g, m, S),
           \A k \in 1 .. n : k \in 1 .. m => f[k] = g[k]
    PROVE  m <= n
  <1>1. ASSUME n < m PROVE FALSE
    <2>1. n + 1 \in 1 .. m /\ g[n + 1] \in S
      BY <1>1 DEF Lists
    <2>2. PICK l \in 1 .. n : f[l] = g[n + 1]
      BY <2>1 DEF Lists
    <2>3. l \in 1 .. m /\ l < n + 1
      BY <1>1
    <2>4. f[l] = g[l] /\ g[l] < g[n + 1]
      BY <2>1, <2>3 DEF Lists
    <2>5. g[n + 1] \in Nat
      BY <2>1
    <2> QED BY <2>2, <2>4, <2>5
  <1> QED BY <1>1

(* There is one way only to go through a set upwards. *)
LEMMA ListsUnique ==
    ASSUME NEW S \in SUBSET Nat, NEW n \in Nat, NEW m \in Nat, NEW f, NEW g,
           Lists(f, n, S), Lists(g, m, S)
    PROVE  n = m /\ f = g
  <1> DEFINE T == { k \in 1 .. n : k \in 1 .. m /\ f[k] # g[k] }
  <1>1. ASSUME T # {} PROVE FALSE
    <2>1. T \in SUBSET Nat
      OBVIOUS
    <2>2. PICK k \in T : \A y \in T : k <= y
      BY <1>1, <2>1, LeastNat
    <2>3. k \in 1 .. n /\ k \in 1 .. m /\ f[k] # g[k]
      BY <2>2
    <2>4. ASSUME NEW l \in 1 .. n, l < k PROVE l \in 1 .. m /\ f[l] = g[l]
      <3>1. l \in 1 .. m /\ ~ (k <= l)
        BY <2>3, <2>4
      <3>2. l \notin T
        BY <2>2, <3>1
      <3> QED BY <3>1, <3>2
    <2>5. ASSUME NEW l \in 1 .. m, l < k PROVE l \in 1 .. n /\ g[l] = f[l]
      <3>1. l \in 1 .. n
        BY <2>3, <2>5
      <3> QED BY <2>4, <2>5, <3>1
    <2> HIDE DEF T
    <2>6. g[k] <= f[k]
      BY <2>3, <2>4, ListsAgree
    <2>7. f[k] <= g[k]
      BY <2>3, <2>5, ListsAgree
    <2>8. f[k] \in Nat /\ g[k] \in Nat
      BY <2>3 DEF Lists
    <2> QED BY <2>3, <2>6, <2>7, <2>8
  <1>2. \A k \in 1 .. n : k \in 1 .. m => f[k] = g[k]
    BY <1>1
  <1> HIDE DEF T
  <1>3. \A k \in 1 .. m : k \in 1 .. n => g[k] = f[k]
    BY <1>2
  <1>4. m <= n
    BY <1>2, ListsCover
  <1>5. n <= m
    BY <1>3, ListsCover
  <1>6. n = m
    BY <1>4, <1>5
  <1>7. f \in [1 .. n -> S] /\ g \in [1 .. n -> S] /\ \A k \in 1 .. n : f[k] = g[k]
    BY <1>2, <1>6 DEF Lists
  <1>8. f = g
    BY <1>7
  <1> QED BY <1>6, <1>8

(* What is picked, along any way to go through the positions upwards. *)
LEMMA PickedAlong ==
    ASSUME NEW S \in SUBSET Nat, IsFiniteSet(S), NEW n \in Nat, NEW f, Lists(f, n, S), NEW q
    PROVE  Picked(q, S) = [k \in 1 .. n |-> q[f[k]]]
  <1>1. Cardinality(S) \in Nat /\ Lists(Ascending(S), Cardinality(S), S)
    BY AscendingFacts DEF Lists
  <1>2. Cardinality(S) = n /\ Ascending(S) = f
    BY <1>1, ListsUnique
  <1>3. DOMAIN f = 1 .. n
    BY DEF Lists
  <1> QED BY <1>2, <1>3 DEF Picked

(* A way to go through a finite set of positions of q. *)
LEMMA PositionsListed ==
    ASSUME NEW E, NEW q \in Seq(E), NEW S \in SUBSET (1 .. Len(q))
    PROVE  /\ S \in SUBSET Nat /\ IsFiniteSet(S)
           /\ \E n \in Nat : \E f : Lists(f, n, S)
  <1>1. Len(q) \in Nat
    OBVIOUS
  <1>2. IsFiniteSet(1 .. Len(q)) /\ 1 .. Len(q) \subseteq Nat
    BY <1>1, FS_Interval
  <1>3. S \in SUBSET Nat /\ IsFiniteSet(S)
    BY <1>2, FS_Subset
  <1>4. Cardinality(S) \in Nat /\ Lists(Ascending(S), Cardinality(S), S)
    BY <1>3, AscendingFacts DEF Lists
  <1> QED BY <1>3, <1>4

(* What is picked from a sequence is a sequence of its elements. *)
LEMMA PickedSeq ==
    ASSUME NEW E, NEW q \in Seq(E), NEW S \in SUBSET (1 .. Len(q))
    PROVE  Picked(q, S) \in Seq(E) /\ (S = {} => Picked(q, S) = << >>)
  <1>1. S \in SUBSET Nat /\ IsFiniteSet(S)
    BY PositionsListed
  <1>0. PICK n \in Nat : \E f : Lists(f, n, S)
    BY PositionsListed
  <1>2. PICK f : Lists(f, n, S)
    BY <1>0
  <1>3. Picked(q, S) = [k \in 1 .. n |-> q[f[k]]]
    BY <1>1, <1>2, PickedAlong
  <1>4. \A k \in 1 .. n : f[k] \in S /\ q[f[k]] \in E
    <2>1. \A k \in 1 .. n : f[k] \in S
      BY <1>2 DEF Lists
    <2>2. \A i \in 1 .. Len(q) : q[i] \in E
      OBVIOUS
    <2> QED BY <2>1, <2>2
  <1>5. Picked(q, S) \in [1 .. n -> E]
    BY <1>3, <1>4
  <1>6. Picked(q, S) \in Seq(E) /\ Len(Picked(q, S)) = n
    BY <1>5
  <1>7. S = {} => n = 0
    BY <1>4
  <1> QED BY <1>6, <1>7

(* Elements that are not picked do not matter. *)
LEMMA PickedSame ==
    ASSUME NEW E, NEW q \in Seq(E), NEW S \in SUBSET (1 .. Len(q)), NEW r,
           \A i \in S : r[i] = q[i]
    PROVE  Picked(r, S) = Picked(q, S)
  <1>1. S \in SUBSET Nat /\ IsFiniteSet(S)
    BY PositionsListed
  <1>0. PICK n \in Nat : \E f : Lists(f, n, S)
    BY PositionsListed
  <1>2. PICK f : Lists(f, n, S)
    BY <1>0
  <1>3. Picked(q, S) = [k \in 1 .. n |-> q[f[k]]]
    BY <1>1, <1>2, PickedAlong
  <1>4. Picked(r, S) = [k \in 1 .. n |-> r[f[k]]]
    BY <1>1, <1>2, PickedAlong
  <1>5. \A k \in 1 .. n : f[k] \in S
    BY <1>2 DEF Lists
  <1> QED BY <1>3, <1>4, <1>5

(* An element appended and picked is picked last. *)
LEMMA PickedAppend ==
    ASSUME NEW E, NEW q \in Seq(E), NEW S \in SUBSET (1 .. Len(q)), NEW e \in E
    PROVE  \A r, T : r = Append(q, e) /\ T = S \cup {Len(q) + 1} => Picked(r, T) = Append(Picked(q, S), e)
  <1> DEFINE last == Len(q) + 1
             T == S \cup {last}
             r == Append(q, e)
  <1>1. S \in SUBSET Nat /\ IsFiniteSet(S)
    BY PositionsListed
  <1>0. PICK n \in Nat : \E f : Lists(f, n, S)
    BY PositionsListed
  <1>2. PICK f : Lists(f, n, S)
    BY <1>0
  <1>3. Picked(q, S) = [k \in 1 .. n |-> q[f[k]]]
    BY <1>1, <1>2, PickedAlong
  <1> DEFINE g == [k \in 1 .. n + 1 |-> IF k = n + 1 THEN last ELSE f[k]]
  <1>4. r \in Seq(E) /\ Len(r) = last /\ r[last] = e /\ \A i \in 1 .. Len(q) : r[i] = q[i]
    OBVIOUS
  <1>5. /\ f \in [1 .. n -> S] /\ (\A k, l \in 1 .. n : k < l => f[k] < f[l])
        /\ \A s \in S : \E k \in 1 .. n : f[k] = s
    BY <1>2 DEF Lists
  <1>6. last \in Nat /\ \A s \in S : s \in Nat /\ s < last
    OBVIOUS
  <1>7. T \in SUBSET (1 .. last)
    <2>1. \A s \in S : s \in 1 .. last
      OBVIOUS
    <2>2. last \in 1 .. last
      OBVIOUS
    <2> QED BY <2>1, <2>2
  <1>8. T \in SUBSET Nat /\ IsFiniteSet(T)
    <2> HIDE DEF T, r, last
    <2>1. T \in SUBSET (1 .. Len(r))
      BY <1>4, <1>7
    <2> QED BY <1>4, <2>1, PositionsListed
  <1> HIDE DEF last
  <1>9. Lists(g, n + 1, T)
    <2>1. g \in [1 .. n + 1 -> T]
      BY <1>5
    <2>2. ASSUME NEW k \in 1 .. n + 1, NEW l \in 1 .. n + 1, k < l PROVE g[k] < g[l]
      <3>1. k \in 1 .. n /\ g[k] = f[k] /\ f[k] \in S
        BY <1>5, <2>2
      <3>2. CASE l = n + 1
        BY <1>6, <3>1, <3>2
      <3>3. CASE l # n + 1
        <4>1. l \in 1 .. n /\ g[l] = f[l]
          BY <3>3
        <4> QED BY <1>5, <2>2, <3>1, <4>1
      <3> QED BY <3>2, <3>3
    <2>3. ASSUME NEW s \in T PROVE \E k \in 1 .. n + 1 : g[k] = s
      <3>1. CASE s = last
        <4>1. n + 1 \in 1 .. n + 1 /\ g[n + 1] = s
          BY <3>1
        <4> QED BY <4>1
      <3>2. CASE s \in S
        <4>1. PICK k \in 1 .. n : f[k] = s
          BY <1>5, <3>2
        <4>2. k \in 1 .. n + 1 /\ g[k] = s
          BY <4>1
        <4> QED BY <4>2
      <3> QED BY <3>1, <3>2
    <2> QED BY <2>1, <2>2, <2>3 DEF Lists
  <1>10. Picked(r, T) = [k \in 1 .. n + 1 |-> r[g[k]]]
    <2> HIDE DEF T, g, r
    <2>1. n + 1 \in Nat
      OBVIOUS
    <2> QED BY <1>8, <1>9, <2>1, PickedAlong
  <1>11. \A k \in 1 .. n + 1 : r[g[k]] = IF k = n + 1 THEN e ELSE q[f[k]]
    <2>1. \A k \in 1 .. n : f[k] \in 1 .. Len(q)
      BY <1>5
    <2>2. \A k \in 1 .. n + 1 : k # n + 1 => k \in 1 .. n
      OBVIOUS
    <2> QED BY <1>4, <2>1, <2>2
  <1>12. Picked(q, S) \in Seq(E) /\ Len(Picked(q, S)) = n
    BY <1>3, PickedSeq
  <1>13. Picked(r, T) = [k \in 1 .. n + 1 |-> IF k = n + 1 THEN e ELSE q[f[k]]]
    BY <1>10, <1>11
  <1>14. Append(Picked(q, S), e) = [k \in 1 .. n + 1 |-> IF k = n + 1 THEN e ELSE q[f[k]]]
    BY <1>3, <1>12
  <1> QED BY <1>13, <1>14 DEF last

(* The positions in S once the sequence has lost its head. *)
Moved(q, S) == { i \in 1 .. Len(q) - 1 : i + 1 \in S }

(* A head that is not picked: the tail gives the same. *)
LEMMA PickedTailOther ==
    ASSUME NEW E, NEW q \in Seq(E), q # << >>, NEW S \in SUBSET (1 .. Len(q)), 1 \notin S
    PROVE  Picked(Tail(q), Moved(q, S)) = Picked(q, S)
  <1> DEFINE T == Moved(q, S)
             r == Tail(q)
  <1>1. S \in SUBSET Nat /\ IsFiniteSet(S)
    BY PositionsListed
  <1>0. PICK n \in Nat : \E f : Lists(f, n, S)
    BY PositionsListed
  <1>2. PICK f : Lists(f, n, S)
    BY <1>0
  <1>3. Picked(q, S) = [k \in 1 .. n |-> q[f[k]]]
    BY <1>1, <1>2, PickedAlong
  <1> DEFINE g == [k \in 1 .. n |-> f[k] - 1]
  <1>4. /\ r \in Seq(E) /\ Len(r) = Len(q) - 1
        /\ \A i \in 1 .. Len(q) - 1 : r[i] = q[i + 1]
    OBVIOUS
  <1>5. /\ f \in [1 .. n -> S] /\ (\A k, l \in 1 .. n : k < l => f[k] < f[l])
        /\ \A s \in S : \E k \in 1 .. n : f[k] = s
    BY <1>2 DEF Lists
  <1>6. \A s \in S : s \in Nat /\ s - 1 \in 1 .. Len(q) - 1 /\ (s - 1) + 1 = s
    OBVIOUS
  <1>7. T \in SUBSET (1 .. Len(r))
    BY <1>4 DEF Moved
  <1>8. T \in SUBSET Nat /\ IsFiniteSet(T)
    <2> HIDE DEF T, r
    <2> QED BY <1>4, <1>7, PositionsListed
  <1>9. \A k \in 1 .. n : /\ f[k] \in S /\ f[k] \in Nat
                          /\ f[k] - 1 \in 1 .. Len(q) - 1 /\ (f[k] - 1) + 1 = f[k]
    BY <1>5, <1>6
  <1>10. Lists(g, n, T)
    <2>1. \A k \in 1 .. n : f[k] - 1 \in T
      BY <1>9 DEF Moved
    <2>2. g \in [1 .. n -> T]
      BY <2>1
    <2>3. \A k, l \in 1 .. n : k < l => g[k] < g[l]
      BY <1>5, <1>9
    <2>4. ASSUME NEW s \in T PROVE \E k \in 1 .. n : g[k] = s
      <3>1. s + 1 \in S /\ s \in Nat
        BY DEF Moved
      <3>2. PICK k \in 1 .. n : f[k] = s + 1
        BY <1>5, <3>1
      <3>3. g[k] = s
        BY <3>1, <3>2
      <3> QED BY <3>3
    <2> QED BY <2>2, <2>3, <2>4 DEF Lists
  <1>11. Picked(r, T) = [k \in 1 .. n |-> r[g[k]]]
    <2> HIDE DEF T, g, r
    <2> QED BY <1>8, <1>10, PickedAlong
  <1>12. \A k \in 1 .. n : r[g[k]] = q[f[k]]
    <2> HIDE DEF r
    <2>1. \A k \in 1 .. n : g[k] = f[k] - 1
      OBVIOUS
    <2> QED BY <1>4, <1>9, <2>1
  <1> QED BY <1>3, <1>11, <1>12

(* A sequence is a function on its positions. *)
LEMMA SeqFunction ==
    ASSUME NEW E, NEW s \in Seq(E)
    PROVE  s \in [1 .. Len(s) -> E]
  OBVIOUS

(* A head that is picked is the first one picked: the tail gives the rest. *)
LEMMA PickedTailHead ==
    ASSUME NEW E, NEW q \in Seq(E), q # << >>, NEW S \in SUBSET (1 .. Len(q)), 1 \in S
    PROVE  /\ Picked(q, S) # << >> /\ Head(Picked(q, S)) = q[1]
           /\ Picked(Tail(q), Moved(q, S)) = Tail(Picked(q, S))
  <1> DEFINE T == Moved(q, S)
             r == Tail(q)
             p == Picked(q, S)
  <1>1. S \in SUBSET Nat /\ IsFiniteSet(S)
    BY PositionsListed
  <1>0. PICK n \in Nat : \E f : Lists(f, n, S)
    BY PositionsListed
  <1>2. PICK f : Lists(f, n, S)
    BY <1>0
  <1>3. p = [k \in 1 .. n |-> q[f[k]]]
    BY <1>1, <1>2, PickedAlong
  <1> DEFINE g == [k \in 1 .. n - 1 |-> f[k + 1] - 1]
  <1>4. /\ r \in Seq(E) /\ Len(r) = Len(q) - 1
        /\ \A i \in 1 .. Len(q) - 1 : r[i] = q[i + 1]
    OBVIOUS
  <1>5. /\ f \in [1 .. n -> S] /\ (\A k, l \in 1 .. n : k < l => f[k] < f[l])
        /\ \A s \in S : \E k \in 1 .. n : f[k] = s
    BY <1>2 DEF Lists
  <1>6. \A k \in 1 .. n : f[k] \in S /\ f[k] \in 1 .. Len(q)
    BY <1>5
  <1>7. n \in Nat \ {0} /\ f[1] = 1
    <2>1. PICK k \in 1 .. n : f[k] = 1
      BY <1>5
    <2>2. 1 \in 1 .. n
      OBVIOUS
    <2>3. k # 1 => f[1] < f[k]
      BY <1>5, <2>2
    <2>4. ~ (f[1] < 1)
      BY <1>6, <2>2
    <2> QED BY <2>1, <2>2, <2>3, <2>4
  <1>8. T \in SUBSET (1 .. Len(r))
    BY <1>4 DEF Moved
  <1>9. T \in SUBSET Nat /\ IsFiniteSet(T)
    <2> HIDE DEF T, r
    <2> QED BY <1>4, <1>8, PositionsListed
  <1>10. ASSUME NEW k \in 1 .. n - 1
         PROVE  /\ k + 1 \in 1 .. n /\ f[k + 1] \in S /\ f[k + 1] \in Nat
                /\ f[k + 1] - 1 \in 1 .. Len(q) - 1 /\ (f[k + 1] - 1) + 1 = f[k + 1]
    <2>1. k + 1 \in 1 .. n /\ 1 \in 1 .. n /\ 1 < k + 1
      BY <1>7
    <2>2. f[1] < f[k + 1]
      BY <1>5, <2>1
    <2>3. f[k + 1] \in S /\ f[k + 1] \in 1 .. Len(q)
      BY <1>6, <2>1
    <2> QED BY <1>7, <2>1, <2>2, <2>3
  <1>11. Lists(g, n - 1, T)
    <2>1. \A k \in 1 .. n - 1 : f[k + 1] - 1 \in T
      BY <1>10 DEF Moved
    <2>2. g \in [1 .. n - 1 -> T]
      BY <2>1
    <2>3. ASSUME NEW k \in 1 .. n - 1, NEW l \in 1 .. n - 1, k < l PROVE g[k] < g[l]
      <3>1. k + 1 \in 1 .. n /\ l + 1 \in 1 .. n /\ k + 1 < l + 1
        BY <1>7, <2>3
      <3>2. f[k + 1] < f[l + 1] /\ f[k + 1] \in Nat /\ f[l + 1] \in Nat
        BY <1>5, <1>10, <3>1
      <3> QED BY <3>2
    <2>4. ASSUME NEW s \in T PROVE \E k \in 1 .. n - 1 : g[k] = s
      <3>1. s + 1 \in S /\ s \in Nat /\ s + 1 # 1
        BY DEF Moved
      <3>2. PICK k \in 1 .. n : f[k] = s + 1
        BY <1>5, <3>1
      <3>3. k - 1 \in 1 .. n - 1 /\ (k - 1) + 1 = k
        BY <1>7, <3>1, <3>2
      <3>4. g[k - 1] = s
        BY <3>1, <3>2, <3>3
      <3> QED BY <3>3, <3>4
    <2> QED BY <2>2, <2>3, <2>4 DEF Lists
  <1>12. Picked(r, T) = [k \in 1 .. n - 1 |-> r[g[k]]]
    <2> HIDE DEF T, g, r
    <2>1. n - 1 \in Nat
      BY <1>7
    <2> QED BY <1>9, <1>11, <2>1, PickedAlong
  <1>13. \A k \in 1 .. n - 1 : r[g[k]] = q[f[k + 1]]
    <2> HIDE DEF r
    <2>1. \A k \in 1 .. n - 1 : g[k] = f[k + 1] - 1
      OBVIOUS
    <2> QED BY <1>4, <1>10, <2>1
  <1>14. Picked(r, T) = [k \in 1 .. n - 1 |-> q[f[k + 1]]]
    BY <1>12, <1>13
  <1>15. p \in Seq(E) /\ Len(p) = n
    BY <1>3, PickedSeq
  <1>16. p # << >> /\ Head(p) = q[1]
    BY <1>3, <1>7, <1>15
  <1>17. Tail(p) = [k \in 1 .. n - 1 |-> q[f[k + 1]]]
    <2> HIDE DEF p
    <2>1. /\ Tail(p) \in Seq(E) /\ Len(Tail(p)) = n - 1
          /\ \A k \in 1 .. n - 1 : Tail(p)[k] = p[k + 1]
      BY <1>15, <1>16, HeadTailProperties
    <2>2. \A k \in 1 .. n - 1 : p[k + 1] = q[f[k + 1]]
      BY <1>3, <1>10
    <2>3. Tail(p) \in [1 .. n - 1 -> E]
      BY <2>1, SeqFunction
    <2> QED BY <2>1, <2>2, <2>3
  <1> QED BY <1>14, <1>16, <1>17

(* A sequence that loses its head: what is left of a kind of messages. *)
LEMMA OfTypeTail ==
    ASSUME NEW E, NEW q \in Seq(E), q # << >>, NEW types
    PROVE  /\ OfType(q, types) \in Seq(E)
           /\ q[1].msg_type \notin types => OfType(Tail(q), types) = OfType(q, types)
           /\ q[1].msg_type \in types =>
                 /\ OfType(q, types) # << >> /\ Head(OfType(q, types)) = q[1]
                 /\ OfType(Tail(q), types) = Tail(OfType(q, types))
  <1> DEFINE S == { i \in DOMAIN q : q[i].msg_type \in types }
             r == Tail(q)
             T == { i \in DOMAIN r : r[i].msg_type \in types }
  <1>1. /\ r \in Seq(E) /\ Len(r) = Len(q) - 1 /\ Len(q) \in Nat \ {0}
        /\ \A i \in 1 .. Len(q) - 1 : r[i] = q[i + 1]
    OBVIOUS
  <1>2. S \in SUBSET (1 .. Len(q)) /\ (1 \in S <=> q[1].msg_type \in types)
    <2>1. DOMAIN q = 1 .. Len(q) /\ 1 \in 1 .. Len(q)
      BY <1>1
    <2> QED BY <2>1
  <1>3. T = Moved(q, S)
    <2> HIDE DEF r
    <2>1. DOMAIN r = 1 .. Len(q) - 1
      BY <1>1
    <2>2. \A i \in 1 .. Len(q) - 1 : i + 1 \in DOMAIN q
      OBVIOUS
    <2> QED BY <1>1, <2>1, <2>2 DEF Moved
  <1>4. OfType(q, types) = Picked(q, S) /\ OfType(r, types) = Picked(r, Moved(q, S))
    BY <1>3 DEF OfType
  <1> HIDE DEF S, T, r
  <1>5. Picked(q, S) \in Seq(E)
    BY <1>2, PickedSeq
  <1>6. 1 \notin S => Picked(r, Moved(q, S)) = Picked(q, S)
    BY <1>2, PickedTailOther DEF r
  <1>7. 1 \in S => /\ Picked(q, S) # << >> /\ Head(Picked(q, S)) = q[1]
                   /\ Picked(r, Moved(q, S)) = Tail(Picked(q, S))
    BY <1>2, PickedTailHead DEF r
  <1> QED BY <1>2, <1>4, <1>5, <1>6, <1>7 DEF r

(* A message appended is one more of its kind and none of another. *)
LEMMA OfTypeAppend ==
    ASSUME NEW E, NEW q \in Seq(E), NEW e \in E, NEW types
    PROVE  /\ OfType(q, types) \in Seq(E)
           /\ e.msg_type \notin types => OfType(Append(q, e), types) = OfType(q, types)
           /\ e.msg_type \in types => OfType(Append(q, e), types) = Append(OfType(q, types), e)
  <1> DEFINE S == { i \in DOMAIN q : q[i].msg_type \in types }
             r == Append(q, e)
             T == { i \in DOMAIN r : r[i].msg_type \in types }
             last == Len(q) + 1
  <1>1. /\ Len(q) \in Nat /\ DOMAIN q = 1 .. Len(q) /\ DOMAIN r = 1 .. last
        /\ r[last] = e /\ \A i \in 1 .. Len(q) : r[i] = q[i]
    OBVIOUS
  <1>2. S \in SUBSET (1 .. Len(q)) /\ (\A i \in S : r[i] = q[i])
    BY <1>1
  <1>3. T = IF e.msg_type \in types THEN S \cup {last} ELSE S
    <2> HIDE DEF r
    <2>1. \A i : i \in 1 .. last <=> i = last \/ i \in 1 .. Len(q)
      BY <1>1
    <2>2. last \notin 1 .. Len(q)
      BY <1>1
    <2> HIDE DEF last
    <2> QED BY <1>1, <2>1, <2>2
  <1>4. OfType(q, types) = Picked(q, S) /\ OfType(r, types) = Picked(r, T)
    BY DEF OfType
  <1> HIDE DEF S, T, r
  <1>5. Picked(q, S) \in Seq(E)
    BY <1>2, PickedSeq
  <1>6. Picked(r, S) = Picked(q, S)
    BY <1>2, PickedSame
  <1>7. Picked(r, S \cup {last}) = Append(Picked(q, S), e)
    <2>1. S \in SUBSET (1 .. Len(q)) /\ last = Len(q) + 1 /\ r = Append(q, e)
      BY <1>2 DEF r
    <2>2. \A x, y : x = Append(q, e) /\ y = S \cup {Len(q) + 1} => Picked(x, y) = Append(Picked(q, S), e)
      BY <2>1, PickedAppend
    <2> QED BY <2>1, <2>2
  <1> QED BY <1>3, <1>4, <1>5, <1>6, <1>7 DEF r

(* Messages replaced by others leave every kind they are not of. *)
LEMMA OfTypeReplace ==
    ASSUME NEW E, NEW q \in Seq(E), NEW r \in Seq(E), Len(r) = Len(q), NEW types,
           \A i \in 1 .. Len(q) :
              r[i] = q[i] \/ (q[i].msg_type \notin types /\ r[i].msg_type \notin types)
    PROVE  OfType(r, types) = OfType(q, types)
  <1> DEFINE S == { i \in DOMAIN q : q[i].msg_type \in types }
             T == { i \in DOMAIN r : r[i].msg_type \in types }
  <1>1. DOMAIN q = 1 .. Len(q) /\ DOMAIN r = 1 .. Len(q)
    OBVIOUS
  <1>2. T = S /\ S \in SUBSET (1 .. Len(q)) /\ \A i \in S : r[i] = q[i]
    BY <1>1
  <1>3. OfType(q, types) = Picked(q, S) /\ OfType(r, types) = Picked(r, S)
    BY <1>2 DEF OfType
  <1> HIDE DEF S, T
  <1>4. Picked(r, S) = Picked(q, S)
    BY <1>2, PickedSame
  <1> QED BY <1>3, <1>4
=============================================================================
