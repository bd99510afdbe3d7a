---------------------------- MODULE MemoryProofs ----------------------------
(***************************************************************************)
(* Every frame of RAM has one use, in every state and for any number of    *)
(* frames, pages, processes and shared regions; and what the VMAs, the     *)
(* heap and the shared regions promise to the processes.                   *)
(***************************************************************************)
EXTENDS Memory, SequenceTheorems, OrderLemmas

-----------------------------------------------------------------------------
(* The inductive invariant. *)

Ids == 1 .. MaxShmId

(* The frames a process, and a shared region, can call its own. *)
Own == [p \in Pids |-> TableFrames(p) \cup PrivateFrames(p)]

Shared == [i \in Ids |-> UNION { RegionFrames(r) : r \in { q \in shm : q.id = i } }]

(* RAM is divided among the allocator, what has been given up, the         *)
(* processes and the shared regions.                                       *)
Divided(fr, lo, own, sh) ==
    /\ own \in [Pids -> SUBSET Ram] /\ sh \in [Ids -> SUBSET Ram]
    /\ fr \subseteq Ram /\ lo \subseteq Ram
    /\ \A f \in fr : f \notin lo
    /\ \A p \in Pids : \A f \in own[p] : f \notin fr /\ f \notin lo
    /\ \A i \in Ids : \A f \in sh[i] : f \notin fr /\ f \notin lo
    /\ \A p, q \in Pids : p # q => \A f \in own[p] : f \notin own[q]
    /\ \A i, j \in Ids : i # j => \A f \in sh[i] : f \notin sh[j]
    /\ \A p \in Pids, i \in Ids : \A f \in own[p] : f \notin sh[i]
    /\ \A f \in Ram : \/ f \in fr \/ f \in lo
                      \/ \E p \in Pids : f \in own[p]
                      \/ \E i \in Ids : f \in sh[i]

Partition == Divided(free, leaked, Own, Shared)

(* Inside a process no frame serves twice. *)
ServesOnce(p) ==
    /\ \A t \in Tables : tables[p][t] # NoFrame => tables[p][t] # root[p]
    /\ \A t, u \in Tables : tables[p][t] # NoFrame /\ tables[p][t] = tables[p][u] => t = u
    /\ \A v \in Covered(p) : pt[p][v] # NoFrame => pt[p][v] \notin TableFrames(p)
    /\ \A v, w \in Covered(p) : pt[p][v] # NoFrame /\ pt[p][v] = pt[p][w] => v = w

Absent(p) ==
    /\ vmas[p] = {} /\ root[p] = NoFrame
    /\ \A t \in Tables : tables[p][t] = NoFrame
    /\ \A v \in Pages : pt[p][v] = NoFrame

(* What the layout keeps apart stays apart. *)
RequestsApart == \A p \in Pids : \A v \in Covered(p) : ~ MappedOnRequest(v)

VmaSet == SUBSET [start : 0 .. NUM_PAGES, end : 0 .. NUM_PAGES]

(* What concerns the processes, and what concerns the shared regions. *)
ProcInv ==
    /\ alive \subseteq Pids
    /\ next_pid \in 1 .. MaxPid + 1
    /\ pt \in [Pids -> [Pages -> Frames \cup {NoFrame}]]
    /\ root \in [Pids -> Ram \cup {NoFrame}]
    /\ tables \in [Pids -> [Tables -> Ram \cup {NoFrame}]]
    /\ vmas \in [Pids -> VmaSet]
    /\ heap_break \in [Pids -> 0 .. MaxBreak]
    /\ panicked \in BOOLEAN
    /\ \A p \in alive : p < next_pid /\ HeapBase <= heap_break[p]
    /\ \A p \in Pids : p \notin alive => Absent(p)
    /\ \A p \in Pids : ServesOnce(p)
    /\ RequestsApart
    /\ PagesCovered
    /\ HeapBacked

RegionInv ==
    /\ shm \subseteq Region /\ IsFiniteSet(shm) /\ Cardinality(shm) <= MAX_SHM_REGIONS
    /\ next_shm_id \in 1 .. MaxShmId + 1
    /\ \A r \in shm : /\ r.id < next_shm_id
                      /\ r.owner < next_pid
                      /\ r.owner \in alive => ~ r.owner_exited
    /\ \A r, q \in shm : r.id = q.id => r = q

IInv == ProcInv /\ RegionInv /\ Partition

-----------------------------------------------------------------------------
(* How frames may change hands. *)

(* A process, and a shared region, takes frames from the allocator. *)
LEMMA ProcessTakes ==
    ASSUME NEW fr, NEW lo, NEW own, NEW sh, Divided(fr, lo, own, sh),
           NEW p \in Pids, NEW X, X \subseteq fr
    PROVE  Divided(fr \ X, lo, [own EXCEPT ![p] = @ \cup X], sh)
  BY DEF Divided

(* The same of a shared region. *)
LEMMA RegionTakes ==
    ASSUME NEW fr, NEW lo, NEW own, NEW sh, Divided(fr, lo, own, sh),
           NEW i \in Ids, NEW X, X \subseteq fr
    PROVE  Divided(fr \ X, lo, own, [sh EXCEPT ![i] = @ \cup X])
  BY DEF Divided

(* Frames are given up, by the allocator or by a process. *)
LEMMA AllocatorLoses ==
    ASSUME NEW fr, NEW lo, NEW own, NEW sh, Divided(fr, lo, own, sh),
           NEW X, X \subseteq fr
    PROVE  Divided(fr \ X, lo \cup X, own, sh)
  BY DEF Divided

(* The same of a process. *)
LEMMA ProcessLoses ==
    ASSUME NEW fr, NEW lo, NEW own, NEW sh, Divided(fr, lo, own, sh),
           NEW p \in Pids, NEW X, X \subseteq own[p]
    PROVE  Divided(fr, lo \cup X, [own EXCEPT ![p] = @ \ X], sh)
  BY DEF Divided

(* A process, or a set of shared regions, gives frames back. *)
LEMMA ProcessReturns ==
    ASSUME NEW fr, NEW lo, NEW own, NEW sh, Divided(fr, lo, own, sh),
           NEW p \in Pids, NEW X, X \subseteq own[p]
    PROVE  Divided(fr \cup X, lo, [own EXCEPT ![p] = @ \ X], sh)
  BY DEF Divided

(* The same of shared regions. *)
LEMMA RegionsReturn ==
    ASSUME NEW fr, NEW lo, NEW own, NEW sh, Divided(fr, lo, own, sh),
           NEW J \in SUBSET Ids
    PROVE  Divided(fr \cup UNION { sh[i] : i \in J }, lo, own,
                   [i \in Ids |-> IF i \in J THEN {} ELSE sh[i]])
  BY DEF Divided

-----------------------------------------------------------------------------
(* FrameAllocator::alloc: as many different frames as there are needs. *)

(* A request for several frames gets different free ones. *)
LEMMA GrantedFacts ==
    ASSUME NEW needs, IsFiniteSet(needs), NEW avail \in SUBSET Nat, IsFiniteSet(avail),
           Enough(needs, avail)
    PROVE  /\ Granted(needs, avail) \in [needs -> avail]
           /\ \A x, y \in needs : Granted(needs, avail)[x] = Granted(needs, avail)[y] => x = y
  <1>0. \A f : IsFiniteSet(UpToIn(avail, f))
    BY FS_Subset DEF UpToIn
  <1> DEFINE n == Cardinality(needs)
             Place(i) == CHOOSE f \in avail : Cardinality(UpToIn(avail, f)) = i
  <1>1. n \in Nat /\ Cardinality(avail) \in Nat /\ n <= Cardinality(avail)
    BY FS_CardinalityType DEF Enough
  <1>2. PICK b \in Bijection(1 .. n, needs) : TRUE
    BY FS_CardinalityType DEF ExistsBijection
  <1>3. ASSUME NEW i \in 1 .. n
        PROVE  /\ Place(i) \in avail /\ Cardinality(UpToIn(avail, Place(i))) = i
               /\ Place(i) \in Lowest(avail, n)
    <2>1. i \in 1 .. Cardinality(avail)
      BY <1>1
    <2>2. \E f \in avail : Cardinality(UpToIn(avail, f)) = i
      BY <2>1, EveryPlace
    <2>3. Place(i) \in avail /\ Cardinality(UpToIn(avail, Place(i))) = i
      BY <2>2
    <2> HIDE DEF Place
    <2>4. { g \in avail : g < Place(i) } = UpToIn(avail, Place(i)) \ {Place(i)}
      <3>1. Place(i) \in Nat /\ \A g \in avail : g \in Nat
        BY <2>3
      <3>2. \A g \in avail : g < Place(i) <=> (g <= Place(i) /\ g # Place(i))
        BY <3>1
      <3> QED BY <3>2 DEF UpToIn
    <2>5. IsFiniteSet(UpToIn(avail, Place(i)))
      BY <1>0
    <2>6. Place(i) \in UpToIn(avail, Place(i))
      <3>1. Place(i) \in Nat
        BY <2>3
      <3> QED BY <2>3, <3>1 DEF UpToIn
    <2>7. Cardinality({ g \in avail : g < Place(i) }) = i - 1
      BY <2>3, <2>4, <2>5, <2>6, FS_RemoveElement
    <2>8. i - 1 < n
      BY <1>1
    <2>9. Place(i) \in Lowest(avail, n)
      BY <2>3, <2>7, <2>8 DEF Lowest
    <2> QED BY <2>3, <2>9
  <1> HIDE DEF Place
  <1> DEFINE inv(x) == CHOOSE i \in 1 .. n : b[i] = x
             a == [x \in needs |-> Place(inv(x))]
  <1>4. \A x \in needs : inv(x) \in 1 .. n /\ b[inv(x)] = x
    BY <1>2 DEF Bijection, Surjection
  <1> HIDE DEF inv
  <1>5. a \in [needs -> Lowest(avail, n)]
    BY <1>3, <1>4
  <1>6. ASSUME NEW x \in needs, NEW y \in needs, a[x] = a[y] PROVE x = y
    <2>1. Place(inv(x)) = Place(inv(y))
      BY <1>6
    <2>2. inv(x) = inv(y)
      BY <1>3, <1>4, <2>1
    <2> QED BY <1>4, <2>2
  <1>7. IsInjective(a)
    BY <1>5, <1>6 DEF IsInjective
  <1> HIDE DEF a
  <1>8. /\ Granted(needs, avail) \in [needs -> Lowest(avail, n)]
        /\ IsInjective(Granted(needs, avail))
    BY <1>5, <1>7 DEF Granted
  <1>9. Lowest(avail, n) \subseteq avail
    BY DEF Lowest
  <1> QED BY <1>8, <1>9 DEF IsInjective

-----------------------------------------------------------------------------
(* load_elf: the frames it asks for, and those it gets. *)

(* Pages, tables and frames are finitely many, and load_elf maps pages     *)
(* there are.                                                              *)
LEMMA PagesFacts ==
    /\ Pages \subseteq Nat /\ IsFiniteSet(Pages) /\ IsFiniteSet(Tables)
    /\ Ram \subseteq Nat /\ IsFiniteSet(Ram) /\ NoFrame \notin Ram
    /\ \A v \in Pages : TableOf(v) \in Tables
    /\ LoadedPages \subseteq Pages
  <1>1. NUM_PAGES \in Nat /\ NUM_FRAMES \in Nat
    BY SizesAssumption
  <1>2. Pages \subseteq Nat /\ IsFiniteSet(Pages)
    <2>1. NUM_PAGES - 1 \in Int /\ 0 \in Int
      BY <1>1
    <2>2. IsFiniteSet(0 .. NUM_PAGES - 1)
      BY <2>1, FS_Interval
    <2> QED BY <2>2 DEF Pages
  <1>3. Ram \subseteq Nat /\ IsFiniteSet(Ram) /\ NoFrame \notin Ram
    BY <1>1, FS_Interval DEF Ram, NoFrame
  <1>4. \A v \in Pages : TableOf(v) \in Tables
    BY DEF TableOf, Tables
  <1>5. IsFiniteSet(Tables)
    <2> DEFINE f == [v \in Pages |-> v \div PAGES_PER_TABLE]
    <2>1. f \in Surjection(Pages, Tables)
      BY DEF Surjection, Tables
    <2> QED BY <1>2, <2>1, FS_Surjection
  <1>6. LoadedPages \subseteq Pages
    BY <1>1, LayoutAssumption DEF LoadedPages, Pages
  <1> QED BY <1>2, <1>3, <1>4, <1>5, <1>6

(* A frame is RAM or one that MAP_PHYSICAL is asked for. *)
LEMMA FramesFacts ==
    /\ Ram \subseteq Frames
    /\ \A f \in PhysicalAt, n \in PhysicalSizes : \A x \in f .. f + n - 1 : x \in Frames
  <1>1. Ram \subseteq Frames
    BY DEF Frames
  <1>2. ASSUME NEW f \in PhysicalAt, NEW n \in PhysicalSizes, NEW x \in f .. f + n - 1
        PROVE  x \in Frames
    <2> DEFINE D == { g .. g + k - 1 : g \in PhysicalAt, k \in PhysicalSizes }
    <2>1. f .. f + n - 1 \in D
      BY SMT
    <2> HIDE DEF D
    <2>2. x \in UNION D
      BY <2>1
    <2> QED BY <2>2 DEF Frames, D
  <1> QED BY <1>1, <1>2

(* load_elf comes to each page at a turn of its own. *)
LEMMA TurnFacts ==
    /\ \A v \in LoadedPages : Turn(v) \in 0 .. 2 * NUM_PAGES
    /\ \A v, w \in LoadedPages : Turn(v) = Turn(w) => v = w
  <1>1. \A v \in LoadedPages : v \in 0 .. NUM_PAGES - 1
    BY PagesFacts DEF Pages
  <1>2. NUM_PAGES \in Nat
    BY SizesAssumption
  <1> QED BY <1>1, <1>2 DEF Turn

(* When the table t is asked for: with the first page below it. *)
FirstTurn(t) == Min({ Turn(v) : v \in { w \in LoadedPages : TableOf(w) = t } })

(* A table is asked for with the first of its pages. *)
LEMMA FirstTurnFacts ==
    ASSUME NEW u \in LoadedPages
    PROVE  \E v \in LoadedPages : TableOf(v) = TableOf(u) /\ FirstTurn(TableOf(u)) = Turn(v)
  <1> DEFINE S == { Turn(v) : v \in { w \in LoadedPages : TableOf(w) = TableOf(u) } }
  <1>1. S \in SUBSET Nat /\ Turn(u) \in S
    BY TurnFacts, SizesAssumption
  <1>2. PICK x \in S : \A y \in S : x <= y
    BY <1>1, LeastNat
  <1>3. Min(S) \in S
    BY <1>1, <1>2 DEF Min
  <1>4. FirstTurn(TableOf(u)) = Min(S)
    BY DEF FirstTurn
  <1> QED BY <1>3, <1>4

(* The place of each request in the order of load_elf. *)
LEMMA OrderFacts ==
    /\ Order(Root) = 0
    /\ \A v \in LoadedPages : Order(Page(v)) = 1 + 2 * Turn(v)
    /\ \A t : Order(Table(t)) = 2 + 2 * FirstTurn(t)
  BY DEF Order, Root, Page, Table, FirstTurn

(* No two requests of load_elf have the same place: what it is served      *)
(* before memory runs out is no more than there is.                        *)
LEMMA OrderInjective ==
    /\ \A a \in Needs : Order(a) \in 0 .. 4 * NUM_PAGES + 2
    /\ \A a, b \in Needs : Order(a) = Order(b) => a = b
  <1>1. NUM_PAGES \in Nat
    BY SizesAssumption
  <1>2. ASSUME NEW a \in Needs
        PROVE  \/ a = Root
               \/ \E v \in LoadedPages : a = Page(v)
               \/ \E v \in LoadedPages : a = Table(TableOf(v)) /\ Order(a) = 2 + 2 * Turn(v)
    <2>1. CASE \E u \in LoadedPages : a = Table(TableOf(u))
      <3>1. PICK u \in LoadedPages : a = Table(TableOf(u))
        BY <2>1
      <3>2. PICK v \in LoadedPages :
              TableOf(v) = TableOf(u) /\ FirstTurn(TableOf(u)) = Turn(v)
        BY FirstTurnFacts
      <3> QED BY <3>1, <3>2, OrderFacts
    <2>2. a = Root \/ (\E v \in LoadedPages : a = Page(v)) \/ \E u \in LoadedPages : a = Table(TableOf(u))
      BY DEF Needs
    <2> QED BY <2>1, <2>2
  <1>3. \A v \in LoadedPages : Turn(v) \in Nat /\ Turn(v) <= 2 * NUM_PAGES
    BY <1>1, TurnFacts
  <1>4. ASSUME NEW a \in Needs PROVE Order(a) \in 0 .. 4 * NUM_PAGES + 2
    BY <1>1, <1>2, <1>3, OrderFacts
  <1> DEFINE IsRoot(a) == a = Root /\ Order(a) = 0
             IsPage(a) == \E v \in LoadedPages : a = Page(v) /\ Order(a) = 1 + 2 * Turn(v)
             IsTable(a) == \E v \in LoadedPages : a = Table(TableOf(v)) /\ Order(a) = 2 + 2 * Turn(v)
  <1>5. \A a \in Needs : IsRoot(a) \/ IsPage(a) \/ IsTable(a)
    BY <1>2, OrderFacts
  <1>6. \A n, m \in Nat : 1 + 2 * n # 2 + 2 * m /\ (1 + 2 * n = 1 + 2 * m => n = m)
                          /\ (2 + 2 * n = 2 + 2 * m => n = m) /\ 1 + 2 * n # 0 /\ 2 + 2 * n # 0
    OBVIOUS
  <1>7. ASSUME NEW a \in Needs, NEW b \in Needs, Order(a) = Order(b) PROVE a = b
    <2>1. CASE IsRoot(a)
      BY <1>3, <1>5, <1>6, <1>7, <2>1
    <2>2. CASE IsPage(a)
      BY <1>3, <1>5, <1>6, <1>7, <2>2, TurnFacts
    <2>3. CASE IsTable(a)
      <3>1. PICK v \in LoadedPages : a = Table(TableOf(v)) /\ Order(a) = 2 + 2 * Turn(v)
        BY <2>3
      <3>2. CASE IsTable(b)
        <4>1. PICK w \in LoadedPages : b = Table(TableOf(w)) /\ Order(b) = 2 + 2 * Turn(w)
          BY <3>2
        <4>2. Turn(v) = Turn(w)
          <5>1. Turn(v) \in Nat /\ Turn(w) \in Nat
            BY <1>3
          <5>2. 2 + 2 * Turn(v) = 2 + 2 * Turn(w)
            BY <1>7, <3>1, <4>1
          <5> QED BY <1>6, <5>1, <5>2
        <4> QED BY <3>1, <4>1, <4>2, TurnFacts
      <3>3. CASE IsPage(b)
        BY <1>3, <1>6, <1>7, <3>1, <3>3
      <3>4. CASE IsRoot(b)
        BY <1>3, <1>6, <1>7, <3>1, <3>4
      <3> QED BY <1>5, <3>2, <3>3, <3>4
    <2> QED BY <1>5, <2>1, <2>2, <2>3
  <1> QED BY <1>4, <1>7

(* What load_elf gets is no more than there is. *)
LEMMA ServedFacts ==
    ASSUME IsFiniteSet(free)
    PROVE  Served \subseteq Needs /\ IsFiniteSet(Served) /\ Enough(Served, free)
  <1> DEFINE Before(a) == { b \in Needs : Order(b) < Order(a) }
  <1>1. IsFiniteSet(Needs)
    <2> DEFINE f == [a \in Needs |-> Order(a)]
    <2>1. f \in Injection(Needs, 0 .. 4 * NUM_PAGES + 2)
      BY OrderInjective DEF Injection, IsInjective
    <2>2. 4 * NUM_PAGES + 2 \in Int /\ 0 \in Int
      BY SizesAssumption
    <2>3. IsFiniteSet(0 .. 4 * NUM_PAGES + 2)
      BY <2>2, FS_Interval
    <2> QED BY <2>1, <2>3, FS_Injection
  <1>2. \A a : IsFiniteSet(Before(a)) /\ Cardinality(Before(a)) \in Nat
    BY <1>1, FS_Subset, FS_CardinalityType
  <1>3. \A a \in Needs : Order(a) \in Nat
    BY OrderInjective, SizesAssumption
  <1>4. ASSUME NEW a \in Needs, NEW b \in Needs, Order(a) < Order(b)
        PROVE  Cardinality(Before(a)) # Cardinality(Before(b))
    <2>1. Before(a) \in SUBSET Before(b)
      BY <1>3, <1>4
    <2>2. a \in Before(b) /\ a \notin Before(a)
      BY <1>3, <1>4
    <2> HIDE DEF Before
    <2>3. Before(a) # Before(b)
      BY <2>2
    <2> QED BY <1>2, <2>1, <2>3, FS_Subset
  <1> DEFINE n == Cardinality(free)
             g == [a \in Served |-> Cardinality(Before(a))]
  <1>5. n \in Nat
    BY FS_CardinalityType
  <1>6. Served = { a \in Needs : Cardinality(Before(a)) < n }
    BY DEF Served, Earlier
  <1> HIDE DEF Before
  <1>7. g \in [Served -> 0 .. n - 1]
    BY <1>2, <1>5, <1>6
  <1>8. ASSUME NEW a \in Served, NEW b \in Served, g[a] = g[b] PROVE a = b
    <2>1. a \in Needs /\ b \in Needs /\ Cardinality(Before(a)) = Cardinality(Before(b))
      BY <1>6, <1>8
    <2>2. ~ (Order(a) < Order(b)) /\ ~ (Order(b) < Order(a))
      BY <1>4, <2>1
    <2>3. Order(a) = Order(b)
      BY <1>3, <2>1, <2>2
    <2> QED BY <2>1, <2>3, OrderInjective
  <1>9. g \in Injection(Served, 0 .. n - 1)
    BY <1>7, <1>8 DEF Injection, IsInjective
  <1>10. IsFiniteSet(0 .. n - 1) /\ Cardinality(0 .. n - 1) = n
    <2>1. n - 1 \in Int /\ 0 \in Int
      BY <1>5
    <2>2. IsFiniteSet(0 .. n - 1) /\ Cardinality(0 .. n - 1) = IF 0 > n - 1 THEN 0 ELSE n - 1 - 0 + 1
      BY <2>1, FS_Interval
    <2> QED BY <1>5, <2>2
  <1> HIDE DEF g
  <1>11. Cardinality(Served) <= n
    BY <1>9, <1>10, FS_Injection
  <1>12. Served \subseteq Needs
    BY <1>6
  <1> QED BY <1>1, <1>11, <1>12, FS_Subset DEF Enough

(* A load that succeeds has got its root. *)
LEMMA RootServed ==
    ASSUME LoadSucceeds PROVE Root \in Served
  <1>1. Root \in Needs /\ Root.what # "page"
    BY DEF Needs, Root
  <1>2. \A b \in Needs \ Served : Order(Root) <= Order(b)
    BY OrderFacts, OrderInjective, SizesAssumption
  <1> QED BY <1>1, <1>2 DEF LoadSucceeds, FailsAt

-----------------------------------------------------------------------------
(* What a process has does not change when its own entries do not. *)

Same(p) == /\ vmas'[p] = vmas[p] /\ pt'[p] = pt[p]
           /\ root'[p] = root[p] /\ tables'[p] = tables[p]

(* What is derived from the tables and VMAs of a process stays when they   *)
(* do.                                                                     *)
LEMMA SameKeeps ==
    ASSUME NEW p \in Pids, Same(p)
    PROVE  /\ Covered(p)' = Covered(p)
           /\ TableFrames(p)' = TableFrames(p)
           /\ PrivateFrames(p)' = PrivateFrames(p)
           /\ ServesOnce(p) => ServesOnce(p)'
           /\ Absent(p) => Absent(p)'
  <1>1. Covered(p)' = Covered(p)
    BY DEF Same, Covered
  <1>2. TableFrames(p)' = TableFrames(p)
    BY DEF Same, TableFrames
  <1>3. PrivateFrames(p)' = PrivateFrames(p)
    BY <1>1 DEF Same, PrivateFrames
  <1>4. ServesOnce(p) => ServesOnce(p)'
    BY <1>1, <1>2 DEF Same, ServesOnce
  <1>5. Absent(p) => Absent(p)'
    BY DEF Same, Absent
  <1> QED BY <1>1, <1>2, <1>3, <1>4, <1>5

(* When only one process changes, so does only its share of RAM. *)
LEMMA OwnChanges ==
    ASSUME NEW p \in Pids, \A q \in Pids : q # p => Same(q),
           NEW S, TableFrames(p)' \cup PrivateFrames(p)' = S
    PROVE  Own' = [Own EXCEPT ![p] = S]
  <1>1. \A q \in Pids : q # p =>
           TableFrames(q)' = TableFrames(q) /\ PrivateFrames(q)' = PrivateFrames(q)
    BY SameKeeps
  <1>2. \A q \in Pids : TableFrames(q)' \cup PrivateFrames(q)' =
                           IF q = p THEN S ELSE TableFrames(q) \cup PrivateFrames(q)
    BY <1>1
  <1>3. Own' = [q \in Pids |-> TableFrames(q)' \cup PrivateFrames(q)']
    BY DEF Own
  <1>4. Own' = [q \in Pids |-> IF q = p THEN S ELSE TableFrames(q) \cup PrivateFrames(q)]
    BY <1>2, <1>3
  <1> QED BY <1>4 DEF Own

(* The frames of a process are its tables and its private pages. *)
LEMMA OwnFacts ==
    \A p \in Pids : Own[p] = TableFrames(p) \cup PrivateFrames(p)
  BY DEF Own

(* A page is covered when a VMA contains it. *)
LEMMA CoveredFacts ==
    /\ \A p : Covered(p) \subseteq Pages
    /\ \A p, v : v \in Covered(p) <=> (v \in Pages /\ \E vma \in vmas[p] : vma.start <= v /\ v < vma.end)
  BY DEF Covered, PagesOf

(* The same in the next state. *)
LEMMA CoveredFactsNext ==
    /\ \A p : Covered(p)' \subseteq Pages
    /\ \A p, v : v \in Covered(p)' <=> (v \in Pages /\ \E vma \in vmas'[p] : vma.start <= v /\ v < vma.end)
  BY DEF Covered, PagesOf

(* The shared regions, seen from a frame. *)
LEMMA SharedFacts ==
    \A i \in Ids : \A f : f \in Shared[i] <=> \E r \in shm : r.id = i /\ f \in RegionFrames(r)
  BY DEF Shared

(* The same in the next state. *)
LEMMA SharedFactsNext ==
    /\ Shared' = [i \in Ids |-> UNION { RegionFrames(r) : r \in { q \in shm' : q.id = i } }]
    /\ \A i \in Ids : \A f : f \in Shared'[i] <=> \E r \in shm' : r.id = i /\ f \in RegionFrames(r)
  <1>1. Shared' = [i \in Ids |-> UNION { RegionFrames(r) : r \in { q \in shm' : q.id = i } }]
    BY DEF Shared, RegionFrames
  <1> QED BY <1>1

(* The heap begins at a page boundary. *)
LEMMA HeapBaseEven == \E k \in Nat : HeapBase = 2 * k
  <1>1. SegmentPages \in SUBSET Nat /\ SegmentPages # {} /\ NUM_PAGES \in Nat
        /\ \A v \in SegmentPages : v <= NUM_PAGES - 1
    BY LayoutAssumption, SizesAssumption DEF Pages
  <1> DEFINE S == { NUM_PAGES - 1 - v : v \in SegmentPages }
  <1>2. S \in SUBSET Nat /\ S # {}
    <2>1. \A v \in SegmentPages : v \in Nat /\ v <= NUM_PAGES - 1
      BY <1>1
    <2>2. \A v \in SegmentPages : NUM_PAGES - 1 - v \in Nat
      BY <1>1, <2>1
    <2> QED BY <1>1, <2>2
  <1>3. PICK x \in S : \A y \in S : x <= y
    BY <1>2, LeastNat
  <1>4. PICK m \in SegmentPages : x = NUM_PAGES - 1 - m
    BY <1>3
  <1>5. ASSUME NEW w \in SegmentPages PROVE m >= w
    <2>1. x <= NUM_PAGES - 1 - w
      BY <1>3
    <2> QED BY <1>1, <1>4, <2>1
  <1>6. Max(SegmentPages) \in SegmentPages
    BY <1>4, <1>5 DEF Max
  <1>7. Max(SegmentPages) + 1 \in Nat /\ HeapBase = 2 * (Max(SegmentPages) + 1)
    <2>1. Max(SegmentPages) \in Nat
      BY <1>1, <1>6
    <2>2. HeapBase = 2 * (Max(SegmentPages) + 1)
      BY DEF HeapBase
    <2> QED BY <2>1, <2>2
  <1> QED BY <1>7

-----------------------------------------------------------------------------
(* SBRK and MMAP: a VMA is added, over pages that nothing is mapped at. *)

(* A process gets a new VMA away from what is mapped on request. *)
LEMMA GrowKeeps ==
    ASSUME IInv, NEW p \in alive, NEW s \in 0 .. NUM_PAGES, NEW e \in 0 .. NUM_PAGES,
           vmas' = [vmas EXCEPT ![p] = @ \cup {Vma(s, e)}],
           \A v \in Pages : s <= v /\ v < e => ~ MappedOnRequest(v),
           UNCHANGED << free, alive, next_pid, pt, root, tables, shm, next_shm_id,
                        panicked, leaked >>,
           heap_break' \in [Pids -> 0 .. MaxBreak],
           \A q \in alive : HeapBase <= heap_break'[q],
           HeapBacked'
    PROVE  IInv'
  <1>1. p \in Pids /\ \A q \in Pids : q # p => Same(q)
    BY DEF IInv, ProcInv, Same
  <1>2. vmas' \in [Pids -> VmaSet]
    BY <1>1 DEF IInv, ProcInv, VmaSet, Vma
  <1>3. \A v : v \in Covered(p)' <=> (v \in Covered(p) \/ (v \in Pages /\ s <= v /\ v < e))
    <2>1. vmas'[p] = vmas[p] \cup {Vma(s, e)}
      BY <1>1 DEF IInv, ProcInv
    <2>2. Vma(s, e).start = s /\ Vma(s, e).end = e
      BY DEF Vma
    <2> QED BY <2>1, <2>2, CoveredFacts, CoveredFactsNext
  (* The pages that are new are not mapped. *)
  <1>4. \A v \in Covered(p)' : v \notin Covered(p) => pt[p][v] = NoFrame
    BY <1>1, <1>3 DEF IInv, ProcInv, PagesCovered
  <1>5. PrivateFrames(p)' = PrivateFrames(p) /\ TableFrames(p)' = TableFrames(p)
    <2>1. TableFrames(p)' = TableFrames(p)
      BY DEF TableFrames
    <2>2. PrivateFrames(p)' = { pt[p][v] : v \in Covered(p)' } \ {NoFrame}
      BY DEF PrivateFrames
    <2>3. PrivateFrames(p)' = PrivateFrames(p)
      BY <1>3, <1>4, <2>2 DEF PrivateFrames
    <2> QED BY <2>1, <2>3
  <1>6. ServesOnce(p)'
    <2>1. ServesOnce(p)
      BY <1>1 DEF IInv, ProcInv
    <2> QED BY <1>3, <1>4, <1>5, <2>1 DEF ServesOnce
  <1>7. \A q \in Pids : ServesOnce(q)' /\ (q \notin alive => Absent(q)')
    BY <1>1, <1>6, SameKeeps DEF IInv, ProcInv
  <1>8. RequestsApart'
    <2>1. \A q \in Pids : q # p => Covered(q)' = Covered(q)
      BY <1>1, SameKeeps
    <2>2. \A v \in Covered(p)' : ~ MappedOnRequest(v)
      BY <1>1, <1>3 DEF IInv, ProcInv, RequestsApart
    <2> QED BY <2>1, <2>2 DEF IInv, ProcInv, RequestsApart
  <1>9. PagesCovered'
    <2>1. \A q \in Pids : Covered(q) \subseteq Covered(q)'
      BY <1>1, <1>3, SameKeeps
    <2>2. \A q \in alive : q \in Pids
      BY DEF IInv, ProcInv
    <2> QED BY <2>1, <2>2 DEF IInv, ProcInv, PagesCovered
  <1>10. Own' = Own /\ Shared' = Shared
    <2>1. Own' = [Own EXCEPT ![p] = TableFrames(p) \cup PrivateFrames(p)]
      BY <1>1, <1>5, OwnChanges
    <2> QED BY <1>1, <2>1 DEF Own, Shared, RegionFrames
  <1>11. Partition'
    BY <1>10 DEF IInv, Partition
  <1>12. RegionInv'
    BY DEF IInv, RegionInv
  <1>13. ProcInv'
    BY <1>2, <1>7, <1>8, <1>9 DEF IInv, ProcInv
  <1> QED BY <1>11, <1>12, <1>13 DEF IInv

(* SYS_SBRK, at any break and by any increment. *)
LEMMA SbrkIInv ==
    ASSUME IInv, NEW p \in Pids, NEW increment \in Increments, SysSbrk(p, increment)
    PROVE  IInv'
  <1> DEFINE old == heap_break[p]
             new == heap_break[p] + increment
  <1>1. /\ p \in alive /\ new <= MaxBreak
        /\ vmas' = [vmas EXCEPT ![p] = @ \cup {Vma(AlignUp(old), AlignUp(new))}]
        /\ heap_break' = [heap_break EXCEPT ![p] = new]
        /\ UNCHANGED << free, alive, next_pid, pt, root, tables, shm, next_shm_id, panicked, leaked >>
    BY DEF SysSbrk, Runs
  <1>2. /\ old \in Nat /\ increment \in Nat /\ new \in Nat /\ MaxBreak \in Nat /\ old <= MaxBreak
        /\ HeapBase <= old
    BY <1>1, SizesAssumption, LayoutAssumption DEF IInv, ProcInv
  <1>3. NUM_PAGES \in Nat /\ AlignUp(MaxBreak) <= NUM_PAGES
    BY SizesAssumption, LayoutAssumption
  <1>4. AlignUp(old) \in 0 .. NUM_PAGES /\ AlignUp(new) \in 0 .. NUM_PAGES
        /\ AlignUp(new) <= AlignUp(MaxBreak)
    <2> HIDE DEF old, new
    <2> QED BY <1>1, <1>2, <1>3 DEF AlignUp
  <1>5. \A v \in Pages : AlignUp(old) <= v /\ v < AlignUp(new) => ~ MappedOnRequest(v)
    <2>1. \A v \in Pages : MappedOnRequest(v) => AlignUp(MaxBreak) <= v
      BY ProgramsAssumption
    <2>2. AlignUp(MaxBreak) \in Nat /\ \A v \in Pages : v \in Nat
      BY <1>2, PagesFacts DEF AlignUp
    <2> HIDE DEF old, new
    <2> QED BY <1>3, <1>4, <2>1, <2>2
  <1>6. /\ heap_break' \in [Pids -> 0 .. MaxBreak]
        /\ \A q \in alive : HeapBase <= heap_break'[q]
        /\ \A q \in Pids : q # p => heap_break'[q] = heap_break[q]
        /\ heap_break'[p] = new
    <2>1. HeapBase \in Nat
      BY HeapBaseEven
    <2>2. \A q \in alive : HeapBase <= heap_break[q] /\ q \in Pids
      BY DEF IInv, ProcInv
    <2>3. HeapBase <= new
      BY <1>2, <2>1
    <2>4. heap_break' \in [Pids -> 0 .. MaxBreak]
      BY <1>1, <1>2 DEF IInv, ProcInv
    <2>5. \A q \in Pids : heap_break'[q] = IF q = p THEN new ELSE heap_break[q]
      BY <1>1 DEF IInv, ProcInv
    <2> QED BY <2>2, <2>3, <2>4, <2>5
  <1>7. HeapBacked'
    <2>1. ASSUME NEW q \in alive, q # p PROVE \A b \in HeapBase .. heap_break'[q] - 1 : b \div 2 \in Covered(q)'
      <3>1. q \in Pids /\ Covered(q)' = Covered(q) /\ heap_break'[q] = heap_break[q]
        BY <1>1, <1>6, <2>1, SameKeeps DEF IInv, ProcInv, Same
      <3> QED BY <3>1 DEF IInv, ProcInv, HeapBacked
    <2>2. ASSUME NEW b \in HeapBase .. new - 1 PROVE b \div 2 \in Covered(p)'
      <3>1. HeapBase \in Int /\ b \in Nat /\ b < new
        BY <1>2, HeapBaseEven
      <3>2. b \div 2 \in Pages
        <4> HIDE DEF old, new
        <4> QED BY <1>1, <1>2, <1>3, <3>1 DEF Pages, AlignUp
      <3>3. \A v \in Covered(p) : v \in Covered(p)'
        BY <1>1, CoveredFacts, CoveredFactsNext DEF IInv, ProcInv
      <3>4. CASE \E c \in HeapBase .. old - 1 : c \div 2 = b \div 2
        BY <1>1, <3>3, <3>4 DEF IInv, ProcInv, HeapBacked
      <3>5. CASE AlignUp(old) <= b \div 2 /\ b \div 2 < AlignUp(new)
        <4>1. Vma(AlignUp(old), AlignUp(new)) \in vmas'[p]
          BY <1>1 DEF IInv, ProcInv
        <4>2. /\ Vma(AlignUp(old), AlignUp(new)).start = AlignUp(old)
              /\ Vma(AlignUp(old), AlignUp(new)).end = AlignUp(new)
          BY DEF Vma
        <4> QED BY <3>2, <3>5, <4>1, <4>2, CoveredFactsNext
      <3>6. \/ \E c \in HeapBase .. old - 1 : c \div 2 = b \div 2
            \/ AlignUp(old) <= b \div 2 /\ b \div 2 < AlignUp(new)
        <4> HIDE DEF old, new
        <4>1. CASE b < old
          BY <1>2, <3>1, <4>1
        <4>2. CASE b >= old /\ b \div 2 < AlignUp(old)
          <5>1. old - 1 \in HeapBase .. old - 1 /\ (old - 1) \div 2 = b \div 2
            BY <1>2, <3>1, <4>2, HeapBaseEven DEF AlignUp
          <5> QED BY <5>1
        <4>3. CASE AlignUp(old) <= b \div 2
          BY <1>2, <3>1, <4>3 DEF AlignUp
        <4> QED BY <1>2, <3>1, <4>1, <4>2, <4>3 DEF AlignUp
      <3> QED BY <3>4, <3>5, <3>6
    <2> QED BY <1>1, <1>6, <2>1, <2>2 DEF HeapBacked
  <1> HIDE DEF old, new
  <1> QED BY <1>1, <1>4, <1>5, <1>6, <1>7, GrowKeeps

(* SYS_MMAP, at the hint or behind what is in its way. *)
LEMMA MmapIInv ==
    ASSUME IInv, NEW p \in Pids, NEW hint \in MmapHints, NEW n \in MapSizes, SysMmap(p, hint, n)
    PROVE  IInv'
  <1>1. PICK c \in Pages :
          /\ IsFreeRegion(p, hint, n, c)
          /\ vmas' = [vmas EXCEPT ![p] = @ \cup {Vma(c, c + n)}]
    BY DEF SysMmap
  <1>2. /\ p \in alive
        /\ UNCHANGED << free, alive, next_pid, pt, root, tables, heap_break, shm,
                        next_shm_id, panicked, leaked >>
    BY DEF SysMmap, Runs
  <1>3. /\ c \in Nat /\ n \in Nat /\ hint \in Nat /\ NUM_PAGES \in Nat /\ MAX_ADDR \in Nat
        /\ hint <= c /\ c + n <= MAX_ADDR /\ MAX_ADDR <= NUM_PAGES
    BY <1>1, SizesAssumption, LayoutAssumption, PagesFacts DEF IsFreeRegion
  <1>4. c \in 0 .. NUM_PAGES /\ c + n \in 0 .. NUM_PAGES
    BY <1>3
  <1>5. \A v \in Pages : c <= v /\ v < c + n => ~ MappedOnRequest(v)
    <2>1. \A v \in Pages : MappedOnRequest(v) => ~ (hint <= v /\ v < MAX_ADDR)
      BY ProgramsAssumption
    <2>2. \A v \in Pages : v \in Nat
      BY PagesFacts
    <2> QED BY <1>3, <2>1, <2>2
  <1>6. heap_break' = heap_break /\ \A q \in alive : HeapBase <= heap_break'[q]
    BY <1>2 DEF IInv, ProcInv
  <1>7. HeapBacked'
    <2>1. \A q \in Pids : Covered(q) \subseteq Covered(q)'
      BY <1>1, CoveredFacts, CoveredFactsNext DEF IInv, ProcInv
    <2> QED BY <1>2, <2>1 DEF IInv, ProcInv, HeapBacked
  <1> QED BY <1>1, <1>2, <1>4, <1>5, <1>6, <1>7, GrowKeeps DEF IInv, ProcInv

-----------------------------------------------------------------------------
(* MUNMAP and SHM_UNMAP: pages are unmapped, and the frames of those that  *)
(* are the process's own are given up.                                     *)

(* Pages are unmapped; the frames of those that were covered are given up. *)
LEMMA UnmapKeeps ==
    ASSUME IInv, NEW p \in alive, NEW v \in Nat, NEW n \in Nat,
           pt' = Unmapped(p, v, n),
           leaked' = leaked \cup ({ pt[p][w] : w \in Covered(p) \cap (v .. v + n - 1) } \ {NoFrame}),
           \/ vmas' = vmas
           \/ vmas' = [vmas EXCEPT ![p] = @ \ {Vma(v, v + n)}] /\ AlignUp(MaxBreak) <= v,
           UNCHANGED << alive, next_pid, root, tables, heap_break, panicked >>
    PROVE  ProcInv' /\ Divided(free, leaked', Own', Shared)
  <1> DEFINE R == v .. v + n - 1
             X == { pt[p][w] : w \in Covered(p) \cap R } \ {NoFrame}
  <1>1. p \in Pids /\ \A q \in Pids : q # p => Same(q)
    BY DEF IInv, ProcInv, Same, Unmapped
  <1>2. vmas' \in [Pids -> VmaSet]
    BY <1>1 DEF IInv, ProcInv, VmaSet
  <1>3. /\ Covered(p)' \subseteq Covered(p)
        /\ \A w \in Covered(p) : w \in Covered(p)' \/ (w \in R /\ AlignUp(MaxBreak) <= v)
    <2>1. CASE vmas' = vmas
      BY <2>1, CoveredFacts, CoveredFactsNext
    <2>2. CASE vmas' = [vmas EXCEPT ![p] = @ \ {Vma(v, v + n)}] /\ AlignUp(MaxBreak) <= v
      <3>1. vmas'[p] = vmas[p] \ {Vma(v, v + n)}
        BY <1>1, <2>2 DEF IInv, ProcInv
      <3>2. Vma(v, v + n).start = v /\ Vma(v, v + n).end = v + n
        BY DEF Vma
      <3>3. \A w \in Pages : v <= w /\ w < v + n => w \in R
        BY PagesFacts
      <3> HIDE DEF R
      <3> QED BY <2>2, <3>1, <3>2, <3>3, CoveredFacts, CoveredFactsNext
    <2> QED BY <2>1, <2>2
  <1>4. /\ pt' \in [Pids -> [Pages -> Frames \cup {NoFrame}]]
        /\ \A w \in Pages : pt'[p][w] = IF w \in R THEN NoFrame ELSE pt[p][w]
    BY <1>1 DEF IInv, ProcInv, Unmapped
  <1> HIDE DEF R
  <1>5. ServesOnce(p) /\ Covered(p) \subseteq Pages
    BY <1>1, CoveredFacts DEF IInv, ProcInv
  <1>6. TableFrames(p)' = TableFrames(p)
    BY DEF TableFrames
  <1>7. PrivateFrames(p)' = PrivateFrames(p) \ X
    <2>1. PrivateFrames(p)' = { pt'[p][w] : w \in Covered(p)' } \ {NoFrame}
      BY DEF PrivateFrames
    <2>2. ASSUME NEW f \in PrivateFrames(p)' PROVE f \in PrivateFrames(p) \ X
      <3>1. PICK w \in Covered(p)' : f = pt'[p][w] /\ f # NoFrame
        BY <2>1
      <3>2. w \in Covered(p) /\ w \notin R /\ f = pt[p][w]
        BY <1>3, <1>4, <1>5, <3>1
      <3>3. \A u \in Covered(p) \cap R : pt[p][u] # f
        BY <1>5, <3>1, <3>2 DEF ServesOnce
      <3> QED BY <3>1, <3>2, <3>3 DEF PrivateFrames
    <2>3. ASSUME NEW f \in PrivateFrames(p) \ X PROVE f \in PrivateFrames(p)'
      <3>1. PICK w \in Covered(p) : f = pt[p][w] /\ f # NoFrame
        BY DEF PrivateFrames
      <3>2. w \notin R
        BY <3>1
      <3>3. w \in Covered(p)' /\ pt'[p][w] = f
        BY <1>3, <1>4, <1>5, <3>1, <3>2
      <3> QED BY <2>1, <3>1, <3>3
    <2> QED BY <2>2, <2>3
  <1>8. ServesOnce(p)'
    BY <1>3, <1>4, <1>5, <1>6 DEF ServesOnce
  <1>9. \A q \in Pids : ServesOnce(q)' /\ (q \notin alive => Absent(q)')
    BY <1>1, <1>8, SameKeeps DEF IInv, ProcInv
  <1>10. \A q \in Pids : Covered(q)' \subseteq Covered(q) /\ (q # p => Covered(q)' = Covered(q) /\ pt'[q] = pt[q])
    BY <1>1, <1>3, SameKeeps DEF Same
  <1>11. RequestsApart'
    BY <1>10 DEF IInv, ProcInv, RequestsApart
  <1>12. PagesCovered'
    <2>1. ASSUME NEW q \in alive, NEW w \in Pages, pt'[q][w] # NoFrame
          PROVE  w \in Covered(q)' \/ MappedOnRequest(w)
      <3>1. q \in Pids
        BY DEF IInv, ProcInv
      <3>2. pt[q][w] # NoFrame => w \in Covered(q) \/ MappedOnRequest(w)
        BY DEF IInv, ProcInv, PagesCovered
      <3>3. CASE q = p
        BY <1>3, <1>4, <2>1, <3>2, <3>3
      <3>4. CASE q # p
        BY <1>10, <2>1, <3>1, <3>2, <3>4
      <3> QED BY <3>3, <3>4
    <2> QED BY <2>1 DEF PagesCovered
  <1>13. HeapBacked'
    <2>1. ASSUME NEW q \in alive, NEW b \in HeapBase .. heap_break[q] - 1
          PROVE  b \div 2 \in Covered(q)'
      <3>1. q \in Pids /\ b \div 2 \in Covered(q)
        BY DEF IInv, ProcInv, HeapBacked
      <3>2. CASE q # p
        BY <1>10, <3>1, <3>2
      <3>3. CASE q = p
        <4>1. b \in Nat /\ b < MaxBreak /\ MaxBreak \in Nat
          <5>1. heap_break[q] \in 0 .. MaxBreak
            BY <3>1 DEF IInv, ProcInv
          <5> QED BY <5>1, HeapBaseEven, LayoutAssumption
        <4>2. b \div 2 < AlignUp(MaxBreak) /\ b \div 2 \in Nat /\ AlignUp(MaxBreak) \in Nat
          BY <4>1 DEF AlignUp
        <4>3. ~ (b \div 2 \in R /\ AlignUp(MaxBreak) <= v)
          BY <4>2 DEF R
        <4> QED BY <1>3, <3>1, <3>3, <4>3
      <3> QED BY <3>2, <3>3
    <2> QED BY <2>1 DEF HeapBacked
  <1>14. ProcInv'
    BY <1>2, <1>4, <1>9, <1>11, <1>12, <1>13 DEF IInv, ProcInv
  <1>15. Divided(free, leaked', Own', Shared)
    <2>1. X \subseteq PrivateFrames(p) /\ \A f \in X : f \notin TableFrames(p)
      BY <1>5 DEF ServesOnce, PrivateFrames
    <2> HIDE DEF X
    <2>2. TableFrames(p)' \cup PrivateFrames(p)' = Own[p] \ X
      BY <1>1, <1>6, <1>7, <2>1, OwnFacts
    <2>3. Own' = [Own EXCEPT ![p] = Own[p] \ X]
      BY <1>1, <2>2, OwnChanges
    <2>4. X \subseteq Own[p]
      BY <1>1, <2>1, OwnFacts
    <2>5. Divided(free, leaked \cup X, [Own EXCEPT ![p] = @ \ X], Shared)
      BY <1>1, <2>4, ProcessLoses DEF IInv, Partition
    <2>6. leaked' = leaked \cup X
      BY DEF X, R
    <2> QED BY <2>3, <2>5, <2>6
  <1> QED BY <1>14, <1>15

(* SYS_MUNMAP: the VMA goes when exactly it was unmapped. *)
LEMMA MunmapIInv ==
    ASSUME IInv, NEW p \in Pids, NEW v \in UnmapAt, NEW n \in MapSizes, SysMunmap(p, v, n)
    PROVE  IInv'
  <1>1. /\ p \in alive
        /\ vmas' = [vmas EXCEPT ![p] = @ \ {Vma(v, v + n)}]
        /\ pt' = Unmapped(p, v, n)
        /\ leaked' = leaked \cup ({ pt[p][w] : w \in Covered(p) \cap (v .. v + n - 1) } \ {NoFrame})
        /\ UNCHANGED << free, alive, next_pid, root, tables, heap_break, shm,
                        next_shm_id, panicked >>
    BY DEF SysMunmap, Runs
  <1>2. v \in Nat /\ n \in Nat /\ AlignUp(MaxBreak) <= v
    BY SizesAssumption, ProgramsAssumption
  <1>3. ProcInv' /\ Divided(free, leaked', Own', Shared)
    BY <1>1, <1>2, UnmapKeeps
  <1>4. RegionInv' /\ Shared' = Shared
    BY <1>1 DEF IInv, RegionInv, Shared, RegionFrames
  <1> QED BY <1>1, <1>3, <1>4 DEF IInv, Partition

-----------------------------------------------------------------------------
(* map_page_in_table.  Of the frames mapped, those in Extra are new to the *)
(* process; the others are a device's or a shared region's.                *)

(* Pages are mapped, covered ones to new frames (Extra), with the tables   *)
(* they need.                                                              *)
LEMMA MapKeeps ==
    ASSUME IInv, NEW p \in alive, NEW m, NEW Extra,
           DOMAIN m \subseteq Pages,
           \A v \in DOMAIN m : m[v] \in Frames /\ (v \in Covered(p) \/ MappedOnRequest(v)),
           \A v \in DOMAIN m : v \in Covered(p) => pt[p][v] = NoFrame /\ m[v] \in Extra,
           \A x \in Extra : \E v \in DOMAIN m : v \in Covered(p) /\ m[v] = x,
           \A v, w \in DOMAIN m :
              v \in Covered(p) /\ w \in Covered(p) /\ m[v] = m[w] => v = w,
           Extra \subseteq free,
           NEW by, MapPages(p, m, free \ Extra, by),
           UNCHANGED << leaked, alive, next_pid, root, vmas, heap_break >>
    PROVE  ProcInv' /\ Divided(free', leaked', Own', Shared)
  <1> DEFINE avail == free \ Extra
             new == { i \in { TableOf(v) : v \in DOMAIN m } : tables[p][i] = NoFrame }
             got == Granted(new, avail)
  <1>1. p \in Pids
    BY DEF IInv, ProcInv
  <1>2. \A q : Covered(q)' = Covered(q)
    BY DEF Covered
  <1>3. CASE ~ Enough(new, avail)
    <2>1. panicked' = TRUE /\ UNCHANGED << pt, tables, free >>
      BY <1>3 DEF MapPages
    <2>2. \A q \in Pids : Same(q)
      BY <2>1 DEF Same
    <2>3. \A q \in Pids : ServesOnce(q)' /\ (q \notin alive => Absent(q)')
      BY <2>2, SameKeeps DEF IInv, ProcInv
    <2>4. RequestsApart' /\ PagesCovered' /\ HeapBacked'
      BY <1>2, <2>1 DEF IInv, ProcInv, RequestsApart, PagesCovered, HeapBacked
    <2>5. ProcInv'
      BY <2>1, <2>3, <2>4 DEF IInv, ProcInv
    <2>6. Own' = Own
      BY <2>1 DEF Own, TableFrames, PrivateFrames, Covered
    <2> QED BY <2>1, <2>5, <2>6 DEF IInv, Partition
  <1>4. CASE Enough(new, avail)
    <2>1. /\ pt' = [pt EXCEPT ![p] = Over(m, @)]
          /\ tables' = [tables EXCEPT ![p] = Over(got, @)]
          /\ free' = avail \ Range(got)
          /\ panicked' = panicked
      BY <1>4 DEF MapPages
    <2>2. new \subseteq Tables /\ IsFiniteSet(new)
      <3>1. new \subseteq Tables
        BY PagesFacts
      <3> QED BY <3>1, PagesFacts, FS_Subset
    <2>3. avail \in SUBSET Nat /\ IsFiniteSet(avail) /\ free \subseteq Ram
      <3>1. free \subseteq Ram
        BY DEF IInv, Partition, Divided
      <3>2. avail \in SUBSET Ram
        BY <3>1
      <3>3. IsFiniteSet(avail)
        BY <3>2, PagesFacts, FS_Subset
      <3> QED BY <3>1, <3>2, <3>3, PagesFacts
    <2> HIDE DEF avail
    <2>4. got \in [new -> avail] /\ \A x, y \in new : got[x] = got[y] => x = y
      <3> HIDE DEF new
      <3> QED BY <1>4, <2>2, <2>3, GrantedFacts
    <2>5. \A t \in new : tables[p][t] = NoFrame
      OBVIOUS
    <2> HIDE DEF new, got
    <2> DEFINE G == Range(got)
    <2>6. \A f : f \in G <=> \E t \in new : f = got[t]
      BY <2>4 DEF Range
    <2>7. G \subseteq avail /\ avail \subseteq free /\ G \subseteq Ram /\ NoFrame \notin G
          /\ \A x \in Extra : x \notin avail
      <3>1. avail \subseteq free /\ \A x \in Extra : x \notin avail
        BY DEF avail
      <3>2. \A f \in G : f \in avail
        BY <2>4, <2>6
      <3> HIDE DEF G
      <3> QED BY <2>3, <3>1, <3>2, PagesFacts
    <2>8. /\ pt' \in [Pids -> [Pages -> Frames \cup {NoFrame}]]
          /\ \A v \in Pages : pt'[p][v] = IF v \in DOMAIN m THEN m[v] ELSE pt[p][v]
          /\ \A q \in Pids : q # p => pt'[q] = pt[q]
      BY <1>1, <2>1 DEF IInv, ProcInv, Over
    <2>9. /\ tables' \in [Pids -> [Tables -> Ram \cup {NoFrame}]]
          /\ \A t \in Tables : tables'[p][t] = IF t \in new THEN got[t] ELSE tables[p][t]
          /\ \A q \in Pids : q # p => tables'[q] = tables[q]
      BY <1>1, <2>1, <2>2, <2>4, <2>6, <2>7 DEF IInv, ProcInv, Over
    <2>10. \A q \in Pids : q # p => Same(q)
      BY <2>8, <2>9 DEF Same
    <2>11. \A f \in free : f \notin TableFrames(p) /\ f \notin PrivateFrames(p) /\ f # NoFrame
      <3>1. Divided(free, leaked, Own, Shared)
        BY DEF IInv, Partition
      <3>2. \A f \in free : f \notin Own[p]
        BY <1>1, <3>1 DEF Divided
      <3> QED BY <1>1, <2>3, <3>2, OwnFacts, PagesFacts
    <2>12. TableFrames(p)' = TableFrames(p) \cup G
      <3>1. \A q \in Pids : \A f : f \in TableFrames(q) <=>
               (f # NoFrame /\ (f = root[q] \/ \E t \in Tables : f = tables[q][t]))
        BY DEF TableFrames, Range, IInv, ProcInv
      <3>2. \A f : f \in TableFrames(p)' <=>
               (f # NoFrame /\ (f = root[p] \/ \E t \in Tables : f = tables'[p][t]))
        BY <1>1, <2>9 DEF TableFrames, Range
      <3>3. \A f : f \in TableFrames(p)' <=> (f \in TableFrames(p) \/ f \in G)
        BY <1>1, <2>2, <2>5, <2>6, <2>7, <2>9, <3>1, <3>2
      <3> HIDE DEF G
      <3> QED BY <3>3
    <2>13. PrivateFrames(p)' = PrivateFrames(p) \cup Extra
      <3>1. PrivateFrames(p)' = { pt'[p][v] : v \in Covered(p) } \ {NoFrame}
        BY <1>2 DEF PrivateFrames
      <3>2. Covered(p) \subseteq Pages
        BY CoveredFacts
      <3>3. \A v \in Covered(p) : pt'[p][v] # NoFrame =>
               pt'[p][v] \in Extra \/ pt'[p][v] = pt[p][v]
        BY <2>8, <3>2
      <3>4. \A v \in Covered(p) : pt[p][v] # NoFrame => pt'[p][v] = pt[p][v]
        BY <2>8, <3>2
      <3>5. \A x \in Extra : x # NoFrame /\ \E v \in Covered(p) : pt'[p][v] = x
        BY <2>8, <2>11, <3>2
      <3> QED BY <3>1, <3>3, <3>4, <3>5 DEF PrivateFrames
    <2>14. ServesOnce(p)'
      <3>1. ServesOnce(p) /\ Covered(p) \subseteq Pages
        BY <1>1, CoveredFacts DEF IInv, ProcInv
      <3>2. \A t \in Tables : tables[p][t] # NoFrame => tables[p][t] \in TableFrames(p)
        BY <1>1 DEF TableFrames, Range, IInv, ProcInv
      <3>3. root[p] # NoFrame => root[p] \in TableFrames(p)
        BY DEF TableFrames
      <3>4. \A t \in new : got[t] \in free /\ got[t] \notin Extra
        BY <2>6, <2>7
      <3>5. \A t \in Tables : tables'[p][t] # NoFrame => tables'[p][t] # root'[p]
        BY <2>9, <2>11, <3>1, <3>3, <3>4 DEF ServesOnce
      <3>6. \A t, u \in Tables : tables'[p][t] # NoFrame /\ tables'[p][t] = tables'[p][u] => t = u
        BY <2>4, <2>9, <2>11, <3>1, <3>2, <3>4 DEF ServesOnce
      <3>7. \A v \in Covered(p) : \/ pt'[p][v] = NoFrame
                                  \/ pt'[p][v] = pt[p][v] /\ v \notin DOMAIN m
                                  \/ v \in DOMAIN m /\ pt'[p][v] = m[v] /\ m[v] \in Extra
        BY <2>8, <3>1
      <3>8. \A v \in Covered(p) : pt[p][v] # NoFrame => pt[p][v] \in PrivateFrames(p)
        BY DEF PrivateFrames
      <3>9. \A x \in Extra : x \notin TableFrames(p) /\ x \notin G /\ x \notin PrivateFrames(p)
        BY <2>7, <2>11
      <3>10. \A f \in PrivateFrames(p) : f \notin G
        BY <2>7, <2>11
      <3> HIDE DEF G
      <3>11. \A v \in Covered(p) : pt'[p][v] # NoFrame => pt'[p][v] \notin TableFrames(p)'
        BY <2>12, <3>1, <3>7, <3>8, <3>9, <3>10 DEF ServesOnce
      <3>12. \A v, w \in Covered(p) : pt'[p][v] # NoFrame /\ pt'[p][v] = pt'[p][w] => v = w
        BY <3>1, <3>7, <3>8, <3>9 DEF ServesOnce
      <3> QED BY <1>2, <3>5, <3>6, <3>11, <3>12 DEF ServesOnce
    <2>15. \A q \in Pids : ServesOnce(q)' /\ (q \notin alive => Absent(q)')
      BY <1>1, <2>10, <2>14, SameKeeps DEF IInv, ProcInv
    <2>16. RequestsApart' /\ HeapBacked'
      BY <1>2 DEF IInv, ProcInv, RequestsApart, HeapBacked
    <2>17. PagesCovered'
      <3>1. ASSUME NEW q \in alive, NEW v \in Pages, pt'[q][v] # NoFrame
            PROVE  v \in Covered(q) \/ MappedOnRequest(v)
        <4>1. pt[q][v] # NoFrame => v \in Covered(q) \/ MappedOnRequest(v)
          BY DEF IInv, ProcInv, PagesCovered
        <4>2. q \in Pids
          BY DEF IInv, ProcInv
        <4>3. CASE q = p
          BY <2>8, <3>1, <4>1, <4>3
        <4>4. CASE q # p
          BY <2>8, <3>1, <4>1, <4>2, <4>4
        <4> QED BY <4>3, <4>4
      <3> QED BY <1>2, <3>1 DEF PagesCovered
    <2>18. ProcInv'
      BY <2>1, <2>8, <2>9, <2>15, <2>16, <2>17 DEF IInv, ProcInv
    <2>20. Divided(free', leaked', Own', Shared)
      <3> DEFINE X == Extra \cup G
      <3>1. X \subseteq free /\ free' = free \ X
        BY <2>1, <2>7 DEF avail
      <3>2. TableFrames(p)' \cup PrivateFrames(p)' = Own[p] \cup X
        <4> HIDE DEF G
        <4> QED BY <1>1, <2>12, <2>13, OwnFacts
      <3> HIDE DEF X
      <3>3. Own' = [Own EXCEPT ![p] = Own[p] \cup X]
        BY <1>1, <2>10, <3>2, OwnChanges
      <3>4. Divided(free \ X, leaked, [Own EXCEPT ![p] = @ \cup X], Shared)
        BY <1>1, <3>1, ProcessTakes DEF IInv, Partition
      <3> QED BY <3>1, <3>3, <3>4
    <2> QED BY <2>18, <2>20
  <1> QED BY <1>3, <1>4

(* A device's or a region's pages, none of them inside a VMA. *)
LEMMA RequestKeeps ==
    ASSUME IInv, NEW p \in alive, NEW m, DOMAIN m \subseteq Pages,
           \A v \in DOMAIN m : m[v] \in Frames /\ MappedOnRequest(v),
           NEW by, MapPages(p, m, free, by),
           UNCHANGED << leaked, alive, next_pid, root, vmas, heap_break >>
    PROVE  ProcInv' /\ Divided(free', leaked', Own', Shared)
  <1> DEFINE Extra == {}
  <1>1. \A v \in DOMAIN m : v \notin Covered(p)
    BY DEF IInv, ProcInv, RequestsApart
  <1>2. Extra \subseteq free /\ free \ Extra = free /\ \A x \in Extra : FALSE
    OBVIOUS
  <1> HIDE DEF Extra
  <1>3. MapPages(p, m, free \ Extra, by)
    BY <1>2
  <1> QED BY <1>1, <1>2, <1>3, MapKeeps

(* A page fault: the page lies in a VMA and gets the lowest free frame. *)
LEMMA DemandIInv ==
    ASSUME IInv, NEW p \in Pids, NEW v \in Pages, DemandPage(p, v)
    PROVE  IInv'
  <1>1. /\ p \in alive /\ pt[p][v] = NoFrame /\ v \in Covered(p)
        /\ UNCHANGED << leaked, alive, next_pid, root, vmas, heap_break, shm, next_shm_id >>
    BY DEF DemandPage, Runs
  <1>2. PICK f \in Lowest(free, 1) : MapPages(p, At(v, f), free \ {f}, {})
    BY DEF DemandPage
  <1>3. f \in free /\ f \in Frames
    BY FramesFacts DEF Lowest, IInv, Partition, Divided
  <1>4. DOMAIN At(v, f) = {v} /\ At(v, f)[v] = f
    BY DEF At
  <1> DEFINE m == At(v, f)
             Extra == {f}
  <1>5. /\ DOMAIN m \subseteq Pages
        /\ \A w \in DOMAIN m : m[w] \in Frames /\ (w \in Covered(p) \/ MappedOnRequest(w))
        /\ \A w \in DOMAIN m : w \in Covered(p) => pt[p][w] = NoFrame /\ m[w] \in Extra
        /\ \A x \in Extra : \E w \in DOMAIN m : w \in Covered(p) /\ m[w] = x
        /\ \A u, w \in DOMAIN m : u \in Covered(p) /\ w \in Covered(p) /\ m[u] = m[w] => u = w
        /\ Extra \subseteq free
    BY <1>1, <1>3, <1>4
  <1>6. MapPages(p, m, free \ Extra, {})
    BY <1>2
  <1> HIDE DEF m, Extra
  <1>7. ProcInv' /\ Divided(free', leaked', Own', Shared)
    BY <1>1, <1>5, <1>6, MapKeeps
  <1>8. RegionInv' /\ Shared' = Shared
    BY <1>1 DEF IInv, RegionInv, Shared, RegionFrames
  <1> QED BY <1>7, <1>8 DEF IInv, Partition

(* SYS_MAP_PHYSICAL maps whatever frames it is asked for. *)
LEMMA MapPhysicalIInv ==
    ASSUME IInv, NEW p \in Pids, NEW v \in DeviceAt, NEW f \in PhysicalAt,
           NEW n \in PhysicalSizes, SysMapPhysical(p, v, f, n)
    PROVE  IInv'
  <1> DEFINE m == [w \in v .. v + n - 1 |-> f + (w - v)]
  <1>1. /\ p \in alive /\ v + n <= NUM_PAGES /\ MapPages(p, m, free, {0})
        /\ UNCHANGED << leaked, alive, next_pid, root, vmas, heap_break, shm, next_shm_id >>
    BY DEF SysMapPhysical, Runs
  <1>2. n \in Nat /\ v \in Nat /\ f \in Nat /\ NUM_PAGES \in Nat
    BY SizesAssumption
  <1>3. DOMAIN m = v .. v + n - 1 /\ DOMAIN m \subseteq Pages
    BY <1>1, <1>2 DEF Pages
  <1>4. \A w \in DOMAIN m : m[w] \in Frames
    <2>1. \A w \in v .. v + n - 1 : f + (w - v) \in f .. f + n - 1
      BY <1>2
    <2>2. \A x \in f .. f + n - 1 : x \in Frames
      BY FramesFacts
    <2> QED BY <2>1, <2>2
  <1>5. \A w \in DOMAIN m : MappedOnRequest(w)
    BY <1>3 DEF MappedOnRequest
  <1> HIDE DEF m
  <1>6. ProcInv' /\ Divided(free', leaked', Own', Shared)
    BY <1>1, <1>3, <1>4, <1>5, RequestKeeps
  <1>7. RegionInv' /\ Shared' = Shared
    BY <1>1 DEF IInv, RegionInv, Shared, RegionFrames
  <1> QED BY <1>6, <1>7 DEF IInv, Partition

-----------------------------------------------------------------------------
(* The shared regions. *)

(* The fields of a shared region. *)
LEMMA RegionFacts ==
    ASSUME IInv, NEW r \in shm
    PROVE  /\ r.id \in Ids /\ r.ref_count \in 0 .. MaxRefs /\ r.owner \in Pids
           /\ r.owner_exited \in BOOLEAN
           /\ Len(r.frames) \in ShmSizes /\ Len(r.frames) \in Nat
           /\ r.frames \in [1 .. Len(r.frames) -> Frames]
           /\ r \in Region
  <1>1. r \in Region
    BY DEF IInv, RegionInv
  <1>2. r.id \in Ids /\ r.ref_count \in 0 .. MaxRefs /\ r.owner \in Pids /\ r.owner_exited \in BOOLEAN
    BY <1>1 DEF Region, Ids
  <1>3. PICK n \in ShmSizes : r.frames \in [1 .. n -> Frames]
    BY <1>1 DEF Region
  <1>4. n \in Nat
    BY SizesAssumption
  <1>5. Len(r.frames) = n
    <2>1. r.frames \in Seq(Frames)
      BY <1>3, <1>4, SeqDef
    <2>2. Len(r.frames) \in Nat /\ DOMAIN r.frames = 1 .. Len(r.frames)
      BY <2>1, LenProperties
    <2>3. 1 .. n = 1 .. Len(r.frames)
      BY <1>3, <2>2
    <2> QED BY <1>4, <2>2, <2>3
  <1> QED BY <1>1, <1>2, <1>3, <1>4, <1>5

(* One region is replaced by one with the same id and frames. *)
LEMMA RegionReplaced ==
    ASSUME IInv, NEW r \in shm, NEW k \in 0 .. MaxRefs,
           shm' = (shm \ {r}) \cup {[r EXCEPT !.ref_count = k]},
           UNCHANGED << alive, next_pid, next_shm_id >>
    PROVE  RegionInv' /\ Shared' = Shared
  <1> DEFINE q == [r EXCEPT !.ref_count = k]
  <1>1. /\ q.id = r.id /\ q.frames = r.frames /\ q.owner = r.owner
        /\ q.owner_exited = r.owner_exited /\ q \in Region
    BY RegionFacts DEF Region
  <1> HIDE DEF q
  <1>2. shm' = (shm \ {r}) \cup {q}
    BY DEF q
  <1>3. IsFiniteSet(shm') /\ Cardinality(shm') <= MAX_SHM_REGIONS
    <2>1. IsFiniteSet(shm) /\ Cardinality(shm) \in Nat /\ Cardinality(shm) <= MAX_SHM_REGIONS
      BY FS_CardinalityType DEF IInv, RegionInv
    <2>2. IsFiniteSet(shm \ {r}) /\ Cardinality(shm \ {r}) = Cardinality(shm) - 1
      BY <2>1, FS_RemoveElement
    <2>3. IsFiniteSet((shm \ {r}) \cup {q}) /\ Cardinality((shm \ {r}) \cup {q}) =
            IF q \in shm \ {r} THEN Cardinality(shm \ {r}) ELSE Cardinality(shm \ {r}) + 1
      BY <2>2, FS_AddElement
    <2>4. Cardinality((shm \ {r}) \cup {q}) <= Cardinality(shm)
      BY <2>1, <2>2, <2>3
    <2>5. MAX_SHM_REGIONS \in Nat /\ Cardinality((shm \ {r}) \cup {q}) \in Nat
      BY <2>3, FS_CardinalityType, SizesAssumption
    <2>6. Cardinality((shm \ {r}) \cup {q}) <= MAX_SHM_REGIONS
      BY <2>1, <2>4, <2>5
    <2> QED BY <1>2, <2>3, <2>6
  <1>4. \A x, y \in shm' : x.id = y.id => x = y
    BY <1>1, <1>2 DEF IInv, RegionInv
  <1>5. RegionInv'
    BY <1>1, <1>2, <1>3, <1>4 DEF IInv, RegionInv
  <1>6. RegionFrames(q) = RegionFrames(r)
    BY <1>1 DEF RegionFrames
  <1>7. \A i \in Ids : \A f : f \in Shared'[i] <=> f \in Shared[i]
    BY <1>1, <1>2, <1>6, SharedFacts, SharedFactsNext
  <1>8. Shared' = Shared
    <2>1. \A i \in Ids : Shared'[i] = Shared[i]
      BY <1>7
    <2>2. Shared = [i \in Ids |-> Shared[i]] /\ Shared' = [i \in Ids |-> Shared'[i]]
      BY SharedFactsNext DEF Shared
    <2> QED BY <2>1, <2>2
  <1> QED BY <1>5, <1>8

(* SYS_SHM_MAP, by the owner or by another process. *)
LEMMA ShmMapIInv ==
    ASSUME IInv, NEW p \in Pids, NEW r \in shm, NEW v \in ShmAt, SysShmMap(p, r, v)
    PROVE  IInv'
  <1> DEFINE n == Len(r.frames)
             m == [w \in v .. v + n - 1 |-> r.frames[w - v + 1]]
  <1>1. /\ p \in alive /\ r.ref_count < MaxRefs /\ v + n <= NUM_PAGES
        /\ MapPages(p, m, free, {r.id})
        /\ shm' = (shm \ {r}) \cup {[r EXCEPT !.ref_count = @ + 1]}
        /\ UNCHANGED << leaked, alive, next_pid, root, vmas, heap_break, next_shm_id >>
    BY DEF SysShmMap, Runs
  <1>2. n \in ShmSizes /\ n \in Nat /\ v \in Nat /\ NUM_PAGES \in Nat
        /\ r.frames \in [1 .. n -> Frames]
    BY RegionFacts, SizesAssumption
  <1> HIDE DEF n
  <1>3. DOMAIN m = v .. v + n - 1 /\ DOMAIN m \subseteq Pages
    BY <1>1, <1>2 DEF Pages
  <1>4. \A w \in DOMAIN m : m[w] \in Frames
    BY <1>2
  <1>5. \A w \in DOMAIN m : MappedOnRequest(w)
    BY <1>2, <1>3 DEF MappedOnRequest
  <1> HIDE DEF m
  <1>6. ProcInv' /\ Divided(free', leaked', Own', Shared)
    BY <1>1, <1>3, <1>4, <1>5, RequestKeeps
  <1>7. r.ref_count + 1 \in 0 .. MaxRefs
    BY <1>1, RegionFacts, SizesAssumption
  <1>8. RegionInv' /\ Shared' = Shared
    BY <1>1, <1>7, RegionReplaced
  <1> QED BY <1>6, <1>8 DEF IInv, Partition

(* SYS_SHM_UNMAP: the region goes with its last reference once its owner   *)
(* has exited.                                                             *)
LEMMA ShmUnmapIInv ==
    ASSUME IInv, NEW p \in Pids, NEW r \in shm, NEW v \in ShmAt, SysShmUnmap(p, r, v)
    PROVE  IInv'
  <1> DEFINE n == Len(r.frames)
  <1>1. /\ p \in alive
        /\ pt' = Unmapped(p, v, n)
        /\ \/ shm' = shm \ {r} /\ free' = free \cup RegionFrames(r)
           \/ shm' = (shm \ {r}) \cup {Dropped(r)} /\ free' = free
        /\ UNCHANGED << leaked, alive, next_pid, root, tables, vmas, heap_break, next_shm_id,
                        panicked >>
    BY DEF SysShmUnmap, Runs
  <1>2. n \in Nat /\ v \in Nat /\ n \in ShmSizes
    BY RegionFacts, SizesAssumption
  <1> HIDE DEF n
  <1>3. ProcInv' /\ Divided(free, leaked', Own', Shared)
    <2>1. \A w \in v .. v + n - 1 : MappedOnRequest(w)
      BY <1>2 DEF MappedOnRequest
    <2>2. Covered(p) \cap (v .. v + n - 1) = {}
      BY <2>1 DEF IInv, ProcInv, RequestsApart
    <2>3. leaked' = leaked \cup ({ pt[p][w] : w \in Covered(p) \cap (v .. v + n - 1) } \ {NoFrame})
      BY <1>1, <2>2
    <2> QED BY <1>1, <1>2, <2>3, UnmapKeeps
  <1>4. CASE shm' = (shm \ {r}) \cup {Dropped(r)} /\ free' = free
    <2>1. PICK k \in 0 .. MaxRefs : Dropped(r) = [r EXCEPT !.ref_count = k]
      <3>1. (IF r.ref_count > 0 THEN r.ref_count - 1 ELSE 0) \in 0 .. MaxRefs
        BY RegionFacts, SizesAssumption
      <3> QED BY <3>1 DEF Dropped
    <2>2. RegionInv' /\ Shared' = Shared
      BY <1>1, <1>4, <2>1, RegionReplaced
    <2> QED BY <1>3, <1>4, <2>2 DEF IInv, Partition
  <1>5. CASE shm' = shm \ {r} /\ free' = free \cup RegionFrames(r)
    <2>1. RegionInv'
      <3>1. IsFiniteSet(shm) /\ Cardinality(shm) \in Nat /\ Cardinality(shm) <= MAX_SHM_REGIONS
        BY FS_CardinalityType DEF IInv, RegionInv
      <3>2. IsFiniteSet(shm \ {r}) /\ Cardinality(shm \ {r}) = Cardinality(shm) - 1
        BY <3>1, FS_RemoveElement
      <3>3. IsFiniteSet(shm') /\ Cardinality(shm') <= MAX_SHM_REGIONS
        BY <1>5, <3>1, <3>2, SizesAssumption
      <3> QED BY <1>1, <1>5, <3>3 DEF IInv, RegionInv
    <2> DEFINE J == {r.id}
    <2>2. J \in SUBSET Ids /\ r.id \in Ids
      BY RegionFacts
    <2>3. Shared[r.id] = RegionFrames(r)
      <3>1. \A f : f \in Shared[r.id] <=> f \in RegionFrames(r)
        BY <2>2, SharedFacts DEF IInv, RegionInv
      <3> QED BY <3>1 DEF Shared
    <2>4. UNION { Shared[i] : i \in J } = RegionFrames(r)
      BY <2>3
    <2>5. Shared' = [i \in Ids |-> IF i \in J THEN {} ELSE Shared[i]]
      <3>1. ASSUME NEW i \in Ids PROVE Shared'[i] = IF i \in J THEN {} ELSE Shared[i]
        <4>1. \A f : f \in Shared'[i] <=> \E q \in shm' : q.id = i /\ f \in RegionFrames(q)
          BY SharedFactsNext
        <4>2. \A f : f \in Shared[i] <=> \E q \in shm : q.id = i /\ f \in RegionFrames(q)
          BY SharedFacts
        <4>3. CASE i = r.id
          <5>1. \A q \in shm' : q.id # i
            BY <1>5, <4>3 DEF IInv, RegionInv
          <5> QED BY <4>1, <4>3, <5>1
        <4>4. CASE i # r.id
          <5>1. \A f : f \in Shared'[i] <=> f \in Shared[i]
            BY <1>5, <4>1, <4>2, <4>4
          <5> QED BY <4>4, <5>1
        <4> QED BY <4>3, <4>4
      <3>2. Shared' = [i \in Ids |-> Shared'[i]]
        BY SharedFactsNext
      <3> HIDE DEF J
      <3> QED BY <3>1, <3>2
    <2> HIDE DEF J
    <2>6. Divided(free \cup UNION { Shared[i] : i \in J }, leaked', Own',
                  [i \in Ids |-> IF i \in J THEN {} ELSE Shared[i]])
      BY <1>3, <2>2, RegionsReturn
    <2>7. Partition'
      BY <1>5, <2>4, <2>5, <2>6 DEF Partition
    <2> QED BY <1>3, <2>1, <2>7 DEF IInv
  <1> QED BY <1>1, <1>4, <1>5

(* SYS_SHM_CREATE takes the frames of the region from the free ones. *)
LEMMA ShmCreateIInv ==
    ASSUME IInv, NEW p \in Pids, NEW n \in ShmSizes, SysShmCreate(p, n)
    PROVE  IInv'
  <1> DEFINE got == Granted(1 .. n, free)
             r == [ id |-> next_shm_id, frames |-> got, ref_count |-> 0,
                    owner |-> p, owner_exited |-> FALSE ]
  <1>1. /\ p \in alive /\ next_shm_id <= MaxShmId /\ Enough(1 .. n, free)
        /\ next_shm_id' = next_shm_id + 1
        /\ \/ ~ ShmTableFull /\ shm' = shm \cup {r} /\ free' = free \ Range(got)
           \/ shm' = shm /\ free' = free
        /\ UNCHANGED << alive, next_pid, pt, root, tables, vmas, heap_break, panicked, leaked >>
    BY DEF SysShmCreate, Runs
  <1>2. ProcInv'
    <2>1. \A q \in Pids : Same(q)
      BY <1>1 DEF Same
    <2>2. \A q \in Pids : ServesOnce(q)' /\ (q \notin alive => Absent(q)')
      BY <2>1, SameKeeps DEF IInv, ProcInv
    <2>3. \A q \in Pids : Covered(q)' = Covered(q)
      BY <2>1, SameKeeps
    <2>4. \A q \in alive : q \in Pids /\ Covered(q)' = Covered(q)
      BY <2>3 DEF IInv, ProcInv
    <2>5. RequestsApart'
      BY <2>3 DEF IInv, ProcInv, RequestsApart
    <2>6. PagesCovered'
      BY <1>1, <2>4 DEF IInv, ProcInv, PagesCovered
    <2>7. HeapBacked'
      BY <1>1, <2>4 DEF IInv, ProcInv, HeapBacked
    <2> QED BY <1>1, <2>2, <2>5, <2>6, <2>7 DEF IInv, ProcInv
  <1>3. Own' = Own
    BY <1>1 DEF Own, TableFrames, PrivateFrames, Covered
  <1>4. next_shm_id \in Ids /\ next_shm_id' \in 1 .. MaxShmId + 1 /\ next_shm_id < next_shm_id'
    BY <1>1, SizesAssumption DEF IInv, RegionInv, Ids
  <1>5. \A q \in shm : q.id \in Int /\ q.id < next_shm_id
    BY RegionFacts, SizesAssumption DEF IInv, RegionInv, Ids
  <1>6. CASE shm' = shm /\ free' = free
    <2>1. RegionInv'
      BY <1>1, <1>4, <1>5, <1>6 DEF IInv, RegionInv
    <2>2. Shared' = Shared
      BY <1>6 DEF Shared, RegionFrames
    <2> QED BY <1>1, <1>2, <1>3, <1>6, <2>1, <2>2 DEF IInv, Partition
  <1>7. CASE ~ ShmTableFull /\ shm' = shm \cup {r} /\ free' = free \ Range(got)
    <2>1. n \in Nat /\ IsFiniteSet(1 .. n)
      BY SizesAssumption, FS_Interval
    <2>2. free \in SUBSET Ram /\ free \in SUBSET Nat /\ IsFiniteSet(free)
      <3>1. free \in SUBSET Ram
        BY DEF IInv, Partition, Divided
      <3> QED BY <3>1, PagesFacts, FS_Subset
    <2>3. got \in [1 .. n -> free]
      BY <1>1, <2>1, <2>2, GrantedFacts
    <2> HIDE DEF got
    <2>4. Range(got) \subseteq free
      BY <2>3 DEF Range
    <2>5. got \in [1 .. n -> Frames]
      BY <2>2, <2>3, FramesFacts
    <2>6. r \in Region /\ r.id = next_shm_id /\ r.owner = p /\ r.owner_exited = FALSE /\ r.frames = got
      BY <1>4, <2>5, SizesAssumption DEF Region, Ids
    <2> HIDE DEF r
    <2>7. IsFiniteSet(shm') /\ Cardinality(shm') <= MAX_SHM_REGIONS
      <3>1. IsFiniteSet(shm) /\ Cardinality(shm) \in Nat
        BY FS_CardinalityType DEF IInv, RegionInv
      <3>2. Cardinality(shm) < MAX_SHM_REGIONS
        BY <1>7, <3>1, SizesAssumption DEF ShmTableFull
      <3>3. IsFiniteSet(shm \cup {r}) /\ Cardinality(shm \cup {r}) =
              IF r \in shm THEN Cardinality(shm) ELSE Cardinality(shm) + 1
        BY <3>1, FS_AddElement
      <3> QED BY <1>7, <3>1, <3>2, <3>3, SizesAssumption
    <2>8. RegionInv'
      <3>1. shm' \subseteq Region
        BY <1>7, <2>6 DEF IInv, RegionInv
      <3>2. \A q \in shm' : q.id < next_shm_id'
        BY <1>1, <1>4, <1>5, <1>7, <2>6 DEF Ids
      <3>3. p < next_pid
        BY <1>1 DEF IInv, ProcInv
      <3>4. \A q \in shm' : q.owner < next_pid' /\ (q.owner \in alive' => ~ q.owner_exited)
        BY <1>1, <1>7, <2>6, <3>3 DEF IInv, RegionInv
      <3>5. \A x, y \in shm' : x.id = y.id => x = y
        BY <1>5, <1>7, <2>6 DEF IInv, RegionInv
      <3> QED BY <1>4, <2>7, <3>1, <3>2, <3>4, <3>5 DEF RegionInv
    <2> DEFINE X == Range(got)
    <2>9. Shared' = [Shared EXCEPT ![next_shm_id] = @ \cup X]
      <3>1. RegionFrames(r) = X
        BY <2>6 DEF RegionFrames
      <3> HIDE DEF X
      <3>2. ASSUME NEW i \in Ids
            PROVE  Shared'[i] = IF i = next_shm_id THEN Shared[i] \cup X ELSE Shared[i]
        <4>1. \A f : f \in Shared'[i] <=> \E q \in shm' : q.id = i /\ f \in RegionFrames(q)
          BY SharedFactsNext
        <4>2. \A f : f \in Shared[i] <=> \E q \in shm : q.id = i /\ f \in RegionFrames(q)
          BY SharedFacts
        <4>3. \A f : f \in Shared'[i] <=> (f \in Shared[i] \/ (i = next_shm_id /\ f \in X))
          BY <1>7, <2>6, <3>1, <4>1, <4>2
        <4>4. CASE i = next_shm_id
          BY <4>3, <4>4
        <4>5. CASE i # next_shm_id
          BY <4>3, <4>5
        <4> QED BY <4>4, <4>5
      <3>3. Shared' = [i \in Ids |-> Shared'[i]] /\ Shared = [i \in Ids |-> Shared[i]]
        BY SharedFactsNext DEF Shared
      <3> QED BY <3>2, <3>3
    <2> HIDE DEF X
    <2>10. X \subseteq free /\ free' = free \ X
      BY <1>7, <2>4 DEF X
    <2>11. Divided(free \ X, leaked, Own, [Shared EXCEPT ![next_shm_id] = @ \cup X])
      BY <1>4, <2>10, RegionTakes DEF IInv, Partition
    <2>12. Partition'
      BY <1>1, <1>3, <2>9, <2>10, <2>11 DEF Partition
    <2> QED BY <1>2, <2>8, <2>12 DEF IInv
  <1> QED BY <1>1, <1>6, <1>7

-----------------------------------------------------------------------------
(* exit_process. *)

(* What cleanup_process makes of a region that stays. *)
Kept(r, p) == IF r.owner = p THEN [Dropped(r) EXCEPT !.owner_exited = TRUE] ELSE r

(* What clean-up at exit leaves of a region that stays. *)
LEMMA KeptFacts ==
    ASSUME IInv, NEW r \in shm, NEW p \in Pids
    PROVE  /\ Kept(r, p) \in Region
           /\ Kept(r, p).id = r.id /\ Kept(r, p).frames = r.frames /\ Kept(r, p).owner = r.owner
           /\ r.owner # p => Kept(r, p) = r
           /\ RegionFrames(Kept(r, p)) = RegionFrames(r)
  <1>1. CASE r.owner # p
    BY <1>1, RegionFacts DEF Kept
  <1>2. CASE r.owner = p
    <2>1. PICK k \in 0 .. MaxRefs : Dropped(r) = [r EXCEPT !.ref_count = k]
      <3>1. (IF r.ref_count > 0 THEN r.ref_count - 1 ELSE 0) \in 0 .. MaxRefs
        BY RegionFacts, SizesAssumption
      <3> QED BY <3>1 DEF Dropped
    <2>2. Kept(r, p) = [[r EXCEPT !.ref_count = k] EXCEPT !.owner_exited = TRUE]
      BY <1>2, <2>1 DEF Kept
    <2>3. r \in Region
      BY RegionFacts
    <2>4. /\ Kept(r, p) \in Region
          /\ Kept(r, p).id = r.id /\ Kept(r, p).frames = r.frames /\ Kept(r, p).owner = r.owner
      BY <2>2, <2>3 DEF Region
    <2> QED BY <1>2, <2>4 DEF RegionFrames
  <1> QED BY <1>1, <1>2

(* exit_process returns the frames of the process and those of the regions *)
(* that go with it.                                                        *)
LEMMA ExitIInv ==
    ASSUME IInv, NEW p \in alive, Exit(p)
    PROVE  IInv'
  <1> DEFINE Removed == RemovedAtExit(p)
  <1>1. p \in Pids /\ Removed \subseteq shm
    BY DEF IInv, ProcInv, RemovedAtExit
  <1>2. /\ alive' = alive \ {p}
        /\ shm' = { Kept(r, p) : r \in shm \ Removed }
        /\ free' = free \cup PrivateFrames(p) \cup UNION { RegionFrames(r) : r \in Removed }
        /\ leaked' = leaked \cup TableFrames(p)
        /\ vmas' = [vmas EXCEPT ![p] = {}]
        /\ pt' = [pt EXCEPT ![p] = [v \in Pages |-> NoFrame]]
        /\ root' = [root EXCEPT ![p] = NoFrame]
        /\ tables' = [tables EXCEPT ![p] = [t \in Tables |-> NoFrame]]
        /\ UNCHANGED << next_pid, heap_break, next_shm_id, panicked >>
    BY DEF Exit, CleanedUp, Kept
  <1> HIDE DEF Removed
  <1>3. \A q \in Pids : q # p => Same(q)
    BY <1>1, <1>2 DEF IInv, ProcInv, Same
  <1>4. /\ vmas' \in [Pids -> VmaSet]
        /\ pt' \in [Pids -> [Pages -> Frames \cup {NoFrame}]]
        /\ root' \in [Pids -> Ram \cup {NoFrame}]
        /\ tables' \in [Pids -> [Tables -> Ram \cup {NoFrame}]]
    BY <1>1, <1>2 DEF IInv, ProcInv, VmaSet
  <1>5. /\ vmas'[p] = {} /\ root'[p] = NoFrame
        /\ tables'[p] = [t \in Tables |-> NoFrame]
        /\ pt'[p] = [v \in Pages |-> NoFrame]
    BY <1>1, <1>2 DEF IInv, ProcInv
  <1>6. Covered(p)' = {} /\ Absent(p)'
    <2>1. Absent(p)'
      BY <1>5 DEF Absent
    <2>2. \A v : v \notin Covered(p)'
      BY <1>5, CoveredFactsNext
    <2> QED BY <2>1, <2>2
  <1>7. TableFrames(p)' = {} /\ PrivateFrames(p)' = {}
    <2>1. TableFrames(p)' = {}
      BY <1>5 DEF TableFrames, Range
    <2>2. PrivateFrames(p)' = {}
      BY <1>6 DEF PrivateFrames
    <2> QED BY <2>1, <2>2
  <1>8. ServesOnce(p)'
    BY <1>5, <1>6 DEF ServesOnce
  <1>9. \A q \in Pids : ServesOnce(q)' /\ (q \notin alive' => Absent(q)')
    BY <1>1, <1>2, <1>3, <1>6, <1>8, SameKeeps DEF IInv, ProcInv
  <1>10. \A q \in Pids : q # p => Covered(q)' = Covered(q) /\ pt'[q] = pt[q]
    BY <1>3, SameKeeps DEF Same
  <1>11. \A q \in alive' : q \in alive /\ q \in Pids /\ q # p /\ Covered(q)' = Covered(q) /\ pt'[q] = pt[q]
    BY <1>2, <1>10 DEF IInv, ProcInv
  <1>12. RequestsApart'
    BY <1>6, <1>10 DEF IInv, ProcInv, RequestsApart
  <1>13. PagesCovered'
    BY <1>11 DEF IInv, ProcInv, PagesCovered
  <1>14. HeapBacked'
    BY <1>2, <1>11 DEF IInv, ProcInv, HeapBacked
  <1>15. ProcInv'
    <2>1. alive' \subseteq Pids /\ \A q \in alive' : q < next_pid' /\ HeapBase <= heap_break'[q]
      BY <1>2, <1>11 DEF IInv, ProcInv
    <2> QED BY <1>2, <1>4, <1>9, <1>12, <1>13, <1>14, <2>1 DEF IInv, ProcInv
  <1>16. RegionInv'
    <2>1. IsFiniteSet(shm \ Removed) /\ Cardinality(shm \ Removed) <= MAX_SHM_REGIONS
          /\ Cardinality(shm \ Removed) \in Nat /\ MAX_SHM_REGIONS \in Nat
      <3>1. IsFiniteSet(shm) /\ Cardinality(shm) \in Nat /\ Cardinality(shm) <= MAX_SHM_REGIONS
        BY FS_CardinalityType DEF IInv, RegionInv
      <3>2. shm \ Removed \in SUBSET shm
        OBVIOUS
      <3>3. IsFiniteSet(shm \ Removed) /\ Cardinality(shm \ Removed) <= Cardinality(shm)
        BY <3>1, <3>2, FS_Subset
      <3>4. Cardinality(shm \ Removed) \in Nat /\ MAX_SHM_REGIONS \in Nat
        BY <3>3, FS_CardinalityType, SizesAssumption
      <3> QED BY <3>1, <3>3, <3>4
    <2>2. IsFiniteSet(shm') /\ Cardinality(shm') <= MAX_SHM_REGIONS
      <3> DEFINE S == shm \ Removed
                 g == [r \in S |-> Kept(r, p)]
      <3>1. g \in Surjection(S, shm')
        BY <1>2 DEF Surjection
      <3> HIDE DEF g, S
      <3>2. IsFiniteSet(S)
        BY <2>1 DEF S
      <3>3. IsFiniteSet(shm') /\ Cardinality(shm') <= Cardinality(S)
        BY <3>1, <3>2, FS_Surjection
      <3>4. Cardinality(shm') \in Nat
        BY <3>3, FS_CardinalityType
      <3> QED BY <2>1, <3>3, <3>4 DEF S
    <2>3. shm' \subseteq Region
      BY <1>1, <1>2, KeptFacts
    <2>4. \A x \in shm' : \E r \in shm : x = Kept(r, p) /\ x.id = r.id /\ x.owner = r.owner
                                         /\ (r.owner # p => x = r)
      BY <1>1, <1>2, KeptFacts
    <2>5. \A x \in shm' : /\ x.id < next_shm_id' /\ x.owner < next_pid'
                          /\ x.owner \in alive' => ~ x.owner_exited
      BY <1>2, <2>4 DEF IInv, RegionInv
    <2>6. \A x, y \in shm' : x.id = y.id => x = y
      BY <2>4 DEF IInv, RegionInv
    <2> QED BY <1>2, <2>2, <2>3, <2>5, <2>6 DEF IInv, RegionInv
  <1>17. Partition'
    <2> DEFINE T == TableFrames(p)
               P == PrivateFrames(p)
               own1 == [Own EXCEPT ![p] = @ \ T]
               J == { r.id : r \in Removed }
    <2>1. Own[p] = T \cup P /\ \A f \in P : f \notin T
      <3>1. ServesOnce(p)
        BY <1>1 DEF IInv, ProcInv
      <3> QED BY <1>1, <3>1, OwnFacts DEF ServesOnce, PrivateFrames
    <2> HIDE DEF T, P
    <2>2. Own \in [Pids -> SUBSET Ram]
      BY DEF IInv, Partition, Divided
    <2>3. Divided(free, leaked \cup T, own1, Shared)
      BY <1>1, <2>1, ProcessLoses DEF IInv, Partition
    <2>4. own1[p] = P /\ own1 \in [Pids -> SUBSET Ram]
      BY <1>1, <2>1, <2>2
    <2>5. Own' = [own1 EXCEPT ![p] = @ \ P]
      <3>1. Own' = [Own EXCEPT ![p] = {}]
        BY <1>1, <1>3, <1>7, OwnChanges
      <3>2. [own1 EXCEPT ![p] = @ \ P] = [Own EXCEPT ![p] = {}]
        BY <1>1, <2>1, <2>2
      <3> QED BY <3>1, <3>2
    <2> HIDE DEF own1
    <2>6. Divided(free \cup P, leaked \cup T, Own', Shared)
      BY <1>1, <2>3, <2>4, <2>5, ProcessReturns
    <2>7. J \in SUBSET Ids
      BY <1>1, RegionFacts
    <2>8. UNION { Shared[i] : i \in J } = UNION { RegionFrames(r) : r \in Removed }
      <3>1. ASSUME NEW r \in Removed PROVE Shared[r.id] = RegionFrames(r)
        <4>1. r \in shm /\ r.id \in Ids
          BY <1>1, RegionFacts
        <4>2. \A f : f \in Shared[r.id] <=> f \in RegionFrames(r)
          BY <4>1, SharedFacts DEF IInv, RegionInv
        <4> QED BY <4>1, <4>2 DEF Shared
      <3> QED BY <3>1
    <2>9. Shared' = [i \in Ids |-> IF i \in J THEN {} ELSE Shared[i]]
      <3>1. ASSUME NEW i \in Ids PROVE Shared'[i] = IF i \in J THEN {} ELSE Shared[i]
        <4>1. \A f : f \in Shared'[i] <=> \E q \in shm' : q.id = i /\ f \in RegionFrames(q)
          BY SharedFactsNext
        <4>2. \A f : f \in Shared[i] <=> \E q \in shm : q.id = i /\ f \in RegionFrames(q)
          BY SharedFacts
        <4>3. \A f : f \in Shared'[i] <=>
                 \E r \in shm \ Removed : r.id = i /\ f \in RegionFrames(r)
          BY <1>2, <4>1, KeptFacts, <1>1
        <4>4. CASE i \in J
          <5>1. \A r \in shm \ Removed : r.id # i
            BY <1>1, <4>4 DEF IInv, RegionInv
          <5> QED BY <4>3, <4>4, <5>1
        <4>5. CASE i \notin J
          <5>1. \A r \in shm : r.id = i => r \in shm \ Removed
            BY <4>5
          <5>2. \A f : f \in Shared'[i] <=> f \in Shared[i]
            BY <4>2, <4>3, <5>1
          <5> QED BY <4>5, <5>2
        <4> QED BY <4>4, <4>5
      <3>2. Shared' = [i \in Ids |-> Shared'[i]]
        BY SharedFactsNext
      <3> HIDE DEF J
      <3> QED BY <3>1, <3>2
    <2> HIDE DEF J
    <2>10. Divided((free \cup P) \cup UNION { Shared[i] : i \in J }, leaked \cup T, Own',
                   [i \in Ids |-> IF i \in J THEN {} ELSE Shared[i]])
      BY <2>6, <2>7, RegionsReturn
    <2>11. free' = (free \cup P) \cup UNION { Shared[i] : i \in J } /\ leaked' = leaked \cup T
      BY <1>2, <2>8 DEF P, T
    <2> QED BY <2>9, <2>10, <2>11 DEF Partition
  <1> QED BY <1>15, <1>16, <1>17 DEF IInv

-----------------------------------------------------------------------------
(* load_elf. *)

(* What load_elf has been served is the root, pages and tables. *)
LEMMA ServedShape ==
    /\ \A v : Page(v) \in Served => v \in LoadedPages
    /\ \A t : Table(t) \in Served => t \in Tables
    /\ \A a \in Served : \/ a = Root
                         \/ \E v \in LoadedPages : a = Page(v)
                         \/ \E t \in Tables : a = Table(t)
    /\ \A v, w : Page(v) = Page(w) => v = w
    /\ \A t, u : Table(t) = Table(u) => t = u
    /\ \A v, t : Page(v) # Table(t) /\ Page(v) # Root /\ Table(t) # Root
  <1>1. /\ \A v, w : Page(v) = Page(w) => v = w
        /\ \A t, u : Table(t) = Table(u) => t = u
        /\ \A v, t : Page(v) # Table(t) /\ Page(v) # Root /\ Table(t) # Root
    BY DEF Page, Table, Root
  <1>2. \A a \in Served : \/ a = Root
                          \/ \E v \in LoadedPages : a = Page(v)
                          \/ \E v \in LoadedPages : a = Table(TableOf(v))
    BY DEF Served, Needs
  <1>3. \A v \in LoadedPages : TableOf(v) \in Tables
    BY PagesFacts
  <1> QED BY <1>1, <1>2, <1>3

(* The VMAs of a new process cover its segments and its stack. *)
LEMMA LoadedCovered ==
    /\ LoadedVmas \in VmaSet
    /\ \A v \in Pages : (\E vma \in LoadedVmas : vma.start <= v /\ v < vma.end)
                           <=> (v \in SegmentPages \/ StackStart <= v)
    /\ \A v \in LoadedPages : v \in SegmentPages \/ StackStart <= v
  <1>1. NUM_PAGES \in Nat /\ StackStart \in Nat /\ StackStart <= NUM_PAGES
        /\ \A v \in SegmentPages : v \in 0 .. NUM_PAGES - 1
    BY SizesAssumption, LayoutAssumption DEF Pages
  <1>2. LoadedVmas \in VmaSet
    BY <1>1 DEF LoadedVmas, VmaSet, Vma
  <1>3. \A v \in Pages : v \in Nat /\ v < NUM_PAGES
    BY <1>1 DEF Pages
  <1>4. \A s, e : Vma(s, e).start = s /\ Vma(s, e).end = e
    BY DEF Vma
  <1>5. \A vma : vma \in LoadedVmas <=>
           ((\E s \in SegmentPages : vma = Vma(s, s + 1)) \/ vma = Vma(StackStart, NUM_PAGES))
    BY DEF LoadedVmas
  <1>6. ASSUME NEW v \in Pages
        PROVE  (\E vma \in LoadedVmas : vma.start <= v /\ v < vma.end)
                  <=> (v \in SegmentPages \/ StackStart <= v)
    <2>1. ASSUME NEW vma \in LoadedVmas, vma.start <= v, v < vma.end
          PROVE  v \in SegmentPages \/ StackStart <= v
      <3>1. CASE \E s \in SegmentPages : vma = Vma(s, s + 1)
        <4>1. PICK s \in SegmentPages : vma = Vma(s, s + 1)
          BY <3>1
        <4>2. s \in Nat /\ v \in Nat /\ s <= v /\ v < s + 1
          BY <1>1, <1>3, <1>4, <2>1, <4>1
        <4>3. v = s
          BY <4>2
        <4> QED BY <4>3
      <3>2. CASE vma = Vma(StackStart, NUM_PAGES)
        BY <1>4, <2>1, <3>2
      <3> QED BY <1>5, <3>1, <3>2
    <2>2. ASSUME v \in SegmentPages PROVE \E vma \in LoadedVmas : vma.start <= v /\ v < vma.end
      <3>1. v <= v /\ v < v + 1
        BY <1>3
      <3>2. Vma(v, v + 1) \in LoadedVmas
        BY <1>5, <2>2
      <3> QED BY <1>4, <3>1, <3>2
    <2>3. ASSUME StackStart <= v PROVE \E vma \in LoadedVmas : vma.start <= v /\ v < vma.end
      <3>1. Vma(StackStart, NUM_PAGES) \in LoadedVmas
        BY <1>5
      <3> QED BY <1>3, <1>4, <2>3, <3>1
    <2> QED BY <2>1, <2>2, <2>3
  <1>7. \A v \in LoadedPages : v \in SegmentPages \/ StackStart <= v
    <2>1. \A v \in StackPages : v \in StackStart .. NUM_PAGES - 1
      BY LayoutAssumption
    <2> QED BY <1>1, <2>1 DEF LoadedPages
  <1> QED BY <1>2, <1>6, <1>7

(* A new process begins with nothing. *)
LEMMA NewPid ==
    ASSUME IInv, next_pid <= MaxPid
    PROVE  /\ next_pid \in Pids /\ next_pid \notin alive /\ next_pid \in Nat /\ MaxPid \in Nat
           /\ next_pid + 1 \in 1 .. MaxPid + 1
           /\ Own[next_pid] = {}
           /\ \A r \in shm : r.owner # next_pid
  <1>1. next_pid \in Pids /\ next_pid \in Nat /\ MaxPid \in Nat /\ next_pid + 1 \in 1 .. MaxPid + 1
    BY SizesAssumption DEF IInv, ProcInv, Pids
  <1>2. next_pid \notin alive
    BY <1>1 DEF IInv, ProcInv
  <1>3. Absent(next_pid)
    BY <1>1, <1>2 DEF IInv, ProcInv
  <1>4. \A v : v \notin Covered(next_pid)
    BY <1>3, CoveredFacts DEF Absent
  <1>5. TableFrames(next_pid) = {} /\ PrivateFrames(next_pid) = {}
    BY <1>1, <1>3, <1>4 DEF Absent, TableFrames, PrivateFrames, Range, IInv, ProcInv
  <1>6. \A r \in shm : r.owner # next_pid
    BY <1>1 DEF IInv, RegionInv
  <1> QED BY <1>1, <1>2, <1>5, <1>6, OwnFacts

(* What load_elf is served are different free frames. *)
LEMMA FreeFacts ==
    ASSUME IInv
    PROVE  /\ free \in SUBSET Nat /\ IsFiniteSet(free) /\ NoFrame \notin free /\ free \subseteq Ram
           /\ Granted(Served, free) \in [Served -> free]
           /\ \A x, y \in Served : Granted(Served, free)[x] = Granted(Served, free)[y] => x = y
  <1>1. free \in SUBSET Ram
    BY DEF IInv, Partition, Divided
  <1>2. free \in SUBSET Nat /\ IsFiniteSet(free) /\ NoFrame \notin free
    BY <1>1, PagesFacts, FS_Subset
  <1>3. IsFiniteSet(Served) /\ Enough(Served, free)
    BY <1>2, ServedFacts
  <1> QED BY <1>1, <1>2, <1>3, GrantedFacts

(* load_elf succeeds, or gives up and loses what it was served. *)
LEMMA LoadIInv ==
    ASSUME IInv, next_pid <= MaxPid, next_pid' = next_pid + 1, Load,
           UNCHANGED << shm, next_shm_id >>
    PROVE  IInv'
  <1>0. PICK n : n = next_pid
    OBVIOUS
  <1> DEFINE got == Granted(Served, free)
             G == Range(got)
  <1>1. /\ LoadSucceeds
        /\ alive' = alive \cup {n}
        /\ root' = [root EXCEPT ![n] = got[Root]]
        /\ pt' = [pt EXCEPT ![n] =
                     [v \in Pages |-> IF Page(v) \in Served THEN got[Page(v)] ELSE NoFrame]]
        /\ tables' = [tables EXCEPT ![n] =
                     [t \in Tables |-> IF Table(t) \in Served THEN got[Table(t)] ELSE NoFrame]]
        /\ vmas' = [vmas EXCEPT ![n] = LoadedVmas]
        /\ heap_break' = [heap_break EXCEPT ![n] = HeapBase]
        /\ free' = free \ G
        /\ next_pid' = n + 1
        /\ UNCHANGED << panicked, leaked >>
    BY <1>0 DEF Load
  <1>2. /\ n \in Pids /\ n \notin alive /\ n \in Nat /\ n + 1 \in 1 .. MaxPid + 1
        /\ Own[n] = {} /\ \A r \in shm : r.owner # n
    BY <1>0, NewPid
  <1>3. got \in [Served -> free] /\ \A x, y \in Served : got[x] = got[y] => x = y
    BY FreeFacts
  <1>4. free \subseteq Ram /\ NoFrame \notin free /\ Root \in Served
    BY <1>1, FreeFacts, RootServed
  <1> HIDE DEF got
  <1>5. /\ \A f : f \in G <=> \E a \in Served : f = got[a]
        /\ G \subseteq free
    BY <1>3 DEF Range
  <1>6. \A q \in Pids : q # n => Same(q)
    BY <1>1, <1>2 DEF IInv, ProcInv, Same
  <1>7. /\ root'[n] = got[Root]
        /\ \A v \in Pages : pt'[n][v] = IF Page(v) \in Served THEN got[Page(v)] ELSE NoFrame
        /\ \A t \in Tables : tables'[n][t] = IF Table(t) \in Served THEN got[Table(t)] ELSE NoFrame
        /\ vmas'[n] = LoadedVmas
        /\ heap_break'[n] = HeapBase
    BY <1>1, <1>2 DEF IInv, ProcInv
  <1>8. /\ root' \in [Pids -> Ram \cup {NoFrame}]
        /\ pt' \in [Pids -> [Pages -> Frames \cup {NoFrame}]]
        /\ tables' \in [Pids -> [Tables -> Ram \cup {NoFrame}]]
        /\ vmas' \in [Pids -> VmaSet]
        /\ heap_break' \in [Pids -> 0 .. MaxBreak]
    <2>1. \A a \in Served : got[a] \in Ram /\ got[a] \in Frames
      BY <1>3, <1>4 DEF Frames
    <2>2. root' \in [Pids -> Ram \cup {NoFrame}]
      BY <1>1, <1>2, <1>4, <2>1 DEF IInv, ProcInv
    <2>3. pt' \in [Pids -> [Pages -> Frames \cup {NoFrame}]]
      <3>1. [v \in Pages |-> IF Page(v) \in Served THEN got[Page(v)] ELSE NoFrame]
              \in [Pages -> Frames \cup {NoFrame}]
        BY <2>1
      <3> QED BY <1>1, <1>2, <3>1 DEF IInv, ProcInv
    <2>4. tables' \in [Pids -> [Tables -> Ram \cup {NoFrame}]]
      <3>1. [t \in Tables |-> IF Table(t) \in Served THEN got[Table(t)] ELSE NoFrame]
              \in [Tables -> Ram \cup {NoFrame}]
        BY <2>1
      <3> QED BY <1>1, <1>2, <3>1 DEF IInv, ProcInv
    <2>5. vmas' \in [Pids -> VmaSet]
      BY <1>1, <1>2, LoadedCovered DEF IInv, ProcInv
    <2>6. heap_break' \in [Pids -> 0 .. MaxBreak]
      BY <1>1, <1>2, HeapBaseEven, LayoutAssumption DEF IInv, ProcInv
    <2> QED BY <2>2, <2>3, <2>4, <2>5, <2>6
  <1>9. \A v : v \in Covered(n)' <=> (v \in Pages /\ (v \in SegmentPages \/ StackStart <= v))
    BY <1>7, CoveredFactsNext, LoadedCovered
  <1>10. \A v \in LoadedPages : v \in Covered(n)' /\ v \in Pages
    BY <1>9, LoadedCovered, PagesFacts
  <1>11. \A f : f \in TableFrames(n)' <=>
             (f = got[Root] \/ \E t \in Tables : Table(t) \in Served /\ f = got[Table(t)])
    <2>1. \A f : f \in TableFrames(n)' <=>
             (f # NoFrame /\ (f = root'[n] \/ \E t \in Tables : f = tables'[n][t]))
      BY <1>2, <1>8 DEF TableFrames, Range
    <2>2. \A a \in Served : got[a] # NoFrame
      BY <1>3, <1>4
    <2> QED BY <1>4, <1>7, <2>1, <2>2
  <1>12. \A f : f \in PrivateFrames(n)' <=>
             \E v \in LoadedPages : Page(v) \in Served /\ f = got[Page(v)]
    <2>1. \A f : f \in PrivateFrames(n)' <=> (f # NoFrame /\ \E v \in Covered(n)' : f = pt'[n][v])
      BY DEF PrivateFrames
    <2>2. \A a \in Served : got[a] # NoFrame
      BY <1>3, <1>4
    <2>3. Covered(n)' \subseteq Pages
      BY CoveredFactsNext
    <2> QED BY <1>7, <1>10, <2>1, <2>2, <2>3, ServedShape
  <1>13. TableFrames(n)' \cup PrivateFrames(n)' = G
    <2>1. \A f : f \in G <=> (f \in TableFrames(n)' \/ f \in PrivateFrames(n)')
      BY <1>4, <1>5, <1>11, <1>12, ServedShape
    <2> HIDE DEF G
    <2> QED BY <2>1
  <1>14. ServesOnce(n)'
    <2>1. \A t \in Tables : tables'[n][t] # NoFrame => tables'[n][t] # root'[n]
      BY <1>3, <1>4, <1>7, ServedShape
    <2>2. \A t, u \in Tables : tables'[n][t] # NoFrame /\ tables'[n][t] = tables'[n][u] => t = u
      BY <1>3, <1>7, ServedShape
    <2>3. \A v \in Covered(n)' : v \in Pages
      BY CoveredFactsNext
    <2>4. \A v \in Covered(n)' : pt'[n][v] # NoFrame => pt'[n][v] \notin TableFrames(n)'
      BY <1>3, <1>4, <1>7, <1>11, <2>3, ServedShape
    <2>5. \A v, w \in Covered(n)' : pt'[n][v] # NoFrame /\ pt'[n][v] = pt'[n][w] => v = w
      BY <1>3, <1>7, <2>3, ServedShape
    <2> QED BY <2>1, <2>2, <2>4, <2>5 DEF ServesOnce
  <1>15. \A q \in Pids : ServesOnce(q)' /\ (q \notin alive' => Absent(q)')
    BY <1>1, <1>2, <1>6, <1>14, SameKeeps DEF IInv, ProcInv
  <1>16. \A q \in Pids : q # n => Covered(q)' = Covered(q) /\ pt'[q] = pt[q] /\ heap_break'[q] = heap_break[q]
    BY <1>1, <1>6, SameKeeps DEF Same, IInv, ProcInv
  <1>17. RequestsApart'
    <2>1. \A v \in Covered(n)' : ~ MappedOnRequest(v)
      <3>1. StackStart \in Nat /\ \A v \in Pages : v \in Nat
        BY LayoutAssumption, PagesFacts
      <3>2. \A v \in Pages : MappedOnRequest(v) => v \notin SegmentPages /\ v < StackStart
        BY ProgramsAssumption
      <3> QED BY <1>9, <3>1, <3>2
    <2> QED BY <1>16, <2>1 DEF IInv, ProcInv, RequestsApart
  <1>18. \A q \in alive' : q \in Pids /\ (q = n \/ (q # n /\ q \in alive))
    BY <1>1, <1>2 DEF IInv, ProcInv
  <1>19. PagesCovered'
    <2>1. \A v \in Pages : pt'[n][v] # NoFrame => v \in Covered(n)'
      BY <1>7, <1>10, ServedShape
    <2> QED BY <1>16, <1>18, <2>1 DEF IInv, ProcInv, PagesCovered
  <1>20. HeapBacked'
    <2>1. \A b \in HeapBase .. HeapBase - 1 : FALSE
      BY HeapBaseEven
    <2> QED BY <1>7, <1>16, <1>18, <2>1 DEF IInv, ProcInv, HeapBacked
  <1>21. \A q \in alive' : q < next_pid' /\ HeapBase <= heap_break'[q]
    <2>1. \A q \in alive : q \in Nat /\ q < n /\ HeapBase <= heap_break[q]
      BY <1>0 DEF IInv, ProcInv, Pids
    <2>2. HeapBase <= HeapBase
      BY HeapBaseEven
    <2>3. ASSUME NEW q \in alive' PROVE q < n + 1 /\ HeapBase <= heap_break'[q]
      <3>1. CASE q = n
        BY <1>2, <1>7, <2>2, <3>1
      <3>2. CASE q # n
        <4>1. q \in alive /\ heap_break'[q] = heap_break[q]
          BY <1>16, <1>18, <3>2
        <4> QED BY <1>2, <2>1, <4>1
      <3> QED BY <3>1, <3>2
    <2> QED BY <1>1, <2>3
  <1>22. ProcInv'
    <2>1. alive' \subseteq Pids /\ next_pid' \in 1 .. MaxPid + 1 /\ panicked' \in BOOLEAN
      BY <1>1, <1>2, <1>18 DEF IInv, ProcInv
    <2> QED BY <1>8, <1>15, <1>17, <1>19, <1>20, <1>21, <2>1 DEF ProcInv
  <1>23. RegionInv'
    <2>1. \A r \in shm : r.owner \in Nat /\ r.owner < next_pid'
      <3>1. \A r \in shm : r.owner \in Nat /\ r.owner < next_pid
        BY RegionFacts DEF Pids, IInv, RegionInv
      <3> QED BY <1>0, <1>1, <1>2, <3>1
    <2>2. \A r \in shm : r.owner \in alive' => ~ r.owner_exited
      BY <1>1, <1>2 DEF IInv, RegionInv
    <2> QED BY <2>1, <2>2 DEF IInv, RegionInv
  <1>24. Partition'
    <2> HIDE DEF G
    <2>1. Own' = [Own EXCEPT ![n] = G]
      BY <1>2, <1>6, <1>13, OwnChanges
    <2>2. Divided(free \ G, leaked, [Own EXCEPT ![n] = @ \cup G], Shared)
      BY <1>2, <1>5, ProcessTakes DEF IInv, Partition
    <2>3. [Own EXCEPT ![n] = @ \cup G] = [Own EXCEPT ![n] = G]
      BY <1>2
    <2>4. Shared' = Shared
      BY DEF Shared, RegionFrames
    <2> QED BY <1>1, <2>1, <2>2, <2>3, <2>4 DEF Partition
  <1> QED BY <1>22, <1>23, <1>24 DEF IInv

(* A load that fails leaves the processes as they were. *)
LEMMA LoadFailsIInv ==
    ASSUME IInv, next_pid <= MaxPid, next_pid' = next_pid + 1, LoadGivesUp \/ LoadPanics,
           UNCHANGED << shm, next_shm_id >>
    PROVE  IInv'
  <1>1. /\ UNCHANGED << alive, pt, root, tables, vmas, heap_break >>
        /\ panicked' \in BOOLEAN
    BY DEF LoadGivesUp, LoadPanics, IInv, ProcInv
  <1>2. next_pid \in Nat /\ next_pid + 1 \in 1 .. MaxPid + 1
    BY NewPid
  <1>3. \A q \in Pids : Same(q)
    BY <1>1 DEF Same
  <1>4. \A q \in Pids : ServesOnce(q)' /\ (q \notin alive => Absent(q)') /\ Covered(q)' = Covered(q)
    BY <1>3, SameKeeps DEF IInv, ProcInv
  <1>5. \A q \in alive : q \in Pids /\ Covered(q)' = Covered(q)
    BY <1>4 DEF IInv, ProcInv
  <1>6. RequestsApart'
    BY <1>4 DEF IInv, ProcInv, RequestsApart
  <1>7. PagesCovered'
    BY <1>1, <1>5 DEF IInv, ProcInv, PagesCovered
  <1>8. HeapBacked'
    BY <1>1, <1>5 DEF IInv, ProcInv, HeapBacked
  <1>9. \A q \in alive : q < next_pid'
    <2>1. \A q \in alive : q \in Nat /\ q < next_pid
      BY DEF IInv, ProcInv, Pids
    <2> QED BY <1>2, <2>1
  <1>10. ProcInv'
    BY <1>1, <1>2, <1>4, <1>6, <1>7, <1>8, <1>9 DEF IInv, ProcInv
  <1>11. RegionInv'
    <2>1. \A r \in shm : r.owner \in Nat /\ r.owner < next_pid
      BY RegionFacts DEF Pids, IInv, RegionInv
    <2>2. \A r \in shm : r.owner < next_pid'
      BY <1>2, <2>1
    <2> QED BY <1>1, <2>2 DEF IInv, RegionInv
  <1>12. Own' = Own /\ Shared' = Shared
    <2>1. Own' = Own
      BY <1>1 DEF Own, TableFrames, PrivateFrames, Covered
    <2>2. Shared' = Shared
      BY DEF Shared, RegionFrames
    <2> QED BY <2>1, <2>2
  <1>13. Divided(free', leaked', Own, Shared)
    <2>1. CASE LoadPanics
      BY <2>1 DEF LoadPanics, IInv, Partition
    <2>2. CASE LoadGivesUp
      <3> DEFINE got == Granted(Served, free)
                 G == Range(got)
      <3>1. got \in [Served -> free]
        BY FreeFacts
      <3>2. free' = free \ G /\ leaked' = leaked \cup G
        BY <2>2 DEF LoadGivesUp
      <3> HIDE DEF got
      <3>3. G \subseteq free
        BY <3>1 DEF Range
      <3> HIDE DEF G
      <3> QED BY <3>2, <3>3, AllocatorLoses DEF IInv, Partition
    <2> QED BY <2>1, <2>2
  <1> QED BY <1>10, <1>11, <1>12, <1>13 DEF IInv, Partition

-----------------------------------------------------------------------------
(* The invariant holds at first and is kept by every step. *)

(* At the start all of RAM is free. *)
LEMMA InitIInv == Init => IInv
  <1> SUFFICES ASSUME Init PROVE IInv
    OBVIOUS
  <1>1. NUM_FRAMES \in Nat /\ MaxPid \in Nat /\ MaxShmId \in Nat /\ MaxBreak \in Nat
        /\ MAX_SHM_REGIONS \in Nat
    BY SizesAssumption, LayoutAssumption
  <1>2. \A p \in Pids : /\ vmas[p] = {} /\ root[p] = NoFrame
                        /\ tables[p] = [t \in Tables |-> NoFrame]
                        /\ pt[p] = [v \in Pages |-> NoFrame]
    BY DEF Init
  <1>3. \A p \in Pids : \A v : v \notin Covered(p)
    BY <1>2, CoveredFacts
  <1>4. \A p \in Pids : Absent(p)
    BY <1>2 DEF Absent
  <1>5. \A p \in Pids : ServesOnce(p)
    BY <1>2, <1>3 DEF ServesOnce
  <1>6. \A p \in Pids : TableFrames(p) = {} /\ PrivateFrames(p) = {}
    BY <1>2, <1>3 DEF TableFrames, PrivateFrames, Range
  <1>7. RequestsApart /\ PagesCovered /\ HeapBacked
    BY <1>3 DEF Init, RequestsApart, PagesCovered, HeapBacked
  <1>8. ProcInv
    <2>1. vmas \in [Pids -> VmaSet]
      BY DEF Init, VmaSet
    <2>2. alive = {} /\ next_pid \in 1 .. MaxPid + 1
      BY <1>1 DEF Init
    <2>5. panicked \in BOOLEAN
      BY Zenon DEF Init
    <2>3. /\ pt \in [Pids -> [Pages -> Frames \cup {NoFrame}]]
          /\ root \in [Pids -> Ram \cup {NoFrame}]
          /\ tables \in [Pids -> [Tables -> Ram \cup {NoFrame}]]
      BY DEF Init
    <2>4. heap_break \in [Pids -> 0 .. MaxBreak]
      BY <1>1 DEF Init
    <2> QED BY <1>4, <1>5, <1>7, <2>1, <2>2, <2>3, <2>4, <2>5 DEF ProcInv
  <1>9. RegionInv
    BY <1>1, FS_EmptySet DEF Init, RegionInv
  <1>10. Partition
    <2>1. Own = [p \in Pids |-> {}]
      BY <1>6 DEF Own
    <2>2. Shared = [i \in Ids |-> {}]
      BY DEF Init, Shared
    <2>3. free = Ram /\ leaked = {}
      BY DEF Init
    <2> QED BY <2>1, <2>2, <2>3 DEF Partition, Divided
  <1> QED BY <1>8, <1>9, <1>10 DEF IInv

(* A stuttering step. *)
LEMMA SameState == IInv /\ UNCHANGED vars => IInv'
  <1> SUFFICES ASSUME IInv, UNCHANGED vars PROVE IInv'
    OBVIOUS
  <1>1. UNCHANGED << free, alive, next_pid, pt, root, tables, vmas, heap_break, shm,
                     next_shm_id, panicked, leaked >>
    BY DEF vars
  <1>2. \A q : Covered(q)' = Covered(q)
    BY <1>1 DEF Covered
  <1>3. \A q : TableFrames(q)' = TableFrames(q)
    BY <1>1 DEF TableFrames
  <1>4. \A q \in Pids : ServesOnce(q)' /\ (q \notin alive => Absent(q)')
    BY <1>1, <1>2, <1>3 DEF IInv, ProcInv, ServesOnce, Absent
  <1>5. RequestsApart' /\ PagesCovered' /\ HeapBacked'
    BY <1>1, <1>2 DEF IInv, ProcInv, RequestsApart, PagesCovered, HeapBacked
  <1>6. ProcInv'
    BY <1>1, <1>4, <1>5 DEF IInv, ProcInv
  <1>7. RegionInv'
    BY <1>1 DEF IInv, RegionInv
  <1>8. Partition'
    BY <1>1 DEF IInv, Partition, Own, Shared, TableFrames, PrivateFrames, Covered, RegionFrames
  <1> QED BY <1>6, <1>7, <1>8 DEF IInv

(* Every step preserves the invariant. *)
LEMMA NextIInv == IInv /\ [Next]_vars => IInv'
  <1> SUFFICES ASSUME IInv, [Next]_vars PROVE IInv'
    OBVIOUS
  <1>1. CASE SysSpawn
    BY <1>1, LoadIInv, LoadFailsIInv DEF SysSpawn, LoadElf
  <1>2. ASSUME NEW p \in Pids, SysExit(p) PROVE IInv'
    BY <1>2, ExitIInv DEF SysExit, Runs
  <1>3. ASSUME NEW p \in Pids, NEW v \in Pages, PageFaultKills(p, v) PROVE IInv'
    BY <1>3, ExitIInv DEF PageFaultKills, Runs
  <1>4. ASSUME NEW p \in Pids, NEW v \in Pages, DemandPage(p, v) PROVE IInv'
    BY <1>4, DemandIInv
  <1>5. ASSUME NEW p \in Pids, NEW k \in Increments, SysSbrk(p, k) PROVE IInv'
    BY <1>5, SbrkIInv
  <1>6. ASSUME NEW p \in Pids, NEW n \in MapSizes, NEW hint \in MmapHints, SysMmap(p, hint, n)
        PROVE  IInv'
    BY <1>6, MmapIInv
  <1>7. ASSUME NEW p \in Pids, NEW n \in MapSizes, NEW v \in UnmapAt, SysMunmap(p, v, n)
        PROVE  IInv'
    BY <1>7, MunmapIInv
  <1>8. ASSUME NEW p \in Pids, NEW n \in ShmSizes, SysShmCreate(p, n) PROVE IInv'
    BY <1>8, ShmCreateIInv
  <1>9. ASSUME NEW p \in Pids, NEW v \in DeviceAt, NEW f \in PhysicalAt,
               NEW n \in PhysicalSizes, SysMapPhysical(p, v, f, n)
        PROVE  IInv'
    BY <1>9, MapPhysicalIInv
  <1>10. ASSUME NEW p \in Pids, NEW r \in shm, NEW v \in ShmAt, SysShmMap(p, r, v) PROVE IInv'
    BY <1>10, ShmMapIInv
  <1>11. ASSUME NEW p \in Pids, NEW r \in shm, NEW v \in ShmAt, SysShmUnmap(p, r, v) PROVE IInv'
    BY <1>11, ShmUnmapIInv
  <1>12. CASE HltLoop
    BY <1>12, SameState DEF HltLoop
  <1>13. CASE UNCHANGED vars
    BY <1>13, SameState
  <1> QED BY <1>1, <1>2, <1>3, <1>4, <1>5, <1>6, <1>7, <1>8, <1>9, <1>10, <1>11, <1>12, <1>13
          DEF Next

(* The invariant holds in every reachable state. *)
LEMMA SpecIInv == Spec => []IInv
  BY InitIInv, NextIInv, PTL DEF Spec

-----------------------------------------------------------------------------
(* The pages mapped on request: where they are, and what they show. *)

Asked == Pids \X Pages \X (0 .. MaxShmId)

AskedInv ==
    /\ asked \subseteq Asked
    /\ \A p \in Pids, v \in Pages, i \in 0 .. MaxShmId :
          << p, v, i >> \in asked => p \in alive /\ MappedOnRequest(v) /\ i < next_shm_id
    /\ \A p \in Pids, v \in Pages :
          MappedOnRequest(v) /\ pt[p][v] # NoFrame => \E i \in 0 .. MaxShmId : << p, v, i >> \in asked
    /\ \A p \in Pids, v \in Pages : \A r \in shm :
          << p, v, r.id >> \in asked => pt[p][v] \in RegionFrames(r)

(* What is left of the requests, and what is added. *)
LEMMA RequestsFacts ==
    ASSUME NEW p, NEW S, NEW by
    PROVE  /\ \A q, v, i : << q, v, i >> \in Requests(p, S, by) <=> (q = p /\ v \in S /\ i \in by)
           /\ \A q, v : \A i \in 0 .. MaxShmId :
                << q, v, i >> \in NotAsked(p, S) <=> (<< q, v, i >> \in asked /\ ~ (q = p /\ v \in S))
           /\ NotAsked(p, S) \subseteq asked
  BY DEF Requests, NotAsked

(* The regions that are left have the frames they had. *)
RegionsFixed ==
    \A q \in shm' : \/ q.id = next_shm_id
                   \/ \E r \in shm : r.id = q.id /\ RegionFrames(r) = RegionFrames(q)

(* A step that takes back the requests of p for the pages S, and makes     *)
(* those `by`, keeps the invariant if the page tables agree.               *)
LEMMA AskedStep ==
    ASSUME IInv, AskedInv, NEW p \in Pids, NEW S, NEW by \in SUBSET (0 .. MaxShmId),
           S \subseteq Pages,
           asked' = NotAsked(p, S) \cup Requests(p, S, by),
           \A q \in Pids, v \in Pages :
              ~ (q = p /\ v \in S) /\ MappedOnRequest(v) => pt'[q][v] = pt[q][v],
           by = {} => \A v \in S : MappedOnRequest(v) => pt'[p][v] = NoFrame,
           by # {} => \A v \in S : p \in alive' /\ MappedOnRequest(v),
           \A i \in by : i < next_shm_id'
              /\ \A r \in shm' : r.id = i => \A v \in S : pt'[p][v] \in RegionFrames(r),
           RegionsFixed, next_shm_id' \in {next_shm_id, next_shm_id + 1},
           \A q \in alive : q \in alive' \/ (q = p /\ S = Pages /\ by = {})
    PROVE  AskedInv'
  <1>1. asked' \subseteq Asked
    <2>1. Requests(p, S, by) \subseteq Asked
      BY DEF Requests, Asked
    <2>2. NotAsked(p, S) \subseteq asked
      BY RequestsFacts
    <2> QED BY <2>1, <2>2 DEF AskedInv
  <1>2. \A q \in Pids, v \in Pages : \A i \in 0 .. MaxShmId :
           << q, v, i >> \in asked' <=> ((<< q, v, i >> \in asked /\ ~ (q = p /\ v \in S)) \/ (q = p /\ v \in S /\ i \in by))
    <2>1. \A q, v, i : << q, v, i >> \in Requests(p, S, by) <=> (q = p /\ v \in S /\ i \in by)
      BY DEF Requests
    <2>2. \A q, v : \A i \in 0 .. MaxShmId :
             << q, v, i >> \in NotAsked(p, S) <=> (<< q, v, i >> \in asked /\ ~ (q = p /\ v \in S))
      BY DEF Requests, NotAsked
    <2>3. ASSUME NEW x PROVE x \in asked' <=> x \in NotAsked(p, S) \/ x \in Requests(p, S, by)
      OBVIOUS
    <2>4. ASSUME NEW q \in Pids, NEW v \in Pages, NEW i \in 0 .. MaxShmId
          PROVE  << q, v, i >> \in asked' <=> ((<< q, v, i >> \in asked /\ ~ (q = p /\ v \in S)) \/ (q = p /\ v \in S /\ i \in by))
      <3> DEFINE x == << q, v, i >>
      <3>0. x \in asked' <=> x \in NotAsked(p, S) \/ x \in Requests(p, S, by)
        BY <2>3, Zenon
      <3>1. x \in NotAsked(p, S) <=> (x \in asked /\ ~ (q = p /\ v \in S))
        BY <2>2, Zenon
      <3>2. x \in Requests(p, S, by) <=> (q = p /\ v \in S /\ i \in by)
        BY <2>1, Zenon
      <3> HIDE DEF x
      <3>3. x \in asked' <=> ((x \in asked /\ ~ (q = p /\ v \in S)) \/ (q = p /\ v \in S /\ i \in by))
        BY <3>0, <3>1, <3>2, Zenon
      <3> QED BY <3>3 DEF x
    <2> QED BY <2>4, Zenon
  <1>3. \A r \in shm : r.id \in 0 .. MaxShmId
    BY RegionFacts DEF Ids
  <1>t. MaxShmId \in Nat /\ next_shm_id \in Nat /\ next_shm_id' \in Nat
    BY SizesAssumption DEF IInv, RegionInv
  <1>4. ASSUME NEW q \in Pids, NEW v \in Pages, NEW i \in 0 .. MaxShmId, << q, v, i >> \in asked'
        PROVE  q \in alive' /\ MappedOnRequest(v) /\ i < next_shm_id'
    <2>1. CASE q = p /\ v \in S /\ i \in by
      BY <2>1
    <2>2. CASE << q, v, i >> \in asked /\ ~ (q = p /\ v \in S)
      <3>1. q \in alive /\ MappedOnRequest(v) /\ i < next_shm_id
        BY <2>2 DEF AskedInv
      <3>2. i < next_shm_id'
        BY <1>t, <3>1
      <3> QED BY <2>2, <3>1, <3>2
    <2> QED BY <1>2, <1>4, <2>1, <2>2
  <1>5. ASSUME NEW q \in Pids, NEW v \in Pages, MappedOnRequest(v), pt'[q][v] # NoFrame
        PROVE  \E i \in 0 .. MaxShmId : << q, v, i >> \in asked'
    <2>1. CASE q = p /\ v \in S
      <3>1. PICK i \in by : TRUE
        BY <1>5, <2>1
      <3> QED BY <1>2, <2>1, <3>1
    <2>2. CASE ~ (q = p /\ v \in S)
      <3>1. pt[q][v] # NoFrame
        BY <1>5, <2>2
      <3>2. PICK i \in 0 .. MaxShmId : << q, v, i >> \in asked
        BY <1>5, <3>1 DEF AskedInv
      <3>3. << q, v, i >> \in asked' <=> ((<< q, v, i >> \in asked /\ ~ (q = p /\ v \in S)) \/ (q = p /\ v \in S /\ i \in by))
        BY <1>2, Zenon
      <3>4. << q, v, i >> \in asked'
        <4> DEFINE x == << q, v, i >>
        <4> HIDE DEF x
        <4>1. x \in asked /\ (x \in asked' <=> ((x \in asked /\ ~ (q = p /\ v \in S)) \/ (q = p /\ v \in S /\ i \in by)))
          BY <3>2, <3>3, Zenon DEF x
        <4>2. x \in asked'
          BY <2>2, <4>1, Zenon
        <4> QED BY <4>2 DEF x
      <3> QED BY <3>4
    <2> QED BY <2>1, <2>2
  <1>6. ASSUME NEW q \in Pids, NEW v \in Pages, NEW r \in shm', << q, v, r.id >> \in asked'
        PROVE  pt'[q][v] \in RegionFrames(r)
    <2>0. r.id \in 0 .. MaxShmId
      BY <1>1, <1>6 DEF Asked
    <2>1. CASE q = p /\ v \in S /\ r.id \in by
      BY <2>1
    <2>2. CASE << q, v, r.id >> \in asked /\ ~ (q = p /\ v \in S)
      <3>1. r.id < next_shm_id /\ MappedOnRequest(v)
        BY <2>0, <2>2 DEF AskedInv
      <3>2. PICK x \in shm : x.id = r.id /\ RegionFrames(x) = RegionFrames(r)
        BY <1>t, <2>0, <3>1 DEF RegionsFixed
      <3>3. pt[q][v] \in RegionFrames(x)
        BY <2>2, <3>2 DEF AskedInv
      <3> QED BY <2>2, <3>1, <3>2, <3>3
    <2> QED BY <1>2, <1>6, <2>0, <2>1, <2>2
  <1> QED BY <1>1, <1>4, <1>5, <1>6 DEF AskedInv

(* No request is made or taken back. *)
LEMMA AskedKept ==
    ASSUME IInv, AskedInv, NEW p \in Pids, asked' = asked,
           \A q \in Pids, v \in Pages : MappedOnRequest(v) => pt'[q][v] = pt[q][v],
           RegionsFixed, next_shm_id' \in {next_shm_id, next_shm_id + 1},
           \A q \in alive : q \in alive'
    PROVE  AskedInv'
  <1> DEFINE S == {}
             by == {}
  <1>1. by \in SUBSET (0 .. MaxShmId) /\ S \subseteq Pages /\ \A v \in S : FALSE
    OBVIOUS
  <1>2. asked' = NotAsked(p, S) \cup Requests(p, S, by)
    <2>1. Requests(p, S, by) = {} /\ Requests(p, S, 0 .. MaxShmId) = {}
      BY DEF Requests
    <2> QED BY <2>1 DEF NotAsked
  <1>3. by = {} /\ \A i \in by : FALSE
    OBVIOUS
  <1> HIDE DEF S, by
  <1> QED BY <1>1, <1>2, <1>3, AskedStep

(* Pages are mapped: on request at places meant for that, or not on        *)
(* request elsewhere.                                                      *)
LEMMA AskedMapped ==
    ASSUME IInv, AskedInv, NEW p \in alive, NEW m, NEW avail, DOMAIN m \subseteq Pages,
           NEW by \in SUBSET (0 .. MaxShmId), MapPages(p, m, avail, by),
           UNCHANGED << alive, next_shm_id >>, RegionsFixed,
           by = {} => \A v \in DOMAIN m : ~ MappedOnRequest(v),
           by # {} => \A v \in DOMAIN m : MappedOnRequest(v),
           \A i \in by : i < next_shm_id
              /\ \A r \in shm' : r.id = i => \A v \in DOMAIN m : m[v] \in RegionFrames(r)
    PROVE  AskedInv'
  <1>1. p \in Pids
    BY DEF IInv, ProcInv
  <1>2. CASE UNCHANGED << pt, asked >>
    BY <1>1, <1>2, AskedKept
  <1>3. CASE /\ pt' = [pt EXCEPT ![p] = Over(m, @)]
             /\ asked' = NotAsked(p, DOMAIN m) \cup Requests(p, DOMAIN m, by)
    <2>1. \A q \in Pids : q # p => pt'[q] = pt[q]
      BY <1>3 DEF IInv, ProcInv
    <2>2. \A v \in Pages : pt'[p][v] = IF v \in DOMAIN m THEN m[v] ELSE pt[p][v]
      <3>1. pt'[p] = Over(m, pt[p]) /\ DOMAIN pt[p] = Pages
        BY <1>1, <1>3 DEF IInv, ProcInv
      <3> QED BY <3>1 DEF Over
    <2>3. PICK S : S = DOMAIN m
      OBVIOUS
    <2>4. /\ S \subseteq Pages /\ asked' = NotAsked(p, S) \cup Requests(p, S, by)
          /\ \A q \in Pids, v \in Pages :
                ~ (q = p /\ v \in S) /\ MappedOnRequest(v) => pt'[q][v] = pt[q][v]
          /\ by = {} => \A v \in S : MappedOnRequest(v) => pt'[p][v] = NoFrame
          /\ by # {} => \A v \in S : p \in alive' /\ MappedOnRequest(v)
      BY <1>3, <2>1, <2>2, <2>3
    <2>5. \A i \in by : i < next_shm_id'
             /\ \A r \in shm' : r.id = i => \A v \in S : pt'[p][v] \in RegionFrames(r)
      BY <2>2, <2>3
    <2> QED BY <1>1, <2>4, <2>5, AskedStep
  <1> QED BY <1>2, <1>3 DEF MapPages

(* Requests are taken back, because the pages are unmapped. *)
LEMMA AskedDropped ==
    ASSUME IInv, AskedInv, NEW p \in Pids, NEW S \in SUBSET Pages,
           asked' = NotAsked(p, S),
           \A q \in Pids, v \in Pages :
              ~ (q = p /\ v \in S) /\ MappedOnRequest(v) => pt'[q][v] = pt[q][v],
           \A v \in S : pt'[p][v] = NoFrame,
           RegionsFixed, UNCHANGED next_shm_id,
           \A q \in alive : q \in alive' \/ (q = p /\ S = Pages)
    PROVE  AskedInv'
  <1> DEFINE by == {}
  <1>1. by \in SUBSET (0 .. MaxShmId) /\ S \subseteq Pages
    OBVIOUS
  <1>2. asked' = NotAsked(p, S) \cup Requests(p, S, by)
    BY DEF Requests
  <1>3. by = {} /\ \A i \in by : FALSE
    OBVIOUS
  <1>4. next_shm_id' \in {next_shm_id, next_shm_id + 1}
    OBVIOUS
  <1> HIDE DEF by
  <1> QED BY <1>1, <1>2, <1>3, <1>4, AskedStep

(* n pages from v on are unmapped. *)
LEMMA AskedUnmapped ==
    ASSUME IInv, AskedInv, NEW p \in alive, NEW v \in Nat, NEW n \in Nat, v + n <= NUM_PAGES,
           pt' = Unmapped(p, v, n), asked' = NotAsked(p, v .. v + n - 1),
           UNCHANGED << alive, next_shm_id >>, RegionsFixed
    PROVE  AskedInv'
  <1>1. p \in Pids
    BY DEF IInv, ProcInv
  <1>2. PICK S : S = v .. v + n - 1
    OBVIOUS
  <1>3. S \in SUBSET Pages /\ asked' = NotAsked(p, S)
    BY <1>2, SizesAssumption DEF Pages
  <1>4. \A q \in Pids : q # p => pt'[q] = pt[q]
    BY DEF IInv, ProcInv, Unmapped
  <1>5. \A w \in Pages : pt'[p][w] = IF w \in S THEN NoFrame ELSE pt[p][w]
    BY <1>1, <1>2 DEF IInv, ProcInv, Unmapped
  <1>6. /\ \A q \in Pids, w \in Pages :
              ~ (q = p /\ w \in S) /\ MappedOnRequest(w) => pt'[q][w] = pt[q][w]
        /\ \A w \in S : pt'[p][w] = NoFrame
    BY <1>3, <1>4, <1>5
  <1>7. next_shm_id' = next_shm_id /\ \A q \in alive : q \in alive'
    OBVIOUS
  <1> QED BY <1>1, <1>3, <1>6, <1>7, AskedDropped

(* What the steps leave of the regions. *)
LEMMA RegionsFixedFacts ==
    /\ shm' = shm => RegionsFixed
    /\ \A r \in shm : shm' = shm \ {r} => RegionsFixed
  BY DEF RegionsFixed

LEMMA RegionsFixedReplaced ==
    ASSUME IInv, NEW r \in shm, NEW k \in 0 .. MaxRefs,
           shm' = (shm \ {r}) \cup {[r EXCEPT !.ref_count = k]}
    PROVE  /\ RegionsFixed
           /\ \A q \in shm' : q.id = r.id => RegionFrames(q) = RegionFrames(r)
  <1> DEFINE x == [r EXCEPT !.ref_count = k]
  <1>1. x.id = r.id /\ x.frames = r.frames
    BY RegionFacts DEF Region
  <1>2. RegionFrames(x) = RegionFrames(r)
    BY <1>1 DEF RegionFrames
  <1>3. \A q \in shm' : q = x \/ (q \in shm /\ q # r)
    OBVIOUS
  <1> HIDE DEF x
  <1>4. \A q \in shm : q.id = r.id => q = r
    BY DEF IInv, RegionInv
  <1> QED BY <1>1, <1>2, <1>3, <1>4 DEF RegionsFixed

(* exit_process *)
LEMMA ExitAsked ==
    ASSUME IInv, AskedInv, NEW p \in alive, Exit(p)
    PROVE  AskedInv'
  <1>1. p \in Pids /\ Pages \in SUBSET Pages
    BY DEF IInv, ProcInv
  <1>2. /\ alive' = alive \ {p} /\ asked' = NotAsked(p, Pages) /\ next_shm_id' = next_shm_id
        /\ pt' = [pt EXCEPT ![p] = [v \in Pages |-> NoFrame]]
        /\ shm' = { Kept(r, p) : r \in shm \ RemovedAtExit(p) }
    BY DEF Exit, CleanedUp, Kept
  <1>3. RegionsFixed
    <2>1. ASSUME NEW q \in shm' PROVE \E r \in shm : r.id = q.id /\ RegionFrames(r) = RegionFrames(q)
      <3>1. PICK r \in shm : q = Kept(r, p)
        BY <1>2, <2>1
      <3> QED BY <1>1, <3>1, KeptFacts
    <2> QED BY <2>1 DEF RegionsFixed
  <1>4. /\ \A q \in Pids, v \in Pages :
              ~ (q = p /\ v \in Pages) /\ MappedOnRequest(v) => pt'[q][v] = pt[q][v]
        /\ \A v \in Pages : pt'[p][v] = NoFrame
    BY <1>1, <1>2 DEF IInv, ProcInv
  <1>5. \A q \in alive : q \in alive' \/ q = p
    BY <1>2
  <1> QED BY <1>1, <1>2, <1>3, <1>4, <1>5, AskedDropped

(* load_elf maps no page where pages are mapped on request. *)
LEMMA LoadAsked ==
    ASSUME IInv, AskedInv, LoadElf
    PROVE  AskedInv'
  <1>1. /\ next_pid \in Pids /\ next_pid \notin alive
        /\ UNCHANGED << shm, next_shm_id, asked >>
    BY NewPid DEF LoadElf
  <1>2. RegionsFixed
    BY <1>1, RegionsFixedFacts
  <1>3. CASE Load
    <2>1. PICK n : n = next_pid
      OBVIOUS
    <2>2. pt' = [pt EXCEPT ![n] = [v \in Pages |->
                   IF Page(v) \in Served THEN Granted(Served, free)[Page(v)] ELSE NoFrame]]
          /\ alive' = alive \cup {n}
      BY <1>3, <2>1 DEF Load
    <2>3. \A v \in Pages : MappedOnRequest(v) => v \notin LoadedPages
      <3>1. \A v \in LoadedPages : v \in SegmentPages \/ StackStart <= v
        BY LoadedCovered
      <3>2. \A v \in Pages : v \in Nat /\ (MappedOnRequest(v) => v \notin SegmentPages /\ v < StackStart)
        BY PagesFacts, ProgramsAssumption
      <3> QED BY <3>1, <3>2, LayoutAssumption
    <2>4. \A v \in Pages : MappedOnRequest(v) => pt'[n][v] = NoFrame /\ pt[n][v] = NoFrame
      <3>1. \A v \in Pages : pt[n][v] = NoFrame
        BY <1>1, <2>1 DEF IInv, ProcInv, Absent
      <3>2. \A v \in Pages : v \notin LoadedPages => pt'[n][v] = NoFrame
        BY <1>1, <2>1, <2>2, ServedShape DEF IInv, ProcInv
      <3> QED BY <2>3, <3>1, <3>2
    <2>5. \A q \in Pids : q # n => pt'[q] = pt[q]
      BY <1>1, <2>1, <2>2 DEF IInv, ProcInv
    <2>6. \A q \in Pids, v \in Pages : MappedOnRequest(v) => pt'[q][v] = pt[q][v]
      BY <2>4, <2>5
    <2>7. \A q \in alive : q \in alive'
      BY <2>2
    <2> QED BY <1>1, <1>2, <2>6, <2>7, AskedKept
  <1>4. CASE LoadGivesUp \/ LoadPanics
    <2>1. pt' = pt /\ alive' = alive
      BY <1>4 DEF LoadGivesUp, LoadPanics
    <2> QED BY <1>1, <1>2, <2>1, AskedKept
  <1> QED BY <1>3, <1>4 DEF LoadElf

(* SYS_MAP_PHYSICAL *)
LEMMA MapPhysicalAsked ==
    ASSUME IInv, AskedInv, NEW p \in Pids, NEW v \in DeviceAt, NEW f \in PhysicalAt,
           NEW n \in PhysicalSizes, SysMapPhysical(p, v, f, n)
    PROVE  AskedInv'
  <1> DEFINE m == [w \in v .. v + n - 1 |-> f + (w - v)]
  <1>1. /\ p \in alive /\ v + n <= NUM_PAGES /\ MapPages(p, m, free, {0})
        /\ UNCHANGED << alive, shm, next_shm_id >>
    BY DEF SysMapPhysical, Runs
  <1>2. n \in Nat /\ v \in Nat /\ NUM_PAGES \in Nat /\ MaxShmId \in Nat
    BY SizesAssumption
  <1>3. DOMAIN m = v .. v + n - 1 /\ DOMAIN m \subseteq Pages
    BY <1>1, <1>2 DEF Pages
  <1>4. \A w \in DOMAIN m : MappedOnRequest(w)
    BY <1>3 DEF MappedOnRequest
  <1> HIDE DEF m
  <1>5. RegionsFixed
    BY <1>1, RegionsFixedFacts
  <1>6. \A r \in shm' : r.id # 0
    BY <1>1, RegionFacts DEF Ids
  <1>7. 0 < next_shm_id
    BY DEF IInv, RegionInv
  <1> DEFINE by == {0}
  <1>8. by \in SUBSET (0 .. MaxShmId) /\ by # {} /\ \A i \in by : i = 0
    BY <1>2
  <1>9. MapPages(p, m, free, by)
    BY <1>1
  <1> HIDE DEF by
  <1> QED BY <1>1, <1>3, <1>4, <1>5, <1>6, <1>7, <1>8, <1>9, AskedMapped

(* SYS_SHM_MAP *)
LEMMA ShmMapAsked ==
    ASSUME IInv, AskedInv, NEW p \in Pids, NEW r \in shm, NEW v \in ShmAt, SysShmMap(p, r, v)
    PROVE  AskedInv'
  <1> DEFINE n == Len(r.frames)
             m == [w \in v .. v + n - 1 |-> r.frames[w - v + 1]]
  <1>1. /\ p \in alive /\ r.ref_count < MaxRefs /\ v + n <= NUM_PAGES
        /\ MapPages(p, m, free, {r.id})
        /\ shm' = (shm \ {r}) \cup {[r EXCEPT !.ref_count = @ + 1]}
        /\ UNCHANGED << alive, next_shm_id >>
    BY DEF SysShmMap, Runs
  <1>2. n \in ShmSizes /\ n \in Nat /\ v \in Nat /\ NUM_PAGES \in Nat /\ MaxShmId \in Nat
        /\ r.frames \in [1 .. n -> Frames] /\ r.id \in 1 .. MaxShmId
    BY RegionFacts, SizesAssumption DEF Ids
  <1> HIDE DEF n
  <1>3. DOMAIN m = v .. v + n - 1 /\ DOMAIN m \subseteq Pages
    BY <1>1, <1>2 DEF Pages
  <1>4. \A w \in DOMAIN m : m[w] \in RegionFrames(r)
    BY <1>2 DEF RegionFrames, Range
  <1>5. \A w \in DOMAIN m : MappedOnRequest(w)
    BY <1>2, <1>3 DEF MappedOnRequest
  <1> HIDE DEF m
  <1>6. r.ref_count + 1 \in 0 .. MaxRefs
    BY <1>1, RegionFacts, SizesAssumption
  <1>7. RegionsFixed /\ \A q \in shm' : q.id = r.id => RegionFrames(q) = RegionFrames(r)
    BY <1>1, <1>6, RegionsFixedReplaced
  <1>8. r.id < next_shm_id
    BY DEF IInv, RegionInv
  <1> DEFINE by == {r.id}
  <1>9. by \in SUBSET (0 .. MaxShmId) /\ by # {} /\ \A i \in by : i = r.id
    BY <1>2
  <1>10. MapPages(p, m, free, by)
    BY <1>1
  <1> HIDE DEF by
  <1>11. \A i \in by : i < next_shm_id
            /\ \A q \in shm' : q.id = i => \A w \in DOMAIN m : m[w] \in RegionFrames(q)
    <2>1. \A q \in shm' : q.id = r.id => \A w \in DOMAIN m : m[w] \in RegionFrames(q)
      BY <1>4, <1>7
    <2> QED BY <1>8, <1>9, <2>1
  <1> QED BY <1>1, <1>3, <1>4, <1>5, <1>7, <1>9, <1>10, <1>11, AskedMapped

(* SYS_SHM_UNMAP *)
LEMMA ShmUnmapAsked ==
    ASSUME IInv, AskedInv, NEW p \in Pids, NEW r \in shm, NEW v \in ShmAt, SysShmUnmap(p, r, v)
    PROVE  AskedInv'
  <1> DEFINE n == Len(r.frames)
  <1>1. /\ p \in alive /\ v + n <= NUM_PAGES
        /\ pt' = Unmapped(p, v, n) /\ asked' = NotAsked(p, v .. v + n - 1)
        /\ shm' = shm \ {r} \/ shm' = (shm \ {r}) \cup {Dropped(r)}
        /\ UNCHANGED << alive, next_shm_id >>
    BY DEF SysShmUnmap, Runs
  <1>2. n \in Nat /\ v \in Nat
    BY RegionFacts, SizesAssumption
  <1> HIDE DEF n
  <1>3. PICK k \in 0 .. MaxRefs : Dropped(r) = [r EXCEPT !.ref_count = k]
    <2>1. (IF r.ref_count > 0 THEN r.ref_count - 1 ELSE 0) \in 0 .. MaxRefs
      BY RegionFacts, SizesAssumption
    <2> QED BY <2>1 DEF Dropped
  <1>4. RegionsFixed
    BY <1>1, <1>3, RegionsFixedFacts, RegionsFixedReplaced
  <1> QED BY <1>1, <1>2, <1>4, AskedUnmapped

(* A page fault maps a page of a VMA, where nothing is mapped on request. *)
LEMMA DemandAsked ==
    ASSUME IInv, AskedInv, NEW p \in Pids, NEW v \in Pages, DemandPage(p, v)
    PROVE  AskedInv'
  <1>1. /\ p \in alive /\ v \in Covered(p)
        /\ UNCHANGED << alive, shm, next_shm_id >>
    BY DEF DemandPage, Runs
  <1>2. PICK f \in Lowest(free, 1) : MapPages(p, At(v, f), free \ {f}, {})
    BY DEF DemandPage
  <1> DEFINE m == At(v, f)
             avail == free \ {f}
             by == {}
  <1>3. DOMAIN m = {v} /\ DOMAIN m \subseteq Pages
    BY DEF At
  <1>4. \A w \in DOMAIN m : ~ MappedOnRequest(w)
    BY <1>1, <1>3 DEF IInv, ProcInv, RequestsApart
  <1>5. RegionsFixed
    BY <1>1, RegionsFixedFacts
  <1>6. by \in SUBSET (0 .. MaxShmId) /\ by = {} /\ \A i \in by : FALSE
    OBVIOUS
  <1>7. MapPages(p, m, avail, by)
    BY <1>2
  <1> HIDE DEF m, avail, by
  <1> QED BY <1>1, <1>3, <1>4, <1>5, <1>6, <1>7, AskedMapped

(* At the start nothing has been asked for. *)
LEMMA InitAsked == Init => AskedInv
  BY DEF Init, AskedInv, Asked

(* Every step keeps track of the requests. *)
LEMMA NextAsked == IInv /\ AskedInv /\ [Next]_vars => AskedInv'
  <1> SUFFICES ASSUME IInv, AskedInv, [Next]_vars PROVE AskedInv'
    OBVIOUS
  <1>1. CASE SysSpawn
    BY <1>1, LoadAsked DEF SysSpawn
  <1>2. ASSUME NEW p \in Pids, SysExit(p) PROVE AskedInv'
    BY <1>2, ExitAsked DEF SysExit, Runs
  <1>3. ASSUME NEW p \in Pids, NEW v \in Pages, PageFaultKills(p, v) PROVE AskedInv'
    BY <1>3, ExitAsked DEF PageFaultKills, Runs
  <1>4. ASSUME NEW p \in Pids, NEW v \in Pages, DemandPage(p, v) PROVE AskedInv'
    BY <1>4, DemandAsked
  <1>5. ASSUME NEW p \in Pids, NEW k \in Increments, SysSbrk(p, k) PROVE AskedInv'
    <2>1. UNCHANGED << pt, alive, shm, next_shm_id, asked >>
      BY <1>5 DEF SysSbrk
    <2> QED BY <2>1, AskedKept, RegionsFixedFacts
  <1>6. ASSUME NEW p \in Pids, NEW n \in MapSizes, NEW hint \in MmapHints, SysMmap(p, hint, n)
        PROVE  AskedInv'
    <2>1. UNCHANGED << pt, alive, shm, next_shm_id, asked >>
      BY <1>6 DEF SysMmap
    <2> QED BY <2>1, AskedKept, RegionsFixedFacts
  <1>7. ASSUME NEW p \in Pids, NEW n \in MapSizes, NEW v \in UnmapAt, SysMunmap(p, v, n)
        PROVE  AskedInv'
    <2>1. /\ p \in alive /\ v + n <= NUM_PAGES /\ pt' = Unmapped(p, v, n)
          /\ asked' = NotAsked(p, v .. v + n - 1) /\ UNCHANGED << alive, shm, next_shm_id >>
      BY <1>7 DEF SysMunmap, Runs
    <2>2. n \in Nat /\ v \in Nat
      BY SizesAssumption
    <2>3. RegionsFixed
      BY <2>1, RegionsFixedFacts
    <2> QED BY <2>1, <2>2, <2>3, AskedUnmapped
  <1>8. ASSUME NEW p \in Pids, NEW n \in ShmSizes, SysShmCreate(p, n) PROVE AskedInv'
    <2>1. /\ UNCHANGED << pt, alive, asked >> /\ next_shm_id' = next_shm_id + 1
          /\ \A q \in shm' : q \in shm \/ q.id = next_shm_id
      BY <1>8 DEF SysShmCreate
    <2>2. RegionsFixed
      BY <2>1 DEF RegionsFixed
    <2> QED BY <2>1, <2>2, AskedKept
  <1>9. ASSUME NEW p \in Pids, NEW v \in DeviceAt, NEW f \in PhysicalAt,
               NEW n \in PhysicalSizes, SysMapPhysical(p, v, f, n)
        PROVE  AskedInv'
    BY <1>9, MapPhysicalAsked
  <1>10. ASSUME NEW p \in Pids, NEW r \in shm, NEW v \in ShmAt, SysShmMap(p, r, v) PROVE AskedInv'
    BY <1>10, ShmMapAsked
  <1>11. ASSUME NEW p \in Pids, NEW r \in shm, NEW v \in ShmAt, SysShmUnmap(p, r, v)
         PROVE  AskedInv'
    BY <1>11, ShmUnmapAsked
  <1>12. CASE UNCHANGED vars
    BY <1>12 DEF vars, AskedInv, Asked, RegionFrames, MappedOnRequest
  <1> QED BY <1>1, <1>2, <1>3, <1>4, <1>5, <1>6, <1>7, <1>8, <1>9, <1>10, <1>11, <1>12
          DEF Next, HltLoop

(* What has been asked for is known in every reachable state. *)
LEMMA SpecAsked == Spec => []AskedInv
  BY SpecIInv, InitAsked, NextAsked, PTL DEF Spec

-----------------------------------------------------------------------------
(* What it implies. *)

(* The invariant contains the types. *)
LEMMA IInvTypes == IInv /\ AskedInv => TypeOK
  <1> SUFFICES ASSUME IInv, AskedInv PROVE TypeOK
    OBVIOUS
  <1>1. free \subseteq Frames /\ leaked \subseteq Frames
    BY FramesFacts DEF IInv, Partition, Divided
  <1>2. root \in [Pids -> Frames \cup {NoFrame}] /\ tables \in [Pids -> [Tables -> Frames \cup {NoFrame}]]
    <2>1. Ram \cup {NoFrame} \subseteq Frames \cup {NoFrame}
      BY FramesFacts
    <2> QED BY <2>1 DEF IInv, ProcInv
  <1>3. \A p \in Pids : vmas[p] \subseteq [start : 0 .. NUM_PAGES, end : 0 .. NUM_PAGES]
    BY DEF IInv, ProcInv, VmaSet
  <1>4. asked \subseteq Pids \X Pages \X (0 .. MaxShmId)
    BY DEF AskedInv, Asked
  <1> QED BY <1>1, <1>2, <1>3, <1>4 DEF TypeOK, IInv, ProcInv, RegionInv

(* What a frame is used for as far as the allocator, the page tables, the  *)
(* VMAs and the shared memory table know.                                  *)
Owners(f) ==
    { << "allocator" >> : x \in {f} \cap free }
      \cup { << "leaked" >> : x \in {f} \cap leaked }
      \cup { << "root", p >> : p \in { q \in Pids : root[q] = f } }
      \cup { << "table", u[1], u[2] >> : u \in { w \in Pids \X Tables : tables[w[1]][w[2]] = f } }
      \cup { << "page", u[1], u[2] >> :
                u \in { w \in Pids \X Pages : w[2] \in Covered(w[1]) /\ pt[w[1]][w[2]] = f } }
      \cup { << "shm", r.id >> : r \in { q \in shm : f \in RegionFrames(q) } }

(* Whoever has a frame is its one owner. *)
LEMMA IInvOwner ==
    ASSUME IInv, NEW f \in Ram
    PROVE  Cardinality(Owners(f)) = 1
  <1>1. f # NoFrame
    BY PagesFacts
  <1> DEFINE
        A == { << "allocator" >> : x \in {f} \cap free }
        L == { << "leaked" >> : x \in {f} \cap leaked }
        R == { << "root", p >> : p \in { q \in Pids : root[q] = f } }
        T == { << "table", u[1], u[2] >> : u \in { w \in Pids \X Tables : tables[w[1]][w[2]] = f } }
        V == { << "page", u[1], u[2] >> :
                 u \in { w \in Pids \X Pages : w[2] \in Covered(w[1]) /\ pt[w[1]][w[2]] = f } }
        H == { << "shm", r.id >> : r \in { q \in shm : f \in RegionFrames(q) } }
  <1>2. Owners(f) = A \cup L \cup R \cup T \cup V \cup H
    BY DEF Owners
  <1>3. /\ f \in free => \E o : A = {o}
        /\ f \notin free => A = {}
        /\ f \in leaked => \E o : L = {o}
        /\ f \notin leaked => L = {}
    BY Zenon
  <1>4. /\ (\A p \in Pids : root[p] # f) => R = {}
        /\ \A p \in Pids : (\A q \in Pids : root[q] = f <=> q = p) => \E o : R = {o}
    <2>1. ASSUME NEW p \in Pids, \A q \in Pids : root[q] = f <=> q = p
          PROVE  R = {<< "root", p >>}
      <3>1. { q \in Pids : root[q] = f } = {p}
        BY <2>1
      <3> QED BY <3>1
    <2>2. ASSUME \A p \in Pids : root[p] # f PROVE R = {}
      BY <2>2
    <2> HIDE DEF R
    <2> QED BY <2>1, <2>2
  <1>5. /\ (\A p \in Pids, t \in Tables : tables[p][t] # f) => T = {}
        /\ \A p \in Pids, t \in Tables :
              (\A q \in Pids, u \in Tables : tables[q][u] = f <=> (q = p /\ u = t))
                => \E o : T = {o}
    <2>1. ASSUME NEW p \in Pids, NEW t \in Tables,
                 \A q \in Pids, u \in Tables : tables[q][u] = f <=> (q = p /\ u = t)
          PROVE  T = {<< "table", p, t >>}
      <3>1. { w \in Pids \X Tables : tables[w[1]][w[2]] = f } = {<< p, t >>}
        BY <2>1
      <3>2. T = { << "table", u[1], u[2] >> : u \in {<< p, t >>} }
        BY <3>1
      <3> QED BY <3>2
    <2>2. ASSUME \A p \in Pids, t \in Tables : tables[p][t] # f PROVE T = {}
      <3>1. { w \in Pids \X Tables : tables[w[1]][w[2]] = f } = {}
        BY <2>2
      <3> QED BY <3>1
    <2> HIDE DEF T
    <2> QED BY <2>1, <2>2
  <1>6. /\ (\A p \in Pids, v \in Pages : ~ (v \in Covered(p) /\ pt[p][v] = f)) => V = {}
        /\ \A p \in Pids, v \in Pages :
              (\A q \in Pids, w \in Pages :
                  (w \in Covered(q) /\ pt[q][w] = f) <=> (q = p /\ w = v))
                => \E o : V = {o}
    <2>1. ASSUME NEW p \in Pids, NEW v \in Pages,
                 \A q \in Pids, w \in Pages :
                    (w \in Covered(q) /\ pt[q][w] = f) <=> (q = p /\ w = v)
          PROVE  V = {<< "page", p, v >>}
      <3>1. { w \in Pids \X Pages : w[2] \in Covered(w[1]) /\ pt[w[1]][w[2]] = f } = {<< p, v >>}
        BY <2>1
      <3>2. V = { << "page", u[1], u[2] >> : u \in {<< p, v >>} }
        BY <3>1
      <3> QED BY <3>2
    <2>2. ASSUME \A p \in Pids, v \in Pages : ~ (v \in Covered(p) /\ pt[p][v] = f) PROVE V = {}
      <3>1. { w \in Pids \X Pages : w[2] \in Covered(w[1]) /\ pt[w[1]][w[2]] = f } = {}
        BY <2>2
      <3> QED BY <3>1
    <2> HIDE DEF V
    <2> QED BY <2>1, <2>2
  <1>7. /\ (\A r \in shm : f \notin RegionFrames(r)) => H = {}
        /\ \A r \in shm : (\A q \in shm : f \in RegionFrames(q) <=> q = r) => \E o : H = {o}
    <2>1. ASSUME NEW r \in shm, \A q \in shm : f \in RegionFrames(q) <=> q = r
          PROVE  H = {<< "shm", r.id >>}
      <3>1. { q \in shm : f \in RegionFrames(q) } = {r}
        BY <2>1
      <3> QED BY <3>1
    <2>2. ASSUME \A r \in shm : f \notin RegionFrames(r) PROVE H = {}
      BY <2>2
    <2> HIDE DEF H
    <2> QED BY <2>1, <2>2
  <1> HIDE DEF A, L, R, T, V, H
  <1>8. \A p \in Pids : f \in Own[p] <=>
           \/ root[p] = f
           \/ \E t \in Tables : tables[p][t] = f
           \/ \E v \in Pages : v \in Covered(p) /\ pt[p][v] = f
    <2>1. \A p \in Pids : f \in TableFrames(p) <=> (root[p] = f \/ \E t \in Tables : tables[p][t] = f)
      BY <1>1 DEF TableFrames, Range, IInv, ProcInv
    <2>2. \A p \in Pids : f \in PrivateFrames(p) <=> \E v \in Pages : v \in Covered(p) /\ pt[p][v] = f
      BY <1>1, CoveredFacts DEF PrivateFrames
    <2> QED BY <2>1, <2>2, OwnFacts
  <1>9. \A r \in shm : r.id \in Ids
    BY RegionFacts
  <1>10. \A i \in Ids : f \in Shared[i] <=> \E r \in shm : r.id = i /\ f \in RegionFrames(r)
    BY SharedFacts
  <1>11. Divided(free, leaked, Own, Shared)
    BY DEF IInv, Partition
  <1>12. \A p \in Pids : ServesOnce(p)
    BY DEF IInv, ProcInv
  <1>13. \E o : Owners(f) = {o}
    <2>1. CASE f \in free
      <3>1. f \notin leaked /\ (\A p \in Pids : f \notin Own[p]) /\ \A i \in Ids : f \notin Shared[i]
        BY <1>11, <2>1 DEF Divided
      <3>2. L = {} /\ R = {} /\ T = {} /\ V = {} /\ H = {}
        BY <1>8, <1>9, <1>10, <1>3, <1>4, <1>5, <1>6, <1>7, <3>1
      <3> QED BY <1>2, <1>3, <2>1, <3>2
    <2>2. CASE f \in leaked
      <3>1. f \notin free /\ (\A p \in Pids : f \notin Own[p]) /\ \A i \in Ids : f \notin Shared[i]
        BY <1>11, <2>2 DEF Divided
      <3>2. A = {} /\ R = {} /\ T = {} /\ V = {} /\ H = {}
        BY <1>8, <1>9, <1>10, <1>3, <1>4, <1>5, <1>6, <1>7, <3>1
      <3> QED BY <1>2, <1>3, <2>2, <3>2
    <2>3. ASSUME NEW i \in Ids, f \in Shared[i] PROVE \E o : Owners(f) = {o}
      <3>1. /\ f \notin free /\ f \notin leaked /\ \A p \in Pids : f \notin Own[p]
            /\ \A j \in Ids : f \in Shared[j] => j = i
        BY <1>11, <2>3 DEF Divided
      <3>2. PICK r \in shm : r.id = i /\ f \in RegionFrames(r)
        BY <1>10, <2>3
      <3>3. \A q \in shm : f \in RegionFrames(q) => q.id = i
        BY <1>9, <1>10, <3>1
      <3>4. \A q \in shm : f \in RegionFrames(q) <=> q = r
        BY <3>2, <3>3 DEF IInv, RegionInv
      <3>5. A = {} /\ L = {} /\ R = {} /\ T = {} /\ V = {}
        BY <1>8, <1>3, <1>4, <1>5, <1>6, <3>1
      <3>6. \E o : H = {o}
        BY <1>7, <3>4
      <3> QED BY <1>2, <3>5, <3>6
    <2>4. ASSUME NEW p \in Pids, f \in Own[p] PROVE \E o : Owners(f) = {o}
      <3>1. /\ f \notin free /\ f \notin leaked /\ \A i \in Ids : f \notin Shared[i]
            /\ \A q \in Pids : f \in Own[q] => q = p
        BY <1>11, <2>4 DEF Divided
      <3>2. \A r \in shm : f \notin RegionFrames(r)
        BY <1>9, <1>10, <3>1
      <3>3. /\ \A q \in Pids : root[q] = f => q = p
            /\ \A q \in Pids, t \in Tables : tables[q][t] = f => q = p
            /\ \A q \in Pids, v \in Pages : v \in Covered(q) /\ pt[q][v] = f => q = p
        BY <1>8, <3>1
      <3>4. /\ root[p] = f => f \in TableFrames(p)
            /\ \A t \in Tables : tables[p][t] = f => f \in TableFrames(p)
        BY <1>1 DEF TableFrames, Range, IInv, ProcInv
      <3>5. CASE root[p] = f
        <4>1. /\ \A t \in Tables : tables[p][t] # f
              /\ \A v \in Pages : v \in Covered(p) => pt[p][v] # f
          BY <1>1, <1>12, <3>4, <3>5 DEF ServesOnce
        <4>2. A = {} /\ L = {} /\ T = {} /\ V = {} /\ H = {}
         BY <1>3, <1>5, <1>6, <1>7, <3>1, <3>2, <3>3, <4>1
        <4>3. \A q \in Pids : root[q] = f <=> q = p
          BY <3>3, <3>5
        <4>4. \E o : R = {o}
          BY <1>4, <4>3
        <4> QED BY <1>2, <4>2, <4>4
      <3>6. ASSUME NEW t \in Tables, tables[p][t] = f PROVE \E o : Owners(f) = {o}
        <4>1. /\ root[p] # f
              /\ \A u \in Tables : tables[p][u] = f => u = t
              /\ \A v \in Pages : v \in Covered(p) => pt[p][v] # f
          BY <1>1, <1>12, <3>4, <3>6 DEF ServesOnce
        <4>2. A = {} /\ L = {} /\ R = {} /\ V = {} /\ H = {}
         BY <1>3, <1>4, <1>6, <1>7, <3>1, <3>2, <3>3, <4>1
        <4>3. \A q \in Pids, u \in Tables : tables[q][u] = f <=> (q = p /\ u = t)
          BY <3>3, <3>6, <4>1
        <4>4. \E o : T = {o}
          BY <1>5, <4>3
        <4> QED BY <1>2, <4>2, <4>4
      <3>7. ASSUME NEW v \in Pages, v \in Covered(p), pt[p][v] = f PROVE \E o : Owners(f) = {o}
        <4>1. /\ root[p] # f /\ \A t \in Tables : tables[p][t] # f
              /\ \A w \in Pages : w \in Covered(p) /\ pt[p][w] = f => w = v
          BY <1>1, <1>12, <3>4, <3>7 DEF ServesOnce
        <4>2. A = {} /\ L = {} /\ R = {} /\ T = {} /\ H = {}
         BY <1>3, <1>4, <1>5, <1>7, <3>1, <3>2, <3>3, <4>1
        <4>3. \A q \in Pids, w \in Pages :
                 (w \in Covered(q) /\ pt[q][w] = f) <=> (q = p /\ w = v)
          BY <3>3, <3>7, <4>1
        <4>4. \E o : V = {o}
          BY <1>6, <4>3
        <4> QED BY <1>2, <4>2, <4>4
      <3> QED BY <1>8, <2>4, <3>5, <3>6, <3>7
    <2> QED BY <1>11, <2>1, <2>2, <2>3, <2>4 DEF Divided
  <1> QED BY <1>13, FS_Singleton

(* The pages that are a use of their frame, and no exposure of it, are the *)
(* mapped pages of the VMAs.                                               *)
LEMMA UsesAreOwners ==
    ASSUME IInv, AskedInv, NEW f \in Ram
    PROVE  Uses(f) \ Exposures(f) = Owners(f)
  <1>1. f # NoFrame
    BY PagesFacts
  <1> DEFINE
        A == { << "allocator" >> : x \in {f} \cap free }
        L == { << "leaked" >> : x \in {f} \cap leaked }
        R == { << "root", p >> : p \in { q \in Pids : root[q] = f } }
        T == { << "table", u[1], u[2] >> : u \in { w \in Pids \X Tables : tables[w[1]][w[2]] = f } }
        H == { << "shm", r.id >> : r \in { q \in shm : f \in RegionFrames(q) } }
        U == { << "page", u[1], u[2] >> :
                 u \in { w \in Pids \X Pages : pt[w[1]][w[2]] = f /\ ~ Shares(w[1], w[2]) } }
        V == { << "page", u[1], u[2] >> :
                 u \in { w \in Pids \X Pages : w[2] \in Covered(w[1]) /\ pt[w[1]][w[2]] = f } }
        E == { << "page", a[1], a[2] >> :
                 a \in { b \in asked : pt[b[1]][b[2]] = f /\ ~ Shares(b[1], b[2]) } }
  <1>2. /\ Uses(f) = A \cup L \cup R \cup T \cup U \cup H
        /\ Owners(f) = A \cup L \cup R \cup T \cup V \cup H
        /\ Exposures(f) = E
    BY DEF Uses, Owners, Exposures
  <1>3. \A x \in E : x[1] = "page"
    OBVIOUS
  <1>4. \A x \in A \cup L \cup R \cup T \cup H : x[1] # "page"
    <2>1. \A x \in A \cup L : x[1] # "page"
      OBVIOUS
    <2>2. \A x \in R \cup H : x[1] # "page"
      OBVIOUS
    <2>3. \A x \in T : x[1] # "page"
      OBVIOUS
    <2> QED BY <2>1, <2>2, <2>3
  (* A page of a VMA has not been asked for. *)
  <1>5. ASSUME NEW p \in Pids, NEW v \in Pages, v \in Covered(p)
        PROVE  \A i \in 0 .. MaxShmId : << p, v, i >> \notin asked
    BY <1>5 DEF IInv, ProcInv, RequestsApart, AskedInv
  (* Another mapped page has been asked for. *)
  <1>6. ASSUME NEW p \in Pids, NEW v \in Pages, v \notin Covered(p), pt[p][v] = f
        PROVE  \E i \in 0 .. MaxShmId : << p, v, i >> \in asked
    <2>1. p \in alive
      BY <1>1, <1>6 DEF IInv, ProcInv, Absent
    <2>2. MappedOnRequest(v)
      BY <1>1, <1>6, <2>1 DEF IInv, ProcInv, PagesCovered
    <2> QED BY <1>1, <1>6, <2>2 DEF AskedInv
  <1>7. ASSUME NEW a \in asked
        PROVE  \E p \in Pids, v \in Pages, i \in 0 .. MaxShmId : a = << p, v, i >>
    BY DEF AskedInv, Asked
  <1>8. \A p \in Pids, v \in Pages : v \in Covered(p) => ~ Shares(p, v)
    <2>1. \A r \in shm : r.id \in 0 .. MaxShmId
      BY RegionFacts DEF Ids
    <2> QED BY <1>5, <2>1 DEF Shares
  <1>9. ASSUME NEW p \in Pids, NEW v \in Pages
        PROVE  /\ << "page", p, v >> \in U <=> (pt[p][v] = f /\ ~ Shares(p, v))
               /\ << "page", p, v >> \in V <=> (v \in Covered(p) /\ pt[p][v] = f)
    <2>1. PICK w \in Pids \X Pages : w = << p, v >>
      OBVIOUS
    <2>2. w[1] = p /\ w[2] = v /\ << "page", p, v >> = << "page", w[1], w[2] >>
      BY <2>1
    <2>3. \A u \in Pids \X Pages : << "page", p, v >> = << "page", u[1], u[2] >> => u = w
      BY <2>1
    <2> QED BY <2>2, <2>3
  <1>10. ASSUME NEW p \in Pids, NEW v \in Pages
         PROVE  << "page", p, v >> \in E <=>
                  (pt[p][v] = f /\ ~ Shares(p, v) /\ \E i \in 0 .. MaxShmId : << p, v, i >> \in asked)
    <2>1. ASSUME << "page", p, v >> \in E
          PROVE  pt[p][v] = f /\ ~ Shares(p, v) /\ \E i \in 0 .. MaxShmId : << p, v, i >> \in asked
      <3>1. PICK a \in asked : /\ pt[a[1]][a[2]] = f /\ ~ Shares(a[1], a[2])
                              /\ << "page", p, v >> = << "page", a[1], a[2] >>
        BY <2>1
      <3>2. PICK q \in Pids, w \in Pages, i \in 0 .. MaxShmId : a = << q, w, i >>
        BY <1>7
      <3>3. q = p /\ w = v /\ a[1] = p /\ a[2] = v
        BY <3>1, <3>2
      <3> QED BY <3>1, <3>2, <3>3
    <2>2. ASSUME pt[p][v] = f, ~ Shares(p, v), NEW i \in 0 .. MaxShmId, << p, v, i >> \in asked
          PROVE  << "page", p, v >> \in E
      <3>1. PICK a \in asked : a = << p, v, i >>
        BY <2>2
      <3>2. a[1] = p /\ a[2] = v
        BY <3>1
      <3> QED BY <2>2, <3>2
    <2> QED BY <2>1, <2>2
  <1>11. ASSUME NEW x, x \in U \/ x \in V
         PROVE  \E p \in Pids, v \in Pages : x = << "page", p, v >>
    <2>1. PICK u \in Pids \X Pages : x = << "page", u[1], u[2] >>
      BY <1>11
    <2>2. u[1] \in Pids /\ u[2] \in Pages
      OBVIOUS
    <2> QED BY <2>1, <2>2
  <1> HIDE DEF A, L, R, T, H, U, V, E
  <1>12. ASSUME NEW p \in Pids, NEW v \in Pages
         PROVE  LET x == << "page", p, v >> IN (x \in U /\ x \notin E) <=> x \in V
    <2> DEFINE x == << "page", p, v >>
               asks == \E i \in 0 .. MaxShmId : << p, v, i >> \in asked
    <2>1. /\ x \in U <=> (pt[p][v] = f /\ ~ Shares(p, v))
          /\ x \in V <=> (v \in Covered(p) /\ pt[p][v] = f)
      BY <1>9
    <2>2. x \in E <=> (pt[p][v] = f /\ ~ Shares(p, v) /\ asks)
      BY <1>10
    <2>3. (v \in Covered(p) => ~ asks) /\ (v \notin Covered(p) /\ pt[p][v] = f => asks)
      BY <1>5, <1>6
    <2>4. v \in Covered(p) => ~ Shares(p, v)
      BY <1>8
    <2> HIDE DEF x, asks
    <2>5. (x \in U /\ x \notin E) <=> x \in V
      BY <2>1, <2>2, <2>3, <2>4
    <2> QED BY <2>5 DEF x
  <1>13. \A x : x \in V <=> (x \in U /\ x \notin E)
    BY <1>11, <1>12
  <1> QED BY <1>2, <1>3, <1>4, <1>13

(* Every frame of RAM has exactly one use, but for exposures, and a        *)
(* mapping of a region that exists shows it: whatever sequence of loads,   *)
(* exits, faults, mappings and unmappings came before, and whichever       *)
(* frames MAP_PHYSICAL was asked for (frame.rs, paging.rs, shm.rs).        *)
THEOREM FramesUsedOnce == Spec => []OneUse
  <1>1. IInv /\ AskedInv => OneUse
    <2> SUFFICES ASSUME IInv, AskedInv PROVE OneUse
      OBVIOUS
    <2>1. \A f \in Ram : Cardinality(Uses(f) \ Exposures(f)) = 1
      BY UsesAreOwners, IInvOwner
    <2>2. ASSUME NEW a \in asked, NEW r \in shm, r.id = a[3]
          PROVE  pt[a[1]][a[2]] \in RegionFrames(r)
      <3>1. PICK p \in Pids, v \in Pages, i \in 0 .. MaxShmId : a = << p, v, i >>
        BY DEF AskedInv, Asked
      <3>2. a[1] = p /\ a[2] = v /\ a[3] = i
        BY <3>1
      <3>3. << p, v, r.id >> \in asked
        BY <2>2, <3>1, <3>2
      <3> QED BY <3>2, <3>3 DEF AskedInv
    <2> QED BY <2>1, <2>2 DEF OneUse
  <1> QED BY SpecIInv, SpecAsked, <1>1, PTL

(* The kernel's memory is type correct, and the shared memory table never  *)
(* outgrows its limit.                                                     *)
THEOREM MemoryTypeOK == Spec => []TypeOK
  BY SpecIInv, SpecAsked, IInvTypes, PTL

(* exit_process, which walks the VMAs, misses no private page.             *)
THEOREM MappedPagesCovered == Spec => []PagesCovered
  <1>1. IInv => PagesCovered
    BY DEF IInv, ProcInv
  <1> QED BY <1>1, SpecIInv, PTL

(* However sbrk's increments add up, every byte below the break lies in a  *)
(* VMA.                                                                    *)
THEOREM HeapAlwaysBacked == Spec => []HeapBacked
  <1>1. IInv => HeapBacked
    BY DEF IInv, ProcInv
  <1> QED BY <1>1, SpecIInv, PTL

-----------------------------------------------------------------------------
(* What a step does not do. *)

(* The steps that add to a process's VMAs leave its page table alone. *)
LEMMA VmasGrowAlone ==
    ASSUME IInv, Next, NEW p \in alive
    PROVE  vmas'[p] \subseteq vmas[p] \/ pt'[p] = pt[p]
  <1>1. p \in Pids /\ vmas \in [Pids -> VmaSet] /\ pt \in [Pids -> [Pages -> Frames \cup {NoFrame}]]
    BY DEF IInv, ProcInv
  <1>2. CASE SysSpawn
    <2>1. next_pid <= MaxPid /\ (Load \/ LoadGivesUp \/ LoadPanics)
      BY <1>2 DEF SysSpawn, LoadElf
    <2>2. CASE Load
      <3>1. vmas' = [vmas EXCEPT ![next_pid] = LoadedVmas] /\ p # next_pid
        BY <2>1, <2>2, NewPid DEF Load
      <3> QED BY <1>1, <3>1
    <2>3. CASE LoadGivesUp \/ LoadPanics
      BY <2>3 DEF LoadGivesUp, LoadPanics
    <2> QED BY <2>1, <2>2, <2>3
  <1>3. ASSUME NEW q \in Pids, Exit(q) PROVE vmas'[p] \subseteq vmas[p]
    BY <1>1, <1>3 DEF Exit
  <1>4. ASSUME NEW q \in Pids, NEW n \in MapSizes, NEW v \in UnmapAt, SysMunmap(q, v, n)
        PROVE  vmas'[p] \subseteq vmas[p]
    BY <1>1, <1>4 DEF SysMunmap
  <1>5. ASSUME NEW q \in Pids, NEW v \in Pages, DemandPage(q, v) PROVE vmas'[p] \subseteq vmas[p]
    BY <1>5 DEF DemandPage
  <1>6. ASSUME NEW q \in Pids, NEW k \in Increments, SysSbrk(q, k) PROVE pt'[p] = pt[p]
    BY <1>6 DEF SysSbrk
  <1>7. ASSUME NEW q \in Pids, NEW n \in MapSizes, NEW hint \in MmapHints, SysMmap(q, hint, n)
        PROVE  pt'[p] = pt[p]
    BY <1>7 DEF SysMmap
  <1>8. ASSUME NEW q \in Pids, NEW n \in ShmSizes, SysShmCreate(q, n) PROVE pt'[p] = pt[p]
    BY <1>8 DEF SysShmCreate
  <1>9. ASSUME NEW q \in Pids, NEW v \in DeviceAt, NEW f \in PhysicalAt,
               NEW n \in PhysicalSizes, SysMapPhysical(q, v, f, n)
        PROVE  vmas'[p] \subseteq vmas[p]
    BY <1>9 DEF SysMapPhysical
  <1>10. ASSUME NEW q \in Pids, NEW r \in shm, NEW v \in ShmAt,
                SysShmMap(q, r, v) \/ SysShmUnmap(q, r, v)
         PROVE  vmas'[p] \subseteq vmas[p]
    BY <1>10 DEF SysShmMap, SysShmUnmap
  <1>11. CASE HltLoop
    BY <1>11 DEF HltLoop, vars
  <1> QED BY <1>2, <1>3, <1>4, <1>5, <1>6, <1>7, <1>8, <1>9, <1>10, <1>11
          DEF Next, SysExit, PageFaultKills

(* A page that sbrk or mmap adds to a running process is not mapped        *)
(* (FreshPages): its first use is a page fault, which hands out a zeroed   *)
(* frame.                                                                  *)
THEOREM NewPagesFresh == Spec => FreshPages
  <1> DEFINE Step == \A p \in alive : \A v \in Covered(p)' \ Covered(p) : pt'[p][v] = NoFrame
  <1>1. ASSUME IInv, IInv', Next PROVE Step
    <2> SUFFICES ASSUME NEW p \in alive, NEW v \in Covered(p)' \ Covered(p)
                 PROVE  pt'[p][v] = NoFrame
      OBVIOUS
    <2>0. v \in Pages
      BY CoveredFactsNext
    <2>1. p \in Pids
      BY <1>1 DEF IInv, ProcInv
    <2>2. ~ MappedOnRequest(v)
      BY <1>1, <2>1 DEF IInv, ProcInv, RequestsApart
    <2>3. pt[p][v] = NoFrame
      BY <1>1, <2>0, <2>2 DEF IInv, ProcInv, PagesCovered
    <2>4. ~ (vmas'[p] \subseteq vmas[p])
      BY CoveredFacts, CoveredFactsNext
    <2>5. pt'[p] = pt[p]
      BY <1>1, <2>4, VmasGrowAlone
    <2> QED BY <2>3, <2>5
  <1>2. IInv /\ IInv' /\ [Next]_vars => [Step]_vars
    BY <1>1
  <1>3. Spec => [][Step]_vars
    BY <1>2, SpecIInv, PTL DEF Spec
  <1> QED BY <1>3 DEF FreshPages

(* While its owner runs, a shared region keeps its frames                  *)
(* (OwnedRegionStays): neither SHM_UNMAP nor the exit of another process   *)
(* takes them from those that have mapped it.                              *)
THEOREM RegionsKeepFrames == Spec => OwnedRegionStays
  <1> DEFINE Stays(r) == \E q \in shm' : q.id = r.id /\ q.frames = r.frames
             Step == \A r \in shm : r.owner \in alive' => Stays(r)
  <1>1. ASSUME IInv, Next PROVE Step
    <2> SUFFICES ASSUME NEW r \in shm, r.owner \in alive' PROVE Stays(r)
      OBVIOUS
    <2>1. ASSUME shm' = shm PROVE Stays(r)
      BY <2>1
    <2>2. ASSUME NEW p \in Pids, Exit(p) PROVE Stays(r)
      <3>1. r.owner # p
        BY <2>2 DEF Exit
      <3>2. r \in shm \ RemovedAtExit(p)
        BY <3>1 DEF RemovedAtExit
      <3>3. shm' = { Kept(x, p) : x \in shm \ RemovedAtExit(p) }
        BY <2>2 DEF Exit, CleanedUp, Kept
      <3>4. Kept(r, p) = r
        BY <3>1 DEF Kept
      <3> QED BY <3>2, <3>3, <3>4
    <2>3. ASSUME NEW p \in Pids, NEW n \in ShmSizes, SysShmCreate(p, n) PROVE Stays(r)
      <3>1. r \in shm'
        BY <2>3 DEF SysShmCreate
      <3> QED BY <3>1
    <2>4. ASSUME NEW x \in shm, NEW k, shm' = (shm \ {x}) \cup {[x EXCEPT !.ref_count = k]}
          PROVE  Stays(r)
      <3>1. CASE r # x
        BY <2>4, <3>1
      <3>2. CASE r = x
        <4>1. x \in Region
          BY <1>1, RegionFacts
        <4>2. [x EXCEPT !.ref_count = k].id = x.id /\ [x EXCEPT !.ref_count = k].frames = x.frames
          BY <4>1 DEF Region
        <4>3. [x EXCEPT !.ref_count = k] \in shm'
          BY <2>4
        <4> QED BY <3>2, <4>2, <4>3
      <3> QED BY <3>1, <3>2
    <2>5. ASSUME NEW p \in Pids, NEW x \in shm, NEW v \in ShmAt, SysShmMap(p, x, v) PROVE Stays(r)
      <3>1. shm' = (shm \ {x}) \cup {[x EXCEPT !.ref_count = x.ref_count + 1]}
        BY <2>5 DEF SysShmMap
      <3> HIDE DEF Stays
      <3> QED BY <2>4, <3>1
    <2>6. ASSUME NEW p \in Pids, NEW x \in shm, NEW v \in ShmAt, SysShmUnmap(p, x, v) PROVE Stays(r)
      <3>1. CASE shm' = (shm \ {x}) \cup {Dropped(x)}
        <4>1. shm' = (shm \ {x}) \cup
                       {[x EXCEPT !.ref_count = IF x.ref_count > 0 THEN x.ref_count - 1 ELSE 0]}
          BY <3>1 DEF Dropped
        <4> HIDE DEF Stays
        <4> QED BY <2>4, <4>1
      <3>2. CASE shm' = shm \ {x} /\ RemovedAtUnmap(x)
        <4>1. x.owner_exited
          BY <3>2 DEF RemovedAtUnmap
        <4>2. x.owner \notin alive /\ alive' = alive
          BY <1>1, <2>6, <4>1 DEF IInv, RegionInv, SysShmUnmap
        <4>3. r # x
          BY <4>2
        <4> QED BY <3>2, <4>3
      <3> QED BY <2>6, <3>1, <3>2 DEF SysShmUnmap
    <2>7. CASE SysSpawn
      BY <2>1, <2>7 DEF SysSpawn, LoadElf
    <2>8. ASSUME NEW p \in Pids, NEW v \in Pages, DemandPage(p, v) PROVE Stays(r)
      BY <2>1, <2>8 DEF DemandPage
    <2>9. ASSUME NEW p \in Pids, NEW k \in Increments, SysSbrk(p, k) PROVE Stays(r)
      BY <2>1, <2>9 DEF SysSbrk
    <2>10. ASSUME NEW p \in Pids, NEW n \in MapSizes, NEW hint \in MmapHints, SysMmap(p, hint, n)
           PROVE  Stays(r)
      BY <2>1, <2>10 DEF SysMmap
    <2>11. ASSUME NEW p \in Pids, NEW n \in MapSizes, NEW v \in UnmapAt, SysMunmap(p, v, n)
           PROVE  Stays(r)
      BY <2>1, <2>11 DEF SysMunmap
    <2>12. ASSUME NEW p \in Pids, NEW v \in DeviceAt, NEW f \in PhysicalAt,
                  NEW n \in PhysicalSizes, SysMapPhysical(p, v, f, n)
           PROVE  Stays(r)
      BY <2>1, <2>12 DEF SysMapPhysical
    <2>13. CASE HltLoop
      BY <2>1, <2>13 DEF HltLoop, vars
    <2> HIDE DEF Stays
    <2> QED BY <1>1, <2>2, <2>3, <2>5, <2>6, <2>7, <2>8, <2>9, <2>10, <2>11, <2>12, <2>13
            DEF Next, SysExit, PageFaultKills
  <1>2. IInv /\ [Next]_vars => [Step]_vars
    BY <1>1
  <1>3. Spec => [][Step]_vars
    BY <1>2, SpecIInv, PTL DEF Spec
  <1> QED BY <1>3 DEF OwnedRegionStays
=============================================================================
