---------------------------- MODULE StorageProofs ----------------------------
(***************************************************************************)
(* What the storage layer promises, for any number of files, names and     *)
(* processes, with sector writes that fail and power cuts between any two. *)
(***************************************************************************)
EXTENDS Storage, SequenceTheorems, OrderLemmas

-----------------------------------------------------------------------------
(* The inductive invariant. *)

Slots == 1 .. ROOT_ENTRIES

(* The contents and the entries that have room on the disk, also when the  *)
(* file is flushed to USER_CLUSTER.                                        *)
Roomy == { s \in Data : Room(USER_CLUSTER, Len(s)) }

RoomyEntry ==
    { e \in Entry : IsFile(e) => Room(e.cluster, e.size) /\ Room(USER_CLUSTER, e.size) }

File == [name : Names, data : Roomy]

Fd == { f \in [name : Names, data : Roomy, offset : Nat, writable : BOOLEAN] :
            f.offset <= Len(f.data) }

Disk == [ gpt : BOOLEAN, fat : BOOLEAN, dir : [Slots -> RoomyEntry],
          data : [Clusters -> AnyBlock] ]

Write ==
    [op : {"gpt", "bpb"}]
    \cup [op : {"dir"}, sector : Nat]
    \cup [op : {"data"}, cluster : Nat, block : AnyBlock]
    \cup [op : {"entry"}, slot : Slots, entry : { e \in RoomyEntry : IsFile(e) }]
    \cup [op : {"erase"}, slot : Slots, name : Names]
    \cup [op : {"flush"}, file : File]

Named(dir, n) == \E i \in Slots : dir[i].name = n

(* A directory that no install left half done is sound. *)
DiskInv(d, t) ==
    /\ d \in Disk
    /\ t \in BOOLEAN
    /\ ~ t => Sound(d.dir)
    /\ d.fat => d.gpt

OverlayInv(ov) ==
    /\ ov \in Seq(File)
    /\ \A i, j \in DOMAIN ov : ov[i].name = ov[j].name => i = j

SessionInv(se, ov, del) ==
    /\ se \in [Names -> Roomy \cup {NoFile, Untouched}]
    /\ \A n \in Names : se[n] = NoFile => n \in del
    /\ \A n \in Names : se[n] \in Roomy =>
          n \notin del /\ \E i \in DOMAIN ov : ov[i].name = n /\ ov[i].data = se[n]

(* The write of a directory entry, and of the mark 0xE5. *)
IsEntry(w) == w.op = "entry"
IsErase(w) == w.op = "erase"

(* The writes a call has left.  An install is a GPT header, a volume and   *)
(* flushes; a flush that has begun is data, an entry and what comes after. *)
(* The slot that was chosen for an entry is still the right one.           *)
QueueInv(q, d, fl, base) ==
    /\ q \in Seq(Write)
    /\ \A i \in DOMAIN q :
        /\ q[i].op = "gpt" => i = 1
        /\ q[i].op \in {"bpb", "dir"} => base /\ (d.gpt \/ q[1].op = "gpt")
        /\ q[i].op \in {"gpt", "bpb", "dir"} => fl = NoFile
        /\ q[i].op = "flush" => \A j \in DOMAIN q : i <= j => q[j].op = "flush"
        /\ IsEntry(q[i]) \/ IsErase(q[i]) =>
              /\ HasDisk /\ d.fat
              /\ \A j \in DOMAIN q : /\ j < i => q[j].op = "data"
                                     /\ j > i => q[j].op = "flush"
        /\ IsEntry(q[i]) => SlotFor(d.dir, q[i].entry.name) = {q[i].slot}
        /\ IsErase(q[i]) => /\ IsFile(d.dir[q[i].slot])
                            /\ fl # NoFile => d.dir[q[i].slot].name # fl.name

(* The blocks a flush of new writes, and their number. *)
Block(new, m) == IF new = << >> THEN NoBlock ELSE new[m]
Span(new) == IF new = << >> THEN 1 ELSE Len(new)

(* What is read in the middle of a flush. *)
Between(read, old, new) ==
    \/ read = NoFile /\ old = NoFile
    \/ /\ read \in Roomy /\ old \in Roomy
       /\ Len(read) = Len(old)
       /\ \A k \in 1 .. Len(read) :
             read[k] = old[k] \/ \E m \in 1 .. Span(new) : read[k] = Block(new, m)

(* A flush under way is one with its entry still to be written: the data   *)
(* before the entry is the rest of the new contents, and the blocks before *)
(* that rest are on the disk.                                              *)
FlushInv(q, d, fl) ==
    fl # NoFile =>
        LET read == ReadDisk(d, fl.name) IN
        /\ fl \in [name : Names, old : Roomy \cup {NoFile}, new : Roomy]
        /\ (\A i \in DOMAIN q : q[i].op = "flush" \/ IsErase(q[i])) => read = fl.new
        /\ (\A i \in DOMAIN q : ~ IsEntry(q[i])) =>
              \A i \in DOMAIN q : q[i].op = "flush" \/ IsErase(q[i])
        /\ \A i \in DOMAIN q : IsEntry(q[i]) =>
              /\ i <= Span(fl.new) + 1
              /\ q[i].entry = [name |-> fl.name, cluster |-> USER_CLUSTER, size |-> Len(fl.new)]
              /\ \A j \in 1 .. i - 1 :
                    q[j] = DataWrite(USER_CLUSTER + Span(fl.new) - i + j,
                                     Block(fl.new, Span(fl.new) - i + j + 1))
              /\ \A m \in 1 .. Span(fl.new) - i + 1 :
                    d.data[USER_CLUSTER + m - 1] = Block(fl.new, m)
              /\ Between(read, fl.old, fl.new)

IInv ==
    /\ fs_base \in BOOLEAN
    /\ OverlayInv(overlay)
    /\ deleted \subseteq Names
    /\ fds \in [Procs -> [Fds -> Fd \cup {NoFd}]]
    /\ erased \subseteq Names
    /\ DiskInv(disk, torn)
    /\ SessionInv(session, overlay, deleted)
    /\ QueueInv(pending, disk, flushed, fs_base)
    /\ FlushInv(pending, disk, flushed)

-----------------------------------------------------------------------------
(* Directories. *)

(* The two marks are no files. *)
LEMMA MarkFacts ==
    /\ ~ IsFile(End) /\ ~ IsFile(Gone) /\ End # Gone
    /\ End \in RoomyEntry /\ Gone \in RoomyEntry
    /\ \A e \in RoomyEntry : IsFile(e) \/ e = End \/ e = Gone
    /\ \A e \in RoomyEntry : IsFile(e) =>
          /\ e \in [name : Names, cluster : Clusters, size : 0 .. Cardinality(Clusters)]
          /\ e.size \in Nat /\ e.cluster \in Nat
  <1>1. "0x00" \notin Names /\ "0xE5" \notin Names
    BY NamesAssumption DEF End, Gone
  <1>2. ~ IsFile(End) /\ ~ IsFile(Gone) /\ End # Gone
    BY <1>1 DEF IsFile, End, Gone
  <1>3. End \in RoomyEntry /\ Gone \in RoomyEntry
    BY <1>2 DEF RoomyEntry, Entry
  <1>4. \A e \in RoomyEntry :
           e = End \/ e = Gone \/ e \in [name : Names, cluster : Clusters, size : 0 .. Cardinality(Clusters)]
    BY DEF RoomyEntry, Entry
  <1>5. Cardinality(Clusters) \in Nat /\ Clusters \subseteq Nat
    BY VolumeAssumption, FS_CardinalityType
  <1>6. \A e \in [name : Names, cluster : Clusters, size : 0 .. Cardinality(Clusters)] :
           IsFile(e) /\ e.size \in Nat /\ e.cluster \in Nat
    <2> SUFFICES ASSUME NEW e \in [name : Names, cluster : Clusters, size : 0 .. Cardinality(Clusters)]
                 PROVE  IsFile(e) /\ e.size \in Nat /\ e.cluster \in Nat
      OBVIOUS
    <2>1. e.name \in Names /\ e.cluster \in Clusters /\ e.size \in 0 .. Cardinality(Clusters)
      OBVIOUS
    <2>2. e.size \in Nat
      BY <1>5, <2>1
    <2> QED BY <1>5, <2>1, <2>2 DEF IsFile
  <1>7. \A e \in RoomyEntry : IsFile(e) \/ e = End \/ e = Gone
    BY <1>4, <1>6
  <1>8. \A e \in RoomyEntry : IsFile(e) =>
           e \in [name : Names, cluster : Clusters, size : 0 .. Cardinality(Clusters)]
    BY <1>2, <1>4
  <1> QED BY <1>2, <1>3, <1>6, <1>7, <1>8

(* Entry i is the one a search for n ends at. *)
First(dir, n, i) ==
    /\ i \in Scanned(dir) /\ dir[i].name = n
    /\ \A j \in 1 .. i - 1 : dir[j].name # n

(* The least of a set of numbers. *)
LEMMA MinFacts ==
    ASSUME NEW T \in SUBSET Nat, T # {}
    PROVE  Min(T) \in T /\ \A y \in T : Min(T) <= y
  <1>1. \E x \in T : \A y \in T : x <= y
    BY LeastNat
  <1> QED BY <1>1 DEF Min

(* What a scan reaches. *)
LEMMA ScannedFacts ==
    ASSUME NEW dir \in [Slots -> RoomyEntry]
    PROVE  /\ ROOT_ENTRIES \in Nat /\ DOMAIN dir = Slots /\ Slots \in SUBSET Nat
           /\ Scanned(dir) \subseteq Slots
           /\ \A i \in Slots : i \in Scanned(dir) <=> \A j \in 1 .. i : dir[j] # End
           /\ \A i \in Scanned(dir) : \A j \in 1 .. i - 1 : j \in Scanned(dir)
  <1>1. ROOT_ENTRIES \in Nat /\ DOMAIN dir = Slots /\ Slots \in SUBSET Nat
    BY VolumeAssumption DEF Slots
  <1>2. Scanned(dir) \subseteq Slots /\ \A i \in Slots : i \in Scanned(dir) <=> \A j \in 1 .. i : dir[j] # End
    BY <1>1 DEF Scanned
  <1>3. ASSUME NEW i \in Scanned(dir), NEW j \in 1 .. i - 1 PROVE j \in Scanned(dir)
    <2>1. i \in Slots /\ i \in Nat /\ i <= ROOT_ENTRIES
      BY <1>1, <1>2 DEF Slots
    <2>2. j \in Slots /\ \A k \in 1 .. j : k \in 1 .. i
      BY <1>1, <2>1 DEF Slots
    <2> QED BY <1>2, <2>1, <2>2
  <1> QED BY <1>1, <1>2, <1>3

(* A search returns what its first entry holds, or nothing. *)
LEMMA LookupFacts ==
    ASSUME NEW dir \in [Slots -> RoomyEntry], NEW data, NEW n \in Names
    PROVE  /\ \A i \in Slots : First(dir, n, i) => Lookup(dir, data, n) = Contents(data, dir[i])
           /\ (\A i \in Slots : ~ First(dir, n, i)) => Lookup(dir, data, n) = NoFile
  <1> DEFINE found == { i \in Scanned(dir) : dir[i].name = n }
  <1>1. /\ Slots \in SUBSET Nat /\ Scanned(dir) \subseteq Slots
        /\ \A i \in Scanned(dir) : \A j \in 1 .. i - 1 : j \in Scanned(dir)
    BY ScannedFacts
  <1>2. found \in SUBSET Nat /\ found \subseteq Slots
    BY <1>1
  <1>3. CASE found = {}
    <2>1. \A i \in Slots : ~ First(dir, n, i)
      BY <1>3 DEF First
    <2> QED BY <1>3, <2>1 DEF Lookup
  <1>4. CASE found # {}
    <2> DEFINE m == Min(found)
    <2>1. m \in found /\ \A y \in found : m <= y
      BY <1>2, <1>4, MinFacts
    <2>2. Lookup(dir, data, n) = Contents(data, dir[m])
      BY <1>4 DEF Lookup
    <2> HIDE DEF m
    <2>3. m \in Slots /\ m \in Nat
      BY <1>2, <2>1
    <2>4. \A j \in 1 .. m - 1 : dir[j].name # n
      <3> SUFFICES ASSUME NEW j \in 1 .. m - 1, dir[j].name = n PROVE FALSE
        OBVIOUS
      <3>1. j \in found /\ j < m /\ j \in Nat
        BY <1>1, <2>1, <2>3
      <3> QED BY <2>1, <2>3, <3>1
    <2>5. First(dir, n, m)
      BY <2>1, <2>4 DEF First
    <2>6. ASSUME NEW i \in Slots, First(dir, n, i) PROVE i = m
      <3>1. i \in found /\ i \in Nat /\ m <= i
        BY <1>2, <2>1, <2>6 DEF First
      <3>2. i >= 1 /\ m >= 1
        BY <2>3 DEF Slots
      <3>3. ~ (m \in 1 .. i - 1)
        BY <2>1, <2>6 DEF First
      <3> QED BY <2>3, <3>1, <3>2, <3>3
    <2> QED BY <2>2, <2>3, <2>5, <2>6
  <1> QED BY <1>3, <1>4

(* In a sound directory a name stands for one entry, which scans reach. *)
LEMMA SoundFacts ==
    ASSUME NEW dir \in [Slots -> RoomyEntry], Sound(dir)
    PROVE  /\ \A i \in Slots : IsFile(dir[i]) => i \in Scanned(dir)
           /\ \A n \in Names : \A i \in Slots : dir[i].name = n => First(dir, n, i)
  <1>1. ROOT_ENTRIES \in Nat /\ DOMAIN dir = Slots
    BY VolumeAssumption
  <1>2. ASSUME NEW i \in Slots, IsFile(dir[i]) PROVE i \in Scanned(dir)
    <2>1. \A j \in 1 .. i : j \in Slots /\ ~ (i < j)
      BY <1>1 DEF Slots
    <2>2. \A j \in 1 .. i : dir[j] # End
      BY <1>2, <2>1 DEF Sound, Slots
    <2> QED BY <1>1, <2>2 DEF Scanned
  <1>3. ASSUME NEW n \in Names, NEW i \in Slots, dir[i].name = n PROVE First(dir, n, i)
    <2>1. IsFile(dir[i]) /\ i \in Scanned(dir)
      BY <1>2, <1>3 DEF IsFile
    <2>2. \A j \in 1 .. i - 1 : j \in Slots /\ j # i
      BY <1>1 DEF Slots
    <2>3. \A j \in 1 .. i - 1 : dir[j].name # n
      BY <1>3, <2>1, <2>2 DEF Sound, Slots
    <2> QED BY <1>3, <2>1, <2>3 DEF First
  <1> QED BY <1>2, <1>3

(* The contents of a file have its size. *)
LEMMA ContentsFacts ==
    ASSUME NEW e \in RoomyEntry, IsFile(e), NEW data \in [Clusters -> AnyBlock]
    PROVE  /\ Contents(data, e) \in Roomy
           /\ Len(Contents(data, e)) = e.size
           /\ \A i \in 1 .. e.size : Contents(data, e)[i] = data[e.cluster + i - 1]
           /\ \A i \in 1 .. e.size : e.cluster + i - 1 \in Clusters
  <1>1. e.size \in Nat
    BY MarkFacts
  <1>2. \A i \in 1 .. e.size : e.cluster + i - 1 \in Clusters
    BY DEF RoomyEntry, Room
  <1>3. Contents(data, e) \in [1 .. e.size -> AnyBlock]
    BY <1>2 DEF Contents
  <1>4. Contents(data, e) \in Seq(AnyBlock) /\ Len(Contents(data, e)) = e.size
    BY <1>1, <1>3
  <1>5. Contents(data, e) \in Roomy
    BY <1>4 DEF Roomy, Data, RoomyEntry
  <1> QED BY <1>2, <1>4, <1>5 DEF Contents

(* A file, with its marks told apart. *)
LEMMA RoomyFacts ==
    /\ NoFile \notin Roomy /\ Untouched \notin Roomy /\ Untouched # NoFile
    /\ << >> \in Roomy
    /\ \A s \in Roomy : s \in Seq(AnyBlock) /\ Len(s) \in Nat
  <1>1. << >> \in Roomy
    <2>1. << >> \in Seq(AnyBlock) /\ Len(<< >>) = 0
      OBVIOUS
    <2> QED BY <2>1 DEF Roomy, Data, Room
  <1> QED BY <1>1, MarksAssumption DEF Roomy, Data

(* Reading from a disk. *)
LEMMA ReadDiskFacts ==
    ASSUME NEW d \in Disk, NEW n \in Names
    PROVE  /\ ReadDisk(d, n) \in Roomy \cup {NoFile}
           /\ ~ Named(d.dir, n) => ReadDisk(d, n) = NoFile
           /\ HasDisk /\ d.fat => \A i \in Slots : First(d.dir, n, i) =>
                /\ ReadDisk(d, n) = Contents(d.data, d.dir[i])
                /\ ReadDisk(d, n) \in Roomy
           /\ ~ (HasDisk /\ d.fat /\ \E i \in Slots : First(d.dir, n, i)) => ReadDisk(d, n) = NoFile
  <1>1. d.dir \in [Slots -> RoomyEntry] /\ d.data \in [Clusters -> AnyBlock]
    BY DEF Disk
  <1>2. \A i \in Slots : First(d.dir, n, i) => /\ Lookup(d.dir, d.data, n) = Contents(d.data, d.dir[i])
                                               /\ Contents(d.data, d.dir[i]) \in Roomy
    <2> SUFFICES ASSUME NEW i \in Slots, First(d.dir, n, i)
                 PROVE  /\ Lookup(d.dir, d.data, n) = Contents(d.data, d.dir[i])
                        /\ Contents(d.data, d.dir[i]) \in Roomy
      OBVIOUS
    <2>1. d.dir[i] \in RoomyEntry /\ IsFile(d.dir[i])
      BY <1>1 DEF First, IsFile
    <2> QED BY <1>1, <2>1, LookupFacts, ContentsFacts
  <1>3. (\A i \in Slots : ~ First(d.dir, n, i)) => Lookup(d.dir, d.data, n) = NoFile
    BY <1>1, LookupFacts
  <1>4. ~ Named(d.dir, n) => \A i \in Slots : ~ First(d.dir, n, i)
    BY DEF First, Named
  <1>5. CASE \E i \in Slots : First(d.dir, n, i)
    BY <1>2, <1>4, <1>5 DEF ReadDisk
  <1>6. CASE \A i \in Slots : ~ First(d.dir, n, i)
    BY <1>3, <1>6 DEF ReadDisk
  <1> QED BY <1>5, <1>6

-----------------------------------------------------------------------------
(* The overlay. *)

(* Files picked from an overlay, in any order, each once. *)
LEMMA PickedFacts ==
    ASSUME NEW ov, OverlayInv(ov), NEW S \in SUBSET DOMAIN ov
    PROVE  LET new == Picked(ov, S) IN
           /\ OverlayInv(new)
           /\ \A k \in DOMAIN new : \E i \in S : new[k] = ov[i]
           /\ \A i \in S : \E k \in DOMAIN new : new[k] = ov[i]
  <1> DEFINE N == Cardinality(S)
             new == Picked(ov, S)
  <1>1. ov \in Seq(File) /\ DOMAIN ov = 1 .. Len(ov) /\ Len(ov) \in Nat
    BY DEF OverlayInv
  <1>2. S \in SUBSET Nat /\ IsFiniteSet(S)
    <2>1. IsFiniteSet(1 .. Len(ov)) /\ 1 .. Len(ov) \subseteq Nat
      BY <1>1, FS_Interval
    <2> QED BY <1>1, <2>1, FS_Subset
  <1>3. /\ N \in Nat /\ Ascending(S) \in [1 .. N -> S]
        /\ \A k, l \in 1 .. N : Ascending(S)[k] = Ascending(S)[l] => k = l
        /\ \A s \in S : \E k \in 1 .. N : Ascending(S)[k] = s
    BY <1>2, AscendingFacts
  <1>4. DOMAIN new = 1 .. N /\ \A k \in 1 .. N : new[k] = ov[Ascending(S)[k]] /\ new[k] \in File
    BY <1>1, <1>3 DEF Picked
  <1>5. new \in [1 .. N -> File]
    BY <1>3, <1>4 DEF Picked
  <1>6. new \in Seq(File)
    BY <1>3, <1>5
  <1>7. \A k, l \in 1 .. N : new[k].name = new[l].name => k = l
    BY <1>3, <1>4 DEF OverlayInv
  <1>8. OverlayInv(new)
    BY <1>4, <1>6, <1>7 DEF OverlayInv
  <1>9. \A k \in DOMAIN new : \E i \in S : new[k] = ov[i]
    BY <1>3, <1>4
  <1>10. \A i \in S : \E k \in DOMAIN new : new[k] = ov[i]
    BY <1>3, <1>4
  <1> QED BY <1>8, <1>9, <1>10

(* overlay.retain: the file goes and the others stay. *)
LEMMA WithoutFacts ==
    ASSUME NEW ov, OverlayInv(ov), NEW n
    PROVE  /\ OverlayInv(Without(ov, n))
           /\ \A f : (\E k \in DOMAIN Without(ov, n) : Without(ov, n)[k] = f)
                        <=> (\E i \in DOMAIN ov : ov[i] = f /\ f.name # n)
  <1> DEFINE S == { i \in DOMAIN ov : ov[i].name # n }
  <1>1. S \in SUBSET DOMAIN ov
    OBVIOUS
  <1>2. /\ OverlayInv(Without(ov, n))
        /\ \A k \in DOMAIN Without(ov, n) : \E i \in S : Without(ov, n)[k] = ov[i]
        /\ \A i \in S : \E k \in DOMAIN Without(ov, n) : Without(ov, n)[k] = ov[i]
    BY <1>1, PickedFacts DEF Without
  <1> QED BY <1>2

(* Writing a file: it is there once, with the new contents. *)
LEMMA UpsertedFacts ==
    ASSUME NEW ov, OverlayInv(ov), NEW n \in Names, NEW data \in Roomy
    PROVE  /\ OverlayInv(Upserted(ov, n, data))
           /\ \E i \in DOMAIN Upserted(ov, n, data) :
                 Upserted(ov, n, data)[i] = [name |-> n, data |-> data]
           /\ \A f : f.name # n =>
                 ((\E i \in DOMAIN Upserted(ov, n, data) : Upserted(ov, n, data)[i] = f)
                     <=> (\E i \in DOMAIN ov : ov[i] = f))
  <1> DEFINE f == [name |-> n, data |-> data]
             new == Upserted(ov, n, data)
  <1>1. ov \in Seq(File) /\ f \in File /\ f.name = n /\ Len(ov) \in Nat /\ DOMAIN ov = 1 .. Len(ov)
    BY DEF OverlayInv, File
  <1>2. CASE InOverlay(ov, n)
    <2>1. new = [i \in DOMAIN ov |-> IF ov[i].name = n THEN f ELSE ov[i]]
      BY <1>2 DEF Upserted
    <2>2. DOMAIN new = DOMAIN ov /\ \A i \in DOMAIN ov : /\ new[i] \in File
                                                          /\ new[i].name = ov[i].name
      BY <1>1, <2>1
    <2>3. new \in [1 .. Len(ov) -> File]
      BY <1>1, <2>1, <2>2
    <2>4. new \in Seq(File)
      BY <1>1, <2>3
    <2>5. OverlayInv(new)
      BY <2>2, <2>4 DEF OverlayInv
    <2>6. \E i \in DOMAIN new : new[i] = f
      BY <1>2, <2>1, <2>2 DEF InOverlay
    <2>7. ASSUME NEW g, g.name # n
          PROVE  (\E i \in DOMAIN new : new[i] = g) <=> (\E i \in DOMAIN ov : ov[i] = g)
      BY <1>1, <2>1, <2>2, <2>7
    <2> QED BY <2>5, <2>6, <2>7
  <1>3. CASE ~ InOverlay(ov, n)
    <2>1. new = Append(ov, f)
      BY <1>3 DEF Upserted
    <2>2. /\ new \in Seq(File) /\ Len(new) = Len(ov) + 1 /\ DOMAIN new = 1 .. Len(ov) + 1
          /\ \A i \in 1 .. Len(ov) : new[i] = ov[i]
          /\ new[Len(ov) + 1] = f
      BY <1>1, <2>1
    <2>3. \A i \in 1 .. Len(ov) : ov[i].name # n
      BY <1>1, <1>3 DEF InOverlay
    <2>4. \A i \in DOMAIN new : i \in 1 .. Len(ov) \/ i = Len(ov) + 1
      BY <1>1, <2>2
    <2>5. OverlayInv(new)
      BY <1>1, <2>2, <2>3, <2>4 DEF OverlayInv
    <2>6. \E i \in DOMAIN new : new[i] = f
      BY <1>1, <2>2
    <2>7. ASSUME NEW g, g.name # n
          PROVE  (\E i \in DOMAIN new : new[i] = g) <=> (\E i \in DOMAIN ov : ov[i] = g)
      <3>1. 1 .. Len(ov) \subseteq DOMAIN new
        BY <1>1, <2>2
      <3> QED BY <1>1, <2>2, <2>4, <2>7, <3>1
    <2> QED BY <2>5, <2>6, <2>7
  <1> QED BY <1>2, <1>3

(* Boot: each name a scan of the disk's directory sees comes into the      *)
(* overlay, once.                                                          *)
LEMMA RecoveredFacts ==
    ASSUME NEW d \in Disk, HasDisk, d.fat
    PROVE  /\ OverlayInv(Recovered(d))
           /\ \A i \in Scanned(d.dir) : IsFile(d.dir[i]) =>
                 \E k \in DOMAIN Recovered(d) : Recovered(d)[k].name = d.dir[i].name
  <1> DEFINE files == { i \in Scanned(d.dir) : IsFile(d.dir[i]) }
             S == { i \in files : \A j \in files : d.dir[j].name = d.dir[i].name => i <= j }
             F(i) == [name |-> d.dir[i].name, data |-> ReadDisk(d, d.dir[i].name)]
             new == [k \in DOMAIN Ascending(S) |-> F(Ascending(S)[k])]
             N == Cardinality(S)
  <1>1. /\ d.dir \in [Slots -> RoomyEntry] /\ Slots \in SUBSET Nat /\ IsFiniteSet(Slots)
        /\ Scanned(d.dir) \subseteq Slots
        /\ \A i \in Scanned(d.dir) : \A j \in 1 .. i - 1 : j \in Scanned(d.dir)
    <2>1. d.dir \in [Slots -> RoomyEntry]
      BY DEF Disk
    <2>2. IsFiniteSet(1 .. ROOT_ENTRIES)
      BY VolumeAssumption, FS_Interval
    <2> QED BY <2>1, <2>2, ScannedFacts DEF Slots
  <1>2. Recovered(d) = new
    BY DEF Recovered
  <1>3. files \subseteq Slots /\ S \subseteq files
    BY <1>1
  <1>4. ASSUME NEW i \in files PROVE \E j \in S : d.dir[j].name = d.dir[i].name
    <2> DEFINE T == { j \in files : d.dir[j].name = d.dir[i].name }
    <2>1. T \in SUBSET Nat /\ T # {}
      BY <1>1, <1>3
    <2> HIDE DEF T
    <2>2. PICK m \in T : \A y \in T : m <= y
      BY <2>1, MinFacts
    <2>3. m \in files /\ d.dir[m].name = d.dir[i].name
      BY <2>2 DEF T
    <2>4. \A j \in files : d.dir[j].name = d.dir[m].name => m <= j
      BY <2>2, <2>3 DEF T
    <2> QED BY <2>3, <2>4
  <1>5. S \in SUBSET Nat /\ IsFiniteSet(S)
    BY <1>1, <1>3, FS_Subset
  <1>6. \A i, j \in S : d.dir[i].name = d.dir[j].name => i = j
    <2> SUFFICES ASSUME NEW i \in S, NEW j \in S, d.dir[i].name = d.dir[j].name PROVE i = j
      OBVIOUS
    <2>1. i <= j /\ j <= i
      OBVIOUS
    <2>2. i \in Nat /\ j \in Nat
      BY <1>5
    <2> QED BY <2>1, <2>2
  <1>7. ASSUME NEW i \in S PROVE i \in Slots /\ IsFile(d.dir[i]) /\ F(i) \in File /\ F(i).name = d.dir[i].name
    <2>1. i \in Slots /\ d.dir[i].name \in Names /\ i \in Scanned(d.dir) /\ i \in Nat
      BY <1>1, <1>3 DEF IsFile
    <2>2. \A j \in 1 .. i - 1 : d.dir[j].name # d.dir[i].name
      <3> SUFFICES ASSUME NEW j \in 1 .. i - 1, d.dir[j].name = d.dir[i].name PROVE FALSE
        OBVIOUS
      <3>1. j \in files /\ j < i /\ j \in Nat
        BY <1>1, <2>1 DEF IsFile
      <3>2. i <= j
        BY <3>1
      <3> QED BY <2>1, <3>1, <3>2
    <2>3. First(d.dir, d.dir[i].name, i)
      BY <2>1, <2>2 DEF First
    <2>4. ReadDisk(d, d.dir[i].name) \in Roomy
      BY <2>1, <2>3, ReadDiskFacts
    <2> QED BY <2>1, <2>4 DEF File, IsFile
  <1> HIDE DEF S, files
  <1>8. /\ N \in Nat /\ Ascending(S) \in [1 .. N -> S]
        /\ \A k, l \in 1 .. N : Ascending(S)[k] = Ascending(S)[l] => k = l
        /\ \A s \in S : \E k \in 1 .. N : Ascending(S)[k] = s
    BY <1>5, AscendingFacts
  <1>9. DOMAIN new = 1 .. N /\ \A k \in 1 .. N : new[k] = F(Ascending(S)[k])
    BY <1>8
  <1>10. \A k \in 1 .. N : new[k] \in File /\ new[k].name = d.dir[Ascending(S)[k]].name
    BY <1>7, <1>8, <1>9
  <1>11. new \in Seq(File)
    <2>1. \A k \in 1 .. N : F(Ascending(S)[k]) \in File
      BY <1>7, <1>8
    <2>2. DOMAIN Ascending(S) = 1 .. N
      BY <1>8
    <2> HIDE DEF F
    <2>3. new \in [1 .. N -> File]
      BY <2>1, <2>2
    <2> QED BY <1>8, <2>3
  <1> HIDE DEF new, F
  <1>12. \A k, l \in 1 .. N : new[k].name = new[l].name => k = l
    BY <1>6, <1>8, <1>10
  <1>13. OverlayInv(new)
    BY <1>9, <1>11, <1>12 DEF OverlayInv
  <1>14. ASSUME NEW i \in files PROVE \E k \in DOMAIN new : new[k].name = d.dir[i].name
    <2>1. PICK j \in S : d.dir[j].name = d.dir[i].name
      BY <1>4
    <2> QED BY <1>8, <1>9, <1>10, <2>1
  <1> QED BY <1>2, <1>13, <1>14 DEF files

-----------------------------------------------------------------------------
(* Reading a file. *)

(* The files of the boot volume. *)
LEMMA VolumeFacts ==
    ASSUME NEW n \in Names
    PROVE  /\ VolumeDir \in [Slots -> RoomyEntry]
           /\ VolumeFile(n) \in Roomy \cup {NoFile}
           /\ VolumeFile(n) # NoFile <=> fs_base /\ Named(VolumeDir, n)
  <1>1. VolumeDir \in [Slots -> RoomyEntry] /\ VolumeData \in [Clusters -> AnyBlock] /\ Sound(VolumeDir)
    BY VolumeAssumption DEF Slots, RoomyEntry
  <1>2. ASSUME NEW i \in Slots, VolumeDir[i].name = n
        PROVE  Lookup(VolumeDir, VolumeData, n) \in Roomy
    <2>1. IsFile(VolumeDir[i]) /\ VolumeDir[i] \in RoomyEntry
      BY <1>1, <1>2 DEF IsFile
    <2>2. Contents(VolumeData, VolumeDir[i]) \in Roomy
      BY <1>1, <2>1, ContentsFacts
    <2>3. First(VolumeDir, n, i)
      BY <1>1, <1>2, SoundFacts
    <2> QED BY <1>1, <2>2, <2>3, LookupFacts
  <1>3. ~ Named(VolumeDir, n) => Lookup(VolumeDir, VolumeData, n) = NoFile
    <2>1. ~ Named(VolumeDir, n) => \A i \in Slots : ~ First(VolumeDir, n, i)
      BY DEF First, Named
    <2> QED BY <1>1, <2>1, LookupFacts
  <1>4. CASE Named(VolumeDir, n)
    BY <1>1, <1>2, <1>4, RoomyFacts DEF VolumeFile, Named
  <1>5. CASE ~ Named(VolumeDir, n)
    BY <1>1, <1>3, <1>5 DEF VolumeFile
  <1> QED BY <1>4, <1>5

(* A file of the overlay. *)
LEMMA OverlayFacts ==
    ASSUME NEW ov, OverlayInv(ov), NEW i \in DOMAIN ov
    PROVE  /\ InOverlay(ov, ov[i].name) /\ OverlayData(ov, ov[i].name) = ov[i].data
           /\ ov[i] \in File /\ ov[i].data \in Roomy /\ ov[i].name \in Names
           /\ ov[i] = [name |-> ov[i].name, data |-> ov[i].data]
  <1>1. ov[i] \in File
    BY DEF OverlayInv
  <1>2. (CHOOSE j \in DOMAIN ov : ov[j].name = ov[i].name) = i
    BY DEF OverlayInv
  <1> QED BY <1>1, <1>2 DEF InOverlay, OverlayData, File

(* read_file returns a file or nothing. *)
LEMMA ReadFileFacts ==
    ASSUME OverlayInv(overlay), DiskInv(disk, torn), NEW n \in Names
    PROVE  ReadFile(n) \in Roomy \cup {NoFile}
  <1>1. InOverlay(overlay, n) => OverlayData(overlay, n) \in Roomy
    BY OverlayFacts DEF InOverlay
  <1>2. VolumeFile(n) \in Roomy \cup {NoFile}
    BY VolumeFacts
  <1>3. ReadDisk(disk, n) \in Roomy \cup {NoFile}
    BY ReadDiskFacts DEF DiskInv
  <1> QED BY <1>1, <1>2, <1>3 DEF ReadFile

-----------------------------------------------------------------------------
(* Changes of the directory. *)

(* The slot a flush chooses: that of the name, or the first free one. *)
LEMMA SlotFacts ==
    ASSUME NEW dir \in [Slots -> RoomyEntry], NEW n \in Names, NEW s \in SlotFor(dir, n)
    PROVE  /\ SlotFor(dir, n) = {s} /\ s \in Slots
           /\ \A j \in 1 .. s - 1 : dir[j] # End /\ dir[j].name # n
           /\ \/ dir[s].name = n
              \/ dir[s] \in {End, Gone} /\ \A i \in Scanned(dir) : dir[i].name # n
  <1> DEFINE same == { i \in Scanned(dir) : dir[i].name = n }
             avail == { i \in DOMAIN dir : dir[i] \in {End, Gone} }
  <1>1. /\ ROOT_ENTRIES \in Nat /\ DOMAIN dir = Slots /\ Slots \in SUBSET Nat /\ Scanned(dir) \subseteq Slots
        /\ \A i \in Slots : i \in Scanned(dir) <=> \A j \in 1 .. i : dir[j] # End
        /\ \A i \in Scanned(dir) : \A j \in 1 .. i - 1 : j \in Scanned(dir)
    BY ScannedFacts
  <1>2. same \in SUBSET Nat /\ avail \in SUBSET Nat /\ same \subseteq Slots /\ avail \subseteq Slots
    BY <1>1
  <1>3. SlotFor(dir, n) = IF same # {} THEN {Min(same)} ELSE IF avail # {} THEN {Min(avail)} ELSE {}
    BY DEF SlotFor
  <1>4. CASE same # {}
    <2>1. s = Min(same) /\ SlotFor(dir, n) = {s}
      BY <1>3, <1>4
    <2>2. s \in same /\ \A y \in same : s <= y
      BY <1>2, <1>4, <2>1, MinFacts
    <2>3. s \in Slots /\ s \in Nat /\ s \in Scanned(dir) /\ dir[s].name = n
      BY <1>2, <2>2
    <2>4. ASSUME NEW j \in 1 .. s - 1 PROVE dir[j] # End /\ dir[j].name # n
      <3>1. j \in Scanned(dir) /\ j \in 1 .. s /\ j < s /\ j \in Nat
        BY <1>1, <2>3
      <3>2. dir[j] # End
        BY <1>1, <2>3, <3>1
      <3>3. ~ (s <= j)
        BY <2>3, <3>1
      <3> QED BY <2>2, <3>1, <3>2, <3>3
    <2> QED BY <2>1, <2>3, <2>4
  <1>5. CASE same = {}
    <2>1. avail # {} /\ SlotFor(dir, n) = {s} /\ s = Min(avail)
      BY <1>3, <1>5
    <2>2. s \in avail /\ \A y \in avail : s <= y
      BY <1>2, <2>1, MinFacts
    <2>3. s \in Slots /\ s \in Nat /\ s <= ROOT_ENTRIES
      BY <1>1, <1>2, <2>2 DEF Slots
    <2>4. \A j \in 1 .. s - 1 : dir[j] # End
      <3> SUFFICES ASSUME NEW j \in 1 .. s - 1, dir[j] = End PROVE FALSE
        OBVIOUS
      <3>1. j \in Slots /\ j < s /\ j \in Nat
        BY <1>1, <2>3 DEF Slots
      <3>2. j \in avail
        BY <1>1, <3>1
      <3> QED BY <2>2, <2>3, <3>1, <3>2
    <2>5. \A j \in 1 .. s - 1 : dir[j].name # n
      <3> SUFFICES ASSUME NEW j \in 1 .. s - 1 PROVE j \in Scanned(dir)
        BY <1>5
      <3>1. j \in Slots /\ \A k \in 1 .. j : k \in 1 .. s - 1
        BY <1>1, <2>3 DEF Slots
      <3> QED BY <1>1, <2>4, <3>1
    <2> QED BY <1>5, <2>1, <2>2, <2>3, <2>4, <2>5
  <1> QED BY <1>4, <1>5

(* An entry is written to its slot: it is the one a search ends at, and a  *)
(* sound directory stays sound.                                            *)
LEMMA PutFacts ==
    ASSUME NEW dir \in [Slots -> RoomyEntry], NEW s, NEW e \in RoomyEntry, IsFile(e),
           SlotFor(dir, e.name) = {s}, NEW new, new = [dir EXCEPT ![s] = e]
    PROVE  /\ new \in [Slots -> RoomyEntry] /\ (Sound(dir) => Sound(new))
           /\ s \in Slots /\ new[s] = e /\ First(new, e.name, s)
           /\ \A m \in Names : m # e.name => (Named(new, m) <=> Named(dir, m))
           /\ \A i \in Slots : IsFile(new[i]) => new[i].name = e.name \/ new[i] = dir[i]
  <1> DEFINE n == e.name
  <1>1. n \in Names /\ s \in SlotFor(dir, n)
    BY DEF IsFile
  <1>2. /\ s \in Slots
        /\ \A j \in 1 .. s - 1 : dir[j] # End /\ dir[j].name # n
        /\ \/ dir[s].name = n
           \/ dir[s] \in {End, Gone} /\ \A i \in Scanned(dir) : dir[i].name # n
    BY <1>1, SlotFacts
  <1>3. new \in [Slots -> RoomyEntry] /\ new[s] = e /\ \A i \in Slots : i # s => new[i] = dir[i]
    BY <1>2
  <1>4. s \in Nat /\ ROOT_ENTRIES \in Nat /\ s >= 1 /\ s <= ROOT_ENTRIES
    BY <1>2, VolumeAssumption DEF Slots
  <1>5. new[s] # End
    BY <1>3, MarkFacts
  <1>6. First(new, n, s)
    <2>1. \A j \in 1 .. s - 1 : j \in Slots /\ j # s
      BY <1>4 DEF Slots
    <2>2. \A j \in 1 .. s - 1 : new[j] # End /\ new[j].name # n
      BY <1>2, <1>3, <2>1
    <2>3. \A j \in 1 .. s : j = s \/ j \in 1 .. s - 1
      BY <1>4
    <2>4. \A j \in 1 .. s : new[j] # End
      BY <1>5, <2>2, <2>3
    <2>5. s \in Scanned(new)
      BY <1>2, <1>3, <2>4, ScannedFacts
    <2> QED BY <1>3, <2>2, <2>5 DEF First
  <1>7. ASSUME Sound(dir) PROVE Sound(new)
    <2>1. \A i \in Slots : i # s => dir[i].name # n
      <3>1. CASE dir[s].name = n
        BY <1>1, <1>2, <1>7, <3>1 DEF Sound, Slots, IsFile
      <3>2. CASE dir[s].name # n
        <4>1. \A i \in Slots : dir[i].name = n => i \in Scanned(dir)
          BY <1>1, <1>7, SoundFacts DEF IsFile
        <4> QED BY <1>2, <3>2, <4>1
      <3> QED BY <3>1, <3>2
    <2>2. \A j \in Slots : j # s /\ dir[j] = End => s < j
      <3> SUFFICES ASSUME NEW j \in Slots, j # s, dir[j] = End PROVE s < j
        OBVIOUS
      <3>1. j \in Nat /\ j >= 1 /\ ~ (j \in 1 .. s - 1)
        BY <1>2, <1>4 DEF Slots
      <3> QED BY <1>4, <3>1
    <2> SUFFICES ASSUME NEW i \in Slots, NEW j \in Slots, IsFile(new[i])
                 PROVE  /\ new[i].name = new[j].name => i = j
                        /\ new[j] = End => i < j
      BY DEF Sound, Slots
    <2>3. CASE i = s
      BY <1>3, <1>5, <2>1, <2>2, <2>3
    <2>4. CASE i # s
      <3>1. IsFile(dir[i]) /\ new[i] = dir[i]
        BY <1>3, <2>4
      <3>2. CASE j = s
        BY <1>3, <1>5, <2>1, <2>4, <3>2
      <3>3. CASE j # s
        BY <1>3, <1>7, <3>1, <3>3 DEF Sound, Slots
      <3> QED BY <3>2, <3>3
    <2> QED BY <2>3, <2>4
  <1>8. ASSUME NEW m \in Names, m # n PROVE Named(new, m) <=> Named(dir, m)
    <2>1. dir[s].name # m
      <3>1. CASE dir[s].name = n
        BY <1>8, <3>1
      <3>2. CASE dir[s].name # n
        BY <1>2, <3>2, MarkFacts DEF IsFile
      <3> QED BY <3>1, <3>2
    <2> QED BY <1>3, <1>8, <2>1 DEF Named
  <1>9. \A i \in Slots : new[i].name = e.name \/ new[i] = dir[i]
    BY <1>3
  <1> QED BY <1>2, <1>3, <1>6, <1>7, <1>8, <1>9

(* An entry is marked deleted: searches for other names end where they did *)
(* and a sound directory stays sound.                                      *)
LEMMA EraseFacts ==
    ASSUME NEW dir \in [Slots -> RoomyEntry], NEW s \in Slots, IsFile(dir[s]),
           NEW new, new = [dir EXCEPT ![s] = Gone]
    PROVE  /\ new \in [Slots -> RoomyEntry]
           /\ Sound(dir) => Sound(new) /\ ~ Named(new, dir[s].name)
           /\ \A m \in Names : m # dir[s].name => \A i \in Slots : First(new, m, i) <=> First(dir, m, i)
           /\ \A i \in Slots : IsFile(new[i]) => new[i] = dir[i]
  <1>1. new \in [Slots -> RoomyEntry] /\ new[s] = Gone /\ \A i \in Slots : i # s => new[i] = dir[i]
    BY MarkFacts
  <1>2. ~ IsFile(new[s]) /\ new[s] # End /\ dir[s] # End
    BY <1>1, MarkFacts
  <1>3. ASSUME Sound(dir) PROVE Sound(new) /\ ~ Named(new, dir[s].name)
    <2>1. Sound(new)
      <3> SUFFICES ASSUME NEW i \in Slots, NEW j \in Slots, IsFile(new[i])
                   PROVE  /\ new[i].name = new[j].name => i = j
                          /\ new[j] = End => i < j
        BY DEF Sound, Slots
      <3>1. i # s /\ new[i] = dir[i] /\ IsFile(dir[i])
        BY <1>1, <1>2
      <3>2. CASE j = s
        BY <1>2, <3>1, <3>2 DEF IsFile
      <3>3. CASE j # s
        BY <1>1, <1>3, <3>1, <3>3 DEF Sound, Slots
      <3> QED BY <3>2, <3>3
    <2>2. \A i \in Slots : i # s => dir[i].name # dir[s].name
      BY <1>3 DEF Sound, Slots
    <2>3. new[s].name # dir[s].name
      BY <1>2 DEF IsFile
    <2>4. ~ Named(new, dir[s].name)
      BY <1>1, <2>2, <2>3 DEF Named
    <2> QED BY <2>1, <2>4
  <1>4. ASSUME NEW m \in Names, m # dir[s].name, NEW i \in Slots
        PROVE  First(new, m, i) <=> First(dir, m, i)
    <2>1. \A j \in Slots : (new[j] = End <=> dir[j] = End) /\ (new[j].name = m <=> dir[j].name = m)
      <3> SUFFICES ASSUME NEW j \in Slots
                   PROVE  (new[j] = End <=> dir[j] = End) /\ (new[j].name = m <=> dir[j].name = m)
        OBVIOUS
      <3>1. CASE j = s
        BY <1>2, <1>4, <3>1 DEF IsFile
      <3>2. CASE j # s
        BY <1>1, <3>2
      <3> QED BY <3>1, <3>2
    <2>2. i \in Nat /\ (\A j \in 1 .. i : j \in Slots) /\ (\A j \in 1 .. i - 1 : j \in Slots)
      BY VolumeAssumption DEF Slots
    <2>3. i \in Scanned(new) <=> i \in Scanned(dir)
      <3>1. /\ i \in Scanned(dir) <=> \A j \in 1 .. i : dir[j] # End
            /\ i \in Scanned(new) <=> \A j \in 1 .. i : new[j] # End
        BY <1>1, ScannedFacts
      <3> QED BY <2>1, <2>2, <3>1
    <2> QED BY <2>1, <2>2, <2>3 DEF First
  <1> QED BY <1>1, <1>2, <1>3, <1>4

-----------------------------------------------------------------------------
(* The writes a call has left. *)

(* A write is one of six kinds. *)
LEMMA WriteFacts ==
    ASSUME NEW w \in Write
    PROVE  /\ w.op \in {"gpt", "bpb", "dir", "data", "entry", "erase", "flush"}
           /\ w.op = "data" => w.cluster \in Nat /\ w.block \in AnyBlock
           /\ IsEntry(w) => w.slot \in Slots /\ w.entry \in RoomyEntry /\ IsFile(w.entry)
           /\ IsErase(w) => w.slot \in Slots /\ w.name \in Names
           /\ w.op = "flush" => w.file \in File /\ w.file.name \in Names /\ w.file.data \in Roomy
  <1>1. CASE w \in [op : {"gpt", "bpb"}] \cup [op : {"dir"}, sector : Nat]
    BY <1>1 DEF IsEntry, IsErase
  <1>2. CASE w \in [op : {"data"}, cluster : Nat, block : AnyBlock]
    BY <1>2 DEF IsEntry, IsErase
  <1>3. CASE w \in [op : {"entry"}, slot : Slots, entry : { e \in RoomyEntry : IsFile(e) }]
    BY <1>3 DEF IsEntry, IsErase
  <1>4. CASE w \in [op : {"erase"}, slot : Slots, name : Names]
    BY <1>4 DEF IsEntry, IsErase
  <1>5. CASE w \in [op : {"flush"}, file : File]
    BY <1>5 DEF IsEntry, IsErase, File
  <1> QED BY <1>1, <1>2, <1>3, <1>4, <1>5 DEF Write

(* The rest of a queue. *)
LEMMA TailFacts ==
    ASSUME NEW S, NEW q \in Seq(S), q # << >>
    PROVE  /\ Tail(q) \in Seq(S) /\ Len(q) \in Nat \ {0}
           /\ DOMAIN q = 1 .. Len(q) /\ DOMAIN Tail(q) = 1 .. Len(q) - 1
           /\ Head(q) = q[1] /\ 1 \in DOMAIN q
           /\ \A i \in DOMAIN Tail(q) : i + 1 \in DOMAIN q /\ Tail(q)[i] = q[i + 1] /\ i + 1 > 1
  <1>1. Len(q) \in Nat /\ DOMAIN q = 1 .. Len(q)
    OBVIOUS
  <1>2. Len(q) # 0
    OBVIOUS
  <1>3. Tail(q) \in Seq(S) /\ Len(Tail(q)) = Len(q) - 1
    BY <1>2
  <1> QED BY <1>1, <1>2, <1>3

(* The head of the queue is done with, or has failed. *)
LEMMA TailQueue ==
    ASSUME NEW q, NEW d, NEW fl, NEW base, QueueInv(q, d, fl, base), q # << >>,
           NEW d2, NEW fl2,
           d.gpt \/ q[1].op = "gpt" => d2.gpt,
           q[1].op = "data" => /\ d2.fat = d.fat /\ d2.dir = d.dir
                               /\ fl2 = fl \/ fl2 = NoFile,
           q[1].op \in {"gpt", "bpb", "dir"} => fl2 = NoFile
    PROVE  QueueInv(Tail(q), d2, fl2, base)
  <1> DEFINE t == Tail(q)
  <1>1. /\ q \in Seq(Write) /\ t \in Seq(Write)
        /\ \A i \in DOMAIN t : i \in Nat /\ i + 1 \in DOMAIN q /\ t[i] = q[i + 1] /\ i + 1 > 1
        /\ 1 \in DOMAIN q /\ q[1] \in Write
    <2>1. q \in Seq(Write)
      BY DEF QueueInv
    <2> QED BY <2>1, TailFacts
  <1> SUFFICES ASSUME NEW i \in DOMAIN t
               PROVE  /\ t[i].op = "gpt" => i = 1
                      /\ t[i].op \in {"bpb", "dir"} => base /\ (d2.gpt \/ t[1].op = "gpt")
                      /\ t[i].op \in {"gpt", "bpb", "dir"} => fl2 = NoFile
                      /\ t[i].op = "flush" => \A j \in DOMAIN t : i <= j => t[j].op = "flush"
                      /\ IsEntry(t[i]) \/ IsErase(t[i]) =>
                            /\ HasDisk /\ d2.fat
                            /\ \A j \in DOMAIN t : /\ j < i => t[j].op = "data"
                                                   /\ j > i => t[j].op = "flush"
                      /\ IsEntry(t[i]) => SlotFor(d2.dir, t[i].entry.name) = {t[i].slot}
                      /\ IsErase(t[i]) => /\ IsFile(d2.dir[t[i].slot])
                                          /\ fl2 # NoFile => d2.dir[t[i].slot].name # fl2.name
    BY <1>1 DEF QueueInv
  <1>2. i \in Nat /\ i + 1 \in DOMAIN q /\ t[i] = q[i + 1] /\ i + 1 > 1 /\ q[i + 1] \in Write
    BY <1>1
  <1>3. t[i].op # "gpt"
    BY <1>2 DEF QueueInv
  <1>4. ASSUME t[i].op \in {"bpb", "dir"}
        PROVE  base /\ d2.gpt /\ fl2 = NoFile
    <2>1. base /\ fl = NoFile /\ (d.gpt \/ q[1].op = "gpt")
      BY <1>2, <1>4 DEF QueueInv
    <2>2. q[1].op # "flush"
      BY <1>1, <1>2, <1>4 DEF QueueInv
    <2>3. q[1].op # "entry" /\ q[1].op # "erase"
      BY <1>1, <1>2, <1>4 DEF QueueInv, IsEntry, IsErase
    <2>4. q[1].op \in {"gpt", "bpb", "dir", "data"}
      BY <1>1, <2>2, <2>3, WriteFacts
    <2> QED BY <2>1, <2>4
  <1>5. ASSUME t[i].op = "flush", NEW j \in DOMAIN t, i <= j PROVE t[j].op = "flush"
    <2>1. j \in Nat /\ j + 1 \in DOMAIN q /\ t[j] = q[j + 1] /\ i + 1 <= j + 1
      BY <1>1, <1>2, <1>5
    <2> QED BY <1>2, <1>5, <2>1 DEF QueueInv
  <1>6. ASSUME IsEntry(t[i]) \/ IsErase(t[i])
        PROVE  /\ HasDisk /\ d2.fat /\ d2.dir = d.dir /\ (fl2 = fl \/ fl2 = NoFile)
               /\ \A j \in DOMAIN t : /\ j < i => t[j].op = "data"
                                      /\ j > i => t[j].op = "flush"
    <2>1. /\ HasDisk /\ d.fat
          /\ \A j \in DOMAIN q : (j < i + 1 => q[j].op = "data") /\ (j > i + 1 => q[j].op = "flush")
      BY <1>2, <1>6 DEF QueueInv
    <2>2. q[1].op = "data"
      BY <1>1, <1>2, <2>1
    <2>3. \A j \in DOMAIN t : (j < i => t[j].op = "data") /\ (j > i => t[j].op = "flush")
      <3> SUFFICES ASSUME NEW j \in DOMAIN t
                   PROVE  (j < i => t[j].op = "data") /\ (j > i => t[j].op = "flush")
        OBVIOUS
      <3>1. j \in Nat /\ j + 1 \in DOMAIN q /\ t[j] = q[j + 1]
        BY <1>1
      <3>2. (j < i => j + 1 < i + 1) /\ (j > i => j + 1 > i + 1)
        BY <1>2, <3>1
      <3> QED BY <2>1, <3>1, <3>2
    <2> QED BY <2>1, <2>2, <2>3
  <1>7. IsEntry(t[i]) => SlotFor(d2.dir, t[i].entry.name) = {t[i].slot}
    <2> SUFFICES ASSUME IsEntry(t[i]) PROVE SlotFor(d2.dir, t[i].entry.name) = {t[i].slot}
      OBVIOUS
    <2> HIDE DEF t
    <2>1. IsEntry(q[i + 1])
      BY <1>2
    <2>2. SlotFor(d.dir, q[i + 1].entry.name) = {q[i + 1].slot}
      BY <1>2, <2>1 DEF QueueInv
    <2>3. d2.dir = d.dir
      BY <1>6
    <2> QED BY <1>2, <2>2, <2>3
  <1>8. IsErase(t[i]) => /\ IsFile(d2.dir[t[i].slot])
                         /\ fl2 # NoFile => d2.dir[t[i].slot].name # fl2.name
    BY <1>2, <1>6 DEF QueueInv
  <1> QED BY <1>3, <1>4, <1>5, <1>6, <1>7, <1>8

(* A queue of flushes is in order, whatever is on the disk. *)
LEMMA FlushesOnly ==
    ASSUME NEW q \in Seq(Write), \A i \in DOMAIN q : q[i].op = "flush",
           NEW d, NEW fl, NEW base
    PROVE  QueueInv(q, d, fl, base)
  BY DEF QueueInv, IsEntry, IsErase

(* The queue of a flush that begins: the blocks, the entry and what comes  *)
(* after.                                                                  *)
FlushQueue(q, d, n, data, rest) ==
    LET K == Span(data) IN
    /\ q \in Seq(Write)
    /\ K \in Nat \ {0} /\ DOMAIN q = 1 .. K + 1 + Len(rest)
    /\ \A j \in 1 .. K : q[j] = DataWrite(USER_CLUSTER + j - 1, Block(data, j))
    /\ q[K + 1].op = "entry"
    /\ SlotFor(d.dir, Short[n]) = {q[K + 1].slot}
    /\ q[K + 1].entry = [name |-> Short[n], cluster |-> USER_CLUSTER, size |-> Len(data)]
    /\ \A j \in K + 2 .. K + 1 + Len(rest) : j - K - 1 \in DOMAIN rest /\ q[j] = rest[j - K - 1]

(* FlushWrites makes such a queue. *)
LEMMA FlushWritesFacts ==
    ASSUME NEW d \in Disk, NEW n \in Names, NEW data \in Roomy, CanFlush(d, n),
           NEW rest \in Seq(Write)
    PROVE  FlushQueue(FlushWrites(d, n, data) \o rest, d, n, data, rest)
  <1> DEFINE K == Span(data)
             slot == CHOOSE i \in SlotFor(d.dir, Short[n]) : TRUE
             e == [name |-> Short[n], cluster |-> USER_CLUSTER, size |-> Len(data)]
             D == [j \in 1 .. K |-> DataWrite(USER_CLUSTER + j - 1, Block(data, j))]
             w == EntryWrite(slot, e)
  <1>1. data \in Seq(AnyBlock) /\ Len(data) \in Nat /\ (Len(data) = 0 <=> data = << >>)
    BY RoomyFacts
  <1>2. K \in Nat \ {0} /\ Max({Len(data), 1}) = K
    <2>1. K \in Nat \ {0} /\ K \in {Len(data), 1} /\ \A y \in {Len(data), 1} : K >= y
      BY <1>1 DEF Span
    <2>2. \A x \in {Len(data), 1} : (\A y \in {Len(data), 1} : x >= y) => x = K
      BY <1>1 DEF Span
    <2> QED BY <2>1, <2>2 DEF Max
  <1>3. SlotFor(d.dir, Short[n]) = {slot} /\ slot \in Slots /\ Short[n] \in Names
    <2>1. slot \in SlotFor(d.dir, Short[n])
      BY DEF CanFlush
    <2>2. Short[n] \in Names /\ d.dir \in [Slots -> RoomyEntry]
      BY NamesAssumption DEF Disk
    <2> QED BY <2>1, <2>2, SlotFacts
  <1>4. FlushWrites(d, n, data) = D \o << w >>
    BY <1>2 DEF FlushWrites, Block
  <1>5. w \in Write
    <2>1. USER_CLUSTER \in Clusters /\ Clusters \subseteq Nat /\ IsFiniteSet(Clusters)
      BY VolumeAssumption
    <2>2. Room(USER_CLUSTER, Len(data))
      BY DEF Roomy
    <2>3. Len(data) <= Cardinality(Clusters) /\ Cardinality(Clusters) \in Nat
      <3> DEFINE R == USER_CLUSTER .. USER_CLUSTER + Len(data) - 1
      <3>1. R \in SUBSET Clusters
        <4> SUFFICES ASSUME NEW c \in R PROVE c \in Clusters
          OBVIOUS
        <4>1. USER_CLUSTER \in Nat /\ c \in Nat
          BY <1>1, <2>1
        <4>2. c - USER_CLUSTER + 1 \in 1 .. Len(data) /\ USER_CLUSTER + (c - USER_CLUSTER + 1) - 1 = c
          BY <1>1, <4>1
        <4> QED BY <2>2, <4>2 DEF Room
      <3>2. Cardinality(R) = Len(data)
        <4>1. USER_CLUSTER \in Int /\ USER_CLUSTER + Len(data) - 1 \in Int
          BY <1>1, <2>1
        <4>2. Cardinality(R) = IF USER_CLUSTER > USER_CLUSTER + Len(data) - 1 THEN 0
                               ELSE USER_CLUSTER + Len(data) - 1 - USER_CLUSTER + 1
          BY <4>1, FS_Interval
        <4> QED BY <1>1, <4>1, <4>2
      <3> QED BY <2>1, <3>1, <3>2, FS_Subset, FS_CardinalityType
    <2>4. e \in [name : Names, cluster : Clusters, size : 0 .. Cardinality(Clusters)]
      BY <1>1, <1>3, <2>1, <2>3
    <2>5. e \in RoomyEntry
      BY <2>2, <2>4 DEF RoomyEntry, Entry
    <2>6. IsFile(e)
      BY <1>3 DEF IsFile
    <2> HIDE DEF e
    <2> QED BY <1>3, <2>5, <2>6 DEF EntryWrite, Write
  <1>6. D \in Seq(Write) /\ Len(D) = K
    <2>1. ASSUME NEW j \in 1 .. K PROVE D[j] \in Write
      <3>1. USER_CLUSTER + j - 1 \in Nat
        BY <1>2, VolumeAssumption
      <3>2. Block(data, j) \in AnyBlock
        BY <1>1 DEF Block, Span, AnyBlock
      <3> QED BY <3>1, <3>2 DEF DataWrite, Write
    <2>2. D \in [1 .. K -> Write]
      BY <2>1
    <2> QED BY <1>2, <2>2
  <1> HIDE DEF D, w
  <1> DEFINE q == (D \o << w >>) \o rest
  <1>7. /\ q \in Seq(Write) /\ DOMAIN q = 1 .. K + 1 + Len(rest)
        /\ \A j \in 1 .. K : q[j] = D[j]
        /\ q[K + 1] = w
        /\ \A j \in K + 2 .. K + 1 + Len(rest) : j - K - 1 \in DOMAIN rest /\ q[j] = rest[j - K - 1]
    <2>1. << w >> \in Seq(Write) /\ Len(<< w >>) = 1 /\ << w >>[1] = w
      BY <1>5
    <2>2. /\ D \o << w >> \in Seq(Write) /\ Len(D \o << w >>) = K + 1
          /\ \A j \in 1 .. K : (D \o << w >>)[j] = D[j]
          /\ (D \o << w >>)[K + 1] = w
      BY <1>2, <1>6, <2>1
    <2> HIDE DEF K
    <2>3. Len(rest) \in Nat /\ DOMAIN rest = 1 .. Len(rest)
      OBVIOUS
    <2>4. q \in Seq(Write) /\ Len(q) = K + 1 + Len(rest)
      <3>1. PICK A : A = D \o << w >>
        OBVIOUS
      <3>2. A \in Seq(Write) /\ Len(A) = K + 1
        BY <2>2, <3>1
      <3>3. A \o rest \in Seq(Write) /\ Len(A \o rest) = Len(A) + Len(rest)
        BY <3>2
      <3> QED BY <3>1, <3>2, <3>3
    <2>5. \A j \in 1 .. K + 1 : q[j] = (D \o << w >>)[j]
      BY <1>2, <2>2, <2>3
    <2>6. \A j \in K + 2 .. K + 1 + Len(rest) : j - K - 1 \in DOMAIN rest /\ q[j] = rest[j - K - 1]
      <3> SUFFICES ASSUME NEW j \in K + 2 .. K + 1 + Len(rest)
                   PROVE  j - K - 1 \in DOMAIN rest /\ q[j] = rest[j - K - 1]
        OBVIOUS
      <3>1. j \in Nat /\ j - (K + 1) \in 1 .. Len(rest) /\ j - K - 1 = j - (K + 1) /\ j > K + 1
        BY <1>2, <2>3
      <3>2. q[j] = rest[j - (K + 1)]
        BY <1>2, <2>2, <2>3, <3>1
      <3> QED BY <2>3, <3>1, <3>2
    <2>7. DOMAIN q = 1 .. K + 1 + Len(rest)
      BY <1>2, <2>3, <2>4
    <2>8. \A j \in 1 .. K : j \in 1 .. K + 1
      BY <1>2
    <2>9. K + 1 \in 1 .. K + 1
      BY <1>2
    <2> QED BY <2>2, <2>4, <2>5, <2>6, <2>7, <2>8, <2>9
  <1>8. w.op = "entry" /\ w.slot = slot /\ w.entry = e
    BY DEF w, EntryWrite
  <1>9. \A j \in 1 .. K : D[j] = DataWrite(USER_CLUSTER + j - 1, Block(data, j))
    BY DEF D
  <1> HIDE DEF q, K, e, slot
  <1>10. FlushQueue(q, d, n, data, rest)
    BY <1>2, <1>3, <1>7, <1>8, <1>9 DEF FlushQueue, K, e
  <1> QED BY <1>4, <1>10 DEF q

-----------------------------------------------------------------------------
(* What is known of the last flush. *)

(* No flush is under way: the file reads as it was written. *)
Settled(d, fl) ==
    fl # NoFile => /\ fl \in [name : Names, old : Roomy \cup {NoFile}, new : Roomy]
                   /\ ReadDisk(d, fl.name) = fl.new

(* A queue without data and entries, and the flush that is over. *)
LEMMA SettledFacts ==
    ASSUME NEW q, NEW d, NEW fl, \A i \in DOMAIN q : q[i].op = "flush" \/ IsErase(q[i])
    PROVE  FlushInv(q, d, fl) <=> Settled(d, fl)
  <1>1. \A i \in DOMAIN q : ~ IsEntry(q[i])
    BY DEF IsEntry, IsErase
  <1>2. FlushInv(q, d, fl) => Settled(d, fl)
    BY DEF FlushInv, Settled
  <1>3. Settled(d, fl) => FlushInv(q, d, fl)
    BY <1>1 DEF FlushInv, Settled
  <1> QED BY <1>2, <1>3

(* A block of the file that is being flushed reaches the disk. *)
LEMMA DataFlush ==
    ASSUME NEW q, NEW d, NEW fl, NEW t0, NEW base,
           QueueInv(q, d, fl, base), DiskInv(d, t0), FlushInv(q, d, fl),
           q # << >>, q[1].op = "data",
           NEW d2 \in Disk, d2.fat = d.fat, d2.dir = d.dir,
           d2.data = [d.data EXCEPT ![q[1].cluster] = q[1].block]
    PROVE  FlushInv(Tail(q), d2, fl)
  <1> DEFINE t == Tail(q)
             K == Span(fl.new)
             read == ReadDisk(d, fl.name)
             read2 == ReadDisk(d2, fl.name)
  <1>1. /\ q \in Seq(Write) /\ Len(q) \in Nat /\ DOMAIN q = 1 .. Len(q) /\ 1 \in DOMAIN q
        /\ DOMAIN t = 1 .. Len(q) - 1
        /\ \A i \in DOMAIN t : i \in Nat /\ i + 1 \in DOMAIN q /\ t[i] = q[i + 1]
    <2>1. q \in Seq(Write)
      BY DEF QueueInv
    <2> QED BY <2>1, TailFacts
  <1> SUFFICES ASSUME fl # NoFile
               PROVE  /\ fl \in [name : Names, old : Roomy \cup {NoFile}, new : Roomy]
                      /\ \E i \in DOMAIN t : IsEntry(t[i])
                      /\ \A i \in DOMAIN t : IsEntry(t[i]) =>
                           /\ i <= K + 1
                           /\ t[i].entry = [name |-> fl.name, cluster |-> USER_CLUSTER, size |-> Len(fl.new)]
                           /\ \A j \in 1 .. i - 1 :
                                 t[j] = DataWrite(USER_CLUSTER + K - i + j, Block(fl.new, K - i + j + 1))
                           /\ \A m \in 1 .. K - i + 1 : d2.data[USER_CLUSTER + m - 1] = Block(fl.new, m)
                           /\ Between(read2, fl.old, fl.new)
    BY DEF FlushInv, IsEntry, IsErase
  <1>2. fl \in [name : Names, old : Roomy \cup {NoFile}, new : Roomy] /\ fl.name \in Names /\ fl.new \in Roomy
    BY DEF FlushInv
  <1>3. K \in Nat \ {0} /\ USER_CLUSTER \in Nat /\ \A m \in 1 .. K : USER_CLUSTER + m - 1 \in Clusters
    <2>1. fl.new \in Seq(AnyBlock) /\ Len(fl.new) \in Nat /\ Room(USER_CLUSTER, Len(fl.new))
      BY <1>2, RoomyFacts DEF Roomy
    <2>2. USER_CLUSTER \in Clusters /\ USER_CLUSTER \in Nat
      BY VolumeAssumption
    <2>3. CASE fl.new = << >>
      <3>1. K = 1
        BY <2>3 DEF Span
      <3>2. \A m \in 1 .. 1 : USER_CLUSTER + m - 1 = USER_CLUSTER
        BY <2>2
      <3> QED BY <2>2, <3>1, <3>2
    <2>4. CASE fl.new # << >>
      <3>1. K = Len(fl.new) /\ K # 0
        BY <2>1, <2>4 DEF Span
      <3> QED BY <2>1, <2>2, <3>1 DEF Room
    <2> QED BY <2>3, <2>4
  <1>4. \E i \in DOMAIN t : IsEntry(t[i])
    <2>1. ~ (q[1].op = "flush" \/ IsErase(q[1]))
      BY DEF IsErase
    <2>2. PICK i \in DOMAIN q : IsEntry(q[i])
      BY <1>1, <2>1 DEF FlushInv
    <2>3. i # 1
      BY <2>2 DEF IsEntry
    <2>4. i - 1 \in DOMAIN t /\ (i - 1) + 1 = i
      BY <1>1, <2>3
    <2> QED BY <1>1, <2>2, <2>4
  <1>5. ASSUME NEW i \in DOMAIN t, IsEntry(t[i])
        PROVE  /\ i <= K + 1
               /\ t[i].entry = [name |-> fl.name, cluster |-> USER_CLUSTER, size |-> Len(fl.new)]
               /\ \A j \in 1 .. i - 1 :
                     t[j] = DataWrite(USER_CLUSTER + K - i + j, Block(fl.new, K - i + j + 1))
               /\ \A m \in 1 .. K - i + 1 : d2.data[USER_CLUSTER + m - 1] = Block(fl.new, m)
               /\ Between(read2, fl.old, fl.new)
    <2>1. i \in Nat /\ i >= 1 /\ i + 1 \in DOMAIN q /\ t[i] = q[i + 1] /\ IsEntry(q[i + 1])
      BY <1>1, <1>5
    <2>2. /\ i + 1 <= K + 1
          /\ t[i].entry = [name |-> fl.name, cluster |-> USER_CLUSTER, size |-> Len(fl.new)]
          /\ \A j \in 1 .. (i + 1) - 1 :
                q[j] = DataWrite(USER_CLUSTER + K - (i + 1) + j, Block(fl.new, K - (i + 1) + j + 1))
          /\ \A m \in 1 .. K - (i + 1) + 1 : d.data[USER_CLUSTER + m - 1] = Block(fl.new, m)
          /\ Between(read, fl.old, fl.new)
      BY <2>1 DEF FlushInv
    <2> HIDE DEF K, read, read2, t
    <2>3. i <= K + 1
      BY <1>3, <2>1, <2>2
    <2>4. ASSUME NEW j \in 1 .. i - 1
          PROVE  t[j] = DataWrite(USER_CLUSTER + K - i + j, Block(fl.new, K - i + j + 1))
      <3>1. /\ j \in Nat /\ j + 1 \in 1 .. (i + 1) - 1
            /\ USER_CLUSTER + K - (i + 1) + (j + 1) = USER_CLUSTER + K - i + j
            /\ K - (i + 1) + (j + 1) + 1 = K - i + j + 1
        <4>1. j \in Int /\ 1 <= j /\ j <= i - 1
          BY <2>1
        <4>2. j \in Nat /\ j + 1 \in 1 .. (i + 1) - 1
          BY <2>1, <4>1
        <4>3. K \in Int /\ i \in Int /\ USER_CLUSTER \in Int
          BY <1>3, <2>1
        <4>4. USER_CLUSTER + K - (i + 1) + (j + 1) = USER_CLUSTER + K - i + j
          BY <4>1, <4>3
        <4>5. K - (i + 1) + (j + 1) + 1 = K - i + j + 1
          BY <4>1, <4>3
        <4> QED BY <4>2, <4>4, <4>5
      <3>2. j \in DOMAIN t
        BY <1>1, <2>1
      <3>3. t[j] = q[j + 1]
        BY <1>1, <3>2
      <3>4. q[j + 1] = DataWrite(USER_CLUSTER + K - (i + 1) + (j + 1), Block(fl.new, K - (i + 1) + (j + 1) + 1))
        BY <2>2, <3>1
      <3> QED BY <3>1, <3>3, <3>4
    <2>5. q[1].cluster = USER_CLUSTER + K - i /\ q[1].block = Block(fl.new, K - i + 1)
          /\ K - i + 1 \in 1 .. K
      <3>1. /\ 1 \in 1 .. (i + 1) - 1
            /\ USER_CLUSTER + K - (i + 1) + 1 = USER_CLUSTER + K - i
            /\ K - (i + 1) + 1 + 1 = K - i + 1
            /\ K - i + 1 \in 1 .. K
        BY <1>3, <2>1, <2>2
      <3>2. q[1] = DataWrite(USER_CLUSTER + K - (i + 1) + 1, Block(fl.new, K - (i + 1) + 1 + 1))
        BY <2>2, <3>1
      <3>3. q[1] = DataWrite(USER_CLUSTER + K - i, Block(fl.new, K - i + 1))
        BY <3>1, <3>2
      <3> QED BY <3>1, <3>3 DEF DataWrite
    <2>6. d.data \in [Clusters -> AnyBlock] /\ d \in Disk /\ d.dir \in [Slots -> RoomyEntry]
      BY DEF DiskInv, Disk
    <2>7. ASSUME NEW m \in 1 .. K - i + 1 PROVE d2.data[USER_CLUSTER + m - 1] = Block(fl.new, m)
      <3>1. m \in Nat /\ m \in 1 .. K /\ USER_CLUSTER + m - 1 \in Clusters
        BY <1>3, <2>1, <2>2
      <3>2. CASE m = K - i + 1
        <4>1. USER_CLUSTER + m - 1 = USER_CLUSTER + K - i
          BY <1>3, <2>1, <3>2
        <4> QED BY <2>5, <2>6, <3>1, <3>2, <4>1
      <3>3. CASE m # K - i + 1
        <4>1. m \in 1 .. K - (i + 1) + 1 /\ USER_CLUSTER + m - 1 # USER_CLUSTER + K - i
          BY <1>3, <2>1, <3>3
        <4> QED BY <2>2, <2>5, <2>6, <3>1, <4>1
      <3> QED BY <3>2, <3>3
    <2>8. Between(read2, fl.old, fl.new)
      <3>1. CASE ~ (HasDisk /\ d.fat /\ \E i0 \in Slots : First(d.dir, fl.name, i0))
        <4>1. read = NoFile
          BY <1>2, <2>6, <3>1, ReadDiskFacts DEF read
        <4>2. read2 = NoFile
          BY <1>2, <2>6, <3>1, ReadDiskFacts DEF read2
        <4> QED BY <2>2, <4>1, <4>2
      <3>2. CASE HasDisk /\ d.fat /\ \E i0 \in Slots : First(d.dir, fl.name, i0)
        <4>1. PICK s \in Slots : First(d.dir, fl.name, s)
          BY <3>2
        <4> DEFINE e == d.dir[s]
        <4>2. e \in RoomyEntry /\ IsFile(e)
          BY <1>2, <2>6, <4>1 DEF IsFile, First
        <4>3. d2.data \in [Clusters -> AnyBlock]
          BY DEF Disk
        <4>4. read = Contents(d.data, e) /\ read \in Roomy
          BY <1>2, <2>6, <3>2, <4>1, ReadDiskFacts DEF read
        <4>5. read2 = Contents(d2.data, e) /\ read2 \in Roomy
          <5>1. First(d2.dir, fl.name, s) /\ HasDisk /\ d2.fat
            BY <3>2, <4>1
          <5>2. read2 = Contents(d2.data, d2.dir[s]) /\ read2 \in Roomy
            BY <1>2, <5>1, ReadDiskFacts DEF read2
          <5> QED BY <5>2
        <4> HIDE DEF e
        <4>6. /\ Len(read) = e.size /\ Len(read2) = e.size
              /\ \A k \in 1 .. e.size : /\ e.cluster + k - 1 \in Clusters
                                        /\ read[k] = d.data[e.cluster + k - 1]
                                        /\ read2[k] = d2.data[e.cluster + k - 1]
          BY <2>6, <4>2, <4>3, <4>4, <4>5, ContentsFacts
        <4>7. \A k \in 1 .. e.size : read2[k] = read[k] \/ read2[k] = Block(fl.new, K - i + 1)
          BY <2>5, <2>6, <4>6
        <4>8. /\ fl.old \in Roomy /\ Len(read) = Len(fl.old)
              /\ \A k \in 1 .. Len(read) :
                    read[k] = fl.old[k] \/ \E m \in 1 .. Span(fl.new) : read[k] = Block(fl.new, m)
          BY <2>2, <4>4, RoomyFacts DEF Between
        <4>9. \A k \in 1 .. Len(read2) :
                 read2[k] = fl.old[k] \/ \E m \in 1 .. Span(fl.new) : read2[k] = Block(fl.new, m)
          BY <2>5, <4>6, <4>7, <4>8 DEF K
        <4> QED BY <4>5, <4>6, <4>8, <4>9 DEF Between
      <3> QED BY <3>1, <3>2
    <2> QED BY <2>2, <2>3, <2>4, <2>7, <2>8
  <1> QED BY <1>2, <1>4, <1>5

(* The entry of the file that is being flushed reaches the disk: the file  *)
(* is complete.                                                            *)
LEMMA EntryFlush ==
    ASSUME NEW q, NEW d, NEW fl, NEW t0, NEW base,
           QueueInv(q, d, fl, base), DiskInv(d, t0), FlushInv(q, d, fl),
           q # << >>, IsEntry(q[1]), fl # NoFile,
           NEW d2 \in Disk, d2.fat = d.fat, d2.data = d.data,
           d2.dir = [d.dir EXCEPT ![q[1].slot] = q[1].entry]
    PROVE  Settled(d2, [fl EXCEPT !.old = fl.new])
  <1> DEFINE K == Span(fl.new)
             s == q[1].slot
             e == q[1].entry
  <1>1. 1 \in DOMAIN q /\ q[1] \in Write
    <2>1. q \in Seq(Write)
      BY DEF QueueInv
    <2> QED BY <2>1, TailFacts
  <1>2. /\ fl \in [name : Names, old : Roomy \cup {NoFile}, new : Roomy]
        /\ fl.name \in Names /\ fl.new \in Roomy
        /\ e = [name |-> fl.name, cluster |-> USER_CLUSTER, size |-> Len(fl.new)]
        /\ \A m \in 1 .. K - 1 + 1 : d.data[USER_CLUSTER + m - 1] = Block(fl.new, m)
    BY <1>1 DEF FlushInv
  <1>3. HasDisk /\ d.fat /\ SlotFor(d.dir, e.name) = {s}
    BY <1>1 DEF QueueInv, IsEntry
  <1>4. e \in RoomyEntry /\ IsFile(e)
    BY <1>1, WriteFacts DEF IsEntry
  <1>5. d.dir \in [Slots -> RoomyEntry] /\ d2.data \in [Clusters -> AnyBlock]
    BY DEF DiskInv, Disk
  <1>6. e.name = fl.name /\ e.cluster = USER_CLUSTER /\ e.size = Len(fl.new)
    BY <1>2
  <1>7. s \in Slots /\ d2.dir[s] = e /\ First(d2.dir, e.name, s)
    <2>1. d2.dir = [d.dir EXCEPT ![s] = e]
      OBVIOUS
    <2> HIDE DEF e, s
    <2>2. PICK dir \in [Slots -> RoomyEntry] : dir = d.dir
      BY <1>5
    <2>3. PICK new : new = d2.dir
      OBVIOUS
    <2>4. SlotFor(dir, e.name) = {s} /\ new = [dir EXCEPT ![s] = e]
      BY <1>3, <2>1, <2>2, <2>3
    <2>5. First(new, e.name, s)
      BY <1>4, <2>4, PutFacts
    <2>6. s \in Slots
      BY <1>1, WriteFacts DEF s
    <2> QED BY <2>2, <2>3, <2>4, <2>5, <2>6
  <1> HIDE DEF e, s
  <1>8. ReadDisk(d2, fl.name) = Contents(d2.data, e) /\ ReadDisk(d2, fl.name) \in Roomy
    <2>1. HasDisk /\ d2.fat /\ First(d2.dir, fl.name, s)
      BY <1>3, <1>6, <1>7
    <2>2. fl.name \in Names /\ s \in Slots
      BY <1>2, <1>7
    <2>3. ReadDisk(d2, fl.name) = Contents(d2.data, d2.dir[s]) /\ ReadDisk(d2, fl.name) \in Roomy
      BY <2>1, <2>2, ReadDiskFacts
    <2> QED BY <1>7, <2>3
  <1>9. /\ Len(Contents(d2.data, e)) = Len(fl.new)
        /\ \A k \in 1 .. Len(fl.new) : Contents(d2.data, e)[k] = d.data[USER_CLUSTER + k - 1]
    BY <1>4, <1>5, <1>6, ContentsFacts
  <1>10. fl.new \in Seq(AnyBlock) /\ Len(fl.new) \in Nat /\ ReadDisk(d2, fl.name) \in Seq(AnyBlock)
    BY <1>2, <1>8, RoomyFacts
  <1>11. \A k \in 1 .. Len(fl.new) : d.data[USER_CLUSTER + k - 1] = fl.new[k]
    <2> SUFFICES ASSUME NEW k \in 1 .. Len(fl.new) PROVE d.data[USER_CLUSTER + k - 1] = fl.new[k]
      OBVIOUS
    <2>1. fl.new # << >> /\ K = Len(fl.new)
      BY <1>10 DEF Span
    <2>2. k \in 1 .. K - 1 + 1
      BY <1>10, <2>1
    <2>3. Block(fl.new, k) = fl.new[k]
      BY <2>1 DEF Block
    <2> QED BY <1>2, <2>2, <2>3
  <1>12. ReadDisk(d2, fl.name) = fl.new
    BY <1>8, <1>9, <1>10, <1>11
  <1> QED BY <1>2, <1>12 DEF Settled

(* Another file is marked deleted. *)
LEMMA EraseFlush ==
    ASSUME NEW q, NEW d, NEW fl, NEW t0, NEW base,
           QueueInv(q, d, fl, base), DiskInv(d, t0), Settled(d, fl),
           q # << >>, IsErase(q[1]),
           NEW d2 \in Disk, d2.fat = d.fat, d2.data = d.data,
           d2.dir = [d.dir EXCEPT ![q[1].slot] = Gone]
    PROVE  Settled(d2, fl)
  <1> SUFFICES ASSUME fl # NoFile PROVE ReadDisk(d2, fl.name) = ReadDisk(d, fl.name)
    BY DEF Settled
  <1> DEFINE s == q[1].slot
  <1>1. 1 \in DOMAIN q /\ q[1] \in Write
    <2>1. q \in Seq(Write)
      BY DEF QueueInv
    <2> QED BY <2>1, TailFacts
  <1>2. s \in Slots
    BY <1>1, WriteFacts DEF IsErase
  <1>3. IsFile(d.dir[s]) /\ d.dir[s].name # fl.name /\ fl.name \in Names
    BY <1>1 DEF QueueInv, Settled
  <1>4. d \in Disk /\ d.dir \in [Slots -> RoomyEntry]
    BY DEF DiskInv, Disk
  <1> HIDE DEF s
  <1>5. /\ \A i \in Slots : First(d2.dir, fl.name, i) <=> First(d.dir, fl.name, i)
        /\ \A i \in Slots : IsFile(d2.dir[i]) => d2.dir[i] = d.dir[i]
    <2>1. d2.dir = [d.dir EXCEPT ![s] = Gone]
      BY DEF s
    <2> QED BY <1>2, <1>3, <1>4, <2>1, EraseFacts
  <1>6. CASE \E i \in Slots : HasDisk /\ d.fat /\ First(d.dir, fl.name, i)
    <2>1. PICK i \in Slots : HasDisk /\ d.fat /\ First(d.dir, fl.name, i)
      BY <1>6
    <2>2. First(d2.dir, fl.name, i) /\ d2.dir[i] = d.dir[i]
      BY <1>3, <1>5, <2>1 DEF IsFile, First
    <2>3. ReadDisk(d, fl.name) = Contents(d.data, d.dir[i])
      BY <1>3, <1>4, <2>1, ReadDiskFacts
    <2>4. HasDisk /\ d2.fat
      BY <2>1
    <2>5. ReadDisk(d2, fl.name) = Contents(d2.data, d2.dir[i])
      BY <1>3, <2>2, <2>4, ReadDiskFacts
    <2> QED BY <2>2, <2>3, <2>5
  <1>7. CASE ~ \E i \in Slots : HasDisk /\ d.fat /\ First(d.dir, fl.name, i)
    <2>1. /\ ~ (HasDisk /\ d.fat /\ \E i \in Slots : First(d.dir, fl.name, i))
          /\ ~ (HasDisk /\ d2.fat /\ \E i \in Slots : First(d2.dir, fl.name, i))
      BY <1>5, <1>7
    <2>2. ReadDisk(d, fl.name) = NoFile
      BY <1>3, <1>4, <2>1, ReadDiskFacts
    <2>3. ReadDisk(d2, fl.name) = NoFile
      BY <1>3, <2>1, ReadDiskFacts
    <2> QED BY <2>2, <2>3
  <1> QED BY <1>6, <1>7

-----------------------------------------------------------------------------
(* The system calls. *)

(* It holds on a live boot next to a new disk. *)
LEMMA InitIInv == Init => IInv
  <1> SUFFICES ASSUME Init PROVE IInv
    OBVIOUS
  <1>1. /\ fs_base \in BOOLEAN /\ deleted \subseteq Names /\ erased \subseteq Names
        /\ fds \in [Procs -> [Fds -> Fd \cup {NoFd}]]
    BY DEF Init
  <1>2. OverlayInv(overlay)
    BY DEF Init, OverlayInv
  <1>3. DiskInv(disk, torn)
    <2>1. disk.dir = [i \in Slots |-> End] /\ disk.dir \in [Slots -> RoomyEntry]
      BY MarkFacts DEF Init, Slots
    <2>2. Sound(disk.dir)
      BY <2>1, MarkFacts DEF Sound, Slots
    <2>3. disk.data \in [Clusters -> AnyBlock]
      BY DEF Init, AnyBlock
    <2>4. disk \in Disk
      BY <2>1, <2>3 DEF Init, Disk
    <2> QED BY <2>2, <2>4 DEF Init, DiskInv
  <1>4. SessionInv(session, overlay, deleted)
    BY RoomyFacts DEF Init, SessionInv
  <1>5. QueueInv(pending, disk, flushed, fs_base) /\ FlushInv(pending, disk, flushed)
    BY DEF Init, QueueInv, FlushInv
  <1> QED BY <1>1, <1>2, <1>3, <1>4, <1>5 DEF IInv

(* A call that only concerns descriptors. *)
LEMMA FdsOnly ==
    ASSUME IInv, fds' \in [Procs -> [Fds -> Fd \cup {NoFd}]],
           UNCHANGED << fs_base, overlay, deleted, session, disk_vars >>
    PROVE  IInv'
  BY DEF IInv, disk_vars

(* The descriptor table after a change of one descriptor. *)
LEMMA FdsFacts ==
    ASSUME IInv, NEW p \in Procs, NEW fd \in Fds, NEW f \in Fd \cup {NoFd}
    PROVE  [fds EXCEPT ![p][fd] = f] \in [Procs -> [Fds -> Fd \cup {NoFd}]]
  BY DEF IInv

(* An open descriptor. *)
LEMMA FdFacts ==
    ASSUME IInv, NEW p \in Procs, NEW fd \in Fds, fds[p][fd] # NoFd
    PROVE  /\ fds[p][fd] \in Fd
           /\ fds[p][fd] \in [name : Names, data : Roomy, offset : Nat, writable : BOOLEAN]
           /\ fds[p][fd].offset <= Len(fds[p][fd].data)
           /\ fds[p][fd].data \in Seq(AnyBlock) /\ Len(fds[p][fd].data) \in Nat
           /\ Room(USER_CLUSTER, Len(fds[p][fd].data))
  <1>1. fds[p][fd] \in Fd
    BY DEF IInv
  <1>2. /\ fds[p][fd] \in [name : Names, data : Roomy, offset : Nat, writable : BOOLEAN]
        /\ fds[p][fd].offset <= Len(fds[p][fd].data)
    BY <1>1 DEF Fd
  <1>3. fds[p][fd].data \in Roomy
    BY <1>2
  <1> QED BY <1>1, <1>2, <1>3, RoomyFacts DEF Roomy

(* SYS_OPEN, to read. *)
LEMMA OpenReadIInv ==
    ASSUME IInv, NEW p \in Procs, NEW n \in Names, SysOpenRead(p, n)
    PROVE  IInv'
  <1>1. PICK fd \in Fds : fds' = [fds EXCEPT ![p][fd] =
               [name |-> n, data |-> ReadFile(n), offset |-> 0, writable |-> FALSE]]
    BY DEF SysOpenRead
  <1>2. ReadFile(n) \in Roomy
    BY ReadFileFacts DEF IInv, SysOpenRead
  <1>3. [name |-> n, data |-> ReadFile(n), offset |-> 0, writable |-> FALSE] \in Fd
    <2>1. 0 <= Len(ReadFile(n))
      BY <1>2, RoomyFacts
    <2> QED BY <1>2, <2>1 DEF Fd
  <1>4. fds' \in [Procs -> [Fds -> Fd \cup {NoFd}]]
    BY <1>1, <1>3, FdsFacts
  <1> QED BY <1>4, FdsOnly DEF SysOpenRead

(* SYS_OPEN, to write. *)
LEMMA OpenWriteIInv ==
    ASSUME IInv, NEW p \in Procs, NEW n \in Names, SysOpenWrite(p, n)
    PROVE  IInv'
  <1>1. PICK fd \in Fds : fds' = [fds EXCEPT ![p][fd] =
               [name |-> n, data |-> << >>, offset |-> 0, writable |-> TRUE]]
    BY DEF SysOpenWrite
  <1>2. [name |-> n, data |-> << >>, offset |-> 0, writable |-> TRUE] \in Fd
    BY RoomyFacts DEF Fd
  <1>3. fds' \in [Procs -> [Fds -> Fd \cup {NoFd}]]
    BY <1>1, <1>2, FdsFacts
  <1> QED BY <1>3, FdsOnly DEF SysOpenWrite

(* SYS_READ stays within the file. *)
LEMMA ReadIInv ==
    ASSUME IInv, NEW p \in Procs, NEW fd \in Fds, SysRead(p, fd)
    PROVE  IInv'
  <1> DEFINE f == fds[p][fd]
             g == [f EXCEPT !.offset = @ + 1]
  <1>1. f \in [name : Names, data : Roomy, offset : Nat, writable : BOOLEAN] /\ Len(f.data) \in Nat
    BY FdFacts DEF SysRead
  <1>2. f.offset < Len(f.data) /\ fds' = [fds EXCEPT ![p][fd].offset = @ + 1]
    BY DEF SysRead
  <1>3. g \in [name : Names, data : Roomy, offset : Nat, writable : BOOLEAN]
        /\ g.offset = f.offset + 1 /\ g.data = f.data
    BY <1>1
  <1>4. g.offset <= Len(g.data)
    BY <1>1, <1>2, <1>3
  <1>5. g \in Fd
    BY <1>3, <1>4 DEF Fd
  <1>6. fds' = [fds EXCEPT ![p][fd] = g]
    BY <1>2
  <1> HIDE DEF g
  <1>7. fds' \in [Procs -> [Fds -> Fd \cup {NoFd}]]
    BY <1>5, <1>6, FdsFacts
  <1> QED BY <1>7, FdsOnly DEF SysRead

(* SYS_WRITE_FILE, within the buffer or at its end. *)
LEMMA WriteFileIInv ==
    ASSUME IInv, NEW p \in Procs, NEW fd \in Fds, NEW b \in Blocks, SysWriteFile(p, fd, b)
    PROVE  IInv'
  <1> DEFINE f == fds[p][fd]
             data == Written(f.data, f.offset, b)
             g == [[f EXCEPT !.data = data] EXCEPT !.offset = f.offset + 1]
  <1>1. /\ f \in [name : Names, data : Roomy, offset : Nat, writable : BOOLEAN]
        /\ f.data \in Seq(AnyBlock) /\ Len(f.data) \in Nat /\ f.offset \in Nat
        /\ f.offset <= Len(f.data) /\ Room(USER_CLUSTER, Len(f.data))
    BY FdFacts DEF SysWriteFile
  <1>2. f.offset < MaxLen /\ MaxLen \in Nat /\ Room(USER_CLUSTER, MaxLen) /\ b \in AnyBlock
    BY VolumeAssumption DEF SysWriteFile, AnyBlock
  <1>3. data \in Seq(AnyBlock) /\ Len(data) \in Nat /\ f.offset + 1 <= Len(data) /\ Room(USER_CLUSTER, Len(data))
    <2>1. CASE f.offset < Len(f.data)
      <3>1. data = [f.data EXCEPT ![f.offset + 1] = b]
        BY <2>1 DEF Written
      <3>2. data \in Seq(AnyBlock) /\ Len(data) = Len(f.data)
        <4>1. f.data \in [1 .. Len(f.data) -> AnyBlock]
          BY <1>1
        <4>2. data \in [1 .. Len(f.data) -> AnyBlock]
          BY <1>2, <3>1, <4>1
        <4> QED BY <1>1, <4>2
      <3> QED BY <1>1, <2>1, <3>2
    <2>2. CASE ~ (f.offset < Len(f.data))
      <3>1. data = Append(f.data, b)
        BY <2>2 DEF Written
      <3>2. data \in Seq(AnyBlock) /\ Len(data) = Len(f.data) + 1
        BY <1>1, <1>2, <3>1
      <3>3. Len(data) <= MaxLen /\ f.offset + 1 <= Len(data) /\ Len(data) \in Nat
        BY <1>1, <1>2, <2>2, <3>2
      <3>4. Room(USER_CLUSTER, Len(data))
        <4>1. \A i \in 1 .. Len(data) : i \in 1 .. MaxLen
          BY <1>2, <3>3
        <4> QED BY <1>2, <4>1 DEF Room
      <3> QED BY <3>2, <3>3, <3>4
    <2> QED BY <2>1, <2>2
  <1> HIDE DEF data
  <1>4. data \in Roomy
    BY <1>3 DEF Roomy, Data
  <1>5. g \in Fd
    <2>1. [f EXCEPT !.data = data] \in [name : Names, data : Roomy, offset : Nat, writable : BOOLEAN]
      BY <1>1, <1>4
    <2>2. f.offset + 1 \in Nat
      BY <1>1
    <2>3. g \in [name : Names, data : Roomy, offset : Nat, writable : BOOLEAN]
      BY <2>1, <2>2
    <2>4. g.offset = f.offset + 1 /\ g.data = data
      BY <1>1
    <2> QED BY <1>3, <2>3, <2>4 DEF Fd
  <1>6. fds' = [fds EXCEPT ![p][fd] = g]
    <2>1. fds \in [Procs -> [Fds -> Fd \cup {NoFd}]]
      BY DEF IInv
    <2>2. fds' = [fds EXCEPT ![p][fd].data = Written(@, fds[p][fd].offset, b),
                             ![p][fd].offset = @ + 1]
      BY DEF SysWriteFile
    <2> QED BY <1>1, <2>1, <2>2 DEF data
  <1> HIDE DEF g
  <1>7. fds' \in [Procs -> [Fds -> Fd \cup {NoFd}]]
    BY <1>5, <1>6, FdsFacts
  <1> QED BY <1>7, FdsOnly DEF SysWriteFile

(* A process exits, with descriptors open. *)
LEMMA ExitsIInv ==
    ASSUME IInv, NEW p \in Procs, ProcessExits(p)
    PROVE  IInv'
  <1>1. fds' \in [Procs -> [Fds -> Fd \cup {NoFd}]]
    BY DEF ProcessExits, IInv
  <1> QED BY <1>1, FdsOnly DEF ProcessExits

(* SYS_CLOSE: the file is replaced and its flush begins. *)
LEMMA CloseIInv ==
    ASSUME IInv, NEW p \in Procs, NEW fd \in Fds, SysClose(p, fd)
    PROVE  IInv'
  <1>1. fds' \in [Procs -> [Fds -> Fd \cup {NoFd}]]
    BY FdsFacts DEF SysClose
  <1>2. CASE ~ fds[p][fd].writable
    <2>1. UNCHANGED << fs_base, overlay, deleted, session, disk_vars >>
      BY <1>2 DEF SysClose
    <2> QED BY <1>1, <2>1, FdsOnly
  <1>3. CASE fds[p][fd].writable
    <2> DEFINE n == fds[p][fd].name
               data == fds[p][fd].data
               w == [op |-> "flush", file |-> [name |-> n, data |-> data]]
    <2>1. n \in Names /\ data \in Roomy
      BY FdFacts DEF SysClose
    <2>2. /\ deleted' = deleted \ {n} /\ overlay' = Upserted(overlay, n, data)
          /\ pending' = << w >> /\ session' = [session EXCEPT ![n] = data]
          /\ UNCHANGED << fs_base, disk, flushed, erased, torn, faults >>
      BY <1>3 DEF SysClose, WriteFile
    <2> HIDE DEF n, data
    <2>3. /\ OverlayInv(overlay')
          /\ \E i \in DOMAIN overlay' : overlay'[i] = [name |-> n, data |-> data]
          /\ \A f : f.name # n => ((\E i \in DOMAIN overlay' : overlay'[i] = f)
                                      <=> (\E i \in DOMAIN overlay : overlay[i] = f))
      BY <2>1, <2>2, UpsertedFacts DEF IInv
    <2>4. SessionInv(session', overlay', deleted')
      <3>1. SessionInv(session, overlay, deleted)
        BY DEF IInv
      <3>2. session' \in [Names -> Roomy \cup {NoFile, Untouched}]
        BY <2>1, <2>2, <3>1 DEF SessionInv
      <3>3. ASSUME NEW m \in Names, session'[m] = NoFile PROVE m \in deleted'
        <4>1. m # n
          BY <2>1, <2>2, <3>1, <3>3, RoomyFacts DEF SessionInv
        <4>2. session[m] = NoFile
          BY <2>2, <3>1, <3>3, <4>1 DEF SessionInv
        <4> QED BY <2>2, <3>1, <4>1, <4>2 DEF SessionInv
      <3>4. ASSUME NEW m \in Names, session'[m] \in Roomy
            PROVE  m \notin deleted' /\ \E i \in DOMAIN overlay' :
                      overlay'[i].name = m /\ overlay'[i].data = session'[m]
        <4>1. CASE m = n
          <5>1. session'[m] = data
            BY <2>1, <2>2, <3>1, <4>1 DEF SessionInv
          <5>2. PICK i \in DOMAIN overlay' : overlay'[i] = [name |-> n, data |-> data]
            BY <2>3
          <5>3. overlay'[i].name = m /\ overlay'[i].data = session'[m]
            BY <4>1, <5>1, <5>2
          <5> QED BY <2>2, <4>1, <5>3
        <4>2. CASE m # n
          <5>1. session'[m] = session[m]
            BY <2>2, <3>1, <4>2 DEF SessionInv
          <5>2. m \notin deleted /\ \E i \in DOMAIN overlay : overlay[i].name = m /\ overlay[i].data = session[m]
            BY <3>1, <3>4, <5>1 DEF SessionInv
          <5>3. PICK i \in DOMAIN overlay : overlay[i].name = m /\ overlay[i].data = session[m]
            BY <5>2
          <5>4. PICK j \in DOMAIN overlay' : overlay'[j] = overlay[i]
            BY <2>3, <4>2, <5>3
          <5> QED BY <2>2, <5>1, <5>2, <5>3, <5>4
        <4> QED BY <4>1, <4>2
      <3> QED BY <3>2, <3>3, <3>4 DEF SessionInv
    <2>5. pending' \in Seq(Write) /\ \A i \in DOMAIN pending' : pending'[i].op = "flush"
      <3>1. w \in Write
        BY <2>1 DEF Write, File
      <3>2. w.op = "flush"
        OBVIOUS
      <3> HIDE DEF w
      <3> QED BY <2>2, <3>1, <3>2
    <2>6. QueueInv(pending', disk', flushed', fs_base')
      BY <2>5, FlushesOnly
    <2>7. FlushInv(pending', disk', flushed')
      <3>1. pending = << >> /\ FlushInv(pending, disk, flushed)
        BY DEF SysClose, Idle, IInv
      <3>2. Settled(disk, flushed)
        BY <3>1, SettledFacts
      <3>3. Settled(disk', flushed')
        BY <2>2, <3>2
      <3> QED BY <2>5, <3>3, SettledFacts
    <2> QED BY <1>1, <2>2, <2>3, <2>4, <2>6, <2>7 DEF IInv
  <1> QED BY <1>2, <1>3

(* SYS_UNLINK: the file goes from the overlay, and the mark 0xE5 to the    *)
(* slot of a file that is not the last one flushed.                        *)
LEMMA UnlinkIInv ==
    ASSUME IInv, NEW n \in Names, SysUnlink(n)
    PROVE  IInv'
  <1> DEFINE hits == { i \in 1 .. DELETE_SCAN : i \in DOMAIN disk.dir /\ disk.dir[i].name \in StartsWith[n] }
  <1>1. /\ pending = << >> /\ overlay' = Without(overlay, n) /\ deleted' = deleted \cup {n}
        /\ pending' = UnlinkWrites(disk, n) /\ session' = [session EXCEPT ![n] = NoFile]
        /\ flushed' = IF flushed # NoFile /\ flushed.name \in StartsWith[n] THEN NoFile ELSE flushed
        /\ UNCHANGED << fs_base, fds, disk, torn, faults >>
    BY DEF SysUnlink, Idle
  <1>2. /\ OverlayInv(overlay) /\ SessionInv(session, overlay, deleted)
        /\ DiskInv(disk, torn) /\ FlushInv(pending, disk, flushed)
        /\ deleted \subseteq Names /\ fs_base \in BOOLEAN
        /\ fds \in [Procs -> [Fds -> Fd \cup {NoFd}]] /\ erased' \subseteq Names
    BY NamesAssumption DEF IInv, SysUnlink
  <1>3. /\ OverlayInv(overlay')
        /\ \A f : (\E k \in DOMAIN overlay' : overlay'[k] = f)
                     <=> (\E i \in DOMAIN overlay : overlay[i] = f /\ f.name # n)
    BY <1>1, <1>2, WithoutFacts
  <1>4. SessionInv(session', overlay', deleted')
    <2>1. session' \in [Names -> Roomy \cup {NoFile, Untouched}]
      BY <1>1, <1>2 DEF SessionInv
    <2>2. \A m \in Names : session'[m] = IF m = n THEN NoFile ELSE session[m]
      BY <1>1, <1>2 DEF SessionInv
    <2>3. \A m \in Names : session'[m] = NoFile => m \in deleted'
      BY <1>1, <1>2, <2>2 DEF SessionInv
    <2>4. ASSUME NEW m \in Names, session'[m] \in Roomy
          PROVE  m \notin deleted' /\ \E i \in DOMAIN overlay' :
                    overlay'[i].name = m /\ overlay'[i].data = session'[m]
      <3>1. m # n /\ session'[m] = session[m]
        BY <2>2, <2>4, RoomyFacts
      <3>2. m \notin deleted /\ \E i \in DOMAIN overlay : overlay[i].name = m /\ overlay[i].data = session[m]
        BY <1>2, <2>4, <3>1 DEF SessionInv
      <3>3. PICK i \in DOMAIN overlay : overlay[i].name = m /\ overlay[i].data = session[m]
        BY <3>2
      <3>4. PICK j \in DOMAIN overlay' : overlay'[j] = overlay[i]
        BY <1>3, <3>1, <3>3
      <3> QED BY <1>1, <3>1, <3>2, <3>3, <3>4
    <2> QED BY <2>1, <2>3, <2>4 DEF SessionInv
  <1>5. Settled(disk', flushed')
    <2>1. Settled(disk, flushed)
      BY <1>1, <1>2, SettledFacts
    <2>2. CASE flushed' = NoFile
      BY <2>2 DEF Settled
    <2>3. CASE flushed' = flushed
      BY <1>1, <2>1, <2>3 DEF Settled
    <2> QED BY <1>1, <2>2, <2>3
  <1>6. CASE pending' = << >>
    <2>1. pending' \in Seq(Write) /\ \A i \in DOMAIN pending' : pending'[i].op = "flush"
      BY <1>6
    <2>2. QueueInv(pending', disk', flushed', fs_base') /\ FlushInv(pending', disk', flushed')
      BY <1>5, <2>1, FlushesOnly, SettledFacts
    <2> QED BY <1>1, <1>2, <1>3, <1>4, <2>2 DEF IInv
  <1>7. CASE pending' # << >>
    <2> DEFINE s == Min(hits)
               w == EraseWrite(s, n)
    <2>1. HasDisk /\ disk.fat /\ hits # {} /\ pending' = << w >>
      BY <1>1, <1>7 DEF UnlinkWrites
    <2>2. disk.dir \in [Slots -> RoomyEntry] /\ disk \in Disk
      BY <1>2 DEF DiskInv, Disk
    <2>3. Slots \subseteq Nat /\ hits \subseteq Slots
      <3>1. Slots \subseteq Nat
        BY VolumeAssumption DEF Slots
      <3> QED BY <2>2, <3>1
    <2>4. s \in hits
      <3>1. hits \in SUBSET Nat
        BY <2>3
      <3> HIDE DEF hits
      <3>2. \E x \in hits : \A y \in hits : x <= y
        BY <2>1, <3>1, LeastNat
      <3> QED BY <3>2 DEF Min
    <2>5. disk.dir[s].name \in StartsWith[n] /\ StartsWith[n] \subseteq Names /\ s \in Slots
      BY <2>3, <2>4, NamesAssumption
    <2>6. IsFile(disk.dir[s]) /\ (flushed' # NoFile => disk.dir[s].name # flushed'.name)
      BY <1>1, <2>5 DEF IsFile
    <2> HIDE DEF s, hits
    <2>7. w \in Write /\ IsErase(w) /\ ~ IsEntry(w) /\ w.slot = s /\ w.op = "erase"
      BY <2>5, NamesAssumption DEF EraseWrite, Write, IsErase, IsEntry
    <2> HIDE DEF w
    <2>8. /\ pending' \in Seq(Write)
          /\ \A i \in DOMAIN pending' : i = 1 /\ pending'[i] = w
      BY <2>1, <2>7
    <2>9. QueueInv(pending', disk', flushed', fs_base')
      BY <1>1, <2>1, <2>6, <2>7, <2>8 DEF QueueInv
    <2>10. FlushInv(pending', disk', flushed')
      BY <1>5, <2>7, <2>8, SettledFacts
    <2> QED BY <1>1, <1>2, <1>3, <1>4, <2>9, <2>10 DEF IInv
  <1> QED BY <1>6, <1>7

(* The writes of an install: the header, the volume, the overlay's files. *)
LEMMA InstallFacts ==
    ASSUME IInv
    PROVE  /\ InstallWrites \in Seq(Write)
           /\ \E k \in Nat \ {0} : \A i \in DOMAIN InstallWrites :
                LET w == InstallWrites[i] IN
                /\ i = 1 => w.op = "gpt"
                /\ i > 1 /\ i <= k => (w.op \in {"bpb", "dir"} /\ fs_base) \/ w.op = "data"
                /\ i > k => w.op = "flush" /\ \E j \in DOMAIN overlay : w.file = overlay[j]
  <1> DEFINE A == << [op |-> "gpt"] >>
             len == INSTALL_LIMIT - Min(Clusters)
             D == [i \in 1 .. len |-> LET c == Min(Clusters) + i - 1 IN DataWrite(c, VolumeData[c])]
             S == [k \in 1 .. DirSectors |-> [op |-> "dir", sector |-> k]]
             V == << [op |-> "bpb"] >> \o S
             M == IF ~ fs_base THEN << >> ELSE V \o D
             F == [i \in DOMAIN overlay |-> [op |-> "flush", file |-> overlay[i]]]
  <1>1. InstallWrites = (A \o M) \o F
    BY DEF InstallWrites
  <1>2. A \in Seq(Write) /\ Len(A) = 1 /\ A[1].op = "gpt"
    <2>1. [op |-> "gpt"] \in Write
      BY DEF Write
    <2> QED BY <2>1
  <1>3. Min(Clusters) \in Nat
    <2>1. Clusters \in SUBSET Nat /\ Clusters # {}
      BY VolumeAssumption
    <2>2. \E x \in Clusters : \A y \in Clusters : x <= y
      BY <2>1, LeastNat
    <2> QED BY <2>1, <2>2 DEF Min
  <1>4. D \in Seq(Write) /\ \A i \in DOMAIN D : D[i].op = "data"
    <2>1. len \in Int /\ INSTALL_LIMIT \in Nat
      BY <1>3, VolumeAssumption
    <2>2. ASSUME NEW i \in 1 .. len
          PROVE  LET c == Min(Clusters) + i - 1 IN
                 DataWrite(c, VolumeData[c]) \in Write /\ DataWrite(c, VolumeData[c]).op = "data"
      <3> DEFINE c == Min(Clusters) + i - 1
      <3>1. c \in Min(Clusters) .. INSTALL_LIMIT - 1
        BY <1>3, <2>1
      <3>2. c \in Clusters /\ c \in Nat /\ VolumeData[c] \in AnyBlock
        BY <3>1, VolumeAssumption
      <3> HIDE DEF c
      <3>3. DataWrite(c, VolumeData[c]) \in Write /\ DataWrite(c, VolumeData[c]).op = "data"
        BY <3>2 DEF DataWrite, Write
      <3> QED BY <3>3 DEF c
    <2>3. PICK l \in Nat : 1 .. len = 1 .. l
      <3>1. CASE len >= 0
        <4>1. len \in Nat
          BY <2>1, <3>1
        <4> QED BY <4>1
      <3>2. CASE ~ (len >= 0)
        <4>1. 1 .. len = 1 .. 0
          BY <2>1, <3>2
        <4> QED BY <4>1
      <3> QED BY <3>1, <3>2
    <2>4. D \in [1 .. l -> Write] /\ DOMAIN D = 1 .. l /\ \A i \in 1 .. l : D[i].op = "data"
      BY <2>2, <2>3
    <2> HIDE DEF D
    <2> QED BY <2>3, <2>4
  <1> HIDE DEF D
  <1>5. V \in Seq(Write) /\ Len(V) \in Nat /\ \A i \in 1 .. Len(V) : V[i].op \in {"bpb", "dir"}
    <2>1. DirSectors \in Nat
      BY VolumeAssumption DEF DirSectors
    <2>2. \A k \in 1 .. DirSectors : S[k] \in Write /\ S[k].op = "dir"
      BY <2>1 DEF Write
    <2>3. S \in [1 .. DirSectors -> Write]
      BY <2>2
    <2> HIDE DEF S
    <2>4. S \in Seq(Write) /\ Len(S) = DirSectors
      BY <2>1, <2>3
    <2> DEFINE b == [op |-> "bpb"]
    <2>5. b \in Write /\ b.op = "bpb"
      BY DEF Write
    <2> HIDE DEF b
    <2>6. << b >> \in Seq(Write) /\ Len(<< b >>) = 1 /\ << b >>[1] = b
      BY <2>5
    <2>7. /\ << b >> \o S \in Seq(Write) /\ Len(<< b >> \o S) = 1 + DirSectors
          /\ \A i \in 1 .. 1 + DirSectors : (<< b >> \o S)[i] = IF i <= 1 THEN << b >>[i] ELSE S[i - 1]
      <3>1. /\ << b >> \o S \in Seq(Write) /\ Len(<< b >> \o S) = Len(<< b >>) + Len(S)
            /\ \A i \in 1 .. Len(<< b >>) + Len(S) :
                  (<< b >> \o S)[i] = IF i <= Len(<< b >>) THEN << b >>[i] ELSE S[i - Len(<< b >>)]
        BY <2>4, <2>6, ConcatProperties
      <3> QED BY <2>4, <2>6, <3>1
    <2>8. V = << b >> \o S
      BY DEF b
    <2> HIDE DEF V
    <2>9. ASSUME NEW i \in 1 .. 1 + DirSectors PROVE V[i].op \in {"bpb", "dir"}
      <3>1. CASE i <= 1
        <4>1. i = 1
          BY <2>1, <3>1
        <4> QED BY <2>5, <2>6, <2>7, <2>8, <3>1, <4>1
      <3>2. CASE ~ (i <= 1)
        <4>1. i - 1 \in 1 .. DirSectors
          BY <2>1, <3>2
        <4>2. V[i] = S[i - 1]
          BY <2>7, <2>8, <3>2
        <4> QED BY <2>2, <4>1, <4>2
      <3> QED BY <3>1, <3>2
    <2> QED BY <2>1, <2>7, <2>8, <2>9
  <1> HIDE DEF V
  <1>6. M \in Seq(Write) /\ Len(M) \in Nat
        /\ \A i \in 1 .. Len(M) : (M[i].op \in {"bpb", "dir"} /\ fs_base) \/ M[i].op = "data"
    <2>1. CASE ~ fs_base
      BY <2>1
    <2>2. CASE fs_base
      <3>1. M = V \o D
        BY <2>2
      <3> HIDE DEF M
      <3>2. /\ M \in Seq(Write) /\ Len(M) = Len(V) + Len(D)
            /\ \A i \in 1 .. Len(V) + Len(D) : M[i] = IF i <= Len(V) THEN V[i] ELSE D[i - Len(V)]
        BY <1>4, <1>5, <3>1, ConcatProperties
      <3>3. Len(D) \in Nat /\ DOMAIN D = 1 .. Len(D)
        BY <1>4
      <3>4. ASSUME NEW i \in 1 .. Len(M) PROVE M[i].op \in {"bpb", "dir"} \/ M[i].op = "data"
        <4>1. i \in 1 .. Len(V) + Len(D) /\ (i <= Len(V) => i \in 1 .. Len(V))
              /\ (~ (i <= Len(V)) => i - Len(V) \in 1 .. Len(D))
          BY <1>5, <3>2, <3>3
        <4> QED BY <1>4, <1>5, <3>2, <3>3, <4>1
      <3> QED BY <1>5, <2>2, <3>2, <3>3, <3>4
    <2> QED BY <2>1, <2>2
  <1> HIDE DEF M
  <1>7. F \in Seq(Write) /\ \A i \in DOMAIN F : F[i].op = "flush" /\ \E j \in DOMAIN overlay : F[i].file = overlay[j]
    <2>1. overlay \in Seq(File) /\ DOMAIN overlay = 1 .. Len(overlay) /\ Len(overlay) \in Nat
      BY DEF IInv, OverlayInv
    <2>2. \A i \in 1 .. Len(overlay) : overlay[i] \in File
      BY <2>1
    <2>3. ASSUME NEW i \in 1 .. Len(overlay) PROVE F[i] \in Write /\ F[i].op = "flush" /\ F[i].file = overlay[i]
      <3>1. F[i] = [op |-> "flush", file |-> overlay[i]]
        BY <2>1
      <3> HIDE DEF F
      <3> QED BY <2>2, <3>1 DEF Write
    <2>4. F \in [1 .. Len(overlay) -> Write] /\ DOMAIN F = 1 .. Len(overlay)
      BY <2>1, <2>3
    <2> HIDE DEF F
    <2> QED BY <2>1, <2>3, <2>4
  <1> HIDE DEF A, F
  <1> DEFINE B == A \o M
  <1>8. /\ B \in Seq(Write) /\ Len(B) = 1 + Len(M)
        /\ B[1].op = "gpt"
        /\ \A i \in 2 .. 1 + Len(M) : i - 1 \in 1 .. Len(M) /\ B[i] = M[i - 1]
    <2>1. /\ B \in Seq(Write) /\ Len(B) = 1 + Len(M)
          /\ \A i \in 1 .. 1 + Len(M) : B[i] = IF i <= 1 THEN A[i] ELSE M[i - 1]
      <3>1. /\ A \o M \in Seq(Write) /\ Len(A \o M) = Len(A) + Len(M)
            /\ \A i \in 1 .. Len(A) + Len(M) : (A \o M)[i] = IF i <= Len(A) THEN A[i] ELSE M[i - Len(A)]
        BY <1>2, <1>6, ConcatProperties
      <3> QED BY <1>2, <3>1
    <2> HIDE DEF B
    <2>2. B[1] = A[1]
      BY <1>6, <2>1
    <2>3. \A i \in 2 .. 1 + Len(M) : i - 1 \in 1 .. Len(M) /\ i \in 1 .. 1 + Len(M) /\ ~ (i <= 1)
      BY <1>6
    <2> QED BY <1>2, <2>1, <2>2, <2>3
  <1> DEFINE k == 1 + Len(M)
  <1>9. k \in Nat \ {0} /\ \A i \in 2 .. k : (B[i].op \in {"bpb", "dir"} /\ fs_base) \/ B[i].op = "data"
    BY <1>6, <1>8
  <1> HIDE DEF B
  <1>10. Len(F) \in Nat /\ DOMAIN F = 1 .. Len(F)
    BY <1>7
  <1>11. /\ B \o F \in Seq(Write) /\ DOMAIN (B \o F) = 1 .. k + Len(F)
         /\ \A i \in 1 .. k : (B \o F)[i] = B[i]
         /\ \A i \in k + 1 .. k + Len(F) : i - k \in DOMAIN F /\ (B \o F)[i] = F[i - k]
    <2>1. B \o F \in Seq(Write) /\ Len(B \o F) = k + Len(F)
                /\ \A i \in 1 .. k + Len(F) : (B \o F)[i] = IF i <= k THEN B[i] ELSE F[i - k]
      <3>1. /\ B \o F \in Seq(Write) /\ Len(B \o F) = Len(B) + Len(F)
            /\ \A i \in 1 .. Len(B) + Len(F) : (B \o F)[i] = IF i <= Len(B) THEN B[i] ELSE F[i - Len(B)]
        <4>1. B \in Seq(Write) /\ F \in Seq(Write)
          BY <1>7, <1>8
        <4> QED BY <4>1, ConcatProperties
      <3> QED BY <1>8, <3>1
    <2>2. \A i \in 1 .. k : i \in 1 .. k + Len(F) /\ i <= k
      BY <1>9, <1>10
    <2>3. \A i \in k + 1 .. k + Len(F) : i \in 1 .. k + Len(F) /\ ~ (i <= k) /\ i - k \in 1 .. Len(F)
      BY <1>9, <1>10
    <2> QED BY <1>10, <2>1, <2>2, <2>3
  <1>12. InstallWrites = B \o F
    BY <1>1 DEF B
  <1> HIDE DEF k
  <1>13. ASSUME NEW i \in DOMAIN InstallWrites
         PROVE  LET w == InstallWrites[i] IN
                /\ i = 1 => w.op = "gpt"
                /\ i > 1 /\ i <= k => (w.op \in {"bpb", "dir"} /\ fs_base) \/ w.op = "data"
                /\ i > k => w.op = "flush" /\ \E j \in DOMAIN overlay : w.file = overlay[j]
    <2>1. i \in 1 .. k + Len(F)
      BY <1>11, <1>12
    <2>2. CASE i <= k
      <3>1. i \in 1 .. k /\ ~ (i > k) /\ (i > 1 => i \in 2 .. k)
        BY <1>9, <1>10, <2>1, <2>2
      <3>2. InstallWrites[i] = B[i]
        BY <1>11, <1>12, <3>1
      <3> QED BY <1>8, <1>9, <3>1, <3>2
    <2>3. CASE ~ (i <= k)
      <3>1. i \in k + 1 .. k + Len(F) /\ i # 1
        BY <1>9, <1>10, <2>1, <2>3
      <3>2. i - k \in DOMAIN F /\ InstallWrites[i] = F[i - k]
        BY <1>11, <1>12, <3>1
      <3> QED BY <1>7, <2>3, <3>1, <3>2
    <2> QED BY <2>2, <2>3
  <1> QED BY <1>9, <1>11, <1>12, <1>13

(* SYS_INSTALL_OS *)
LEMMA InstallIInv ==
    ASSUME IInv, SysInstallOs
    PROVE  IInv'
  <1> DEFINE q == InstallWrites
  <1>1. /\ pending' = q /\ flushed' = NoFile
        /\ UNCHANGED << fs_base, overlay, deleted, fds, session, disk, erased, torn, faults >>
    BY DEF SysInstallOs
  <1>2. PICK k \in Nat \ {0} : \A i \in DOMAIN q :
            /\ i = 1 => q[i].op = "gpt"
            /\ i > 1 /\ i <= k => (q[i].op \in {"bpb", "dir"} /\ fs_base) \/ q[i].op = "data"
            /\ i > k => q[i].op = "flush"
    BY InstallFacts
  <1>3. q \in Seq(Write) /\ DOMAIN q = 1 .. Len(q) /\ Len(q) \in Nat
    BY InstallFacts
  <1> HIDE DEF q
  <1>4. ASSUME NEW i \in DOMAIN q
        PROVE  /\ q[i].op # "entry" /\ q[i].op # "erase" /\ (q[i].op = "gpt" => i = 1)
               /\ q[i].op \in {"bpb", "dir"} => fs_base /\ q[1].op = "gpt"
               /\ q[i].op = "flush" => \A j \in DOMAIN q : i <= j => q[j].op = "flush"
    <2>1. i \in Nat /\ 1 \in DOMAIN q /\ (i = 1 \/ (i > 1 /\ i <= k) \/ i > k)
      BY <1>2, <1>3
    <2>2. q[1].op = "gpt"
      BY <1>2, <2>1
    <2>3. q[i].op = "flush" => i > k
      BY <1>2, <2>1
    <2>4. i > k => \A j \in DOMAIN q : i <= j => j > k
      BY <1>2, <1>3, <2>1
    <2> QED BY <1>2, <2>1, <2>2, <2>3, <2>4
  <1>5. QueueInv(q, disk, NoFile, fs_base)
    BY <1>3, <1>4 DEF QueueInv, IsEntry, IsErase
  <1>6. FlushInv(q, disk, NoFile)
    BY DEF FlushInv
  <1> QED BY <1>1, <1>5, <1>6 DEF IInv

-----------------------------------------------------------------------------
(* The sector writes and the power cuts. *)

(* At the head of the queue, a flush is followed by flushes only. *)
LEMMA FlushHead ==
    ASSUME IInv, pending # << >>, Head(pending).op = "flush"
    PROVE  /\ \A i \in DOMAIN pending : pending[i].op = "flush"
           /\ Tail(pending) \in Seq(Write) /\ \A i \in DOMAIN Tail(pending) : Tail(pending)[i].op = "flush"
           /\ Head(pending).file.name \in Names /\ Head(pending).file.data \in Roomy
           /\ Settled(disk, flushed)
  <1>1. QueueInv(pending, disk, flushed, fs_base) /\ FlushInv(pending, disk, flushed)
    BY DEF IInv
  <1>2. pending \in Seq(Write)
    BY <1>1 DEF QueueInv
  <1>3. /\ Tail(pending) \in Seq(Write) /\ Head(pending) = pending[1] /\ 1 \in DOMAIN pending
        /\ DOMAIN pending = 1 .. Len(pending) /\ Len(pending) \in Nat
        /\ \A i \in DOMAIN Tail(pending) : i + 1 \in DOMAIN pending /\ Tail(pending)[i] = pending[i + 1]
    BY <1>2, TailFacts
  <1>4. \A i \in DOMAIN pending : 1 <= i
    BY <1>3
  <1>5. \A i \in DOMAIN pending : pending[i].op = "flush"
    BY <1>1, <1>3, <1>4 DEF QueueInv
  <1>6. pending[1] \in Write
    BY <1>2, <1>3
  <1>7. Settled(disk, flushed)
    BY <1>1, <1>5, SettledFacts
  <1> QED BY <1>3, <1>5, <1>6, <1>7, WriteFacts

(* write_file_to_disk_partition begins, or gives up. *)
LEMMA BeginFlushIInv ==
    ASSUME IInv, BeginFlush
    PROVE  IInv'
  <1> DEFINE n == Head(pending).file.name
             data == Head(pending).file.data
             rest == Tail(pending)
             q == FlushWrites(disk, n, data) \o rest
             fl == [name |-> Short[n], old |-> ReadDisk(disk, Short[n]), new |-> data]
             er == erased \ {Short[n]}
  <1>1. /\ pending # << >> /\ Head(pending).op = "flush"
        /\ pending' = q /\ erased' = er
        /\ flushed' = IF ~ CanFlush(disk, n) THEN flushed ELSE fl
        /\ UNCHANGED << fs_base, overlay, deleted, fds, session, disk, torn, faults >>
    BY DEF BeginFlush, Idle
  <1>2. /\ rest \in Seq(Write) /\ \A i \in DOMAIN rest : rest[i].op = "flush"
        /\ n \in Names /\ data \in Roomy /\ Settled(disk, flushed)
    BY <1>1, FlushHead
  <1> HIDE DEF n, data, rest
  <1>3. DiskInv(disk, torn) /\ er \subseteq Names
    BY DEF IInv
  <1>4. disk \in Disk /\ Short[n] \in Names
    BY <1>2, <1>3, NamesAssumption DEF DiskInv
  <1>5. CASE ~ CanFlush(disk, n)
    <2>1. q = rest
      BY <1>2, <1>5, ConcatEmptySeq DEF FlushWrites
    <2>2. QueueInv(q, disk, flushed, fs_base) /\ FlushInv(q, disk, flushed)
      BY <1>2, <2>1, FlushesOnly, SettledFacts
    <2>3. flushed' = flushed
      BY <1>1, <1>5
    <2> HIDE DEF q, er
    <2> QED BY <1>1, <1>3, <2>2, <2>3 DEF IInv
  <1>6. CASE CanFlush(disk, n)
    <2> DEFINE K == Span(data)
               e == [name |-> Short[n], cluster |-> USER_CLUSTER, size |-> Len(data)]
    <2>1. /\ q \in Seq(Write)
          /\ K \in Nat \ {0} /\ DOMAIN q = 1 .. K + 1 + Len(rest)
          /\ \A j \in 1 .. K : q[j] = DataWrite(USER_CLUSTER + j - 1, Block(data, j))
          /\ q[K + 1].op = "entry"
          /\ SlotFor(disk.dir, Short[n]) = {q[K + 1].slot}
          /\ q[K + 1].entry = e
          /\ \A j \in K + 2 .. K + 1 + Len(rest) : j - K - 1 \in DOMAIN rest /\ q[j] = rest[j - K - 1]
      <3>1. rest \in Seq(Write) /\ n \in Names /\ data \in Roomy
        BY <1>2
      <3>2. FlushQueue(q, disk, n, data, rest)
        BY <1>4, <1>6, <3>1, FlushWritesFacts
      <3> HIDE DEF q
      <3> QED BY <3>2 DEF FlushQueue
    <2>2. Len(rest) \in Nat /\ USER_CLUSTER \in Nat
      <3>1. rest \in Seq(Write)
        BY <1>2
      <3>2. USER_CLUSTER \in Nat
        BY VolumeAssumption
      <3> QED BY <3>1, <3>2
    <2>3. IsFile(e) /\ e # Gone /\ e.name = Short[n]
      BY <1>4, MarkFacts DEF IsFile
    <2> HIDE DEF q, K, e
    <2>4. /\ \A i \in DOMAIN q : i \in Nat /\ (i \in 1 .. K \/ i = K + 1 \/ i \in K + 2 .. K + 1 + Len(rest))
          /\ K + 1 \in DOMAIN q
      BY <2>1, <2>2
    <2>5. \A i \in 1 .. K : q[i].op = "data"
      <3>1. \A c, b : DataWrite(c, b).op = "data"
        BY DEF DataWrite
      <3> QED BY <2>1, <3>1
    <2>6. \A i \in K + 2 .. K + 1 + Len(rest) : q[i].op = "flush"
      BY <1>2, <2>1
    <2>7. IsEntry(q[K + 1]) /\ ~ IsErase(q[K + 1])
      BY <2>1, <2>3 DEF IsEntry, IsErase
    <2>8. \A i \in DOMAIN q : IsEntry(q[i]) => i = K + 1
      BY <2>4, <2>5, <2>6 DEF IsEntry
    <2>9. \A i \in DOMAIN q : i = K + 1 \/ q[i].op \in {"data", "flush"}
      BY <2>4, <2>5, <2>6
    <2>10. \A j \in DOMAIN q : (j < K + 1 => j \in 1 .. K) /\ (j > K + 1 => j \in K + 2 .. K + 1 + Len(rest))
      BY <2>1, <2>2, <2>4
    <2>11. ASSUME NEW i \in DOMAIN q, q[i].op = "flush"
           PROVE  \A j \in DOMAIN q : i <= j => q[j].op = "flush"
      <3>1. i > K + 1
        BY <2>1, <2>4, <2>5, <2>11
      <3>2. \A j \in DOMAIN q : i <= j => j > K + 1
        BY <2>1, <2>4, <3>1
      <3> QED BY <2>6, <2>10, <3>2
    <2>12. HasDisk /\ disk.fat
      BY <1>6 DEF CanFlush
    <2> HIDE DEF fl, er
    <2>13. QueueInv(q, disk, fl, fs_base)
      <3> SUFFICES ASSUME NEW i \in DOMAIN q
                   PROVE  /\ q[i].op = "gpt" => i = 1
                          /\ q[i].op \in {"bpb", "dir"} => fs_base /\ (disk.gpt \/ q[1].op = "gpt")
                          /\ q[i].op \in {"gpt", "bpb", "dir"} => fl = NoFile
                          /\ q[i].op = "flush" => \A j \in DOMAIN q : i <= j => q[j].op = "flush"
                          /\ IsEntry(q[i]) =>
                                /\ HasDisk /\ disk.fat
                                /\ \A j \in DOMAIN q : /\ j < i => q[j].op = "data"
                                                       /\ j > i => q[j].op = "flush"
                                /\ SlotFor(disk.dir, q[i].entry.name) = {q[i].slot}
                          /\ ~ IsErase(q[i])
        BY <2>1 DEF QueueInv
      <3>1. CASE i = K + 1
        BY <2>1, <2>3, <2>5, <2>6, <2>7, <2>10, <2>12, <3>1
      <3>2. CASE i # K + 1
        BY <2>9, <2>11, <3>2 DEF IsEntry, IsErase
      <3> QED BY <3>1, <3>2
    <2>14. FlushInv(q, disk, fl)
      <3>1. /\ fl.name = Short[n] /\ fl.old = ReadDisk(disk, Short[n]) /\ fl.new = data
        BY DEF fl
      <3>2. ReadDisk(disk, Short[n]) \in Roomy \cup {NoFile}
        BY <1>4, ReadDiskFacts
      <3>3. fl \in [name : Names, old : Roomy \cup {NoFile}, new : Roomy]
        BY <1>2, <1>4, <3>2 DEF fl
      <3>4. Between(ReadDisk(disk, fl.name), fl.old, fl.new)
        BY <3>1, <3>2 DEF Between
      <3>5. \A i \in DOMAIN q : IsEntry(q[i]) => i = K + 1
        BY <2>8
      <3>6. Span(fl.new) = K /\ q[K + 1].entry = [name |-> fl.name, cluster |-> USER_CLUSTER, size |-> Len(fl.new)]
        BY <2>1, <3>1 DEF K, e
      <3>7. \A j \in 1 .. (K + 1) - 1 : q[j] = DataWrite(USER_CLUSTER + K - (K + 1) + j,
                                                         Block(fl.new, K - (K + 1) + j + 1))
        <4>1. \A j \in 1 .. (K + 1) - 1 : /\ j \in 1 .. K /\ USER_CLUSTER + K - (K + 1) + j = USER_CLUSTER + j - 1
                                          /\ K - (K + 1) + j + 1 = j
          BY <2>1, <2>2
        <4> QED BY <2>1, <3>1, <4>1
      <3>8. \A m \in 1 .. K - (K + 1) + 1 : FALSE
        BY <2>1
      <3>9. ~ (q[K + 1].op = "flush" \/ IsErase(q[K + 1]))
        BY <2>1, <2>7
      <3>10. K + 1 <= K + 1
        BY <2>1
      <3>11. ASSUME NEW i \in DOMAIN q, IsEntry(q[i])
             PROVE  /\ i <= Span(fl.new) + 1
                    /\ q[i].entry = [name |-> fl.name, cluster |-> USER_CLUSTER, size |-> Len(fl.new)]
                    /\ \A j \in 1 .. i - 1 :
                          q[j] = DataWrite(USER_CLUSTER + Span(fl.new) - i + j,
                                           Block(fl.new, Span(fl.new) - i + j + 1))
                    /\ \A m \in 1 .. Span(fl.new) - i + 1 :
                          disk.data[USER_CLUSTER + m - 1] = Block(fl.new, m)
                    /\ Between(ReadDisk(disk, fl.name), fl.old, fl.new)
        <4>1. i = K + 1
          BY <3>5, <3>11
        <4> QED BY <3>4, <3>6, <3>7, <3>8, <3>10, <4>1
      <3> QED BY <2>4, <2>7, <3>3, <3>9, <3>11 DEF FlushInv
    <2>15. flushed' = fl
      BY <1>1, <1>6
    <2> QED BY <1>1, <1>3, <2>13, <2>14, <2>15 DEF IInv
  <1> QED BY <1>5, <1>6

(* The disk of the invariant, by its fields. *)
LEMMA DiskFacts ==
    ASSUME NEW d \in Disk
    PROVE  /\ \A x \in BOOLEAN : [d EXCEPT !.gpt = x] \in Disk /\ [d EXCEPT !.fat = x] \in Disk
           /\ \A x \in [Slots -> RoomyEntry] : [d EXCEPT !.dir = x] \in Disk
           /\ \A x \in [Clusters -> AnyBlock] : [d EXCEPT !.data = x] \in Disk
           /\ d.dir \in [Slots -> RoomyEntry] /\ d.data \in [Clusters -> AnyBlock]
  BY DEF Disk

(* The header, the BPB or the directory of an install reaches the disk. *)
LEMMA VolumeWritten ==
    ASSUME IInv, SectorWritten, Head(pending).op \in {"gpt", "bpb", "dir"}
    PROVE  IInv'
  <1> DEFINE w == Head(pending)
  <1>1. /\ pending # << >> /\ disk' = Stored(disk, w) /\ pending' = Tail(pending)
        /\ erased' = (IF w.op = "dir" THEN {} ELSE erased) /\ flushed' = flushed
        /\ torn' = (IF w.op = "dir" THEN disk'.dir # VolumeDir ELSE torn)
        /\ UNCHANGED << fs_base, overlay, deleted, fds, session, faults >>
    BY DEF SectorWritten, Idle
  <1>2. QueueInv(pending, disk, flushed, fs_base) /\ DiskInv(disk, torn)
    BY DEF IInv
  <1>3. w = pending[1] /\ 1 \in DOMAIN pending
    BY <1>1, <1>2, TailFacts DEF QueueInv
  <1>4. flushed = NoFile /\ (w.op # "gpt" => disk.gpt)
    BY <1>2, <1>3 DEF QueueInv
  <1> HIDE DEF w
  <1>5. disk \in Disk
    BY <1>2 DEF DiskInv
  <1>6. /\ disk' \in Disk /\ disk'.gpt = TRUE
        /\ w.op # "dir" => disk'.dir = disk.dir
    <2>1. CASE w.op = "gpt"
      <3>1. disk' = [disk EXCEPT !.gpt = TRUE]
        BY <1>1, <2>1 DEF Stored
      <3> QED BY <1>5, <2>1, <3>1, DiskFacts DEF Disk
    <2>2. CASE w.op = "bpb"
      <3>1. disk' = [disk EXCEPT !.fat = TRUE]
        BY <1>1, <2>2 DEF Stored
      <3>2. disk'.gpt = disk.gpt /\ disk'.dir = disk.dir /\ disk.gpt \in BOOLEAN
        BY <1>5, <3>1 DEF Disk
      <3> QED BY <1>4, <1>5, <2>2, <3>1, <3>2, DiskFacts
    <2>3. CASE w.op = "dir"
      <3> DEFINE new == [i \in Slots |-> IF SectorOf(i) = w.sector THEN VolumeDir[i] ELSE disk.dir[i]]
      <3>1. disk' = [disk EXCEPT !.dir = new]
        BY <1>1, <2>3 DEF Stored, Slots
      <3>2. VolumeDir \in [Slots -> RoomyEntry] /\ disk.dir \in [Slots -> RoomyEntry]
        BY <1>5, VolumeAssumption DEF Slots, RoomyEntry, Disk
      <3>3. new \in [Slots -> RoomyEntry]
        BY <3>2
      <3> HIDE DEF new
      <3>4. disk'.gpt = disk.gpt /\ disk.gpt \in BOOLEAN
        BY <1>5, <3>1 DEF Disk
      <3> QED BY <1>4, <1>5, <2>3, <3>1, <3>3, <3>4, DiskFacts
    <2> QED BY <2>1, <2>2, <2>3 DEF w
  <1>7. DiskInv(disk', torn')
    <2>1. CASE w.op = "dir"
      <3>1. torn' = (disk'.dir # VolumeDir) /\ Sound(VolumeDir)
        BY <1>1, <2>1, VolumeAssumption
      <3> QED BY <1>6, <3>1 DEF DiskInv
    <2>2. CASE w.op # "dir"
      <3>1. disk'.dir = disk.dir /\ torn' = torn
        BY <1>1, <1>6, <2>2
      <3> QED BY <1>2, <1>6, <3>1 DEF DiskInv
    <2> QED BY <2>1, <2>2
  <1>8. QueueInv(Tail(pending), disk', flushed', fs_base)
    <2>1. flushed' = NoFile /\ disk'.gpt /\ pending[1].op # "data"
      BY <1>1, <1>3, <1>4, <1>6 DEF w
    <2> QED BY <1>1, <1>2, <2>1, TailQueue
  <1>9. FlushInv(pending', disk', flushed')
    BY <1>1, <1>4 DEF FlushInv
  <1>10. erased' \subseteq Names
    BY <1>1 DEF IInv
  <1> QED BY <1>1, <1>7, <1>8, <1>9, <1>10 DEF IInv

(* What is known of the head of the queue when a sector is written. *)
LEMMA SectorFacts ==
    ASSUME IInv, SectorWritten
    PROVE  /\ pending # << >> /\ Head(pending) = pending[1] /\ 1 \in DOMAIN pending
           /\ pending[1] \in Write /\ pending[1].op # "flush"
           /\ disk' = Stored(disk, pending[1]) /\ pending' = Tail(pending)
           /\ QueueInv(pending, disk, flushed, fs_base) /\ DiskInv(disk, torn)
           /\ FlushInv(pending, disk, flushed) /\ disk \in Disk /\ erased \subseteq Names
           /\ UNCHANGED << fs_base, overlay, deleted, fds, session, faults >>
  <1>1. /\ pending # << >> /\ Head(pending).op # "flush"
        /\ disk' = Stored(disk, Head(pending)) /\ pending' = Tail(pending)
        /\ UNCHANGED << fs_base, overlay, deleted, fds, session, faults >>
    BY DEF SectorWritten, Idle
  <1>2. /\ QueueInv(pending, disk, flushed, fs_base) /\ DiskInv(disk, torn)
        /\ FlushInv(pending, disk, flushed)
    BY DEF IInv
  <1>3. pending \in Seq(Write)
    BY <1>2 DEF QueueInv
  <1>4. Head(pending) = pending[1] /\ 1 \in DOMAIN pending
    BY <1>1, <1>3, TailFacts
  <1>5. pending[1] \in Write
    BY <1>3, <1>4
  <1>6. disk \in Disk /\ erased \subseteq Names
    BY <1>2 DEF DiskInv, IInv
  <1> QED BY <1>1, <1>2, <1>4, <1>5, <1>6

(* A block reaches the disk. *)
LEMMA DataWritten ==
    ASSUME IInv, SectorWritten, pending[1].op = "data"
    PROVE  IInv'
  <1> DEFINE w == pending[1]
  <1>1. /\ pending # << >> /\ w \in Write
        /\ disk' = Stored(disk, w) /\ pending' = Tail(pending)
        /\ QueueInv(pending, disk, flushed, fs_base) /\ DiskInv(disk, torn)
        /\ FlushInv(pending, disk, flushed) /\ disk \in Disk /\ erased \subseteq Names
        /\ UNCHANGED << fs_base, overlay, deleted, fds, session, faults >>
    BY SectorFacts
  <1>2. Head(pending) = w
    BY SectorFacts
  <1>3. erased' = erased /\ torn' = torn /\ flushed' = flushed
    BY <1>2 DEF SectorWritten
  <1>4. w.block \in AnyBlock
    BY <1>1, WriteFacts
  <1>5. disk' = [disk EXCEPT !.data[w.cluster] = w.block]
    BY <1>1 DEF Stored
  <1> HIDE DEF w
  <1>6. /\ disk'.gpt = disk.gpt /\ disk'.fat = disk.fat /\ disk'.dir = disk.dir
        /\ disk'.data = [disk.data EXCEPT ![w.cluster] = w.block]
    BY <1>1, <1>5 DEF Disk
  <1>7. disk' \in Disk
    <2>1. [disk.data EXCEPT ![w.cluster] = w.block] \in [Clusters -> AnyBlock]
      BY <1>1, <1>4, DiskFacts
    <2>2. disk' = [disk EXCEPT !.data = [disk.data EXCEPT ![w.cluster] = w.block]]
      BY <1>5
    <2> QED BY <1>1, <2>1, <2>2, DiskFacts
  <1>8. DiskInv(disk', torn')
    BY <1>1, <1>3, <1>6, <1>7 DEF DiskInv
  <1>9. QueueInv(pending', disk', flushed', fs_base')
    <2>1. w.op = "data"
      BY DEF w
    <2>2. QueueInv(Tail(pending), disk', flushed', fs_base)
      BY <1>1, <1>3, <1>6, <2>1, TailQueue DEF w
    <2> QED BY <1>1, <2>2
  <1>10. FlushInv(pending', disk', flushed')
    <2>1. FlushInv(Tail(pending), disk', flushed)
      BY <1>1, <1>6, <1>7, DataFlush DEF w
    <2> QED BY <1>1, <1>3, <2>1
  <1> QED BY <1>1, <1>3, <1>8, <1>9, <1>10 DEF IInv

(* Behind an entry there are only flushes. *)
LEMMA EntryHead ==
    ASSUME IInv, SectorWritten, IsEntry(pending[1]) \/ IsErase(pending[1])
    PROVE  /\ \A i \in DOMAIN Tail(pending) : Tail(pending)[i].op = "flush"
           /\ Tail(pending) \in Seq(Write)
           /\ \A i \in DOMAIN pending : i # 1 => pending[i].op = "flush"
           /\ HasDisk /\ disk.fat
  <1>1. pending # << >> /\ 1 \in DOMAIN pending /\ QueueInv(pending, disk, flushed, fs_base)
    BY SectorFacts
  <1>2. pending \in Seq(Write) /\ HasDisk /\ disk.fat /\ \A j \in DOMAIN pending : j > 1 => pending[j].op = "flush"
    BY <1>1 DEF QueueInv
  <1>3. /\ Tail(pending) \in Seq(Write) /\ DOMAIN pending = 1 .. Len(pending) /\ Len(pending) \in Nat
        /\ \A i \in DOMAIN Tail(pending) : i + 1 \in DOMAIN pending /\ Tail(pending)[i] = pending[i + 1] /\ i + 1 > 1
    BY <1>1, <1>2, TailFacts
  <1>4. \A i \in DOMAIN pending : i # 1 => i > 1
    BY <1>3
  <1> QED BY <1>2, <1>3, <1>4

(* The entry of a flush reaches the disk. *)
LEMMA EntryWritten ==
    ASSUME IInv, SectorWritten, IsEntry(pending[1])
    PROVE  IInv'
  <1> DEFINE w == pending[1]
             e == w.entry
             s == w.slot
  <1>1. /\ pending # << >> /\ w \in Write /\ 1 \in DOMAIN pending
        /\ disk' = Stored(disk, w) /\ pending' = Tail(pending)
        /\ QueueInv(pending, disk, flushed, fs_base) /\ DiskInv(disk, torn)
        /\ FlushInv(pending, disk, flushed) /\ disk \in Disk /\ erased \subseteq Names
        /\ UNCHANGED << fs_base, overlay, deleted, fds, session, faults >>
    BY SectorFacts
  <1>2. Head(pending) = w /\ w.op = "entry"
    BY SectorFacts DEF IsEntry
  <1>3. /\ erased' = erased /\ torn' = torn
        /\ flushed' = IF flushed # NoFile THEN [flushed EXCEPT !.old = flushed.new] ELSE flushed
    BY <1>2 DEF SectorWritten
  <1>4. e \in RoomyEntry /\ IsFile(e)
    BY <1>1, WriteFacts
  <1>5. SlotFor(disk.dir, e.name) = {s}
    BY <1>1 DEF QueueInv
  <1>6. disk' = [disk EXCEPT !.dir[s] = e]
    BY <1>1, <1>2 DEF Stored
  <1> HIDE DEF w, e, s
  <1>7. /\ disk'.gpt = disk.gpt /\ disk'.fat = disk.fat /\ disk'.data = disk.data
        /\ disk'.dir = [disk.dir EXCEPT ![s] = e]
    BY <1>1, <1>6 DEF Disk
  <1>8. disk.dir \in [Slots -> RoomyEntry]
    BY <1>1, DiskFacts
  <1>9. disk'.dir \in [Slots -> RoomyEntry] /\ (Sound(disk.dir) => Sound(disk'.dir))
    BY <1>1, <1>4, <1>5, <1>7, <1>8, PutFacts
  <1>10. disk' \in Disk
    <2>1. disk' = [disk EXCEPT !.dir = [disk.dir EXCEPT ![s] = e]]
      BY <1>6
    <2> QED BY <1>1, <1>7, <1>9, <2>1, DiskFacts
  <1>11. DiskInv(disk', torn')
    BY <1>1, <1>3, <1>7, <1>9, <1>10 DEF DiskInv
  <1>12. Tail(pending) \in Seq(Write) /\ \A i \in DOMAIN Tail(pending) : Tail(pending)[i].op = "flush"
    BY EntryHead
  <1>13. QueueInv(pending', disk', flushed', fs_base')
    BY <1>1, <1>12, FlushesOnly
  <1>14. Settled(disk', flushed')
    <2>1. CASE flushed = NoFile
      BY <1>3, <2>1 DEF Settled
    <2>2. CASE flushed # NoFile
      <3>1. Settled(disk', [flushed EXCEPT !.old = flushed.new])
        <4>1. disk'.dir = [disk.dir EXCEPT ![pending[1].slot] = pending[1].entry]
          BY <1>7 DEF w, e, s
        <4>2. /\ pending # << >> /\ FlushInv(pending, disk, flushed) /\ DiskInv(disk, torn)
              /\ QueueInv(pending, disk, flushed, fs_base)
              /\ disk'.fat = disk.fat /\ disk'.data = disk.data
          BY <1>1, <1>7
        <4> QED BY <1>10, <2>2, <4>1, <4>2, EntryFlush
      <3> QED BY <1>3, <2>2, <3>1
    <2> QED BY <2>1, <2>2
  <1>15. FlushInv(pending', disk', flushed')
    BY <1>1, <1>12, <1>14, SettledFacts
  <1> QED BY <1>1, <1>3, <1>11, <1>13, <1>15 DEF IInv

(* The mark 0xE5 reaches the disk. *)
LEMMA EraseWritten ==
    ASSUME IInv, SectorWritten, IsErase(pending[1])
    PROVE  IInv'
  <1> DEFINE w == pending[1]
             s == w.slot
  <1>1. /\ pending # << >> /\ w \in Write /\ 1 \in DOMAIN pending
        /\ disk' = Stored(disk, w) /\ pending' = Tail(pending)
        /\ QueueInv(pending, disk, flushed, fs_base) /\ DiskInv(disk, torn)
        /\ FlushInv(pending, disk, flushed) /\ disk \in Disk /\ erased \subseteq Names
        /\ UNCHANGED << fs_base, overlay, deleted, fds, session, faults >>
    BY SectorFacts
  <1>2. Head(pending) = w /\ w.op = "erase"
    BY SectorFacts DEF IsErase
  <1>3. erased' = erased \cup {w.name} /\ torn' = torn /\ flushed' = flushed
    BY <1>2 DEF SectorWritten
  <1>4. s \in Slots /\ w.name \in Names
    BY <1>1, WriteFacts
  <1>5. IsFile(disk.dir[s])
    BY <1>1 DEF QueueInv
  <1>6. disk' = [disk EXCEPT !.dir[s] = Gone]
    BY <1>1, <1>2 DEF Stored
  <1> HIDE DEF w, s
  <1>7. /\ disk'.gpt = disk.gpt /\ disk'.fat = disk.fat /\ disk'.data = disk.data
        /\ disk'.dir = [disk.dir EXCEPT ![s] = Gone]
    BY <1>1, <1>6 DEF Disk
  <1>8. disk.dir \in [Slots -> RoomyEntry]
    BY <1>1, DiskFacts
  <1>9. disk'.dir \in [Slots -> RoomyEntry] /\ (Sound(disk.dir) => Sound(disk'.dir))
    BY <1>4, <1>5, <1>7, <1>8, EraseFacts
  <1>10. disk' \in Disk
    <2>1. disk' = [disk EXCEPT !.dir = [disk.dir EXCEPT ![s] = Gone]]
      BY <1>6
    <2> QED BY <1>1, <1>7, <1>9, <2>1, DiskFacts
  <1>11. DiskInv(disk', torn')
    BY <1>1, <1>3, <1>7, <1>9, <1>10 DEF DiskInv
  <1>12. /\ Tail(pending) \in Seq(Write) /\ \A i \in DOMAIN Tail(pending) : Tail(pending)[i].op = "flush"
         /\ \A i \in DOMAIN pending : i # 1 => pending[i].op = "flush"
    BY EntryHead
  <1>13. QueueInv(pending', disk', flushed', fs_base')
    BY <1>1, <1>12, FlushesOnly
  <1>14. Settled(disk, flushed)
    <2>1. \A i \in DOMAIN pending : pending[i].op = "flush" \/ IsErase(pending[i])
      BY <1>12
    <2> QED BY <1>1, <2>1, SettledFacts
  <1>15. Settled(disk', flushed')
    <2>1. Settled(disk', flushed)
      BY <1>1, <1>7, <1>10, <1>14, EraseFlush DEF w, s
    <2> QED BY <1>3, <2>1
  <1>16. FlushInv(pending', disk', flushed')
    BY <1>1, <1>12, <1>15, SettledFacts
  <1>17. erased' \subseteq Names
    BY <1>1, <1>3, <1>4
  <1> QED BY <1>1, <1>11, <1>13, <1>16, <1>17 DEF IInv

(* One sector reaches the disk. *)
LEMMA SectorWrittenIInv ==
    ASSUME IInv, SectorWritten
    PROVE  IInv'
  <1>1. /\ pending[1].op \in {"gpt", "bpb", "dir", "data"} \/ IsEntry(pending[1]) \/ IsErase(pending[1])
        /\ Head(pending) = pending[1]
    BY SectorFacts, WriteFacts DEF IsEntry, IsErase
  <1> QED BY <1>1, VolumeWritten, DataWritten, EntryWritten, EraseWritten

(* It does not. *)
LEMMA SectorFailsIInv ==
    ASSUME IInv, SectorFails
    PROVE  IInv'
  <1>1. /\ pending # << >> /\ Head(pending).op # "flush" /\ flushed' = NoFile
        /\ torn' \in BOOLEAN /\ (torn => torn')
        /\ UNCHANGED << fs_base, overlay, deleted, fds, session, erased >>
    BY DEF SectorFails, Idle, IInv, DiskInv
  <1>2. QueueInv(pending, disk, flushed, fs_base) /\ DiskInv(disk, torn)
    BY DEF IInv
  <1>3. FlushInv(pending', disk', flushed')
    BY <1>1 DEF FlushInv
  <1>4. CASE Head(pending).op = "gpt"
    <2>1. pending' = << >> /\ disk' \in {disk, Stored(disk, Head(pending))}
      BY <1>4 DEF SectorFails
    <2>2. disk' = disk \/ disk' = [disk EXCEPT !.gpt = TRUE]
      BY <1>4, <2>1 DEF Stored
    <2>3. disk \in Disk
      BY <1>2 DEF DiskInv
    <2>4. disk' \in Disk /\ disk'.dir = disk.dir /\ (disk'.fat => disk'.gpt)
      BY <1>2, <2>2, <2>3 DEF DiskInv, Disk
    <2>5. DiskInv(disk', torn')
      BY <1>1, <1>2, <2>4 DEF DiskInv
    <2>6. pending' \in Seq(Write) /\ \A i \in DOMAIN pending' : pending'[i].op = "flush"
      BY <2>1
    <2>7. QueueInv(pending', disk', flushed', fs_base')
      BY <2>6, FlushesOnly
    <2> QED BY <1>1, <1>3, <2>5, <2>7 DEF IInv
  <1>5. CASE Head(pending).op # "gpt"
    <2>1. pending' = Tail(pending) /\ disk' = disk
      BY <1>5 DEF SectorFails
    <2>2. Head(pending) = pending[1]
      BY <1>1, <1>2, TailFacts DEF QueueInv
    <2>3. QueueInv(Tail(pending), disk, NoFile, fs_base)
      BY <1>1, <1>2, <1>5, <2>2, TailQueue
    <2>4. DiskInv(disk', torn')
      BY <1>1, <1>2, <2>1 DEF DiskInv
    <2> QED BY <1>1, <1>3, <2>1, <2>3, <2>4 DEF IInv
  <1> QED BY <1>4, <1>5

(* Power off and on again. *)
LEMMA RebootIInv ==
    ASSUME IInv, Reboot
    PROVE  IInv'
  <1>1. /\ fs_base' \in BOOLEAN /\ deleted' = {} /\ pending' = << >> /\ disk' = disk /\ erased' = erased /\ torn' = torn
        /\ fds' = [p \in Procs |-> [fd \in Fds |-> NoFd]] /\ session' = [n \in Names |-> Untouched]
        /\ overlay' = IF HasDisk /\ disk.gpt /\ disk.fat THEN Recovered(disk) ELSE << >>
    BY DEF Reboot
  <1>2. DiskInv(disk, torn) /\ FlushInv(pending, disk, flushed)
    BY DEF IInv
  <1>3. disk \in Disk
    BY <1>2 DEF DiskInv
  <1>4. OverlayInv(overlay')
    <2>1. CASE HasDisk /\ disk.gpt /\ disk.fat
      BY <1>1, <1>3, <2>1, RecoveredFacts
    <2>2. CASE ~ (HasDisk /\ disk.gpt /\ disk.fat)
      BY <1>1, <2>2 DEF OverlayInv
    <2> QED BY <2>1, <2>2
  <1>5. SessionInv(session', overlay', deleted')
    BY <1>1, RoomyFacts DEF SessionInv
  <1>6. pending' \in Seq(Write) /\ \A i \in DOMAIN pending' : pending'[i].op = "flush"
    BY <1>1
  <1>7. QueueInv(pending', disk', flushed', fs_base')
    BY <1>6, FlushesOnly
  <1>8. Settled(disk', flushed')
    <2> SUFFICES ASSUME flushed' # NoFile PROVE Settled(disk', flushed')
      BY DEF Settled
    <2> DEFINE read == ReadDisk(disk, flushed.name)
    <2>1. /\ flushed # NoFile /\ read # NoFile
          /\ flushed' = [name |-> flushed.name, old |-> read, new |-> read]
      BY DEF Reboot
    <2>2. flushed \in [name : Names, old : Roomy \cup {NoFile}, new : Roomy]
      BY <1>2, <2>1 DEF FlushInv
    <2>3. flushed.name \in Names
      BY <2>2
    <2>4. read \in Roomy
      BY <1>3, <2>1, <2>3, ReadDiskFacts
    <2>5. flushed'.name = flushed.name /\ flushed'.new = read
      BY <2>1
    <2>6. flushed' \in [name : Names, old : Roomy \cup {NoFile}, new : Roomy]
      BY <2>1, <2>3, <2>4
    <2> QED BY <1>1, <2>5, <2>6 DEF Settled
  <1>9. FlushInv(pending', disk', flushed')
    BY <1>6, <1>8, SettledFacts
  <1>10. fds' \in [Procs -> [Fds -> Fd \cup {NoFd}]] /\ fs_base' \in BOOLEAN /\ deleted' \subseteq Names
    BY <1>1
  <1> QED BY <1>1, <1>2, <1>4, <1>5, <1>7, <1>9, <1>10 DEF IInv

(* Every step keeps the invariant. *)
LEMMA NextIInv ==
    ASSUME IInv, [Next]_vars
    PROVE  IInv'
  <1>1. CASE UNCHANGED vars
    BY <1>1 DEF IInv, vars
  <1>2. CASE Next
    <2>1. ASSUME NEW p \in Procs, NEW n \in Names, SysOpenRead(p, n) \/ SysOpenWrite(p, n)
          PROVE  IInv'
      BY <2>1, OpenReadIInv, OpenWriteIInv
    <2>2. ASSUME NEW p \in Procs, NEW fd \in Fds, SysRead(p, fd) \/ SysClose(p, fd)
          PROVE  IInv'
      BY <2>2, ReadIInv, CloseIInv
    <2>3. ASSUME NEW p \in Procs, NEW fd \in Fds, NEW b \in Blocks, SysWriteFile(p, fd, b)
          PROVE  IInv'
      BY <2>3, WriteFileIInv
    <2>4. ASSUME NEW p \in Procs, ProcessExits(p) PROVE IInv'
      BY <2>4, ExitsIInv
    <2>5. ASSUME NEW n \in Names, SysUnlink(n) PROVE IInv'
      BY <2>5, UnlinkIInv
    <2>6. CASE SysInstallOs
      BY <2>6, InstallIInv
    <2>7. CASE BeginFlush \/ SectorWritten \/ SectorFails
      BY <2>7, BeginFlushIInv, SectorWrittenIInv, SectorFailsIInv
    <2>8. CASE Reboot
      BY <2>8, RebootIInv
    <2> QED BY <1>2, <2>1, <2>2, <2>3, <2>4, <2>5, <2>6, <2>7, <2>8 DEF Next
  <1> QED BY <1>1, <1>2

(* The inductive invariant holds of every behaviour of fat32.rs and vfs.rs *)
(* under the system calls on files, sector by sector and boot by boot.     *)
LEMMA SpecIInv == Spec => []IInv
  BY InitIInv, NextIInv, PTL DEF Spec

-----------------------------------------------------------------------------
(* What the invariant gives. *)

(* Type correctness: the overlay, the directory and the clusters on the    *)
(* disk hold what their types say over any number of boots, no two overlay *)
(* files have one name, and no descriptor's offset is past its buffer.     *)
THEOREM StorageTypeOK == Spec => []TypeOK
  <1>1. ASSUME IInv PROVE TypeOK
    <2>1. overlay \in Seq([name : Names, data : Data]) /\ OverlayInv(overlay)
      <3>1. overlay \in Seq(File)
        BY <1>1 DEF IInv, OverlayInv
      <3>2. Len(overlay) \in Nat /\ overlay \in [1 .. Len(overlay) -> File]
        BY <3>1
      <3>3. File \subseteq [name : Names, data : Data]
        BY DEF File, Roomy
      <3> DEFINE S == [name : Names, data : Data]
      <3>4. overlay \in [1 .. Len(overlay) -> S]
        BY <3>2, <3>3
      <3> HIDE DEF S
      <3>5. overlay \in Seq(S)
        BY <3>2, <3>4
      <3>6. OverlayInv(overlay)
        BY <1>1 DEF IInv
      <3> QED BY <3>5, <3>6 DEF S
    <2>2. /\ disk.gpt \in BOOLEAN /\ disk.fat \in BOOLEAN
          /\ disk.dir \in [1 .. ROOT_ENTRIES -> Entry]
          /\ disk.data \in [Clusters -> AnyBlock] /\ erased \subseteq Names /\ torn \in BOOLEAN
      <3>1. disk \in Disk /\ erased \subseteq Names /\ torn \in BOOLEAN
        BY <1>1 DEF IInv, DiskInv
      <3>2. disk.dir \in [Slots -> RoomyEntry] /\ RoomyEntry \subseteq Entry
        BY <3>1 DEF Disk, RoomyEntry
      <3>3. disk.dir \in [1 .. ROOT_ENTRIES -> Entry]
        BY <3>2 DEF Slots
      <3> QED BY <3>1, <3>3 DEF Disk
    <2>3. \A i \in DOMAIN pending : pending[i].op \in {"gpt", "bpb", "dir", "data", "entry", "erase", "flush"}
      <3>1. pending \in Seq(Write)
        BY <1>1 DEF IInv, QueueInv
      <3>2. \A i \in DOMAIN pending : pending[i] \in Write
        BY <3>1
      <3> QED BY <3>2, WriteFacts
    <2>4. ASSUME NEW p \in Procs, NEW fd \in Fds, fds[p][fd] # NoFd
          PROVE  fds[p][fd].data \in Data /\ fds[p][fd].offset \in 0 .. Len(fds[p][fd].data)
      <3>1. /\ fds[p][fd] \in [name : Names, data : Roomy, offset : Nat, writable : BOOLEAN]
            /\ fds[p][fd].offset <= Len(fds[p][fd].data)
            /\ fds[p][fd].data \in Seq(AnyBlock) /\ Len(fds[p][fd].data) \in Nat
        BY <1>1, <2>4, FdFacts
      <3>2. fds[p][fd].offset \in Nat
        BY <3>1
      <3> QED BY <3>1, <3>2 DEF Data
    <2> QED BY <1>1, <2>1, <2>2, <2>3, <2>4 DEF IInv, OverlayInv, TypeOK
  <1> QED BY <1>1, SpecIInv, PTL

(* The directory on the disk stays sound, sector by sector: no name twice, *)
(* no file behind the end mark, for every order of flushes, unlinks,       *)
(* installs, failed sectors and power cuts (write_file_to_disk_partition,  *)
(* delete_file, install_to_disk), and for a directory of any number of     *)
(* sectors, unless an install stopped, or lost a sector, between them.     *)
THEOREM DirectoryKeptSound == Spec => []DirectorySound
  <1>1. IInv => DirectorySound
    BY DEF IInv, DiskInv, DirectorySound
  <1> QED BY <1>1, SpecIInv, PTL

(* read_file returns what the last close or unlink of this boot left,      *)
(* whatever the layers under the overlay hold and whichever process it     *)
(* was.                                                                    *)
THEOREM WritesReadBack == Spec => []ReadsLastWrite
  <1>1. ASSUME IInv PROVE ReadsLastWrite
    <2> SUFFICES ASSUME NEW n \in Names, session[n] # Untouched PROVE ReadFile(n) = session[n]
      BY DEF ReadsLastWrite
    <2>1. OverlayInv(overlay) /\ SessionInv(session, overlay, deleted)
      BY <1>1 DEF IInv
    <2>2. CASE session[n] = NoFile
      BY <2>1, <2>2 DEF SessionInv, ReadFile
    <2>3. CASE session[n] \in Roomy
      <3>1. n \notin deleted /\ \E i \in DOMAIN overlay : overlay[i].name = n /\ overlay[i].data = session[n]
        BY <2>1, <2>3 DEF SessionInv
      <3>2. InOverlay(overlay, n) /\ OverlayData(overlay, n) = session[n]
        BY <2>1, <3>1, OverlayFacts
      <3> QED BY <3>1, <3>2 DEF ReadFile
    <2> QED BY <2>1, <2>2, <2>3 DEF SessionInv
  <1> QED BY <1>1, SpecIInv, PTL

(* What write_file_to_disk_partition flushed last is on the disk when the  *)
(* call returns and after any number of boots; a power cut in between      *)
(* leaves no file, or one of the old length made of old and new blocks.    *)
THEOREM FlushesDurable == Spec => []LastFlushDurable
  <1>1. ASSUME IInv PROVE LastFlushDurable
    <2> SUFFICES ASSUME flushed # NoFile PROVE LastFlushDurable
      BY DEF LastFlushDurable
    <2> DEFINE read == ReadDisk(disk, flushed.name)
    <2>1. FlushInv(pending, disk, flushed)
      BY <1>1 DEF IInv
    <2>2. flushed \in [name : Names, old : Roomy \cup {NoFile}, new : Roomy]
      BY <2>1 DEF FlushInv
    <2>3. flushed.new \in Roomy
      BY <2>2
    <2>4. CASE \A i \in DOMAIN pending : pending[i].op = "flush" \/ IsErase(pending[i])
      <3>1. read = flushed.new
        BY <2>1, <2>4 DEF FlushInv
      <3> QED BY <3>1 DEF LastFlushDurable
    <2>5. CASE ~ \A i \in DOMAIN pending : pending[i].op = "flush" \/ IsErase(pending[i])
      <3>1. ~ Idle
        BY <2>5 DEF Idle
      <3>2. PICK i \in DOMAIN pending : IsEntry(pending[i])
        BY <2>1, <2>5 DEF FlushInv
      <3>3. Between(read, flushed.old, flushed.new)
        BY <2>1, <3>2 DEF FlushInv
      <3>4. CASE read = NoFile /\ flushed.old = NoFile
        BY <3>1, <3>4 DEF LastFlushDurable
      <3>5. CASE ~ (read = NoFile /\ flushed.old = NoFile)
        <4>1. /\ read \in Roomy /\ flushed.old \in Roomy /\ Len(read) = Len(flushed.old)
              /\ \A k \in 1 .. Len(read) : read[k] = flushed.old[k]
                    \/ \E m \in 1 .. Span(flushed.new) : read[k] = Block(flushed.new, m)
          BY <3>3, <3>5 DEF Between
        <4>2. read # NoFile /\ flushed.old # NoFile /\ DOMAIN read = 1 .. Len(read)
          BY <4>1, RoomyFacts
        <4>3. \A m \in 1 .. Span(flushed.new) : Block(flushed.new, m) \in NewBlocks
          <5>1. CASE flushed.new = << >>
            BY <5>1 DEF Block, NewBlocks
          <5>2. CASE flushed.new # << >>
            <6>1. DOMAIN flushed.new = 1 .. Len(flushed.new)
              BY <2>3, RoomyFacts
            <6> QED BY <5>2, <6>1 DEF Block, NewBlocks, Span, ToSet
          <5> QED BY <5>1, <5>2
        <4>4. \A k \in DOMAIN read : read[k] \in {flushed.old[k]} \cup NewBlocks
          BY <4>1, <4>2, <4>3
        <4> HIDE DEF read
        <4> QED BY <3>1, <4>1, <4>2, <4>4 DEF LastFlushDurable, read
      <3> QED BY <3>4, <3>5
    <2> QED BY <2>4, <2>5
  <1> QED BY <1>1, SpecIInv, PTL

-----------------------------------------------------------------------------
(* Deletion.  What delete_file has erased is not in a directory that no    *)
(* install left half done, no flush under way brings it back, and the      *)
(* entry that is about to be marked is the one that was asked for.         *)

EraseInv(d, q, er, t) ==
    /\ ~ t => \A n \in er : ~ Named(d.dir, n)
    /\ \A i \in DOMAIN q : IsEntry(q[i]) => q[i].entry.name \notin er
    /\ \A i \in DOMAIN q : IsErase(q[i]) => d.dir[q[i].slot].name = q[i].name

Erasing == EraseInv(disk, pending, erased, torn)

(* No name's base is a prefix of another's. *)
NoPrefixes == \A n \in Names : StartsWith[n] = {Short[n]}

(* The files lie where delete_file looks. *)
FilesWithinScan == \A i \in Slots : IsFile(disk.dir[i]) => i <= DELETE_SCAN

(* Nothing that it depends on changes. *)
LEMMA SameErasing ==
    ASSUME Erasing, UNCHANGED disk_vars
    PROVE  Erasing'
  BY DEF Erasing, disk_vars

(* A queue without entries and marks. *)
LEMMA PlainQueue ==
    ASSUME NEW d, NEW er, NEW t, NEW q,
           ~ t => \A n \in er : ~ Named(d.dir, n),
           \A i \in DOMAIN q : q[i].op # "entry" /\ q[i].op # "erase"
    PROVE  EraseInv(d, q, er, t)
  BY DEF EraseInv, IsEntry, IsErase

(* The head of the queue is done with. *)
LEMMA TailErasing ==
    ASSUME NEW q \in Seq(Write), q # << >>, NEW d, NEW er, NEW t, EraseInv(d, q, er, t)
    PROVE  EraseInv(d, Tail(q), er, t)
  <1>1. \A i \in DOMAIN Tail(q) : i + 1 \in DOMAIN q /\ Tail(q)[i] = q[i + 1]
    BY TailFacts
  <1> QED BY <1>1 DEF EraseInv

(* A close leaves a flush to be begun. *)
LEMMA CloseErasing ==
    ASSUME IInv, Erasing, NEW p \in Procs, NEW fd \in Fds, SysClose(p, fd)
    PROVE  Erasing'
  <1>1. CASE ~ fds[p][fd].writable
    BY <1>1, SameErasing DEF SysClose
  <1>2. CASE fds[p][fd].writable
    <2> DEFINE w == [op |-> "flush", file |-> [name |-> fds[p][fd].name, data |-> fds[p][fd].data]]
    <2>1. pending' = << w >> /\ disk' = disk /\ erased' = erased /\ torn' = torn
      BY <1>2 DEF SysClose, WriteFile
    <2>2. w.op = "flush"
      OBVIOUS
    <2> HIDE DEF w
    <2>3. \A i \in DOMAIN pending' : pending'[i].op # "entry" /\ pending'[i].op # "erase"
      BY <2>1, <2>2
    <2>4. ~ torn' => \A n \in erased' : ~ Named(disk'.dir, n)
      BY <2>1 DEF Erasing, EraseInv
    <2> QED BY <2>3, <2>4, PlainQueue DEF Erasing
  <1> QED BY <1>1, <1>2

(* An unlink finds the entry of the file, or the file has none. *)
LEMMA UnlinkErasing ==
    ASSUME IInv, Erasing, FilesWithinScan, NoPrefixes, NEW n \in Names, SysUnlink(n)
    PROVE  Erasing'
  <1> DEFINE hits == { i \in 1 .. DELETE_SCAN : i \in DOMAIN disk.dir /\ disk.dir[i].name \in StartsWith[n] }
  <1>1. /\ pending' = UnlinkWrites(disk, n) /\ disk' = disk /\ torn' = torn
        /\ erased' = IF HasDisk /\ disk.fat /\ UnlinkWrites(disk, n) = << >>
                       THEN erased \cup {Short[n]} ELSE erased
    BY DEF SysUnlink
  <1>2. ~ torn => \A m \in erased : ~ Named(disk.dir, m)
    BY DEF Erasing, EraseInv
  <1>3. disk.dir \in [Slots -> RoomyEntry] /\ Short[n] \in Names /\ StartsWith[n] = {Short[n]}
    BY NamesAssumption DEF IInv, DiskInv, Disk, NoPrefixes
  <1>4. DELETE_SCAN \in Nat /\ ROOT_ENTRIES \in Nat /\ DOMAIN disk.dir = Slots
    BY <1>3, VolumeAssumption
  <1>5. hits \in SUBSET Nat /\ \A i \in hits : i \in Slots /\ disk.dir[i].name = Short[n]
    BY <1>3, <1>4
  <1>6. ASSUME NEW i \in Slots, disk.dir[i].name = Short[n] PROVE i \in hits
    <2>1. IsFile(disk.dir[i]) /\ i \in Nat /\ i >= 1
      BY <1>3, <1>4, <1>6 DEF IsFile, Slots
    <2>2. i <= DELETE_SCAN
      BY <2>1 DEF FilesWithinScan
    <2>3. i \in 1 .. DELETE_SCAN
      BY <1>4, <2>1, <2>2
    <2> QED BY <1>3, <1>4, <1>6, <2>3
  <1>7. UnlinkWrites(disk, n) = IF HasDisk /\ disk.fat /\ hits # {} THEN << EraseWrite(Min(hits), n) >> ELSE << >>
    BY DEF UnlinkWrites
  <1> HIDE DEF hits
  <1>8. CASE HasDisk /\ disk.fat /\ hits # {}
    <2> DEFINE w == EraseWrite(Min(hits), n)
    <2>1. Min(hits) \in hits
      BY <1>5, <1>8, MinFacts
    <2>2. w.op = "erase" /\ w.slot = Min(hits) /\ w.name = Short[n]
      BY DEF EraseWrite
    <2> HIDE DEF w
    <2>3. pending' = << w >> /\ erased' = erased
      BY <1>1, <1>7, <1>8 DEF w
    <2>4. \A i \in DOMAIN pending' : pending'[i] = w
      BY <2>3
    <2>5. disk.dir[w.slot].name = w.name
      BY <1>5, <2>1, <2>2
    <2> QED BY <1>1, <1>2, <2>2, <2>3, <2>4, <2>5 DEF Erasing, EraseInv, IsEntry, IsErase
  <1>9. CASE ~ (HasDisk /\ disk.fat /\ hits # {})
    <2>1. pending' = << >>
      BY <1>1, <1>7, <1>9
    <2>2. erased' = erased \/ (hits = {} /\ erased' = erased \cup {Short[n]})
      BY <1>1, <1>9
    <2>3. hits = {} => ~ Named(disk.dir, Short[n])
      BY <1>6 DEF Named
    <2>4. ~ torn' => \A m \in erased' : ~ Named(disk'.dir, m)
      BY <1>1, <1>2, <2>2, <2>3
    <2>5. \A i \in DOMAIN pending' : pending'[i].op # "entry" /\ pending'[i].op # "erase"
      BY <2>1
    <2> QED BY <2>4, <2>5, PlainQueue DEF Erasing
  <1> QED BY <1>8, <1>9

(* An install has no entries and no marks of its own. *)
LEMMA InstallErasing ==
    ASSUME IInv, Erasing, SysInstallOs
    PROVE  Erasing'
  <1> DEFINE q == InstallWrites
  <1>1. pending' = q /\ UNCHANGED << disk, erased, torn >>
    BY DEF SysInstallOs
  <1>2. PICK k \in Nat \ {0} : \A i \in DOMAIN q :
            /\ i = 1 => q[i].op = "gpt"
            /\ i > 1 /\ i <= k => (q[i].op \in {"bpb", "dir"} /\ fs_base) \/ q[i].op = "data"
            /\ i > k => q[i].op = "flush"
    BY InstallFacts
  <1>3. q \in Seq(Write) /\ DOMAIN q = 1 .. Len(q) /\ Len(q) \in Nat
    BY InstallFacts
  <1> HIDE DEF q
  <1>4. ASSUME NEW i \in DOMAIN q PROVE q[i].op # "entry" /\ q[i].op # "erase"
    <2>1. i = 1 \/ (i > 1 /\ i <= k) \/ i > k
      BY <1>2, <1>3
    <2> QED BY <1>2, <2>1
  <1>5. ~ torn' => \A m \in erased' : ~ Named(disk'.dir, m)
    BY <1>1 DEF Erasing, EraseInv
  <1> QED BY <1>1, <1>4, <1>5, PlainQueue DEF Erasing

(* A file that is flushed is no longer an erased one. *)
LEMMA BeginFlushErasing ==
    ASSUME IInv, Erasing, BeginFlush
    PROVE  Erasing'
  <1> DEFINE n == Head(pending).file.name
             data == Head(pending).file.data
             rest == Tail(pending)
             q == FlushWrites(disk, n, data) \o rest
  <1>1. /\ pending # << >> /\ Head(pending).op = "flush"
        /\ pending' = q /\ erased' = erased \ {Short[n]} /\ UNCHANGED << disk, torn >>
    BY DEF BeginFlush, Idle
  <1>2. /\ rest \in Seq(Write) /\ n \in Names /\ data \in Roomy
        /\ \A i \in DOMAIN rest : rest[i].op = "flush"
    BY <1>1, FlushHead
  <1>3. disk \in Disk
    BY DEF IInv, DiskInv
  <1>4. ~ torn' => \A m \in erased' : ~ Named(disk'.dir, m)
    BY <1>1 DEF Erasing, EraseInv
  <1> HIDE DEF n, data, rest
  <1>5. CASE ~ CanFlush(disk, n)
    <2>1. q = rest
      BY <1>2, <1>5, ConcatEmptySeq DEF FlushWrites
    <2>2. \A i \in DOMAIN pending' : pending'[i].op # "entry" /\ pending'[i].op # "erase"
      BY <1>1, <1>2, <2>1
    <2> QED BY <1>4, <2>2, PlainQueue DEF Erasing
  <1>6. CASE CanFlush(disk, n)
    <2> DEFINE K == Span(data)
    <2>1. FlushQueue(q, disk, n, data, rest)
      BY <1>2, <1>3, <1>6, FlushWritesFacts
    <2> HIDE DEF q
    <2>2. /\ K \in Nat \ {0} /\ DOMAIN q = 1 .. K + 1 + Len(rest)
          /\ \A j \in 1 .. K : q[j] = DataWrite(USER_CLUSTER + j - 1, Block(data, j))
          /\ q[K + 1].op = "entry"
          /\ q[K + 1].entry = [name |-> Short[n], cluster |-> USER_CLUSTER, size |-> Len(data)]
          /\ \A j \in K + 2 .. K + 1 + Len(rest) : j - K - 1 \in DOMAIN rest /\ q[j] = rest[j - K - 1]
      BY <2>1 DEF FlushQueue
    <2> HIDE DEF K
    <2>3. Len(rest) \in Nat
      BY <1>2
    <2>4. \A i \in DOMAIN q : i \in 1 .. K \/ i = K + 1 \/ i \in K + 2 .. K + 1 + Len(rest)
      BY <2>2, <2>3
    <2>5. \A i \in 1 .. K : q[i].op = "data"
      <3>1. \A c, b : DataWrite(c, b).op = "data"
        BY DEF DataWrite
      <3> QED BY <2>2, <3>1
    <2>6. q[K + 1].entry.name = Short[n]
      BY <2>2
    <2>7. ASSUME NEW i \in DOMAIN q
          PROVE  ~ IsErase(q[i]) /\ (IsEntry(q[i]) => q[i].entry.name = Short[n])
      <3>1. CASE i \in 1 .. K
        BY <2>5, <3>1 DEF IsEntry, IsErase
      <3>2. CASE i = K + 1
        BY <2>2, <2>6, <3>2 DEF IsErase
      <3>3. CASE i \in K + 2 .. K + 1 + Len(rest)
        BY <1>2, <2>2, <3>3 DEF IsEntry, IsErase
      <3> QED BY <2>4, <3>1, <3>2, <3>3
    <2>8. \A i \in DOMAIN pending' : IsEntry(pending'[i]) => pending'[i].entry.name \notin erased'
      BY <1>1, <2>7
    <2>9. \A i \in DOMAIN pending' : ~ IsErase(pending'[i])
      BY <1>1, <2>7
    <2> QED BY <1>4, <2>8, <2>9 DEF Erasing, EraseInv
  <1> QED BY <1>5, <1>6

(* A sector reaches the disk. *)
LEMMA SectorErasing ==
    ASSUME IInv, Erasing, SectorWritten
    PROVE  Erasing'
  <1> DEFINE w == pending[1]
  <1>1. /\ pending # << >> /\ w \in Write /\ 1 \in DOMAIN pending /\ w.op # "flush" /\ Head(pending) = w
        /\ disk' = Stored(disk, w) /\ pending' = Tail(pending) /\ disk \in Disk
        /\ QueueInv(pending, disk, flushed, fs_base) /\ DiskInv(disk, torn)
    BY SectorFacts
  <1>2. w.op \in {"gpt", "bpb", "dir", "data", "entry", "erase"}
    BY <1>1, WriteFacts
  <1>3. /\ erased' = CASE w.op = "erase" -> erased \cup {w.name}
                        [] w.op = "dir" -> {}
                        [] OTHER -> erased
        /\ torn' = IF w.op = "dir" THEN disk'.dir # VolumeDir ELSE torn
    BY <1>1 DEF SectorWritten
  <1>4. pending \in Seq(Write) /\ pending' \in Seq(Write)
    BY <1>1, TailFacts DEF QueueInv
  <1>5. EraseInv(disk, pending', erased, torn)
    BY <1>1, <1>4, TailErasing DEF Erasing
  <1>6. IsEntry(w) \/ IsErase(w) => \A i \in DOMAIN pending' : pending'[i].op = "flush"
    BY <1>1, EntryHead
  <1>7. disk.dir \in [Slots -> RoomyEntry]
    BY <1>1, DiskFacts
  <1>8. CASE w.op \in {"gpt", "bpb", "data"}
    <2>1. erased' = erased /\ torn' = torn
      BY <1>3, <1>8
    <2> HIDE DEF w
    <2>2. \/ disk' = [disk EXCEPT !.gpt = TRUE] \/ disk' = [disk EXCEPT !.fat = TRUE]
          \/ disk' = [disk EXCEPT !.data[w.cluster] = w.block]
      BY <1>1, <1>8 DEF Stored
    <2>3. disk'.dir = disk.dir
      BY <1>1, <2>2 DEF Disk
    <2> QED BY <1>5, <2>1, <2>3 DEF Erasing, EraseInv
  <1>9. CASE w.op = "dir"
    <2>1. erased' = {}
      BY <1>3, <1>9
    <2>2. \A i \in DOMAIN pending : ~ IsEntry(pending[i]) /\ ~ IsErase(pending[i])
      <3> SUFFICES ASSUME NEW i \in DOMAIN pending, IsEntry(pending[i]) \/ IsErase(pending[i]) PROVE FALSE
        OBVIOUS
      <3>1. i = 1 \/ 1 < i
        BY <1>4
      <3>2. ~ (1 < i)
        BY <1>1, <1>9 DEF QueueInv
      <3> QED BY <1>9, <3>1, <3>2 DEF IsEntry, IsErase
    <2>3. \A i \in DOMAIN pending' : i + 1 \in DOMAIN pending /\ pending'[i] = pending[i + 1]
      BY <1>1, <1>4, TailFacts
    <2>4. \A i \in DOMAIN pending' : ~ IsEntry(pending'[i]) /\ ~ IsErase(pending'[i])
      BY <2>2, <2>3
    <2> QED BY <2>1, <2>4 DEF Erasing, EraseInv
  <1>10. CASE w.op = "entry"
    <2> DEFINE e == w.entry
               s == w.slot
    <2>1. disk' = [disk EXCEPT !.dir[s] = e]
      BY <1>1, <1>10 DEF Stored
    <2>2. e \in RoomyEntry /\ IsFile(e)
      BY <1>1, <1>10, WriteFacts DEF IsEntry
    <2>3. SlotFor(disk.dir, e.name) = {s} /\ e.name \notin erased
      BY <1>1, <1>10 DEF QueueInv, Erasing, EraseInv, IsEntry
    <2>4. erased' = erased /\ torn' = torn /\ \A i \in DOMAIN pending' : pending'[i].op = "flush"
      BY <1>3, <1>6, <1>10 DEF IsEntry
    <2> HIDE DEF e, s
    <2>5. disk'.dir = [disk.dir EXCEPT ![s] = e]
      BY <1>1, <2>1 DEF Disk
    <2>6. \A m \in Names : m # e.name => (Named(disk'.dir, m) <=> Named(disk.dir, m))
      BY <1>7, <2>2, <2>3, <2>5, PutFacts
    <2>7. erased \subseteq Names
      BY DEF IInv
    <2>8. ~ torn' => \A m \in erased' : ~ Named(disk'.dir, m)
      BY <1>5, <2>3, <2>4, <2>6, <2>7 DEF EraseInv
    <2> QED BY <2>4, <2>8, PlainQueue DEF Erasing
  <1>11. CASE w.op = "erase"
    <2> DEFINE s == w.slot
    <2>1. disk' = [disk EXCEPT !.dir[s] = Gone]
      BY <1>1, <1>11 DEF Stored
    <2>2. s \in Slots /\ IsFile(disk.dir[s]) /\ disk.dir[s].name = w.name
      BY <1>1, <1>11, WriteFacts DEF QueueInv, Erasing, EraseInv, IsErase
    <2>3. /\ erased' = erased \cup {w.name} /\ torn' = torn
          /\ \A i \in DOMAIN pending' : pending'[i].op = "flush"
      BY <1>3, <1>6, <1>11 DEF IsErase
    <2> HIDE DEF w, s
    <2>4. disk'.dir = [disk.dir EXCEPT ![s] = Gone]
      BY <1>1, <2>1 DEF Disk
    <2>5. Sound(disk.dir) => ~ Named(disk'.dir, disk.dir[s].name)
      BY <1>7, <2>2, <2>4, EraseFacts
    <2>6. \A i \in Slots : IsFile(disk'.dir[i]) => disk'.dir[i] = disk.dir[i]
      BY <1>7, <2>2, <2>4, EraseFacts
    <2>7. \A m \in Names : Named(disk'.dir, m) => Named(disk.dir, m)
      BY <2>6 DEF Named, IsFile
    <2>8. erased \subseteq Names /\ (~ torn => Sound(disk.dir))
      BY DEF IInv, DiskInv
    <2>9. ~ torn' => \A m \in erased' : ~ Named(disk'.dir, m)
      BY <1>5, <2>2, <2>3, <2>5, <2>7, <2>8 DEF EraseInv
    <2> QED BY <2>3, <2>9, PlainQueue DEF Erasing
  <1> QED BY <1>2, <1>8, <1>9, <1>10, <1>11

(* A sector does not reach the disk, or the power goes off. *)
LEMMA FailsErasing ==
    ASSUME IInv, Erasing, SectorFails
    PROVE  Erasing'
  <1>1. pending # << >> /\ erased' = erased /\ torn \in BOOLEAN /\ torn' \in BOOLEAN /\ (torn => torn')
    BY DEF SectorFails, Idle, IInv, DiskInv
  <1>2. pending \in Seq(Write) /\ disk \in Disk
    BY DEF IInv, QueueInv, DiskInv
  <1>3. /\ pending' = << >> \/ pending' = Tail(pending)
        /\ disk' = disk \/ disk' = [disk EXCEPT !.gpt = TRUE]
    BY DEF SectorFails, Stored
  <1>4. disk'.dir = disk.dir
    BY <1>2, <1>3 DEF Disk
  <1>5. EraseInv(disk, pending', erased, torn)
    <2>1. EraseInv(disk, << >>, erased, torn)
      BY DEF Erasing, EraseInv
    <2>2. EraseInv(disk, Tail(pending), erased, torn)
      BY <1>1, <1>2, TailErasing DEF Erasing
    <2> QED BY <1>3, <2>1, <2>2
  <1> QED BY <1>1, <1>4, <1>5 DEF Erasing, EraseInv

LEMMA RebootErasing ==
    ASSUME IInv, Erasing, Reboot
    PROVE  Erasing'
  <1>1. pending' = << >> /\ disk' = disk /\ erased' = erased /\ torn' = torn
    BY DEF Reboot
  <1> QED BY <1>1 DEF Erasing, EraseInv

(* Every step keeps the erased files away, while delete_file's scan covers *)
(* the files of the directory.                                             *)
LEMMA NextErasing ==
    ASSUME IInv, Erasing, FilesWithinScan, NoPrefixes, [Next]_vars
    PROVE  Erasing'
  <1>1. CASE UNCHANGED vars
    BY <1>1 DEF Erasing, vars
  <1>2. CASE Next
    <2>1. ASSUME NEW p \in Procs, NEW n \in Names, SysOpenRead(p, n) \/ SysOpenWrite(p, n)
          PROVE  Erasing'
      BY <2>1, SameErasing DEF SysOpenRead, SysOpenWrite
    <2>2. ASSUME NEW p \in Procs, NEW fd \in Fds, SysRead(p, fd) PROVE Erasing'
      BY <2>2, SameErasing DEF SysRead
    <2>3. ASSUME NEW p \in Procs, NEW fd \in Fds, SysClose(p, fd) PROVE Erasing'
      BY <2>3, CloseErasing
    <2>4. ASSUME NEW p \in Procs, NEW fd \in Fds, NEW b \in Blocks, SysWriteFile(p, fd, b)
          PROVE  Erasing'
      BY <2>4, SameErasing DEF SysWriteFile
    <2>5. ASSUME NEW p \in Procs, ProcessExits(p) PROVE Erasing'
      BY <2>5, SameErasing DEF ProcessExits
    <2>6. ASSUME NEW n \in Names, SysUnlink(n) PROVE Erasing'
      BY <2>6, UnlinkErasing
    <2>7. CASE SysInstallOs
      BY <2>7, InstallErasing
    <2>8. CASE BeginFlush
      BY <2>8, BeginFlushErasing
    <2>9. CASE SectorWritten \/ SectorFails
      BY <2>9, SectorErasing, FailsErasing
    <2>10. CASE Reboot
      BY <2>10, RebootErasing
    <2> QED BY <1>2, <2>1, <2>2, <2>3, <2>4, <2>5, <2>6, <2>7, <2>8, <2>9, <2>10 DEF Next
  <1> QED BY <1>1, <1>2

(* A file that SYS_UNLINK was asked to delete is off the disk once the     *)
(* call's sector write succeeded, or at once if the disk did not have it,  *)
(* and stays away over any number of boots until it is written again or    *)
(* the disk is installed anew, where no base name is a prefix of another   *)
(* and as long as every file of the directory lies within the entries      *)
(* delete_file scans (fat32.rs looks at 64 of up to 224 and takes a prefix *)
(* for a match; it enforces neither).                                      *)
THEOREM ErasedFilesStayAway ==
    ASSUME NoPrefixes
    PROVE  Spec /\ []FilesWithinScan => []ErasedStaysAway
  <1>1. Init => Erasing
    BY DEF Init, Erasing, EraseInv
  <1>2. IInv /\ Erasing /\ FilesWithinScan /\ [Next]_vars => Erasing'
    BY NextErasing
  <1>3. ASSUME IInv, Erasing PROVE ErasedStaysAway
    <2> SUFFICES ASSUME ~ torn, NEW n \in erased PROVE ReadDisk(disk, n) = NoFile
      BY DEF ErasedStaysAway
    <2>1. disk \in Disk /\ n \in Names /\ ~ Named(disk.dir, n)
      BY <1>3 DEF IInv, DiskInv, Erasing, EraseInv
    <2> QED BY <2>1, ReadDiskFacts
  <1> QED BY <1>1, <1>2, <1>3, SpecIInv, PTL DEF Spec

-----------------------------------------------------------------------------
(* The listing.  Where every name is an 8.3 name, what lies on the disk is *)
(* in the overlay, deleted or on the boot volume, unless an install was    *)
(* left half done.                                                         *)

DirListed(d, ov, del, base) ==
    /\ ~ d.fat => \A i \in Slots : IsFile(d.dir[i]) => Named(VolumeDir, d.dir[i].name)
    /\ HasDisk /\ d.fat => \A i \in Slots : IsFile(d.dir[i]) =>
          \/ InOverlay(ov, d.dir[i].name) \/ d.dir[i].name \in del
          \/ base /\ Named(VolumeDir, d.dir[i].name)

QueueListed(q, ov) ==
    \A i \in DOMAIN q : /\ q[i].op = "flush" => InOverlay(ov, q[i].file.name)
                        /\ IsEntry(q[i]) => InOverlay(ov, q[i].entry.name)

ListInv ==
    /\ ~ torn => DirListed(disk, overlay, deleted, fs_base)
    /\ QueueListed(pending, overlay)

(* Nothing that the listing depends on changes. *)
LEMMA SameListInv ==
    ASSUME ListInv, UNCHANGED << fs_base, overlay, deleted, session, disk_vars >>
    PROVE  ListInv'
  BY DEF ListInv, disk_vars

(* A file that was written is in the overlay. *)
LEMMA CloseListInv ==
    ASSUME IInv, ListInv, NEW p \in Procs, NEW fd \in Fds, SysClose(p, fd)
    PROVE  ListInv'
  <1>1. CASE ~ fds[p][fd].writable
    BY <1>1, SameListInv DEF SysClose
  <1>2. CASE fds[p][fd].writable
    <2> DEFINE n == fds[p][fd].name
               data == fds[p][fd].data
               w == [op |-> "flush", file |-> [name |-> n, data |-> data]]
    <2>1. n \in Names /\ data \in Roomy
      BY FdFacts DEF SysClose
    <2>2. /\ deleted' = deleted \ {n} /\ overlay' = Upserted(overlay, n, data)
          /\ pending' = << w >> /\ fs_base' = fs_base /\ disk' = disk /\ torn' = torn
      BY <1>2 DEF SysClose, WriteFile
    <2> HIDE DEF n, data
    <2>3. /\ \E i \in DOMAIN overlay' : overlay'[i] = [name |-> n, data |-> data]
          /\ \A f : f.name # n => ((\E i \in DOMAIN overlay' : overlay'[i] = f)
                                      <=> (\E i \in DOMAIN overlay : overlay[i] = f))
      BY <2>1, <2>2, UpsertedFacts DEF IInv
    <2>4. InOverlay(overlay', n)
      BY <2>3 DEF InOverlay
    <2>5. \A m : InOverlay(overlay, m) => InOverlay(overlay', m)
      <3> SUFFICES ASSUME NEW m, InOverlay(overlay, m), m # n PROVE InOverlay(overlay', m)
        BY <2>4
      <3>1. PICK i \in DOMAIN overlay : overlay[i].name = m
        BY DEF InOverlay
      <3>2. PICK j \in DOMAIN overlay' : overlay'[j] = overlay[i]
        BY <2>3, <3>1
      <3> QED BY <3>1, <3>2 DEF InOverlay
    <2>6. ~ torn' => DirListed(disk', overlay', deleted', fs_base')
      BY <2>2, <2>4, <2>5 DEF ListInv, DirListed
    <2>7. w.op = "flush" /\ w.file.name = n
      OBVIOUS
    <2> HIDE DEF w
    <2>8. \A i \in DOMAIN pending' : pending'[i] = w
      BY <2>2
    <2>9. QueueListed(pending', overlay')
      BY <2>4, <2>7, <2>8 DEF QueueListed, IsEntry
    <2> QED BY <2>6, <2>9 DEF ListInv
  <1> QED BY <1>1, <1>2

(* A file that was unlinked is deleted. *)
LEMMA UnlinkListInv ==
    ASSUME IInv, ListInv, NEW n \in Names, SysUnlink(n)
    PROVE  ListInv'
  <1>1. /\ overlay' = Without(overlay, n) /\ deleted' = deleted \cup {n}
        /\ pending' = UnlinkWrites(disk, n) /\ fs_base' = fs_base /\ disk' = disk /\ torn' = torn
    BY DEF SysUnlink
  <1>2. \A f : (\E k \in DOMAIN overlay' : overlay'[k] = f)
                  <=> (\E i \in DOMAIN overlay : overlay[i] = f /\ f.name # n)
    BY <1>1, WithoutFacts DEF IInv
  <1>3. \A m : InOverlay(overlay, m) /\ m # n => InOverlay(overlay', m)
    <2> SUFFICES ASSUME NEW m, InOverlay(overlay, m), m # n PROVE InOverlay(overlay', m)
      OBVIOUS
    <2>1. PICK i \in DOMAIN overlay : overlay[i].name = m
      BY DEF InOverlay
    <2>2. PICK j \in DOMAIN overlay' : overlay'[j] = overlay[i]
      BY <1>2, <2>1
    <2> QED BY <2>1, <2>2 DEF InOverlay
  <1>4. ~ torn' => DirListed(disk', overlay', deleted', fs_base')
    BY <1>1, <1>3 DEF ListInv, DirListed
  <1>5. \A i \in DOMAIN pending' : pending'[i].op = "erase"
    <2>1. CASE pending' = << >>
      BY <2>1
    <2>2. CASE pending' # << >>
      <3>1. PICK s : pending' = << EraseWrite(s, n) >>
        BY <1>1, <2>2 DEF UnlinkWrites
      <3> QED BY <3>1 DEF EraseWrite
    <2> QED BY <2>1, <2>2
  <1>6. QueueListed(pending', overlay')
    BY <1>5 DEF QueueListed, IsEntry
  <1> QED BY <1>4, <1>6 DEF ListInv

(* An install flushes the overlay's files. *)
LEMMA InstallListInv ==
    ASSUME IInv, ListInv, SysInstallOs
    PROVE  ListInv'
  <1> DEFINE q == InstallWrites
  <1>1. pending' = q /\ UNCHANGED << fs_base, overlay, deleted, disk, torn >>
    BY DEF SysInstallOs
  <1>2. PICK k \in Nat \ {0} : \A i \in DOMAIN q :
            /\ i = 1 => q[i].op = "gpt"
            /\ i > 1 /\ i <= k => (q[i].op \in {"bpb", "dir"} /\ fs_base) \/ q[i].op = "data"
            /\ i > k => q[i].op = "flush" /\ \E j \in DOMAIN overlay : q[i].file = overlay[j]
    BY InstallFacts
  <1>3. q \in Seq(Write) /\ DOMAIN q = 1 .. Len(q) /\ Len(q) \in Nat
    BY InstallFacts
  <1> HIDE DEF q
  <1>4. ASSUME NEW i \in DOMAIN q
        PROVE  q[i].op # "entry" /\ (q[i].op = "flush" => InOverlay(overlay, q[i].file.name))
    <2>1. i = 1 \/ (i > 1 /\ i <= k) \/ i > k
      BY <1>2, <1>3
    <2> QED BY <1>2, <2>1 DEF InOverlay
  <1>5. QueueListed(q, overlay)
    BY <1>4 DEF QueueListed, IsEntry
  <1> QED BY <1>1, <1>5 DEF ListInv

(* The head of the queue is done with. *)
LEMMA TailListed ==
    ASSUME NEW q \in Seq(Write), q # << >>, NEW ov, QueueListed(q, ov)
    PROVE  QueueListed(Tail(q), ov)
  <1>1. \A i \in DOMAIN Tail(q) : i + 1 \in DOMAIN q /\ Tail(q)[i] = q[i + 1]
    BY TailFacts
  <1> QED BY <1>1 DEF QueueListed

(* The entry that a flush will write is that of an overlay file. *)
LEMMA BeginFlushListInv ==
    ASSUME IInv, ListInv, BeginFlush, \A m \in Names : Short[m] = m
    PROVE  ListInv'
  <1> DEFINE n == Head(pending).file.name
             data == Head(pending).file.data
             rest == Tail(pending)
             q == FlushWrites(disk, n, data) \o rest
  <1>1. /\ pending # << >> /\ Head(pending).op = "flush"
        /\ pending' = q /\ UNCHANGED << fs_base, overlay, deleted, disk, torn >>
    BY DEF BeginFlush, Idle
  <1>2. rest \in Seq(Write) /\ n \in Names /\ data \in Roomy
    BY <1>1, FlushHead
  <1>3. pending \in Seq(Write) /\ disk \in Disk
    BY DEF IInv, QueueInv, DiskInv
  <1>4. Head(pending) = pending[1] /\ 1 \in DOMAIN pending
    BY <1>1, <1>3, TailFacts
  <1>5. InOverlay(overlay, n)
    BY <1>1, <1>4 DEF ListInv, QueueListed
  <1>6. QueueListed(rest, overlay)
    BY <1>1, <1>3, TailListed DEF ListInv
  <1> HIDE DEF n, data, rest
  <1>7. CASE ~ CanFlush(disk, n)
    <2>1. q = rest
      BY <1>2, <1>7, ConcatEmptySeq DEF FlushWrites
    <2> QED BY <1>1, <1>6, <2>1 DEF ListInv
  <1>8. CASE CanFlush(disk, n)
    <2> DEFINE K == Span(data)
    <2>1. FlushQueue(q, disk, n, data, rest)
      BY <1>2, <1>3, <1>8, FlushWritesFacts
    <2> HIDE DEF q
    <2>2. /\ K \in Nat \ {0} /\ DOMAIN q = 1 .. K + 1 + Len(rest)
          /\ \A j \in 1 .. K : q[j] = DataWrite(USER_CLUSTER + j - 1, Block(data, j))
          /\ q[K + 1].op = "entry"
          /\ q[K + 1].entry = [name |-> Short[n], cluster |-> USER_CLUSTER, size |-> Len(data)]
          /\ \A j \in K + 2 .. K + 1 + Len(rest) : j - K - 1 \in DOMAIN rest /\ q[j] = rest[j - K - 1]
      BY <2>1 DEF FlushQueue
    <2> HIDE DEF K
    <2>3. Len(rest) \in Nat
      BY <1>2
    <2>4. \A i \in DOMAIN q : i \in 1 .. K \/ i = K + 1 \/ i \in K + 2 .. K + 1 + Len(rest)
      BY <2>2, <2>3
    <2>5. \A i \in 1 .. K : q[i].op = "data"
      <3>1. \A c, b : DataWrite(c, b).op = "data"
        BY DEF DataWrite
      <3> QED BY <2>2, <3>1
    <2>6. q[K + 1].entry.name = n
      <3>1. Short[n] = n
        BY <1>2
      <3> QED BY <2>2, <3>1
    <2>7. ASSUME NEW i \in DOMAIN q
          PROVE  /\ q[i].op = "flush" => InOverlay(overlay, q[i].file.name)
                 /\ IsEntry(q[i]) => InOverlay(overlay, q[i].entry.name)
      <3>1. CASE i \in 1 .. K
        BY <2>5, <3>1 DEF IsEntry
      <3>2. CASE i = K + 1
        BY <1>5, <2>2, <2>6, <3>2
      <3>3. CASE i \in K + 2 .. K + 1 + Len(rest)
        BY <1>6, <2>2, <3>3 DEF QueueListed
      <3> QED BY <2>4, <3>1, <3>2, <3>3
    <2>8. QueueListed(q, overlay)
      BY <2>7 DEF QueueListed
    <2> QED BY <1>1, <2>8 DEF ListInv
  <1> QED BY <1>7, <1>8

(* A sector reaches the disk: what comes into the directory is listed. *)
LEMMA SectorListInv ==
    ASSUME IInv, ListInv, SectorWritten
    PROVE  ListInv'
  <1> DEFINE w == pending[1]
  <1>1. /\ pending # << >> /\ w \in Write /\ 1 \in DOMAIN pending /\ w.op # "flush"
        /\ disk' = Stored(disk, w) /\ pending' = Tail(pending)
        /\ QueueInv(pending, disk, flushed, fs_base)
        /\ disk \in Disk /\ Head(pending) = w
        /\ UNCHANGED << fs_base, overlay, deleted >>
    BY SectorFacts
  <1>2. /\ w.op \in {"gpt", "bpb", "dir", "data", "entry", "erase"}
        /\ torn' = IF w.op = "dir" THEN disk'.dir # VolumeDir ELSE torn
    BY <1>1, WriteFacts DEF SectorWritten
  <1>3. QueueListed(pending', overlay')
    <2>1. pending \in Seq(Write)
      BY <1>1 DEF QueueInv
    <2> QED BY <1>1, <2>1, TailListed DEF ListInv
  <1>4. ~ torn => DirListed(disk, overlay, deleted, fs_base)
    BY DEF ListInv
  <1>5. w.op \in {"bpb", "dir"} => fs_base
    BY <1>1 DEF QueueInv
  <1>6. IsEntry(w) => /\ SlotFor(disk.dir, w.entry.name) = {w.slot} /\ HasDisk /\ disk.fat
                      /\ InOverlay(overlay, w.entry.name)
    BY <1>1 DEF QueueInv, ListInv, QueueListed, IsEntry
  <1>7. IsErase(w) => IsFile(disk.dir[w.slot])
    BY <1>1 DEF QueueInv
  <1>8. /\ IsEntry(w) => w.slot \in Slots /\ w.entry \in RoomyEntry /\ IsFile(w.entry)
        /\ IsErase(w) => w.slot \in Slots
    BY <1>1, WriteFacts
  <1> HIDE DEF w
  <1>9. ASSUME ~ torn' PROVE DirListed(disk', overlay', deleted', fs_base')
    <2>0. w.op # "dir" => DirListed(disk, overlay, deleted, fs_base)
      BY <1>2, <1>4, <1>9
    <2>1. CASE w.op \in {"gpt", "data"}
      <3>1. disk' = [disk EXCEPT !.gpt = TRUE] \/ disk' = [disk EXCEPT !.data[w.cluster] = w.block]
        BY <1>1, <2>1 DEF Stored
      <3>2. disk'.fat = disk.fat /\ disk'.dir = disk.dir
        BY <1>1, <3>1 DEF Disk
      <3> QED BY <1>1, <2>0, <2>1, <3>2 DEF DirListed
    <2>2. CASE w.op = "bpb"
      <3>1. disk' = [disk EXCEPT !.fat = TRUE]
        BY <1>1, <2>2 DEF Stored
      <3>2. disk'.fat = TRUE /\ disk'.dir = disk.dir
        BY <1>1, <3>1 DEF Disk
      <3> QED BY <1>1, <1>5, <2>0, <2>2, <3>2 DEF DirListed
    <2>3. CASE w.op = "dir"
      <3>1. disk'.dir = VolumeDir
        BY <1>2, <1>9, <2>3
      <3> QED BY <1>1, <1>5, <2>3, <3>1 DEF DirListed, Named
    <2>4. CASE IsEntry(w)
      <3> DEFINE e == w.entry
                 s == w.slot
      <3>1. disk' = [disk EXCEPT !.dir[s] = e]
        BY <1>1, <2>4 DEF Stored, IsEntry
      <3> HIDE DEF e, s
      <3>2. disk'.fat = disk.fat /\ disk'.dir = [disk.dir EXCEPT ![s] = e]
        BY <1>1, <3>1 DEF Disk
      <3>3. e \in RoomyEntry /\ IsFile(e) /\ SlotFor(disk.dir, e.name) = {s}
        BY <1>6, <1>8, <2>4 DEF e, s, IsEntry
      <3>4. disk.dir \in [Slots -> RoomyEntry]
        BY <1>1, DiskFacts
      <3>5. \A i \in Slots : IsFile(disk'.dir[i]) => disk'.dir[i].name = e.name \/ disk'.dir[i] = disk.dir[i]
        BY <1>1, <3>2, <3>3, <3>4, PutFacts
      <3>6. InOverlay(overlay, e.name) /\ disk'.fat
        BY <1>6, <2>4, <3>2 DEF e
      <3> QED BY <1>1, <2>0, <2>4, <3>2, <3>5, <3>6 DEF DirListed, IsEntry
    <2>5. CASE IsErase(w)
      <3>1. disk' = [disk EXCEPT !.dir[w.slot] = Gone]
        BY <1>1, <2>5 DEF Stored, IsErase
      <3>2. disk'.fat = disk.fat /\ disk'.dir = [disk.dir EXCEPT ![w.slot] = Gone]
        BY <1>1, <3>1 DEF Disk
      <3>3. disk.dir \in [Slots -> RoomyEntry]
        BY <1>1, DiskFacts
      <3>4. \A i \in Slots : IsFile(disk'.dir[i]) => disk'.dir[i] = disk.dir[i]
        BY <3>2, <3>3, MarkFacts
      <3> QED BY <1>1, <2>0, <2>5, <3>2, <3>4 DEF DirListed, IsErase
    <2> QED BY <1>2, <2>1, <2>2, <2>3, <2>4, <2>5 DEF IsEntry, IsErase
  <1> QED BY <1>3, <1>9 DEF ListInv

(* A sector does not reach the disk. *)
LEMMA FailsListInv ==
    ASSUME IInv, ListInv, SectorFails
    PROVE  ListInv'
  <1>1. pending # << >> /\ (torn => torn') /\ UNCHANGED << fs_base, overlay, deleted >>
    BY DEF SectorFails, Idle
  <1>2. pending \in Seq(Write) /\ disk \in Disk
    BY DEF IInv, QueueInv, DiskInv
  <1>3. /\ pending' = << >> \/ pending' = Tail(pending)
        /\ disk' = disk \/ disk' = [disk EXCEPT !.gpt = TRUE]
    BY DEF SectorFails, Stored
  <1>4. disk'.fat = disk.fat /\ disk'.dir = disk.dir
    BY <1>2, <1>3 DEF Disk
  <1>5. QueueListed(pending', overlay)
    <2>1. QueueListed(<< >>, overlay)
      BY DEF QueueListed
    <2> QED BY <1>1, <1>2, <1>3, <2>1, TailListed DEF ListInv
  <1> QED BY <1>1, <1>4, <1>5 DEF ListInv, DirListed

(* A boot recovers what the disk's directory holds. *)
LEMMA RebootListInv ==
    ASSUME IInv, ListInv, Reboot
    PROVE  ListInv'
  <1>1. /\ pending' = << >> /\ disk' = disk /\ torn' = torn
        /\ overlay' = IF HasDisk /\ disk.gpt /\ disk.fat THEN Recovered(disk) ELSE << >>
    BY DEF Reboot
  <1>2. disk \in Disk /\ (~ torn => Sound(disk.dir)) /\ (disk.fat => disk.gpt)
    BY DEF IInv, DiskInv
  <1>3. ASSUME ~ torn, HasDisk, disk.fat, NEW i \in Slots, IsFile(disk.dir[i])
        PROVE  InOverlay(overlay', disk.dir[i].name)
    <2>1. overlay' = Recovered(disk)
      BY <1>1, <1>2, <1>3
    <2>2. disk.dir \in [Slots -> RoomyEntry]
      BY <1>2, DiskFacts
    <2>3. i \in Scanned(disk.dir)
      BY <1>2, <1>3, <2>2, SoundFacts
    <2>4. \E k \in DOMAIN Recovered(disk) : Recovered(disk)[k].name = disk.dir[i].name
      BY <1>2, <1>3, <2>3, RecoveredFacts
    <2> QED BY <2>1, <2>4 DEF InOverlay
  <1>4. ~ torn' => DirListed(disk', overlay', deleted', fs_base')
    BY <1>1, <1>3 DEF ListInv, DirListed
  <1> QED BY <1>1, <1>4 DEF ListInv, QueueListed

(* Every step keeps the listing in order. *)
LEMMA NextListInv ==
    ASSUME IInv, ListInv, [Next]_vars, \A m \in Names : Short[m] = m
    PROVE  ListInv'
  <1>1. CASE UNCHANGED vars
    BY <1>1 DEF ListInv, vars
  <1>2. CASE Next
    <2>1. ASSUME NEW p \in Procs, NEW n \in Names, SysOpenRead(p, n) \/ SysOpenWrite(p, n)
          PROVE  ListInv'
      BY <2>1, SameListInv DEF SysOpenRead, SysOpenWrite
    <2>2. ASSUME NEW p \in Procs, NEW fd \in Fds, SysRead(p, fd) PROVE ListInv'
      BY <2>2, SameListInv DEF SysRead
    <2>3. ASSUME NEW p \in Procs, NEW fd \in Fds, SysClose(p, fd) PROVE ListInv'
      BY <2>3, CloseListInv
    <2>4. ASSUME NEW p \in Procs, NEW fd \in Fds, NEW b \in Blocks, SysWriteFile(p, fd, b)
          PROVE  ListInv'
      BY <2>4, SameListInv DEF SysWriteFile
    <2>5. ASSUME NEW p \in Procs, ProcessExits(p) PROVE ListInv'
      BY <2>5, SameListInv DEF ProcessExits
    <2>6. ASSUME NEW n \in Names, SysUnlink(n) PROVE ListInv'
      BY <2>6, UnlinkListInv
    <2>7. CASE SysInstallOs
      BY <2>7, InstallListInv
    <2>8. CASE BeginFlush
      BY <2>8, BeginFlushListInv
    <2>9. CASE SectorWritten \/ SectorFails
      BY <2>9, SectorListInv, FailsListInv
    <2>10. CASE Reboot
      BY <2>10, RebootListInv
    <2> QED BY <1>2, <2>1, <2>2, <2>3, <2>4, <2>5, <2>6, <2>7, <2>8, <2>9, <2>10 DEF Next
  <1> QED BY <1>1, <1>2

(* The names a scan of a sound directory lists. *)
LEMMA DirNamesFacts ==
    ASSUME NEW dir \in [Slots -> RoomyEntry], Sound(dir), NEW n \in Names
    PROVE  n \in DirNames(dir) <=> Named(dir, n)
  <1>1. \A i \in Scanned(dir) : i \in Slots
    BY ScannedFacts
  <1>2. \A i \in Slots : IsFile(dir[i]) => i \in Scanned(dir)
    BY SoundFacts
  <1> QED BY <1>1, <1>2 DEF DirNames, Named, IsFile

(* list_files shows exactly what read_file finds, where every name is an   *)
(* 8.3 name and no install was left half done.  (The disk holds any other  *)
(* name under its short one; next to the boot volume read_file finds that  *)
(* and list_files does not show it.)                                       *)
THEOREM ListingMatchesReads ==
    ASSUME \A m \in Names : Short[m] = m
    PROVE  Spec => []ListMatchesRead
  <1>1. Init => ListInv
    <2> SUFFICES ASSUME Init PROVE ListInv
      OBVIOUS
    <2>1. disk.dir = [i \in Slots |-> End] /\ pending = << >> /\ disk.fat = FALSE
      BY DEF Init, Slots
    <2>2. \A i \in Slots : ~ IsFile(disk.dir[i])
      BY <2>1, MarkFacts
    <2> QED BY <2>1, <2>2 DEF ListInv, DirListed, QueueListed
  <1>2. ASSUME IInv, ListInv PROVE ListMatchesRead
    <2> SUFFICES ASSUME ~ torn, NEW n \in Names PROVE n \in ListFiles <=> ReadFile(n) # NoFile
      BY DEF ListMatchesRead
    <2>1. /\ OverlayInv(overlay) /\ disk \in Disk /\ Sound(disk.dir) /\ (disk.fat => disk.gpt)
      BY <1>2 DEF IInv, DiskInv
    <2>2. disk.dir \in [Slots -> RoomyEntry]
      BY <2>1, DiskFacts
    <2>3. VolumeDir \in [Slots -> RoomyEntry] /\ Sound(VolumeDir)
      BY VolumeFacts, VolumeAssumption
    <2>4. n \in DirNames(VolumeDir) <=> Named(VolumeDir, n)
      BY <2>3, DirNamesFacts
    <2>5. n \in DirNames(disk.dir) <=> Named(disk.dir, n)
      BY <2>1, <2>2, DirNamesFacts
    <2>6. VolumeFile(n) # NoFile <=> fs_base /\ Named(VolumeDir, n)
      BY VolumeFacts
    <2>7. ReadDisk(disk, n) # NoFile <=> HasDisk /\ disk.fat /\ Named(disk.dir, n)
      <3>1. ReadDisk(disk, n) # NoFile => HasDisk /\ disk.fat /\ Named(disk.dir, n)
        BY <2>1, ReadDiskFacts
      <3>2. ASSUME HasDisk, disk.fat, Named(disk.dir, n) PROVE ReadDisk(disk, n) # NoFile
        <4>1. PICK i \in Slots : disk.dir[i].name = n
          BY <3>2 DEF Named
        <4>2. HasDisk /\ disk.fat /\ First(disk.dir, n, i)
          BY <2>1, <2>2, <3>2, <4>1, SoundFacts
        <4>3. ReadDisk(disk, n) \in Roomy
          BY <2>1, <4>1, <4>2, ReadDiskFacts
        <4> QED BY <4>3, RoomyFacts
      <3> QED BY <3>1, <3>2
    <2>8. InOverlay(overlay, n) => OverlayData(overlay, n) # NoFile
      <3>1. \A i \in DOMAIN overlay : OverlayData(overlay, overlay[i].name) \in Roomy
        BY <2>1, OverlayFacts
      <3> QED BY <3>1, RoomyFacts DEF InOverlay
    <2>9. ReadFile(n) # NoFile <=>
             /\ n \notin deleted
             /\ \/ InOverlay(overlay, n) \/ (fs_base /\ Named(VolumeDir, n))
                \/ (HasDisk /\ disk.fat /\ Named(disk.dir, n))
      BY <2>6, <2>7, <2>8 DEF ReadFile
    <2>10. n \in ListFiles <=>
             /\ n \notin deleted
             /\ \/ InOverlay(overlay, n) \/ (fs_base /\ Named(VolumeDir, n))
                \/ (~ fs_base /\ HasDisk /\ disk.gpt /\ disk.fat /\ Named(disk.dir, n))
      BY <2>4, <2>5 DEF ListFiles, InOverlay
    <2>11. HasDisk /\ disk.fat /\ Named(disk.dir, n) =>
              InOverlay(overlay, n) \/ n \in deleted \/ (fs_base /\ Named(VolumeDir, n))
      BY <1>2 DEF ListInv, DirListed, Named, IsFile
    <2> QED BY <2>1, <2>9, <2>10, <2>11
  <1>3. IInv /\ ListInv /\ [Next]_vars => ListInv'
    BY NextListInv
  <1> QED BY <1>1, <1>2, <1>3, SpecIInv, PTL DEF Spec
=============================================================================
