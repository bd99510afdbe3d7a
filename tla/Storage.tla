------------------------------ MODULE Storage -------------------------------
(***************************************************************************)
(* Files: the descriptor tables of vfs.rs, the storage layer of fat32.rs   *)
(* (an overlay in RAM over the boot volume, flushed to a FAT partition)    *)
(* and the GPT layout of gpt.rs, with the system calls on files            *)
(* (syscall.rs) and the boot-time recovery in fat32::init.                 *)
(*                                                                         *)
(* A file is a sequence of blocks, one block being one 512-byte sector and *)
(* one cluster, as in the volumes make_fat.py builds.  Names are the       *)
(* upper-case keys every operation converts to; Short(n) is the 8.3 name   *)
(* the directory entry of n gets, and StartsWith[n] are the names whose    *)
(* base is a prefix of n.                                                  *)
(*                                                                         *)
(* A system call changes the kernel's memory at once and leaves its sector *)
(* writes in pending; they reach the disk one after the other, each may    *)
(* fail, and the power may go off between any two.  No other system call   *)
(* comes in between: the handler runs with interrupts off.  A directory    *)
(* entry is written with the sector it lies in; install_to_disk writes the *)
(* directory's sectors one by one.  Sector reads succeed.                  *)
(***************************************************************************)
EXTENDS Positions, SequencesExt, FiniteSetsExt

CONSTANTS
    Names,
    Short,          \* [Names -> Names]
    StartsWith,     \* [Names -> SUBSET Names]
    Blocks,         \* contents of a block that programs write
    NoBlock,        \* a block of zeroes, as on a new disk
    HasDisk,        \* has_physical_disk()
    ROOT_ENTRIES,   \* entries of the partition's root directory (224)
    SECTOR_ENTRIES, \* entries in one sector of it (16)
    DELETE_SCAN,    \* entries delete_file looks at (64)
    USER_CLUSTER,   \* start_cluster of every file written (100)
    INSTALL_LIMIT,  \* install_to_disk copies the clusters below this one
    VolumeDir,      \* the boot volume's root directory
    VolumeData,     \* the boot volume's clusters
    Procs,
    Fds,            \* 3 .. MAX_FDS - 1
    MaxLen,         \* bound: blocks of a file
    MaxFaults,      \* bound: sector writes that fail
    NoFile,         \* None
    Untouched       \* mark of a file nobody wrote since the last boot

Clusters == DOMAIN VolumeData

AnyBlock == Blocks \cup { VolumeData[c] : c \in Clusters } \cup {NoBlock}

Data == Seq(AnyBlock)

(* No file, and a file nobody wrote, are told from the contents of one. *)
ASSUME MarksAssumption ==
    /\ NoFile \notin Data
    /\ Untouched \notin Data /\ Untouched # NoFile

VARIABLES
    fs_base,    \* the boot loader supplied the volume fs.img
    overlay,    \* OVERLAY_FILES, a sequence of [name, data]
    deleted,    \* DELETED_FILES
    disk,       \* the disk: GPT header, BPB, root directory, clusters
    pending,    \* what the system call in progress still has to write
    fds,        \* the descriptor table of each process
    session,    \* history: what this boot's writes and deletes made of a file
    flushed,    \* history: the last file flushed, [name, old, new]: its contents
                \* before and after, the same once the flush is complete
    erased,     \* history: names delete_file has taken off the disk
    torn,       \* history: an install left the directory part old, part new
    faults      \* history: sector writes that failed

vars == << fs_base, overlay, deleted, disk, pending, fds, session, flushed, erased, torn, faults >>

disk_vars == << disk, pending, flushed, erased, torn, faults >>

(* A system call can be issued. *)
Idle == pending = << >>

-----------------------------------------------------------------------------
(* Directories. *)

(* Name bytes 0x00 (never used, ends the directory) and 0xE5 (deleted). *)
End == [name |-> "0x00", cluster |-> 0, size |-> 0]
Gone == [name |-> "0xE5", cluster |-> 0, size |-> 0]

IsFile(e) == e.name \in Names

Entry == {End, Gone} \cup [name : Names, cluster : Clusters, size : 0 .. Cardinality(Clusters)]

(* There are k clusters from c on. *)
Room(c, k) == \A i \in 1 .. k : c + i - 1 \in Clusters

(* No name is in the directory twice, and no file lies behind the mark     *)
(* that ends it.                                                           *)
Sound(dir) ==
    \A i, j \in 1 .. ROOT_ENTRIES :
        /\ IsFile(dir[i]) /\ dir[i].name = dir[j].name => i = j
        /\ IsFile(dir[i]) /\ dir[j] = End => i < j

ASSUME NamesAssumption ==
    /\ {End.name, Gone.name} \cap Names = {}
    /\ Short \in [Names -> Names] /\ StartsWith \in [Names -> SUBSET Names]

(* The boot volume is as make_fat.py builds it; the clusters from          *)
(* USER_CLUSTER on have room for each of its files and for MaxLen blocks,  *)
(* and what install_to_disk copies are clusters of the volume.             *)
ASSUME VolumeAssumption ==
    /\ ROOT_ENTRIES \in Nat /\ DELETE_SCAN \in Nat /\ MaxLen \in Nat /\ INSTALL_LIMIT \in Nat
    /\ SECTOR_ENTRIES \in Nat \ {0}
    /\ Clusters \subseteq Nat /\ IsFiniteSet(Clusters)
    /\ VolumeData \in [Clusters -> AnyBlock]
    /\ VolumeDir \in [1 .. ROOT_ENTRIES -> Entry]
    /\ Sound(VolumeDir)
    /\ \A i \in 1 .. ROOT_ENTRIES : IsFile(VolumeDir[i]) =>
          Room(VolumeDir[i].cluster, VolumeDir[i].size) /\ Room(USER_CLUSTER, VolumeDir[i].size)
    /\ USER_CLUSTER \in Clusters /\ Room(USER_CLUSTER, MaxLen)
    /\ Min(Clusters) .. INSTALL_LIMIT - 1 \subseteq Clusters

(* The entries a scan that stops at the first 0x00 sees. *)
Scanned(dir) == { i \in DOMAIN dir : \A j \in 1 .. i : dir[j] # End }

Contents(data, e) == [i \in 1 .. e.size |-> data[e.cluster + i - 1]]

(* A file found by its 8.3 name in a directory: the first entry counts. *)
Lookup(dir, data, n) ==
    LET found == { i \in Scanned(dir) : dir[i].name = n } IN
    IF found = {} THEN NoFile ELSE Contents(data, dir[Min(found)])

-----------------------------------------------------------------------------
(* fat32.rs on the disk.  d is the state of the disk. *)

(* Mutated form: the search for a slot ends at the first free one. *)
SlotIsFirstFree(dir, n) ==
    LET usable == { i \in DOMAIN dir : dir[i] \in {End, Gone} \/ dir[i].name = n }
    IN  { i \in usable : \A j \in usable : i <= j }

(* The slot write_file_to_disk_partition uses: the entry of that name, or  *)
(* else the first free one.                                                *)
SlotFor(dir, n) ==
    LET same == { i \in Scanned(dir) : dir[i].name = n }
        avail == { i \in DOMAIN dir : dir[i] \in {End, Gone} }
    IN  IF same # {} THEN {Min(same)} ELSE IF avail # {} THEN {Min(avail)} ELSE {}

(* It gives up without a disk, a BPB or a slot. *)
CanFlush(d, n) == HasDisk /\ d.fat /\ SlotFor(d.dir, Short[n]) # {}

DataWrite(c, b) == [op |-> "data", cluster |-> c, block |-> b]

EntryWrite(i, e) == [op |-> "entry", slot |-> i, entry |-> e]

(* Mutated form: the directory entry goes first. *)
EntryFirst(d, n, data) ==
    IF ~ CanFlush(d, n) THEN << >> ELSE
    LET slot == CHOOSE i \in SlotFor(d.dir, Short[n]) : TRUE
        entry == [name |-> Short[n], cluster |-> USER_CLUSTER, size |-> Len(data)]
    IN  << EntryWrite(slot, entry) >>
        \o [i \in 1 .. Max({Len(data), 1}) |->
               DataWrite(USER_CLUSTER + i - 1, IF data = << >> THEN NoBlock ELSE data[i])]

(* write_file_to_disk_partition: the clusters from USER_CLUSTER on, at     *)
(* least one (an empty file zeroes the first), then the directory entry.   *)
FlushWrites(d, n, data) ==
    IF ~ CanFlush(d, n) THEN << >> ELSE
    LET slot == CHOOSE i \in SlotFor(d.dir, Short[n]) : TRUE
        entry == [name |-> Short[n], cluster |-> USER_CLUSTER, size |-> Len(data)]
    IN  [i \in 1 .. Max({Len(data), 1}) |->
            DataWrite(USER_CLUSTER + i - 1, IF data = << >> THEN NoBlock ELSE data[i])]
        \o << EntryWrite(slot, entry) >>

EraseWrite(i, n) == [op |-> "erase", slot |-> i, name |-> Short[n]]

(* Mutated form: the scan ends one entry early. *)
UnlinkScansShort(d, n) ==
    LET hits == { i \in 1 .. DELETE_SCAN - 1 : i \in DOMAIN d.dir /\ d.dir[i].name \in StartsWith[n] }
    IN  IF HasDisk /\ d.fat /\ hits # {} THEN << EraseWrite(Min(hits), n) >> ELSE << >>

(* delete_file: the first of the entries it looks at whose base is a       *)
(* prefix of the name is marked.                                           *)
UnlinkWrites(d, n) ==
    LET hits == { i \in 1 .. DELETE_SCAN : i \in DOMAIN d.dir /\ d.dir[i].name \in StartsWith[n] }
    IN  IF HasDisk /\ d.fat /\ hits # {} THEN << EraseWrite(Min(hits), n) >> ELSE << >>

(* The sector of the directory that entry i lies in, and their number. *)
SectorOf(i) == (i - 1) \div SECTOR_ENTRIES + 1

DirSectors == (ROOT_ENTRIES + SECTOR_ENTRIES - 1) \div SECTOR_ENTRIES

(* install_to_disk: the GPT layout (of which only the header counts), the  *)
(* head of the boot volume sector by sector (BPB, directory, clusters),    *)
(* then every overlay file.                                                *)
InstallWrites ==
    << [op |-> "gpt"] >>
    \o ( IF ~ fs_base THEN << >> ELSE
         << [op |-> "bpb"] >>
         \o [k \in 1 .. DirSectors |-> [op |-> "dir", sector |-> k]]
         \o [i \in 1 .. INSTALL_LIMIT - Min(Clusters) |->
                LET c == Min(Clusters) + i - 1 IN DataWrite(c, VolumeData[c])] )
    \o [i \in DOMAIN overlay |-> [op |-> "flush", file |-> overlay[i]]]

(* What a sector write does to the disk. *)
Stored(d, w) ==
    CASE w.op = "gpt" -> [d EXCEPT !.gpt = TRUE]
      [] w.op = "bpb" -> [d EXCEPT !.fat = TRUE]
      [] w.op = "dir" -> [d EXCEPT !.dir = [i \in 1 .. ROOT_ENTRIES |->
                             IF SectorOf(i) = w.sector THEN VolumeDir[i] ELSE d.dir[i]]]
      [] w.op = "data" -> [d EXCEPT !.data[w.cluster] = w.block]
      [] w.op = "entry" -> [d EXCEPT !.dir[w.slot] = w.entry]
      [] w.op = "erase" -> [d EXCEPT !.dir[w.slot] = Gone]

ReadDisk(d, n) == IF HasDisk /\ d.fat THEN Lookup(d.dir, d.data, n) ELSE NoFile

-----------------------------------------------------------------------------
(* fat32.rs: the layers a file is looked for in. *)

InOverlay(ov, n) == \E i \in DOMAIN ov : ov[i].name = n

OverlayData(ov, n) == ov[CHOOSE i \in DOMAIN ov : ov[i].name = n].data

AppendedAlways(ov, n, data) == Append(ov, [name |-> n, data |-> data])   \* mutated form

Upserted(ov, n, data) ==
    IF InOverlay(ov, n)
      THEN [i \in DOMAIN ov |-> IF ov[i].name = n THEN [name |-> n, data |-> data] ELSE ov[i]]
      ELSE Append(ov, [name |-> n, data |-> data])

Without(ov, n) == Picked(ov, { i \in DOMAIN ov : ov[i].name # n })

VolumeFile(n) == IF fs_base THEN Lookup(VolumeDir, VolumeData, n) ELSE NoFile

(* Mutated form: the overlay is consulted before DELETED_FILES is. *)
ReadIgnoringDeleted(n) ==
    IF InOverlay(overlay, n) THEN OverlayData(overlay, n)
    ELSE IF VolumeFile(n) # NoFile THEN VolumeFile(n)
    ELSE ReadDisk(disk, n)

(* read_file *)
ReadFile(n) ==
    IF n \in deleted THEN NoFile
    ELSE IF InOverlay(overlay, n) THEN OverlayData(overlay, n)
    ELSE IF VolumeFile(n) # NoFile THEN VolumeFile(n)
    ELSE ReadDisk(disk, n)

(* list_files *)
DirNames(dir) == { dir[i].name : i \in { j \in Scanned(dir) : IsFile(dir[j]) } }

ListsDeletedToo ==                  \* mutated form
    (IF fs_base THEN DirNames(VolumeDir) ELSE {}) \cup { overlay[i].name : i \in DOMAIN overlay }

ListFiles ==
    (( IF fs_base THEN DirNames(VolumeDir)
       ELSE IF HasDisk /\ disk.gpt /\ disk.fat THEN DirNames(disk.dir) ELSE {} )
     \cup { overlay[i].name : i \in DOMAIN overlay }) \ deleted

-----------------------------------------------------------------------------
(* The system calls on files, by process p. *)

(* write_file: the overlay, then the disk. *)
WriteFile(n, data) ==
    /\ deleted' = deleted \ {n}
    /\ overlay' = Upserted(overlay, n, data)
    /\ pending' = << [op |-> "flush", file |-> [name |-> n, data |-> data]] >>
    /\ session' = [session EXCEPT ![n] = data]
    /\ UNCHANGED << disk, flushed, erased, torn, faults >>

NoFd == [name |-> NoFile, data |-> << >>, offset |-> 0, writable |-> FALSE]

(* alloc_fd: the lowest free descriptor. *)
IsFreeFd(p, fd) ==
    /\ fds[p][fd] = NoFd
    /\ \A g \in Fds : g < fd => fds[p][g] # NoFd

(* SYS_OPEN: to read, a private copy of the file; to write, an empty one. *)
SysOpenRead(p, n) ==
    /\ Idle
    /\ ReadFile(n) # NoFile
    /\ \E fd \in Fds :
         /\ IsFreeFd(p, fd)
         /\ fds' = [fds EXCEPT ![p][fd] =
               [name |-> n, data |-> ReadFile(n), offset |-> 0, writable |-> FALSE]]
    /\ UNCHANGED << fs_base, overlay, deleted, session, disk_vars >>

SysOpenWrite(p, n) ==
    /\ Idle
    /\ \E fd \in Fds :
         /\ IsFreeFd(p, fd)
         /\ fds' = [fds EXCEPT ![p][fd] =
               [name |-> n, data |-> << >>, offset |-> 0, writable |-> TRUE]]
    /\ UNCHANGED << fs_base, overlay, deleted, session, disk_vars >>

(* SYS_READ of one block: what is left of it moves the offset. *)
SysRead(p, fd) ==
    /\ Idle
    /\ fds[p][fd] # NoFd
    /\ fds[p][fd].offset < Len(fds[p][fd].data)
    /\ fds' = [fds EXCEPT ![p][fd].offset = @ + 1]
    /\ UNCHANGED << fs_base, overlay, deleted, session, disk_vars >>

(* SYS_WRITE_FILE of one block at the offset; the buffer grows as needed. *)
Written(data, offset, b) ==
    IF offset < Len(data) THEN [data EXCEPT ![offset + 1] = b] ELSE Append(data, b)

SysWriteFile(p, fd, b) ==
    /\ Idle
    /\ fds[p][fd] # NoFd
    /\ fds[p][fd].writable
    /\ fds[p][fd].offset < MaxLen
    /\ fds' = [fds EXCEPT ![p][fd].data = Written(@, fds[p][fd].offset, b),
                          ![p][fd].offset = @ + 1]
    /\ UNCHANGED << fs_base, overlay, deleted, session, disk_vars >>

(* SYS_CLOSE: a descriptor open for writing replaces the file (it is dirty *)
(* from the start).                                                        *)
SysClose(p, fd) ==
    /\ Idle
    /\ fds[p][fd] # NoFd
    /\ fds' = [fds EXCEPT ![p][fd] = NoFd]
    /\ \/ fds[p][fd].writable /\ WriteFile(fds[p][fd].name, fds[p][fd].data)
       \/ ~ fds[p][fd].writable /\ UNCHANGED << overlay, deleted, session, disk_vars >>
    /\ UNCHANGED fs_base

(* exit_process does not close descriptors: what they hold is dropped. *)
ProcessExits(p) ==
    /\ Idle
    /\ fds' = [fds EXCEPT ![p] = [fd \in Fds |-> NoFd]]
    /\ UNCHANGED << fs_base, overlay, deleted, session, disk_vars >>

(* SYS_UNLINK of a file that can be read. *)
SysUnlink(n) ==
    /\ Idle
    /\ ReadFile(n) # NoFile
    /\ overlay' = Without(overlay, n)
    /\ deleted' = deleted \cup {n}
    /\ pending' = UnlinkWrites(disk, n)
    /\ session' = [session EXCEPT ![n] = NoFile]
    /\ flushed' = IF flushed # NoFile /\ flushed.name \in StartsWith[n] THEN NoFile ELSE flushed
    /\ erased' = IF HasDisk /\ disk.fat /\ UnlinkWrites(disk, n) = << >>
                   THEN erased \cup {Short[n]} ELSE erased
    /\ UNCHANGED << fs_base, fds, disk, torn, faults >>

(* SYS_INSTALL_OS *)
SysInstallOs ==
    /\ Idle
    /\ HasDisk
    /\ pending' = InstallWrites
    /\ flushed' = NoFile
    /\ UNCHANGED << fs_base, overlay, deleted, fds, session, disk, erased, torn, faults >>

-----------------------------------------------------------------------------
(* The rest of a system call: its sector writes. *)

(* write_file_to_disk_partition reads the BPB and the directory and        *)
(* chooses a slot.                                                         *)
BeginFlush ==
    /\ ~ Idle /\ Head(pending).op = "flush"
    /\ LET n == Head(pending).file.name
           data == Head(pending).file.data
       IN  /\ pending' = FlushWrites(disk, n, data) \o Tail(pending)
           /\ erased' = erased \ {Short[n]}
           /\ flushed' =
                IF ~ CanFlush(disk, n) THEN flushed
                ELSE [name |-> Short[n], old |-> ReadDisk(disk, Short[n]), new |-> data]
    /\ UNCHANGED << fs_base, overlay, deleted, fds, session, disk, torn, faults >>

(* One sector reaches the disk. *)
SectorWritten ==
    /\ ~ Idle /\ Head(pending).op # "flush"
    /\ LET w == Head(pending) IN
       /\ disk' = Stored(disk, w)
       /\ pending' = Tail(pending)
       /\ erased' = CASE w.op = "erase" -> erased \cup {w.name}
                      [] w.op = "dir" -> {}
                      [] OTHER -> erased
       /\ torn' = IF w.op = "dir" THEN disk'.dir # VolumeDir ELSE torn
       /\ flushed' = IF w.op = "entry" /\ flushed # NoFile
                       THEN [flushed EXCEPT !.old = flushed.new] ELSE flushed
    /\ UNCHANGED << fs_base, overlay, deleted, fds, session, faults >>

(* It does not.  Only write_gpt_layout gives up, before or after the       *)
(* header is on the disk.                                                  *)
SectorFails ==
    /\ ~ Idle /\ Head(pending).op # "flush"
    /\ faults < MaxFaults
    /\ faults' = faults + 1
    /\ \/ Head(pending).op = "gpt" /\ pending' = << >> /\ disk' \in {disk, Stored(disk, Head(pending))}
       \/ Head(pending).op # "gpt" /\ pending' = Tail(pending) /\ UNCHANGED disk
    /\ torn' = (torn \/ (Head(pending).op = "dir" /\ disk.dir # VolumeDir))
    /\ flushed' = NoFile
    /\ UNCHANGED << fs_base, overlay, deleted, fds, session, erased >>

-----------------------------------------------------------------------------
(* Boot. *)

(* load_dynamic_clusters_from_disk, in directory order.  A second entry of *)
(* a name finds the file it would read already there.                      *)
Recovered(d) ==
    LET files == { i \in Scanned(d.dir) : IsFile(d.dir[i]) }
        first == Ascending({ i \in files : \A j \in files : d.dir[j].name = d.dir[i].name => i <= j })
    IN  [k \in DOMAIN first |-> [ name |-> d.dir[first[k]].name,
                                  data |-> ReadDisk(d, d.dir[first[k]].name) ]]

(* Power off and on again, at any time, with or without the boot medium:   *)
(* RAM is lost, fat32::init reads an installed disk back.                  *)
Reboot ==
    /\ overlay' = IF HasDisk /\ disk.gpt /\ disk.fat THEN Recovered(disk) ELSE << >>
    /\ deleted' = {}
    /\ fds' = [p \in Procs |-> [fd \in Fds |-> NoFd]]
    /\ session' = [n \in Names |-> Untouched]
    /\ pending' = << >>
    /\ flushed' = IF flushed = NoFile THEN NoFile
                  ELSE LET read == ReadDisk(disk, flushed.name) IN
                       IF read = NoFile THEN NoFile
                       ELSE [name |-> flushed.name, old |-> read, new |-> read]
    /\ UNCHANGED << disk, erased, torn, faults >>
    /\ fs_base' \in BOOLEAN

(* A live boot, next to a disk that has never been used. *)
Init ==
    /\ fs_base = TRUE
    /\ overlay = << >>
    /\ deleted = {}
    /\ disk = [ gpt |-> FALSE, fat |-> FALSE, dir |-> [i \in 1 .. ROOT_ENTRIES |-> End],
                data |-> [c \in Clusters |-> NoBlock] ]
    /\ fds = [p \in Procs |-> [fd \in Fds |-> NoFd]]
    /\ session = [n \in Names |-> Untouched]
    /\ pending = << >>
    /\ flushed = NoFile
    /\ erased = {}
    /\ torn = FALSE
    /\ faults = 0

Next ==
    \/ \E p \in Procs :
         \/ \E n \in Names : SysOpenRead(p, n) \/ SysOpenWrite(p, n)
         \/ \E fd \in Fds :
              \/ SysRead(p, fd) \/ SysClose(p, fd)
              \/ \E b \in Blocks : SysWriteFile(p, fd, b)
         \/ ProcessExits(p)
    \/ \E n \in Names : SysUnlink(n)
    \/ SysInstallOs
    \/ BeginFlush \/ SectorWritten \/ SectorFails
    \/ Reboot

Spec == Init /\ [][Next]_vars

-----------------------------------------------------------------------------

(* Type correctness; no two overlay files have one name, and no descriptor *)
(* is read or written past the end of its buffer.                          *)
TypeOK ==
    /\ fs_base \in BOOLEAN
    /\ overlay \in Seq([name : Names, data : Data])
    /\ \A i, j \in DOMAIN overlay : overlay[i].name = overlay[j].name => i = j
    /\ deleted \subseteq Names
    /\ disk.gpt \in BOOLEAN /\ disk.fat \in BOOLEAN
    /\ disk.dir \in [1 .. ROOT_ENTRIES -> Entry]
    /\ disk.data \in [Clusters -> AnyBlock]
    /\ \A i \in DOMAIN pending :
          pending[i].op \in {"gpt", "bpb", "dir", "data", "entry", "erase", "flush"}
    /\ erased \subseteq Names /\ torn \in BOOLEAN
    /\ \A p \in Procs, fd \in Fds :
          fds[p][fd] # NoFd => /\ fds[p][fd].data \in Data
                               /\ fds[p][fd].offset \in 0 .. Len(fds[p][fd].data)

(* The directory on the disk is sound after every sector written, however  *)
(* entries are deleted, reused and rewritten: no name is there twice (the  *)
(* second entry would bring an old version of the file back) and no file   *)
(* lies behind the mark that ends the directory.  The exception is an      *)
(* install that was cut off, or had a sector fail, between the sectors of  *)
(* the directory: entries of the old one then stand next to those of the   *)
(* new, twice or behind the mark, until an install is complete.            *)
DirectorySound == ~ torn => Sound(disk.dir)

(* A file that was written or deleted since the last boot reads back as    *)
(* the last close or unlink left it, whichever process did it and whatever *)
(* the volume and the disk hold.                                           *)
ReadsLastWrite ==
    \A n \in Names : session[n] # Untouched => ReadFile(n) = session[n]

(* The directory listing shows exactly the files that can be opened, where *)
(* no install was left half done: entries behind the end mark can be       *)
(* opened, and are not listed, once a flush takes the mark's slot.         *)
ListMatchesRead == ~ torn => \A n \in Names : n \in ListFiles <=> ReadFile(n) # NoFile

(* The blocks the last flush writes. *)
NewBlocks == IF flushed.new = << >> THEN {NoBlock} ELSE ToSet(flushed.new)

(* A file that was flushed is on the disk, complete, under its 8.3 name,   *)
(* until another flush, an install or an unlink begins, over any number of *)
(* boots.  A power cut in the middle of a flush leaves the file away, if   *)
(* there was none, or one of the old length, each of its blocks the old    *)
(* one or one of the new contents (not always at its place: a file of the  *)
(* boot volume may lie across USER_CLUSTER); and what it left, the next    *)
(* boots keep.  (The code does not notice a sector write that fails: it    *)
(* ends what is known of the file until the next flush.)                   *)
LastFlushDurable ==
    flushed # NoFile =>
        LET read == ReadDisk(disk, flushed.name) IN
        /\ Idle => read = flushed.new
        /\ \/ read = flushed.new
           \/ read = NoFile /\ flushed.old = NoFile
           \/ /\ read # NoFile /\ flushed.old # NoFile
              /\ Len(read) = Len(flushed.old)
              /\ \A i \in DOMAIN read : read[i] \in {flushed.old[i]} \cup NewBlocks

(* A file that was deleted while the disk could be written is not on it,   *)
(* at this boot or at a later one, until it is written again or the disk   *)
(* is installed anew.  This needs a directory no longer than delete_file's *)
(* scan and no name whose base is a prefix of another, neither of which    *)
(* the code sees to, and an install that was not left half done.           *)
ErasedStaysAway == ~ torn => \A n \in erased : ReadDisk(disk, n) = NoFile

(* "Write or update a file in the HuseynOS storage layer and flush to disk *)
(* partition clusters": on an installed disk the partition holds every     *)
(* file of this boot as it was last written, once nothing is pending.      *)
AllFlushed ==
    Idle /\ faults = 0 /\ HasDisk /\ disk.gpt /\ disk.fat =>
        \A n \in Names : session[n] \notin {Untouched, NoFile} => ReadDisk(disk, Short[n]) = session[n]
=============================================================================
