------------------------------- MODULE Memory -------------------------------
(***************************************************************************)
(* Physical frames, address spaces and shared memory: memory/frame.rs,     *)
(* memory/paging.rs, vma.rs, shm.rs, the memory side of load_elf and       *)
(* exit_process (process.rs), demand paging (idt.rs, vector 14) and the    *)
(* system calls SBRK, MMAP, MUNMAP, MAP_PHYSICAL and SHM_* (syscall.rs).   *)
(*                                                                         *)
(* Virtual addresses are counted in pages and the heap break in half       *)
(* pages, so that it can lie inside a page.  The four levels of a page     *)
(* table are abstracted to a root frame and one table frame for each       *)
(* PAGES_PER_TABLE pages, allocated, as in map_page_in_table, the first    *)
(* time a page below it is mapped.  A handler runs with interrupts off and *)
(* is one step; any live process may be the one that runs (module Kernel   *)
(* says which).                                                            *)
(***************************************************************************)
EXTENDS Naturals, Sequences, FiniteSetsExt, Functions

CONSTANTS
    NUM_FRAMES,        \* usable frames, numbered from 1
    NUM_PAGES,         \* user pages, numbered from 0
    PAGES_PER_TABLE,
    SegmentPages,      \* the pages of the ELF segments
    StackPages,        \* the stack pages mapped at load
    StackStart,        \* first page of the stack's VMA
    MAX_ADDR,          \* where find_free_region gives up
    MAX_SHM_REGIONS,   \* 32
    MaxPid,            \* bound: processes ever loaded
    MaxShmId,          \* bound: NEXT_SHM_ID stops here
    MaxRefs,           \* bound: a region is not mapped more often
    MaxBreak,          \* bound: the heap break stops here (half pages)
    Mappers,           \* bound: who calls SBRK, MMAP, MUNMAP and MAP_PHYSICAL
    Increments,        \* bound: positive arguments of SBRK (half pages)
    MmapHints,         \* bound: arguments of MMAP
    MapSizes,          \* bound: sizes of MMAP and MUNMAP, in pages
    ShmSizes,          \* bound: sizes of SHM_CREATE, in pages
    UnmapAt,           \* bound: addresses of MUNMAP
    ShmAt,             \* bound: addresses of SHM_MAP and SHM_UNMAP
    DeviceAt,          \* bound: addresses of MAP_PHYSICAL
    PhysicalAt,        \* bound: frames MAP_PHYSICAL is asked for, RAM or not
    PhysicalSizes      \* bound: sizes of MAP_PHYSICAL, in pages

Ram == 1 .. NUM_FRAMES
Frames == Ram \cup UNION { f .. f + n - 1 : f \in PhysicalAt, n \in PhysicalSizes }
Pages == 0 .. NUM_PAGES - 1
Pids == 1 .. MaxPid
Tables == { v \div PAGES_PER_TABLE : v \in Pages }
NoFrame == 0

VARIABLES
    free,        \* the frames whose bit is clear in the allocator's bitmap
    alive,       \* the pids that have been loaded and have not exited
    next_pid,
    pt,          \* pt[p][v]: the frame that page v of process p is mapped to
    root,        \* root[p]: the frame of p's PML4
    tables,      \* tables[p][i]: the frame of p's i-th page table
    vmas,        \* vmas[p]: the VMAs of p, as sets [start, end) of pages
    heap_break,  \* heap_break[p], in half pages
    shm,         \* SHM_TABLE
    next_shm_id,
    panicked,    \* a page table could not be allocated: expect() panicked
    leaked,      \* history: the frames of the leaks the code has: munmap does
                 \* not give frames back, exit_process no page tables, and a
                 \* load_elf that fails nothing
    asked        \* history: << p, v, i >> when page v of p is mapped because p
                 \* asked for region i with SHM_MAP, for i = 0 with MAP_PHYSICAL

vars == << free, alive, next_pid, pt, root, tables, vmas, heap_break, shm,
           next_shm_id, panicked, leaked, asked >>

-----------------------------------------------------------------------------
(* memory/frame.rs *)

(* FrameAllocator::alloc hands out the lowest free frame.  n calls in a    *)
(* row take the n lowest; Granted gives one to each member of `needs`, and *)
(* which frame serves which need is immaterial.                            *)
Lowest(S, n) == { f \in S : Cardinality({g \in S : g < f}) < n }

Enough(needs, avail) == Cardinality(needs) <= Cardinality(avail)

Granted(needs, avail) ==
    CHOOSE a \in [needs -> Lowest(avail, Cardinality(needs))] : IsInjective(a)

-----------------------------------------------------------------------------
(* vma.rs *)

PagesOf(vma) == { v \in Pages : vma.start <= v /\ v < vma.end }

Covered(p) == UNION { PagesOf(vma) : vma \in vmas[p] }

Vma(s, e) == [start |-> s, end |-> e]

(* find_free_region: the search moves past every VMA it meets, so it ends  *)
(* at the first place that conflicts with none, below MAX_ADDR.            *)
Conflicts(vma, c, n) == c < vma.end /\ c + n > vma.start

Fits(p, c, n) == \A vma \in vmas[p] : ~ Conflicts(vma, c, n)

IsFreeRegion(p, hint, n, c) ==
    /\ hint <= c /\ c + n <= MAX_ADDR
    /\ Fits(p, c, n)
    /\ \A d \in hint .. c - 1 : ~ Fits(p, d, n)

-----------------------------------------------------------------------------
(* memory/paging.rs *)

TableOf(v) == v \div PAGES_PER_TABLE

(* map_page_in_table for the pages in DOMAIN m, one after the other, when  *)
(* `avail` are the free frames left.  Missing page tables are allocated;   *)
(* the kernel panics if one cannot be.  A page that was mapped before is   *)
(* mapped over.  `by` says at whose request the pages are mapped.          *)
Over(m, f) == [x \in DOMAIN f |-> IF x \in DOMAIN m THEN m[x] ELSE f[x]]

At(v, f) == [w \in {v} |-> f]

Requests(p, pages, by) == {p} \X pages \X by

NotAsked(p, pages) == asked \ Requests(p, pages, 0 .. MaxShmId)

MapPages(p, m, avail, by) ==
    LET new == { i \in { TableOf(v) : v \in DOMAIN m } : tables[p][i] = NoFrame }
        got == Granted(new, avail)
    IN  \/ /\ Enough(new, avail)
           /\ pt' = [pt EXCEPT ![p] = Over(m, @)]
           /\ tables' = [tables EXCEPT ![p] = Over(got, @)]
           /\ free' = avail \ Range(got)
           /\ asked' = NotAsked(p, DOMAIN m) \cup Requests(p, DOMAIN m, by)
           /\ UNCHANGED panicked
        \/ /\ ~ Enough(new, avail)
           /\ panicked' = TRUE
           /\ UNCHANGED << pt, tables, free, asked >>

-----------------------------------------------------------------------------
(* process.rs: load_elf and exit_process. *)

(* The frames load_elf asks for: the root, a frame for each page of the    *)
(* segments and for the first stack pages, and page tables.  It asks in    *)
(* this order: segment pages upwards, stack pages downwards, and a table   *)
(* right after the first page below it.                                    *)
LoadedPages == SegmentPages \cup StackPages

Root == [what |-> "root", at |-> 0]
Page(v) == [what |-> "page", at |-> v]
Table(t) == [what |-> "table", at |-> t]

Needs == {Root} \cup { Page(v) : v \in LoadedPages }
                \cup { Table(TableOf(v)) : v \in LoadedPages }

Turn(v) == IF v \in SegmentPages THEN v ELSE 2 * NUM_PAGES - v

Order(a) ==
    CASE a.what = "root"  -> 0
      [] a.what = "page"  -> 1 + 2 * Turn(a.at)
      [] a.what = "table" ->
           2 + 2 * Min({ Turn(v) : v \in { w \in LoadedPages : TableOf(w) = a.at } })

(* How many requests come before each. *)
Earlier == [a \in Needs |-> Cardinality({b \in Needs : Order(b) < Order(a)})]

(* The needs the free frames satisfy, and the first that they do not. *)
Served == { a \in Needs : Earlier[a] < Cardinality(free) }

FailsAt(a) == a \in Needs \ Served /\ \A b \in Needs \ Served : Order(a) <= Order(b)

(* A stack page that gets no frame is left to demand paging. *)
LoadSucceeds == \A a \in Needs : FailsAt(a) => a.what = "page" /\ a.at \in StackPages

(* The VMAs of a new process; its heap starts behind the last segment. *)
LoadedVmas == { Vma(v, v + 1) : v \in SegmentPages } \cup {Vma(StackStart, NUM_PAGES)}

HeapBase == 2 * (Max(SegmentPages) + 1)

Load ==
    LET got == Granted(Served, free) IN
    /\ LoadSucceeds
    /\ alive' = alive \cup {next_pid}
    /\ root' = [root EXCEPT ![next_pid] = got[Root]]
    /\ pt' = [pt EXCEPT ![next_pid] =
                 [v \in Pages |-> IF Page(v) \in Served THEN got[Page(v)] ELSE NoFrame]]
    /\ tables' = [tables EXCEPT ![next_pid] =
                 [t \in Tables |-> IF Table(t) \in Served THEN got[Table(t)] ELSE NoFrame]]
    /\ vmas' = [vmas EXCEPT ![next_pid] = LoadedVmas]
    /\ heap_break' = [heap_break EXCEPT ![next_pid] = HeapBase]
    /\ free' = free \ Range(got)
    /\ UNCHANGED << panicked, leaked >>

(* The early return when a segment page gets no frame, and the late ones   *)
(* when the kernel stack or the process table has no room: the frames      *)
(* taken so far are not given back.                                        *)
LoadGivesUp ==
    LET got == Granted(Served, free) IN
    /\ \/ LoadSucceeds
       \/ \E v \in SegmentPages : FailsAt(Page(v))
    /\ free' = free \ Range(got)
    /\ leaked' = leaked \cup Range(got)
    /\ UNCHANGED << alive, pt, root, tables, vmas, heap_break, panicked >>

(* create_user_page_table or map_page_in_table finds no frame. *)
LoadPanics ==
    /\ \E a \in Needs : FailsAt(a) /\ a.what # "page"
    /\ panicked' = TRUE
    /\ UNCHANGED << free, alive, pt, root, tables, vmas, heap_break, leaked >>

LoadElf ==
    /\ next_pid <= MaxPid
    /\ next_pid' = next_pid + 1
    /\ Load \/ LoadGivesUp \/ LoadPanics
    /\ UNCHANGED << shm, next_shm_id, asked >>

(* shm::cleanup_process: the regions p owns lose one reference, and those  *)
(* left without one are removed.                                           *)
RegionFrames(r) == Range(r.frames)

Dropped(r) == [r EXCEPT !.ref_count = IF @ > 0 THEN @ - 1 ELSE 0]

RemovedAtExit(p) == { r \in shm : r.owner = p /\ Dropped(r).ref_count = 0 }

CleanedUp(p) ==
    { IF r.owner = p THEN [Dropped(r) EXCEPT !.owner_exited = TRUE] ELSE r
        : r \in shm \ RemovedAtExit(p) }

(* Mutated forms: exit_process forgets the frames; a region goes with its  *)
(* first unmap although its owner still runs.                              *)
PrivateFramesForgotten(p) == {}

RemovedAtUnmapAnyOwner(r) == Dropped(r).ref_count <= 1

(* exit_process: the frames mapped inside the VMAs go back to the          *)
(* allocator, whatever they are.  The page tables do not, and nothing uses *)
(* them any more.                                                          *)
PrivateFrames(p) == { pt[p][v] : v \in Covered(p) } \ {NoFrame}

TableFrames(p) == ({root[p]} \cup Range(tables[p])) \ {NoFrame}

Exit(p) ==
    /\ alive' = alive \ {p}
    /\ shm' = CleanedUp(p)
    /\ free' = free \cup PrivateFrames(p)
                    \cup UNION { RegionFrames(r) : r \in RemovedAtExit(p) }
    /\ leaked' = leaked \cup TableFrames(p)
    /\ asked' = NotAsked(p, Pages)
    /\ vmas' = [vmas EXCEPT ![p] = {}]
    /\ pt' = [pt EXCEPT ![p] = [v \in Pages |-> NoFrame]]
    /\ root' = [root EXCEPT ![p] = NoFrame]
    /\ tables' = [tables EXCEPT ![p] = [t \in Tables |-> NoFrame]]
    /\ UNCHANGED << next_pid, heap_break, next_shm_id, panicked >>

-----------------------------------------------------------------------------
(* The handlers.  p is the running process. *)

Runs(p) == ~ panicked /\ p \in alive

(* SYS_SPAWN by a running process; the boot code loads the first one. *)
SysSpawn == ~ panicked /\ (alive # {} \/ next_pid = 1) /\ LoadElf

SysExit(p) == Runs(p) /\ Exit(p)

(* Vector 14: p touches page v, which is not mapped. *)
DemandPage(p, v) ==
    /\ Runs(p)
    /\ pt[p][v] = NoFrame
    /\ v \in Covered(p)
    /\ \E f \in Lowest(free, 1) : MapPages(p, At(v, f), free \ {f}, {})
    /\ UNCHANGED << leaked, alive, next_pid, root, vmas, heap_break, shm, next_shm_id >>

PageFaultKills(p, v) ==
    /\ Runs(p)
    /\ pt[p][v] = NoFrame
    /\ v \notin Covered(p) \/ free = {}
    /\ Exit(p)

(* SYS_SBRK with a positive increment; every other increment changes       *)
(* nothing.                                                                *)
AlignDown(b) == b \div 2           \* mutated form

AlignUp(b) == (b + 1) \div 2

SysSbrk(p, increment) ==
    LET new_break == heap_break[p] + increment IN
    /\ Runs(p)
    /\ new_break <= MaxBreak
    /\ vmas' = [vmas EXCEPT ![p] = @ \cup {Vma(AlignUp(heap_break[p]), AlignUp(new_break))}]
    /\ heap_break' = [heap_break EXCEPT ![p] = new_break]
    /\ UNCHANGED << free, alive, next_pid, pt, root, tables, shm, next_shm_id, panicked,
                    leaked, asked >>

(* SYS_MMAP; without a free region nothing changes. *)
SysMmap(p, hint, n) ==
    /\ Runs(p)
    /\ \E c \in Pages :
         /\ IsFreeRegion(p, hint, n, c)
         /\ vmas' = [vmas EXCEPT ![p] = @ \cup {Vma(c, c + n)}]
    /\ UNCHANGED << free, alive, next_pid, pt, root, tables, heap_break, shm,
                    next_shm_id, panicked, leaked, asked >>

(* Mutated forms: munmap leaves the pages mapped, or the last of them. *)
UnmapsNothing(p, v, n) == pt

UnmapsAllButLast(p, v, n) ==
    [pt EXCEPT ![p] = [w \in Pages |-> IF w \in v .. v + n - 2 THEN NoFrame ELSE pt[p][w]]]

(* unmap_page for n pages from v on, in the running process. *)
Unmapped(p, v, n) ==
    [pt EXCEPT ![p] = [w \in Pages |-> IF w \in v .. v + n - 1 THEN NoFrame ELSE pt[p][w]]]

(* SYS_MUNMAP: the VMA goes only if it is exactly this range, the pages go *)
(* in any case, and their frames are not given back.                       *)
SysMunmap(p, v, n) ==
    /\ Runs(p)
    /\ v + n <= NUM_PAGES
    /\ vmas' = [vmas EXCEPT ![p] = @ \ {Vma(v, v + n)}]
    /\ pt' = Unmapped(p, v, n)
    /\ leaked' = leaked \cup ({ pt[p][w] : w \in Covered(p) \cap (v .. v + n - 1) } \ {NoFrame})
    /\ asked' = NotAsked(p, v .. v + n - 1)
    /\ UNCHANGED << free, alive, next_pid, root, tables, heap_break, shm,
                    next_shm_id, panicked >>

(* SYS_MAP_PHYSICAL of n pages, meant for devices; the kernel maps         *)
(* whatever frames it is asked for.                                        *)
SysMapPhysical(p, v, f, n) ==
    /\ Runs(p)
    /\ v + n <= NUM_PAGES
    /\ MapPages(p, [w \in v .. v + n - 1 |-> f + (w - v)], free, {0})
    /\ UNCHANGED << leaked, alive, next_pid, root, vmas, heap_break, shm, next_shm_id >>

ShmTableFullOffByOne == Cardinality(shm) > MAX_SHM_REGIONS   \* mutated form

ShmTableFull == Cardinality(shm) >= MAX_SHM_REGIONS

(* SYS_SHM_CREATE: without frames the call fails; with a full table it     *)
(* fails as well, after the id has been used up.                           *)
SysShmCreate(p, n) ==
    LET got == Granted(1 .. n, free) IN
    /\ Runs(p)
    /\ next_shm_id <= MaxShmId
    /\ Enough(1 .. n, free)
    /\ next_shm_id' = next_shm_id + 1
    /\ \/ /\ ~ ShmTableFull
          /\ shm' = shm \cup {[ id |-> next_shm_id, frames |-> got, ref_count |-> 0,
                                owner |-> p, owner_exited |-> FALSE ]}
          /\ free' = free \ Range(got)
       \/ ShmTableFull /\ UNCHANGED << shm, free >>
    /\ UNCHANGED << alive, next_pid, pt, root, tables, vmas, heap_break, panicked, leaked,
                    asked >>

(* SYS_SHM_MAP: any process may map any region, as often as it likes. *)
SysShmMap(p, r, v) ==
    /\ Runs(p)
    /\ r.ref_count < MaxRefs
    /\ v + Len(r.frames) <= NUM_PAGES
    /\ MapPages(p, [w \in v .. v + Len(r.frames) - 1 |-> r.frames[w - v + 1]], free,
                {r.id})
    /\ shm' = (shm \ {r}) \cup {[r EXCEPT !.ref_count = @ + 1]}
    /\ UNCHANGED << leaked, alive, next_pid, root, vmas, heap_break, next_shm_id >>

(* SYS_SHM_UNMAP *)
RemovedAtUnmap(r) == Dropped(r).ref_count <= 1 /\ r.owner_exited

SysShmUnmap(p, r, v) ==
    /\ Runs(p)
    /\ v + Len(r.frames) <= NUM_PAGES
    /\ pt' = Unmapped(p, v, Len(r.frames))
    /\ \/ /\ RemovedAtUnmap(r)
          /\ shm' = shm \ {r}
          /\ free' = free \cup RegionFrames(r)
       \/ /\ ~ RemovedAtUnmap(r)
          /\ shm' = (shm \ {r}) \cup {Dropped(r)}
          /\ UNCHANGED free
    /\ asked' = NotAsked(p, v .. v + Len(r.frames) - 1)
    /\ UNCHANGED << leaked, alive, next_pid, root, tables, vmas, heap_break, next_shm_id,
                    panicked >>

(* The `hlt` loops of the panic handler and of the idle task. *)
HltLoop == (panicked \/ alive = {}) /\ UNCHANGED vars

-----------------------------------------------------------------------------
(* The pages MAP_PHYSICAL and SHM_MAP are asked to map. *)
MappedOnRequest(v) ==
    \/ \E s \in DeviceAt, n \in PhysicalSizes : v \in s .. s + n - 1
    \/ \E s \in ShmAt, n \in ShmSizes : v \in s .. s + n - 1

ASSUME SizesAssumption ==
    /\ NUM_FRAMES \in Nat /\ NUM_PAGES \in Nat /\ PAGES_PER_TABLE \in Nat \ {0}
    /\ PhysicalAt \subseteq Nat \ {NoFrame} /\ PhysicalSizes \subseteq Nat
    /\ MAX_SHM_REGIONS \in Nat /\ MaxPid \in Nat /\ MaxShmId \in Nat /\ MaxRefs \in Nat
    /\ Increments \subseteq Nat /\ MmapHints \subseteq Nat /\ MapSizes \subseteq Nat
    /\ ShmSizes \subseteq Nat /\ UnmapAt \subseteq Nat /\ ShmAt \subseteq Nat
    /\ DeviceAt \subseteq Nat

(* Where things lie in a process: its segments, then its heap, then what   *)
(* it maps on request, then its stack.                                     *)
ASSUME LayoutAssumption ==
    /\ SegmentPages \subseteq Pages /\ SegmentPages # {}
    /\ StackStart \in Nat /\ StackPages \subseteq StackStart .. NUM_PAGES - 1
    /\ MaxBreak \in Nat /\ HeapBase <= MaxBreak /\ AlignUp(MaxBreak) <= NUM_PAGES
    /\ StackStart <= NUM_PAGES /\ MAX_ADDR \in 0 .. NUM_PAGES

(* What the programs keep to and the kernel does not enforce: they map     *)
(* devices and shared regions outside the segments, the heap, the stack    *)
(* and the reach of their mmap hints, and munmap nothing of their heap.    *)
ASSUME ProgramsAssumption ==
    /\ \A v \in Pages : MappedOnRequest(v) =>
          /\ v \notin SegmentPages
          /\ AlignUp(MaxBreak) <= v /\ v < StackStart
          /\ \A hint \in MmapHints : ~ (hint <= v /\ v < MAX_ADDR)
    /\ \A v \in UnmapAt : AlignUp(MaxBreak) <= v

-----------------------------------------------------------------------------
Init ==
    /\ free = Ram
    /\ alive = {}
    /\ next_pid = 1
    /\ pt = [p \in Pids |-> [v \in Pages |-> NoFrame]]
    /\ root = [p \in Pids |-> NoFrame]
    /\ tables = [p \in Pids |-> [t \in Tables |-> NoFrame]]
    /\ vmas = [p \in Pids |-> {}]
    /\ heap_break = [p \in Pids |-> 0]
    /\ shm = {}
    /\ next_shm_id = 1
    /\ panicked = FALSE
    /\ leaked = {}
    /\ asked = {}

Next ==
    \/ SysSpawn
    \/ \E p \in Pids :
         \/ SysExit(p)
         \/ \E v \in Pages : DemandPage(p, v) \/ PageFaultKills(p, v)
         \/ /\ p \in Mappers
            /\ \/ \E increment \in Increments : SysSbrk(p, increment)
               \/ \E n \in MapSizes, hint \in MmapHints : SysMmap(p, hint, n)
               \/ \E n \in MapSizes, v \in UnmapAt : SysMunmap(p, v, n)
               \/ \E n \in PhysicalSizes, v \in DeviceAt, f \in PhysicalAt :
                     SysMapPhysical(p, v, f, n)
         \/ \E n \in ShmSizes : SysShmCreate(p, n)
         \/ \E r \in shm, v \in ShmAt : SysShmMap(p, r, v) \/ SysShmUnmap(p, r, v)
    \/ HltLoop

Spec == Init /\ [][Next]_vars

-----------------------------------------------------------------------------

Region == [ id : 1 .. MaxShmId, frames : UNION { [1 .. n -> Frames] : n \in ShmSizes },
            ref_count : 0 .. MaxRefs, owner : Pids, owner_exited : BOOLEAN ]

(* Type correctness; the shared memory table never outgrows its limit. *)
TypeOK ==
    /\ free \subseteq Frames /\ leaked \subseteq Frames
    /\ alive \subseteq Pids
    /\ next_pid \in 1 .. MaxPid + 1
    /\ pt \in [Pids -> [Pages -> Frames \cup {NoFrame}]]
    /\ root \in [Pids -> Frames \cup {NoFrame}]
    /\ tables \in [Pids -> [Tables -> Frames \cup {NoFrame}]]
    /\ \A p \in Pids : vmas[p] \subseteq [start : 0 .. NUM_PAGES, end : 0 .. NUM_PAGES]
    /\ heap_break \in [Pids -> 0 .. MaxBreak]
    /\ shm \subseteq Region /\ Cardinality(shm) <= MAX_SHM_REGIONS
    /\ next_shm_id \in 1 .. MaxShmId + 1
    /\ panicked \in BOOLEAN
    /\ asked \subseteq Pids \X Pages \X (0 .. MaxShmId)

(* Page v of p shows a shared region that still exists. *)
Shares(p, v) == \E r \in shm : << p, v, r.id >> \in asked

(* Everything frame f is used for, every page of every process included;   *)
(* the mappings of a region are the region's use of its frames.            *)
Uses(f) ==
    { << "allocator" >> : x \in {f} \cap free }
      \cup { << "leaked" >> : x \in {f} \cap leaked }
      \cup { << "root", p >> : p \in { q \in Pids : root[q] = f } }
      \cup { << "table", u[1], u[2] >> : u \in { w \in Pids \X Tables : tables[w[1]][w[2]] = f } }
      \cup { << "page", u[1], u[2] >> :
                u \in { w \in Pids \X Pages : pt[w[1]][w[2]] = f /\ ~ Shares(w[1], w[2]) } }
      \cup { << "shm", r.id >> : r \in { q \in shm : f \in RegionFrames(q) } }

(* The pages that show f because MAP_PHYSICAL was asked for it, or because *)
(* they showed a shared region that has been freed since.                  *)
Exposures(f) ==
    { << "page", a[1], a[2] >> :
        a \in { b \in asked : pt[b[1]][b[2]] = f /\ ~ Shares(b[1], b[2]) } }

(* Every frame of RAM has exactly one use, but for exposures: it is free,  *)
(* or a page table, or one page of one process, or part of one shared      *)
(* region, or one of the leaks.  So one process sees the memory of another *)
(* only through a shared region, through MAP_PHYSICAL, or through a        *)
(* mapping that outlived its region; and a mapping of a region that exists *)
(* shows that region.  (That there are exposures is what Isolated is       *)
(* about.)                                                                 *)
OneUse ==
    /\ \A f \in Ram : Cardinality(Uses(f) \ Exposures(f)) = 1
    /\ \A a \in asked, r \in shm : r.id = a[3] => pt[a[1]][a[2]] \in RegionFrames(r)

(* Every mapped page lies in a VMA or where a device or a shared region    *)
(* was mapped on request: exit_process, which walks the VMAs, misses no    *)
(* private frame, whatever sequence of sbrk, mmap and partial munmap came  *)
(* before.                                                                 *)
PagesCovered ==
    \A p \in alive, v \in Pages :
        pt[p][v] # NoFrame => v \in Covered(p) \/ MappedOnRequest(v)

(* Memory handed out by sbrk and mmap is new: a page that enters the VMAs  *)
(* of a running process is not mapped, so its first use gets a zeroed      *)
(* frame and not what an earlier mapping left there.                       *)
FreshPages ==
    [][\A p \in alive : \A v \in Covered(p)' \ Covered(p) : pt'[p][v] = NoFrame]_vars

(* No byte below the break is missing: however the increments add up and   *)
(* wherever in a page the break lies, the heap is covered by VMAs.         *)
HeapBacked ==
    \A p \in alive : \A b \in HeapBase .. heap_break[p] - 1 : b \div 2 \in Covered(p)

(* The frames of a shared region are its own as long as its owner runs: no *)
(* process that has mapped it can see them become anything else.           *)
OwnedRegionStays ==
    [][\A r \in shm : r.owner \in alive' =>
          \E q \in shm' : q.id = r.id /\ q.frames = r.frames]_vars

(* Processes "run safely as isolated programs": a frame two processes have *)
(* mapped is a device's or a shared region's.                              *)
Isolated ==
    \A p, q \in alive, v, w \in Pages :
        p # q /\ pt[p][v] = pt[q][w] /\ pt[p][v] \in Ram
            => \E r \in shm : pt[p][v] \in RegionFrames(r)
=============================================================================
