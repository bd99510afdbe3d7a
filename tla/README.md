# HuseynOS in TLA+

A model of the core of HuseynOS: the kernel's process table, scheduler,
message queues, memory, storage and block devices, and the window system that
runs on it.
TLC checks the modules on small instances; TLAPS proves their safety properties
for every value of the constants. Liveness is model-checked only.

## The system

HuseynOS is a 64-bit kernel in Rust (`kernel/src`) with drivers, a compositor
and programs in user mode (`userland`). It runs on one core. Every interrupt,
exception and system call enters through an interrupt gate, so the kernel runs
each handler to its end with interrupts off. Concurrency is the order of
handlers, the order in which programs are dispatched, and the messages between
them.

| Part | State | Operations | Talks to |
|---|---|---|---|
| IPC queues (`ipc.rs`) | 64 rings of 64 messages, indexed by pid | push (coalesces mouse moves), pop | `send` wakes the receiver through the scheduler |
| Process table, scheduler (`process.rs`, `scheduler.rs`) | 64 slots, NEXT_PID, CURRENT_PID | load_elf, exit_process, schedule, block_current, unblock | every handler |
| System calls, interrupts (`syscall.rs`, `idt.rs`) | saved registers: a blocked call is repeated | 29 calls; timer, keyboard, mouse, page fault, exceptions | all kernel parts |
| Memory (`memory/*.rs`, `vma.rs`, `shm.rs`) | frame bitmap, page tables, VMAs, shared regions with a reference count | alloc, map, unmap, demand paging, sbrk, mmap, munmap, shm_* | load_elf takes frames, exit_process returns them |
| Storage (`vfs.rs`, `fat32.rs`, `gpt.rs`) | descriptors, overlay files, deleted names; disk with GPT, directory, clusters | open, read, write, close, unlink, install, recovery at boot | block layer |
| Discovery and block drivers (`pci.rs`, `xhci.rs`, `nvme.rs`, `ahci.rs`, `ata.rs`, block layer of `gpt.rs`) | PCI devices found, frames for DMA, one state per driver | scan, init, read and write a sector with a fall-back from NVMe to AHCI to ATA | frame allocator, controllers that finish a command when they please |
| Drivers (`userland/mouse_driver`, `keyboard_driver`) | packet phase, pointer, buttons | decode a byte, announce | interrupts in, compositor out |
| Compositor (`userland/compositor`) | windows in Z-order, drag, layout, dirty flag | handle one message, render | drivers, terminals, shared memory |
| Terminal, init, shell, console (`userland`) | command line, screen | handle a key, run a command | compositor, kernel |

What is hard here, and where it bites, is the list of hazards in `PROJECT.json`:
wake-ups that could be lost, calls that are repeated in a state that has moved
on, slots and pids that are reused, frames with two uses, regions freed under a
client, three layers of storage that answer separately, what survives a power
cut, commands that time out and are carried out later, memory that runs out
during the inits, bounded queues between programs that wait for each other, and
a drag that outlives its window.

## Modules

| Module | Models | Uses |
|---|---|---|
| `IpcMessage` | messages; what a push does, on sequences | |
| `IpcFifo` | abstract specification of a queue: a bounded FIFO whose newest mouse move is replaced; return values are state | `IpcMessage` |
| `Positions` | parts of a sequence chosen by position: what `retain()` leaves of a `Vec`, the messages of one kind in a queue | |
| `MessageQueue` | the ring of `ipc.rs`: slots, head, tail, count | `IpcMessage`, `Positions`; refines `IpcFifo` |
| `Kernel` | process table, scheduler, send/recv, spawn/exit/waitpid, interrupts | `IpcMessage` (queues as sequences: justified by the refinement) |
| `Memory` | frames, page tables, VMAs, shared memory, load and exit | |
| `UserCopy` | the kernel's copies to and from a program's buffers, byte by byte through the page table | |
| `Storage`, `MCStorage` | descriptors, overlay, volume, disk, install, reboot, with the sector writes of each; its instance | `Positions` |
| `BlockDevices`, `MCBlockDevices` | PCI scan, inits of the controllers, sector reads and writes; the machines it is checked on | |
| `Compositor`, `MCCompositor` | the window system; its instance | |
| `Desktop` | drivers, compositor and terminals connected by the kernel's queues | `IpcMessage`, `Positions`, an instance of `Compositor` |
| `MessageQueueProofs`, `KernelProofs`, `MemoryProofs`, `StorageProofs`, `BlockDevicesProofs`, `CompositorProofs`, `DesktopProofs` | theorems about the module each is named after | that module; `DesktopProofs` also the theorems of `CompositorProofs`, for its instance |
| `OrderLemmas` | facts about finite sets of numbers, the order of their members, and what `Positions` picks of a sequence that grows, shrinks or has an element replaced, for the proofs | `Positions` |

**One handler, one step.** An action is a whole handler, with the `schedule()`
at its end. What user code does between system calls is not modelled: any
process may make any call. `retry` in `Kernel` is the saved `rip - 2` of a call
that blocked; a process with a retry can do nothing else when it runs.
`Compositor` alone takes messages in any order, and another program may switch
the machine off (`SwitchedOff`); `Desktop` says who sends what. `Kernel` leaves
memory and files out, so a failure of `load_elf` is a choice; `Memory` and
`Storage` leave the scheduler out, so any live process may be the one that runs.
A handler that writes sectors is the exception: its effect on the kernel's
memory is one step, and its sector writes wait in `pending` and reach the disk
one by one, so that the power can go off between any two of them. No other call
starts before they are done. In `BlockDevices` a call of the block layer is one
step and the AHCI controller is an actor of its own, which may carry out a
command the driver has given up on.

**Variables.** They keep the names of the code (`table` is PROCESS_TABLE, `cur`
is CURRENT_PID, `shm` is SHM_TABLE, `overlay` is OVERLAY_FILES, ...). Variables
marked *history* (`died`, `delivered`, `leaked`, `asked`, `session`, `flushed`,
`erased`, `torn`, `expect`, `excused`, `undrawn`, `owed`, `last_click`; `faults`
also bounds the failures) are read by no guard; they record what a property
needs to know of the past. `ret` in `MessageQueue` is the value the last call
returned, `last` in `BlockDevices` and `UserCopy` the last call with its answer.

**Abstractions.** Message arguments are one payload. Addresses are pages, the
heap break half pages, so that it can lie inside a page. The four levels of a
page table are a root and leaf tables: what matters is that a mapping may need
another frame and that the kernel panics without one. A file is a sequence of
sectors. Names are upper-case keys; their 8.3 form and the prefix test of
`delete_file` are constants (`Short`, `StartsWith`). Below the storage layer
a sector is one value; how a controller answers (done, error, timeout, late
DMA) is a choice, what the driver makes of the answer is the code's. A scancode
makes a character or does not. Definitions called
"mutated form" are never used by the specifications: they are slips that each
property must be able to find.

## Runs

| Run | Shows | Distinct states |
|---|---|---|
| `ring` | ring consistency, no two neighbouring moves of a sender, nothing but a superseded move is ever lost, refinement of `IpcFifo` | 3,988 |
| `kernel` | one Running process and CURRENT_PID names it; pids unique; no lost wake-up; every zombie has a reaper; stale waits are harmless; exit codes arrive unchanged; Ready processes are dispatched, zombies are reaped, and the exit code of a zombie reaches a waiting process | 51,564 |
| `memory` | every frame of RAM has exactly one use, and who sees it besides has asked for it (MAP_PHYSICAL, or a mapping that outlived its region); all mapped pages are accounted for at exit; new memory is fresh; the heap has no holes; shared frames stay while the owner runs, whoever else maps and unmaps them | 206,475 |
| `storage` | what was last closed or deleted is what is read; listings and reads agree; the directory is sound after every sector; the last flush is on the disk, and an interrupted one leaves the old length with old and new blocks; deleted files stay away. Listings, soundness and deleted files: unless an install was cut off between two sectors of the directory | 2,995,050 |
| `devices` | frames of the controllers belong to nobody else, also when memory runs out during the inits; what is read without an error is what was written, under errors, timeouts and late DMA | 408,748 |
| `compositor` | floating positions survive tiling; tiles are disjoint; title bars stay reachable; drags stay glued; Z-order is stable | 82,528 |
| `desktop` | every change of the buttons reaches the compositor once and in order; a full compositor queue always drains, or the machine is off; once input stops, the screen comes to show what the windows hold | 635,040 |

### Disagreements

Five runs expect a violation: they state what a comment or the README of the
repository says, and TLC shows a run of the code that contradicts it.

- `kernel_stranded_waiter` (`NoStrandedWaiter`): "wake waiting parents"
  (`process.rs:406`). A child that exits before its parent calls `waitpid`
  becomes Empty, but is still found by its pid; the parent blocks and nothing
  wakes it.
- `memory_isolation` (`Isolated`): "Number of processes currently mapping this
  region" (`shm.rs:17`). `cleanup_process` takes away a reference the owner may
  not hold, so a region is freed while a client maps it and its frames are given
  to another process.
- `storage_all_flushed` (`AllFlushed`): "Write or update a file ... and flush to
  disk partition clusters" (`fat32.rs:281`). Every file starts at cluster 100.
- `desktop_press` (`PressRecognised`): "You can drag windows around by their
  title bars, click on them ..." (`README.md:25`). The driver's move message
  carries the new buttons and arrives before the click, so the click is not
  seen as a press. The run shows one; `NoClickIsAPress` proves it of all.
- `user_copy` (`CopiedInPlace`): "write bytes into a userspace address via the
  process's page table" (`syscall.rs:575`). `get_mapped_frame` returns an address
  that includes the page offset, and the two helpers for buffers add it again: a
  byte at page offset k > 0 is read and written at offset 2k, possibly in the
  next frame. A page-aligned buffer is affected too: in the trace its second byte
  goes to offset 2. Only the first byte of a page is copied in place.
  `read_user_string` does not add the offset twice. Without the second addition the
  invariant holds on all 16,825 states of the instance.

Five more behaviours are in the models as the code has them, with properties
that stop where they begin:

- Exceptions 0, 6, 8 and 13 halt the machine inside the handler, whoever caused
  them (`idt.rs:202`); `ReadyRuns` and `ZombieReaped` hold up to that point. The
  README's "If the mouse driver crashes, the whole OS doesn't panic" is true of
  page faults only.
- `install_to_disk` copies the root directory sector by sector (`fat32.rs:239`;
  the shipped volume has 224 entries in 14 sectors). A cut or a failing write
  between two of them, when the disk had files already, leaves new entries in
  front of old ones: old files behind the mark that ends the new directory, a
  name twice, a deleted file back. `torn` records it, until the directory is the
  volume's; `DirectorySound`, `ListMatchesRead` and `ErasedStaysAway` stop
  there. What this boot wrote and the last flush are not affected.
- The NVMe driver copies to and from its DMA page and never uses the LBA
  (`nvme.rs:175`); `ReadsBack` excludes machines with such a disk.
- The AHCI driver leaves a command that timed out in its only slot
  (`ahci.rs:242`). Carried out between two calls it does no harm; a call that
  meets it may take its completion for its own. An AHCI failure also sends the
  sector to the ATA disk (`gpt.rs:36`), and from then on a volume lies on two
  disks. `excused` records both, and ends `ReadsBack`.
- The ATA driver does not look at the error bit after its flush (`ata.rs:191`),
  so a sector that was not written may be acknowledged; `excused` records it.

### Bounds

Every bound is a constant and named in the modules.

- `ring`: a ring of 3 slots, two senders, moves and one other type. Indices go
  round the ring in every alignment; the theorems cover every size.
- `kernel`: 3 slots, 4 pids, a queue of 1 message for pid 1 only. Four processes
  in three slots force a reuse, a queue of one is full at once, and sends and
  interrupts also reach pids beyond the queues (in the code, 64 and up).
  Processes wait for pid 2, before, while and after it exists. The
  interrupt handlers' pids are 1 and 2 here, so that the first processes receive
  interrupts. One run checks safety and liveness. The theorems cover every
  number of slots, queues and pids; liveness is not proved.
- `memory`: 11 frames for two processes, eight pages, two page tables each. There
  is room for both processes to map one region at the same time, with up to two
  references; one region fills the shared memory table, and the frames still run
  out in every handler that allocates, page tables included. MAP_PHYSICAL maps
  two frames, the last one of RAM and one beyond. Process 1 alone makes the calls
  that change its own address space (`Mappers`: sbrk, mmap, munmap,
  MAP_PHYSICAL), the other one loads, faults, shares and exits. mmap, shared
  mappings and physical mappings use disjoint pages, as the shipped programs do
  (0x2000_0000 upwards, 0xB000_0000 and 0xC000_0000, 0xA000_0000).
  `memory_isolation` needs a third process and more frames, and nothing else.
- `storage`: one process with one descriptor, two files, one sector write that
  fails, any number of power cuts. Programs write up to one sector, the file of
  the boot volume has two; an install flushes what an earlier boot read back from
  the disk, that file included, so a flush is cut between data and data, and
  between data and entry. This file lies across the
  cluster user files are written to, as SHELL.ELF does in the shipped image
  (clusters 72 to 117): a flush cut off in the middle can leave a new block in
  the place of another. The directory has two entries in two sectors, so an
  install can end between them. Sector reads succeed. Names are 8.3 and no
  prefixes of each other, `delete_file` scans the whole directory, and no program
  lies beyond the 256 sectors `install_to_disk` copies; the constants for these
  cases are there (`StartsWith`, `DELETE_SCAN`, `INSTALL_LIMIT`). The copies
  between a program's buffer and the kernel in the read and write calls are the
  identity here and the subject of `UserCopy`. `storage_all_flushed` has no
  failing writes.
- `devices`: 64 machines, two contents, two sectors: the ATA address reaches one
  of them, and the other has the same low bits. Memory is just enough or ends in
  the middle of the inits; the PCI functions include a slot with several
  functions, one whose header hides its second function, a controller without
  an address and one whose BAR holds flag bits only; the AHCI disk is behind an
  optical drive or missing; the firmware left a command list or not. Mapping the
  controllers' registers during the inits may take frames for page tables, or
  panic (`paging.rs:77`); that is left out, and the free frames of a machine are
  the ones the drivers can have.
- `user_copy`: pages of four bytes, two frames and the kernel's next to them, any
  page tables (shared frames included), copies of up to two bytes.
- `compositor`: a screen of 4 by 3 with windows 2 by 2, at most three windows
  ever: enough for windows to overlap, to be dragged over every edge and to be
  tiled when they fit and when they do not.
- `desktop`: queues of 2 messages, driver queues of 1, one terminal, which may
  have left already because it got no shared memory (`exit(1)` in its init). The
  mouse sends arbitrary bytes, because a byte lost at a full queue shifts the
  packets. What a program receives is what is in its queue: the copy of the
  message to its buffer is the subject of `UserCopy`. The screen is 1 by 1: the
  properties are about messages. `desktop_press` uses a real screen.

`Kernel` and `Memory` stop at `MaxPid`: pids are never reused. No run turns
deadlock checking off: a machine that has halted repeats its `hlt` step, and one
that is switched off stays so.

### Fairness

- `Kernel`: weak fairness of the timer interrupt, which the PIT raises 1000
  times a second (`pit.rs`); strong fairness of a process repeating the call it
  blocked in: each time it is dispatched its next instruction is `int 0x80`, and
  it cannot be preempted before it every time. Nothing is assumed of
  user code otherwise, or of senders, the keyboard and the mouse.
- `Desktop`: weak fairness of the compositor's handling and of its rendering, of
  each terminal's receiving, and of the next attempt of the programs that have a
  message to send and yield until it is accepted. A program with a message
  waiting is not asleep (`NoLostWakeup`, proved) and a Ready process is
  dispatched (`ReadyRuns`), as long as the machine is on. Nothing is assumed of
  interrupts or of how soon a driver takes a byte. `ScreenCatchesUp` has a
  hypothesis of its own: that from some time on no input waits for the drivers.
  Under endless input the compositor may never render, since it does so only when
  its queue is empty.

## Proofs

**The ring** (`MessageQueueProofs`, for every `QUEUE_SIZE` > 0).
`RingConsistent`: `TypeOK /\ RingInv` is inductive. `RingInv` says that tail is
count slots behind head and that exactly those slots are occupied. The proof
counts slots from head (`LinearInv`), which turns the modular arithmetic into
two lemmas (`ModAt`, `LastIndex`). `RingImplementsFifo`: with the mapping
`queue <- queueOf`, the occupied slots read from head on, every push and pop is
a step of `IpcFifo` with the same return value; the key lemma,
`SameCoalescing`, says that the slot before tail holds the last element.
`MovesStaySpread` is an invariant of the mapped sequence. `OthersAreKept` says
what that refinement means for everything but mouse moves: the messages of the
other types, picked from the queue in order (`OfType`), only ever gain one at the
end or lose their first to the caller of pop. It rests on the lemmas `OfTypeTail`,
`OfTypeAppend` and `OfTypeReplace` of `OrderLemmas`; the last one covers
coalescing, which replaces a message that is not among them.

**The kernel** (`KernelProofs`, for every number of slots, queues and pids, from
`KernelAssumption` and `QueueSizeAssumption`). None of the properties is
inductive alone: that zombies have reapers depends on who waits for whom, that
depends on stale waits being harmless, that on pids being unique and on exited
processes staying exited. `IInv` collects them: types, unique pids below
NEXT_PID (`Unique`), what a waiting process remembers and will repeat
(`WaitOK`), reapers (`ReaperOK`), no sleeper with a message (`AwakeOK`), exits
(`ExitOK`), `OneRunning` and `ExitCodeIntact`. Handlers are compositions of few
table transformations, so there is one lemma for each (`ScheduleStep`,
`ReturnedStep`, `SleepStep`, `ExitStep`, `LoadStep`, `ReapStep`,
`DeliverStep`), stated for any table that satisfies `TableInv`; `StepIInv` has
one case per handler. From `IInv` follow `KernelTypeOK`, `KernelOneRunning`,
`KernelPidsUnique`, `KernelNoLostWakeup`, `KernelZombieHasReaper`,
`KernelStaleWaitHarmless` and `KernelExitCodes` (with it, that exited processes
stay exited, which no run repeats).

**Memory** (`MemoryProofs`, for any number of frames, pages, processes and
regions). *Assumptions*: `SizesAssumption` (sizes are natural numbers;
MAP_PHYSICAL may name any frame, RAM included), `LayoutAssumption` (segments,
then heap, then what is mapped on request, then the stack; the largest break
lies within the address space) and `ProgramsAssumption`: programs map devices
and shared regions outside their segments, heap, stack and the reach of their
mmap hints, and munmap nothing of their heap. The last one the kernel does not
enforce (hazard `vma.rs:107`); the shipped programs keep to it, with the
framebuffer at 0xA000_0000 and 0x8000_0000, windows where the compositor's
allocator puts them, and no mmap at all. *Invariant*: `OneUse` counts the uses
of a frame, every mapping of it by a process among them, and says nothing that a
step could use, so `IInv` states the reason: RAM is divided among the allocator,
the leaks the code has, the processes and the regions (`Partition`), no frame
serves twice within a process (`ServesOnce`), VMAs never cover what is mapped on
request (`RequestsApart`: exit_process frees the frames of covered pages and
would free a region's), and a pid that is not alive has nothing (`Absent`).
Frames change hands in seven ways, one lemma each (`ProcessTakes` ...
`RegionsReturn`). That `load_elf` gets as many different frames as it asks for
rests on `EveryPlace` (a finite set of numbers has a member at every place) and
`OrderInjective` (no two of its requests come at the same time). `GrowKeeps`,
`UnmapKeeps` and `MapKeeps` serve several system calls. From `IInv`:
`MemoryTypeOK`, `MappedPagesCovered`, `HeapAlwaysBacked` and the action
properties `NewPagesFresh` and `RegionsKeepFrames`. `FramesUsedOnce` needs one
more layer, `AskedInv`: every mapping outside the VMAs was asked for, and the
ones of a region that exists show that region. The frames that have a second
viewer are thus exactly those mapped by MAP_PHYSICAL or left mapped when their
region was freed. That the latter exist is why `Isolated` is no theorem: the run
`memory_isolation` refutes it.

**Storage** (`StorageProofs`, for every boot volume, any number of files,
processes and descriptors, any number of failing writes and power cuts).
*Assumptions*: `MarksAssumption` and `NamesAssumption` (the marks for "no file"
and for unused entries are told from files and names; `Short` and `StartsWith`
map names to names), and `VolumeAssumption`: the boot volume has a sound
directory, its files lie within its clusters, and there is room from
`USER_CLUSTER` on for each of them and for what programs write. *Invariant*:
what makes a sector write safe was decided when it was queued, so `IInv` follows
the queue. `QueueInv` gives the order of the writes of a call and says that the
slot chosen for an entry is still the right one when it is written, and that a
mark 0xE5 goes to a file other than the last one flushed. `FlushInv` says of a
flush in progress that the queue holds the rest of the new contents, that the
part before it is on the disk, and what is read in the meantime (`Between`);
`SessionInv` that what was closed is in the overlay; `DiskInv` that the
directory is sound unless `torn` and that no BPB is written before the GPT
header. There is a lemma for each change of the directory (`PutFacts`,
`EraseFacts`), of the overlay (`UpsertedFacts`, `WithoutFacts`,
`RecoveredFacts`) and of the flush (`DataFlush`, `EntryFlush`, `EraseFlush`),
and one for each system call. From `IInv`: `StorageTypeOK`, `WritesReadBack`,
`FlushesDurable` and `DirectoryKeptSound`, the last one for a directory of any
number of sectors, outside installs that were cut off. `ErasedFilesStayAway` is
about the file a program asked to delete, not the entry that was marked. So it
has the hypotheses that the code needs for the two to be the same: no base name
is a prefix of another name, and the files lie among the entries `delete_file`
scans (`[]FilesWithinScan`; in the shipped system 64 of the 224). Its layer
`EraseInv` says that no erased name is in the directory, that no entry under way
brings one back, and that the entry about to be marked is the one asked for.
`ListingMatchesReads`, also outside installs that were cut off, needs more: that
what lies on the disk is in the overlay, deleted or on the volume (`ListInv`).
It has the hypothesis that names are 8.3 names, which the code does not enforce:
a longer name lies on the disk under its short one, and next to the boot volume
`read_file` finds it there while `list_files` does not show it. `AllFlushed` is
no theorem: the run `storage_all_flushed` refutes it.

**Block devices** (`BlockDevicesProofs`, for every machine; assumptions:
`DevicesAssumption`, and `MachinesAssumption`, that a machine has a number of
frames and a list of ports). `IInv` adds to the properties: the frames of the
three drivers are apart from each other and from the free ones (`FramesApart`);
nothing is transferred before the block layer is up (`Untouched`); and what the
disk in use holds is among what may be read (`OnDisk`), for which a write still
in the slot of the AHCI port must find its own data in the bounce buffer, since
the controller may carry it out between any two calls. `DmaFramesOwned` and
`SectorsReadBack` follow.

**Compositor** (`CompositorProofs`, for every screen and any number of windows;
assumptions: `GeometryAssumption`, coordinates are unsigned, and
`ScreenAssumption`, a window and the margins fit on the screen below the top
bar, as 1024 x 768 does). `FloatingInPlace` and `DragGlued` say nothing of a
tiled desktop, but the way back from it depends on what happened there: so
`Gripped` says of the dragged window, tiled or not, that its float position is
where the pointer took it. `TilesDisjoint` cannot be proved from the formula of
the layout, because a click raises a window without laying the tiles out again;
`Spaced` says that any two tiles are a column apart, in whatever order.
Closing and raising are both a choice of windows, each once (`Picks`), which
keeps all of it (`PicksKeep`). From `IInv` follow the four invariants besides
the types; `ZOrderKept` is an action property.

**Desktop** (`DesktopProofs`, for every queue size, any screen, any number of
terminals and whatever bytes the mouse sends; assumptions: `DesktopAssumption`,
the programs are different processes, message types are told apart, the screen
is not empty and a byte has eight bits, and `QueueSizeAssumption`). *Invariant*:
`ClicksDelivered` speaks of the queue and of what the driver has still to send,
and the driver decides to send a click by comparing with `prev_buttons`, which
it sets only when the click is through. So `IInv` lists the four things the
driver can have to send, and says that a click is among them whenever its
buttons are not the ones announced last (`AnnouncedInv`) and that the changes
not handled yet are the clicks in the queue, followed by that one (`OwedInv`).
`DesktopTypeOK` and `AllClicksDelivered` follow. *Composition*:
`DesktopRunsCompositor` shows that the compositor, fed by these programs through
bounded queues, implements `Compositor!Spec`: whatever reaches the head of its
queue has a pointer on the screen, three bits of buttons and, if it creates a
window, a terminal as its sender. `DesktopKeepsWindows` then carries the
theorems of `CompositorProofs` over, for screens that satisfy its two
assumptions, which are hypotheses here. *Drawing*: `NoChangeForgotten` is the
safety part of `ScreenCatchesUp`: a change of the picture that is not drawn yet
is noted in the dirty flag, or a damage message about it is in the compositor's
queue or still to be sent (`NotedInv`). Each arm of the compositor sets the flag
by itself, so the proof goes through them one by one; coalescing never replaces
a damage message. *Presses*: `NoClickIsAPress` is the general form of the run
`desktop_press`. Its invariant says that each click in the queue, and the one
about to be sent, is preceded by a message of the mouse with the same buttons,
with none of the mouse in between, or that the compositor knows these buttons
already (`HeraldInv`). Coalescing cannot break it, since the driver sends the
click before its next move. From it follow, step by step, that there is never a
drag or a tiled desktop and that no terminal is told to quit (`Untouched`). What
`CompositorProofs` says of drags and tiles is therefore true but empty on the
desktop as it is, and `DesktopKeepsWindows` leaves it out: those theorems are
about the compositor with a driver that lets presses through.

**Model-checked only.** Liveness (`ReadyRuns`, `ZombieReaped`, `CodeDelivered`,
`QueueDrains`, `ScreenCatchesUp`), since fairness is out of the prover's reach.
Every invariant and every action property of the passing runs is also a theorem.

## Not modelled

Register contexts, kernel stacks and the entry stubs; the programming of
hardware registers (configuration space, MSI, BIOS hand-off, APIC, PIC, GDT,
PRDT and command headers) and the parsing of ACPI tables; sector reads that fail
in the storage layer; calls that only report; drawing and fonts; which character
a scancode makes; what the commands of the terminal and the shell print, and
their files and processes; build tools. `PROJECT.json` gives the reason for
each.

## Plan

Done: ring and FIFO, kernel, memory, storage with power cuts and failing writes,
block devices, user copies, compositor, desktop; proofs of the ring, the kernel,
memory, storage, block devices, the compositor and the desktop.

Next, in this order:

1. `Memory`: mappings that overlap (mmap over shared or device pages).
2. `Storage`: names that collide in 8.3 or are prefixes; files past the part of
   the volume that is installed; two descriptors of one file; `BlockDevices`
   under it, so that a volume meets the fall-back to another disk.
3. `Desktop`: the life of a window together with its shared region and its
   owner; terminals started from the top bar.
