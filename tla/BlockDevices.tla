---------------------------- MODULE BlockDevices ----------------------------
(***************************************************************************)
(* From the PCI scan to a sector: the enumeration of pci.rs, the           *)
(* initialisation of xhci.rs, nvme.rs, ahci.rs and ata.rs in the order of  *)
(* kmain, and the block layer of gpt.rs, which sends every sector to the   *)
(* first driver that takes it: NVMe, then AHCI, then ATA.                  *)
(*                                                                         *)
(* A call of the block layer is one step, but the AHCI controller is not   *)
(* part of it: a command the driver stopped waiting for is still in the    *)
(* controller and may be carried out at any later time, on the same bounce *)
(* buffer (HbaFinishes).  How the hardware answers is a choice; everything *)
(* the drivers make of the answer is as in the code.                       *)
(***************************************************************************)
EXTENDS Naturals, Sequences, SequencesExt, FiniteSetsExt

CONSTANTS
    Machines,   \* the machines to boot on: [pci, frames, ports, clb, ide]
    Lbas,       \* sector numbers in use
    ATA_LBAS,   \* sectors a 28-bit address reaches (0x0FFF_FFFF + 1)
    Sectors,    \* contents of a sector
    Zero,       \* an empty sector, and an empty DMA page
    None        \* no answer, no command

ASSUME DevicesAssumption ==
    /\ Lbas \subseteq Nat
    /\ ATA_LBAS \in Nat \ {0}
    /\ Zero \notin Sectors
    /\ None \notin Sectors \cup {Zero}

(* What every machine has: some frames and, at the AHCI controller, ports  *)
(* that are told apart by their signature.                                 *)
ASSUME MachinesAssumption ==
    \A m \in Machines : m.frames \in Nat /\ m.ports \in Seq(STRING)

VARIABLES
    machine,    \* what the machine is made of; never changes
    stage,      \* how far kmain has come
    devices,    \* PCI_DEVICES
    free,       \* free physical frames
    xhci,       \* XHCI_STATE: [online, frames]
    nvme,       \* NVME_STATE: [online, frames, buf], buf what the DMA page holds
    ahci,       \* AHCI_CTRL: [abar, port, dma]
    hba,        \* the AHCI port: [bounce, inflight, halted, disk]
    ata,        \* ATA_PRESENT
    ide,        \* the sectors of the ATA disk
    last,       \* the last call of the block layer and its answer
    expect,     \* history: what a sector may hold, judging by the answers
    excused     \* history: a driver failed and the next one, on another disk, was
                \* asked; a command met an abandoned one in the AHCI slot; or ATA
                \* acknowledged a sector it did not write

vars == << machine, stage, devices, free, xhci, nvme, ahci, hba, ata, ide, last, expect, excused >>

(* Settled at boot. *)
boot_vars == << machine, stage, devices, free, xhci, ahci, ata >>

(* Not touched at boot. *)
io_vars == << hba, ide, last, expect, excused >>

Contents == Sectors \cup {Zero}

-----------------------------------------------------------------------------
(* pci.rs.  A function is named by its slot (over all buses, in order) and *)
(* its function number.                                                    *)

(* enumerate_pci asks function 0 of a slot first: without it the slot is   *)
(* skipped, and the others are only asked if its header says so.           *)
Visible ==
    { f \in DOMAIN machine.pci :
        /\ << f[1], 0 >> \in DOMAIN machine.pci
        /\ f[2] = 0 \/ machine.pci[<< f[1], 0 >>].multi }

ScanOrder(f, g) == f[1] < g[1] \/ (f[1] = g[1] /\ f[2] < g[2])

Found(f) == machine.pci[f]

Scans ==
    { s \in [1 .. Cardinality(Visible) -> Visible] :
        \A i, j \in DOMAIN s : i < j => ScanOrder(s[i], s[j]) }

EnumeratePci ==
    /\ stage = "pci"
    /\ \E s \in Scans : devices' = [i \in DOMAIN s |-> Found(s[i])]
    /\ stage' = "xhci"
    /\ UNCHANGED << machine, free, xhci, nvme, ahci, ata, io_vars >>

(* find_xhci_bar0, find_nvme_bar0, find_ahci_bar5: the first function of   *)
(* that class whose BAR is not zero.                                       *)
FindBar(class) ==
    LET hits == { i \in DOMAIN devices : devices[i].class = class /\ devices[i].bar # 0 }
    IN  IF hits = {} THEN 0 ELSE devices[Min(hits)].bar

(* Every init clears the four flag bits; nothing happens if no address is  *)
(* left.                                                                   *)
Base(bar) == (bar \div 16) * 16

-----------------------------------------------------------------------------
(* The controllers. *)

(* n calls of FrameAllocator::alloc().unwrap_or(0), which gives out the    *)
(* lowest free frame.                                                      *)
Grant(n) ==
    [i \in 1 .. n |->
        IF i > Cardinality(free) THEN 0
        ELSE CHOOSE f \in free : Cardinality({ g \in free : g <= f }) = i]

(* xhci::init takes three frames and goes online with or without them. *)
XhciInit ==
    /\ stage = "xhci"
    /\ stage' = "nvme"
    /\ \/ /\ Base(FindBar("usb")) # 0
          /\ xhci' = [online |-> TRUE, frames |-> Grant(3)]
          /\ free' = free \ ToSet(Grant(3))
       \/ /\ Base(FindBar("usb")) = 0
          /\ UNCHANGED << xhci, free >>
    /\ UNCHANGED << machine, devices, nvme, ahci, ata, io_vars >>

CompleteAlways(frames) == TRUE      \* mutated form: frames are not checked

Complete(frames) == \A i \in DOMAIN frames : frames[i] # 0

(* nvme::init goes online only with all its five frames; the frames it got *)
(* are gone in any case.                                                   *)
NvmeInit ==
    /\ stage = "nvme"
    /\ stage' = "ahci"
    /\ \/ /\ Base(FindBar("nvme")) # 0
          /\ nvme' = IF Complete(Grant(5))
                       THEN [online |-> TRUE, frames |-> Grant(5), buf |-> Zero] ELSE nvme
          /\ free' = free \ ToSet(Grant(5))
       \/ /\ Base(FindBar("nvme")) = 0
          /\ UNCHANGED << nvme, free >>
    /\ UNCHANGED << machine, devices, xhci, ahci, ata, io_vars >>

DiskPortOrZero ==       \* mutated form: the port number starts as 0, not as None
    LET disks == { i \in DOMAIN machine.ports : machine.ports[i] = "disk" }
    IN  IF disks = {} THEN 0 ELSE Min(disks)

(* The first active port with a disk. *)
DiskPort ==
    LET disks == { i \in DOMAIN machine.ports : machine.ports[i] = "disk" }
    IN  IF disks = {} THEN None ELSE Min(disks)

(* ahci::init *)
AhciInit ==
    /\ stage = "ahci"
    /\ stage' = "ata"
    /\ \/ /\ Base(FindBar("ahci")) # 0
          /\ ahci' = [abar |-> Base(FindBar("ahci")), port |-> DiskPort, dma |-> Grant(1)[1]]
          /\ free' = free \ ToSet(Grant(1))
       \/ /\ Base(FindBar("ahci")) = 0
          /\ UNCHANGED << ahci, free >>
    /\ UNCHANGED << machine, devices, xhci, nvme, ata, io_vars >>

(* ata::init: a floating bus, an optical drive or a device that does not   *)
(* identify itself is no disk.                                             *)
AtaInit ==
    /\ stage = "ata"
    /\ stage' = "up"
    /\ ata' = (machine.ide = "disk")
    /\ UNCHANGED << machine, devices, free, xhci, nvme, ahci, io_vars >>

AhciAvailable == ahci.port # None /\ ahci.dma # 0

-----------------------------------------------------------------------------
(* ahci.rs: issue_dma_sector, with the controller's side of it.  There is  *)
(* one command slot, one command table and one bounce buffer.              *)

(* The controller carries c out.  A write takes what the buffer holds when *)
(* its DMA runs, which is not what was issued if another call came since.  *)
Done(h, c) ==
    IF c.write
      THEN { [h EXCEPT !.disk[c.lba] = data, !.inflight = None] : data \in {c.data, h.bounce} }
      ELSE { [h EXCEPT !.bounce = h.disk[c.lba], !.inflight = None] }

(* A task file error, before or after the transfer, stops the port, and    *)
(* the driver has no way to start it again.                                *)
Failed(h, c) ==
    { [d EXCEPT !.halted = TRUE, !.inflight = None] : d \in {h} \cup Done(h, c) }

(* The answers a call can get: done, an error, a timeout.  A command       *)
(* issued while an older one is still in the slot replaces it or is taken  *)
(* for it: the driver cannot tell, it only sees the bit in CI.             *)
AhciAnswers(lba, write, b) ==
    LET h == IF write THEN [hba EXCEPT !.bounce = b] ELSE hba
        new == [lba |-> lba, write |-> write, data |-> b]
    IN  IF ~ machine.clb \/ hba.halted THEN { [ok |-> FALSE, hba |-> h] } ELSE
        UNION { { [ok |-> TRUE, hba |-> d] : d \in Done(h, c) }
                \cup { [ok |-> FALSE, hba |-> f] : f \in Failed(h, c) }
                \cup { [ok |-> FALSE, hba |-> [h EXCEPT !.inflight = c]] }
              : c \in {new} \cup ({hba.inflight} \ {None}) }

(* An abandoned command is carried out, or fails, after all. *)
HbaFinishes ==
    /\ hba.inflight # None
    /\ hba' \in Done(hba, hba.inflight) \cup Failed(hba, hba.inflight)
    /\ UNCHANGED << boot_vars, nvme, ide, last, expect, excused >>

-----------------------------------------------------------------------------
(* ata.rs *)

AtaReachesAll(lba) == TRUE          \* mutated form: no 28-bit limit

(* The test in gpt.rs; the registers take the low 28 bits. *)
AtaReaches(lba) == lba < ATA_LBAS

Address(lba) == lba % ATA_LBAS

(* A read that gets no data is reported.  A write can fail before or after *)
(* the disk took the data; the wait for the flush looks at BSY only, so an *)
(* error after the transfer is reported as success.                        *)
AtaAnswers(lba, write, b) ==
    IF write
      THEN { [ok |-> ok, ide |-> i] :
                 ok \in BOOLEAN, i \in {ide, [ide EXCEPT ![Address(lba)] = b]} }
      ELSE { [ok |-> ok, ide |-> ide] : ok \in BOOLEAN }

-----------------------------------------------------------------------------
(* gpt.rs: read_disk_sector and write_disk_sector. *)

Answered(lba, write, b, ok, data) ==
    /\ last' = [write |-> write, lba |-> lba, ok |-> ok, data |-> data]
    /\ expect' = IF ~ write THEN expect
                 ELSE [expect EXCEPT ![lba] = IF ok THEN {b} ELSE @ \cup {b}]

(* The NVMe driver copies between the caller and its DMA page. *)
ByNvme(lba, write, b) ==
    /\ nvme.online
    /\ nvme' = IF write THEN [nvme EXCEPT !.buf = b] ELSE nvme
    /\ Answered(lba, write, b, TRUE, nvme.buf)
    /\ UNCHANGED << hba, ide, excused >>

ByAhci(lba, write, b) ==
    /\ ~ nvme.online /\ AhciAvailable
    /\ \E a \in AhciAnswers(lba, write, b) :
         /\ a.ok
         /\ hba' = a.hba
         /\ Answered(lba, write, b, TRUE, a.hba.bounce)
    /\ excused' = (excused \/ hba.inflight # None)
    /\ UNCHANGED << nvme, ide >>

(* The AHCI driver is not there or has failed. *)
AhciPassesOn(lba, write, b) ==
    \/ ~ AhciAvailable /\ hba' = hba
    \/ AhciAvailable /\ \E a \in AhciAnswers(lba, write, b) : ~ a.ok /\ hba' = a.hba

ByAta(lba, write, b) ==
    /\ ~ nvme.online /\ ata /\ AtaReaches(lba)
    /\ AhciPassesOn(lba, write, b)
    /\ \E a \in AtaAnswers(lba, write, b) :
         /\ ide' = a.ide
         /\ Answered(lba, write, b, a.ok, ide[Address(lba)])
         /\ excused' = (excused \/ AhciAvailable \/ (write /\ a.ok /\ a.ide[Address(lba)] # b))
    /\ UNCHANGED nvme

ByNone(lba, write, b) ==
    /\ ~ nvme.online /\ ~ (ata /\ AtaReaches(lba))
    /\ AhciPassesOn(lba, write, b)
    /\ Answered(lba, write, b, FALSE, None)
    /\ excused' = (excused \/ hba.inflight # None)
    /\ UNCHANGED << nvme, ide >>

Transfer(lba, write, b) ==
    /\ stage = "up"
    /\ \/ ByNvme(lba, write, b) \/ ByAhci(lba, write, b)
       \/ ByAta(lba, write, b) \/ ByNone(lba, write, b)
    /\ UNCHANGED boot_vars

ReadDiskSector(lba) == Transfer(lba, FALSE, None)

WriteDiskSector(lba, b) == Transfer(lba, TRUE, b)

-----------------------------------------------------------------------------

Init ==
    /\ machine \in Machines
    /\ stage = "pci"
    /\ devices = << >>
    /\ free = 1 .. machine.frames
    /\ xhci = [online |-> FALSE, frames |-> << >>]
    /\ nvme = [online |-> FALSE, frames |-> << >>, buf |-> Zero]
    /\ ahci = [abar |-> 0, port |-> None, dma |-> 0]
    /\ hba = [bounce |-> Zero, inflight |-> None, halted |-> FALSE, disk |-> [l \in Lbas |-> Zero]]
    /\ ata = FALSE
    /\ ide = [a \in { Address(l) : l \in Lbas } |-> Zero]
    /\ last = None
    /\ expect = [l \in Lbas |-> {Zero}]
    /\ excused = FALSE

Next ==
    \/ EnumeratePci \/ XhciInit \/ NvmeInit \/ AhciInit \/ AtaInit
    \/ \E lba \in Lbas : ReadDiskSector(lba) \/ \E b \in Sectors : WriteDiskSector(lba, b)
    \/ HbaFinishes

Spec == Init /\ [][Next]_vars

-----------------------------------------------------------------------------

Command == [lba : Lbas, write : BOOLEAN, data : Contents \cup {None}]

(* Type correctness; a command left in the slot is one the driver issued.  *)
TypeOK ==
    /\ machine \in Machines
    /\ stage \in {"pci", "xhci", "nvme", "ahci", "ata", "up"}
    /\ ToSet(devices) \subseteq { machine.pci[f] : f \in DOMAIN machine.pci }
    /\ free \subseteq 1 .. machine.frames
    /\ nvme.online \in BOOLEAN /\ nvme.buf \in Contents
    /\ ahci.port \in (1 .. Len(machine.ports)) \cup {None}
    /\ hba.bounce \in Contents
    /\ hba.inflight \in Command \cup {None}
    /\ hba.disk \in [Lbas -> Contents]
    /\ ide \in [{ Address(l) : l \in Lbas } -> Contents]
    /\ last # None /\ last.ok => last.data \in Contents

(* The frames the controllers work with. *)
DmaFrames == xhci.frames \o nvme.frames \o << ahci.dma >>

(* A controller transfers to and from its own frames: none of them is free *)
(* for the rest of the kernel or given out twice, and a driver the block   *)
(* layer uses has all of its own, however few frames the machine has and   *)
(* whatever the other inits took.                                          *)
DmaOwned ==
    /\ \A i, j \in DOMAIN DmaFrames :
          DmaFrames[i] # 0 => /\ DmaFrames[i] \notin free
                              /\ DmaFrames[i] = DmaFrames[j] => i = j
    /\ nvme.online => 0 \notin ToSet(nvme.frames)
    /\ AhciAvailable => ahci.dma # 0 /\ ahci.abar # 0

(* A sector that is read without an error holds what was last written to   *)
(* it without an error, or something a failed write may have left since;   *)
(* a command that timed out and was carried out between two calls is no    *)
(* exception.  Excluded are NVMe, whose driver transfers nothing, and what *)
(* excused records.                                                        *)
ReadsBack ==
    ~ nvme.online /\ ~ excused /\ last # None =>
        (last.ok /\ ~ last.write => last.data \in expect[last.lba])
=============================================================================
