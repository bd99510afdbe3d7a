-------------------------- MODULE BlockDevicesProofs --------------------------
(***************************************************************************)
(* The drivers own the frames they transfer through, and a sector reads    *)
(* back as it was written, on every machine and for every disk.            *)
(***************************************************************************)
EXTENDS BlockDevices, SequenceTheorems, OrderLemmas

-----------------------------------------------------------------------------
(* The inductive invariant. *)

HbaState == [ bounce : Contents, inflight : Command \cup {None}, halted : BOOLEAN,
              disk : [Lbas -> Contents] ]

(* The frames among what an init got. *)
Held(fr) == { fr[i] : i \in DOMAIN fr } \ {0}

Once(fr) == \A i, j \in DOMAIN fr : fr[i] # 0 /\ fr[i] = fr[j] => i = j

(* Each driver holds frames that are nobody else's. *)
FramesApart ==
    /\ xhci.frames \in Seq(Nat) /\ ahci.dma \in Nat
    /\ Once(xhci.frames) /\ Once(nvme.frames)
    /\ Held(xhci.frames) \cap Held(nvme.frames) = {}
    /\ ahci.dma \notin Held(xhci.frames) \cup Held(nvme.frames)
    /\ (Held(xhci.frames) \cup Held(nvme.frames) \cup {ahci.dma}) \cap free = {}
    /\ nvme.online => 0 \notin ToSet(nvme.frames)
    /\ ahci.port # None => ahci.abar # 0

(* Nothing has been transferred before the block layer is up. *)
Untouched ==
    stage # "up" =>
        /\ last = None /\ hba.inflight = None
        /\ \A l \in Lbas : hba.disk[l] = Zero /\ ide[Address(l)] = Zero /\ expect[l] = {Zero}

(* What is on the disk that is in use, or can still get there.  A write in *)
(* the slot of the AHCI port finds its own data in the bounce buffer: the  *)
(* next call would have been excused.                                      *)
OnDisk ==
    ~ nvme.online /\ ~ excused =>
        IF AhciAvailable
          THEN /\ \A l \in Lbas : hba.disk[l] \in expect[l]
               /\ hba.inflight # None /\ hba.inflight.write =>
                    hba.bounce = hba.inflight.data /\ hba.bounce \in expect[hba.inflight.lba]
          ELSE /\ hba.inflight = None
               /\ \A l \in Lbas : AtaReaches(l) => ide[Address(l)] \in expect[l]

IInv ==
    /\ TypeOK
    /\ hba \in HbaState
    /\ hba.inflight # None /\ hba.inflight.write => hba.inflight.data \in Contents
    /\ nvme \in [online : BOOLEAN, frames : Seq(Nat), buf : Contents]
    /\ expect \in [Lbas -> SUBSET Contents]
    /\ excused \in BOOLEAN
    /\ FramesApart
    /\ Untouched
    /\ OnDisk
    /\ ReadsBack

(* It holds when kmain starts. *)
LEMMA InitIInv == Init => IInv
  <1> SUFFICES ASSUME Init PROVE IInv
    OBVIOUS
  <1>1. Zero \in Contents /\ << >> \in Seq(Nat) /\ DOMAIN << >> = {} /\ ToSet(<< >>) = {}
    BY DEF Contents, ToSet
  <1>2. TypeOK
    <2>1. ToSet(devices) \subseteq { machine.pci[f] : f \in DOMAIN machine.pci }
      BY <1>1 DEF Init
    <2>2. free \subseteq 1 .. machine.frames
      BY DEF Init
    <2> QED BY <1>1, <2>1, <2>2 DEF Init, TypeOK
  <1>3. hba \in HbaState /\ hba.inflight = None
    BY <1>1 DEF Init, HbaState
  <1>4. FramesApart
    <2>1. 0 \notin free
      <3>1. machine.frames \in Nat
        BY MachinesAssumption DEF Init
      <3> QED BY <3>1 DEF Init
    <2> QED BY <1>1, <2>1 DEF Init, FramesApart, Once, Held
  <1>5. Untouched /\ OnDisk /\ ReadsBack
    <2>1. \A l \in Lbas : hba.disk[l] = Zero /\ ide[Address(l)] = Zero /\ expect[l] = {Zero}
      BY DEF Init
    <2> QED BY <1>3, <2>1 DEF Init, Untouched, OnDisk, ReadsBack, AhciAvailable
  <1>6. nvme \in [online : BOOLEAN, frames : Seq(Nat), buf : Contents]
    BY <1>1 DEF Init
  <1>7. expect \in [Lbas -> SUBSET Contents] /\ excused \in BOOLEAN
    BY <1>1 DEF Init
  <1> QED BY <1>2, <1>3, <1>4, <1>5, <1>6, <1>7 DEF IInv

-----------------------------------------------------------------------------
(* The inits. *)

(* alloc() gives each caller a free frame of its own, or 0. *)
LEMMA GrantFacts ==
    ASSUME IInv, NEW n \in Nat
    PROVE  LET got == Grant(n) IN
           /\ got \in Seq(Nat) /\ DOMAIN got = 1 .. n
           /\ Once(got) /\ Held(got) \subseteq free
           /\ Held(got) \cap (free \ ToSet(got)) = {}
  <1> DEFINE got == Grant(n)
             N == Cardinality(free)
             place(i) == IF i > N THEN 0 ELSE CHOOSE f \in free : Cardinality(UpToIn(free, f)) = i
  <1>0. got = [i \in 1 .. n |-> place(i)]
    BY DEF Grant, UpToIn
  <1>1. free \in SUBSET Nat /\ 0 \notin free /\ IsFiniteSet(free)
    <2>1. machine.frames \in Nat /\ free \subseteq 1 .. machine.frames
      BY MachinesAssumption DEF IInv, TypeOK
    <2>2. IsFiniteSet(1 .. machine.frames)
      BY <2>1, FS_Interval
    <2>3. IsFiniteSet(free)
      BY <2>1, <2>2, FS_Subset
    <2>4. \A f \in free : f \in Nat /\ f # 0
      BY <2>1
    <2> QED BY <2>3, <2>4
  <1>2. N \in Nat
    BY <1>1, FS_CardinalityType
  <1> HIDE DEF N
  <1>3. ASSUME NEW i \in 1 .. n
        PROVE  IF i > N THEN got[i] = 0
               ELSE got[i] \in free /\ Cardinality(UpToIn(free, got[i])) = i
    <2>1. got[i] = place(i)
      BY <1>0
    <2>2. CASE i > N
      BY <2>1, <2>2
    <2>3. CASE ~ (i > N)
      <3>1. i \in 1 .. Cardinality(free)
        BY <1>2, <2>3 DEF N
      <3>2. \E f \in free : Cardinality(UpToIn(free, f)) = i
        BY <1>1, <3>1, EveryPlace
      <3> QED BY <2>1, <2>3, <3>2
    <2> QED BY <2>2, <2>3
  <1> HIDE DEF got, place
  <1>4. DOMAIN got = 1 .. n /\ \A i \in 1 .. n : got[i] = place(i)
    BY <1>0
  <1>5. ASSUME NEW i \in 1 .. n
        PROVE  got[i] \in Nat /\ (got[i] # 0 => got[i] \in free)
    <2>1. got[i] = 0 \/ got[i] \in free
      BY <1>3
    <2>2. \A f \in free : f \in Nat
      BY <1>1
    <2>3. CASE got[i] = 0
      BY <2>3
    <2>4. CASE got[i] \in free
      BY <2>2, <2>4
    <2> QED BY <2>1, <2>3, <2>4
  <1>6. got \in Seq(Nat)
    <2>1. \A i \in 1 .. n : place(i) \in Nat
      BY <1>4, <1>5
    <2>2. got \in [1 .. n -> Nat]
      BY <1>0, <2>1
    <2> QED BY <2>2
  <1>7. Once(got)
    <2> SUFFICES ASSUME NEW i \in 1 .. n, NEW j \in 1 .. n, got[i] # 0, got[i] = got[j]
                 PROVE  i = j
      BY <1>4 DEF Once
    <2>1. Cardinality(UpToIn(free, got[i])) = i /\ Cardinality(UpToIn(free, got[j])) = j
      BY <1>3
    <2> QED BY <2>1
  <1>8. Held(got) \subseteq free /\ Held(got) \cap (free \ ToSet(got)) = {}
    BY <1>4, <1>5 DEF Held, ToSet
  <1> QED BY <1>4, <1>6, <1>7, <1>8 DEF got

(* A step of the boot that leaves the block layer alone and gives a driver *)
(* what it got keeps the invariant.                                        *)
LEMMA BootKeeps ==
    ASSUME IInv, stage # "up", UNCHANGED << machine, io_vars >>,
           stage' \in {"xhci", "nvme", "ahci", "ata", "up"},
           ToSet(devices') \subseteq { machine.pci[f] : f \in DOMAIN machine.pci },
           free' \subseteq free,
           ahci'.port \in (1 .. Len(machine.ports)) \cup {None},
           nvme' \in [online : BOOLEAN, frames : Seq(Nat), buf : Contents],
           FramesApart'
    PROVE  IInv'
  <1>1. UNCHANGED << machine, hba, ide, last, expect, excused >>
    BY DEF io_vars
  <1>2. TypeOK'
    BY <1>1 DEF IInv, TypeOK
  <1>3. /\ last = None /\ hba.inflight = None
        /\ \A l \in Lbas : hba.disk[l] = Zero /\ ide[Address(l)] = Zero /\ expect[l] = {Zero}
    BY DEF IInv, Untouched
  <1>4. Untouched' /\ ReadsBack'
    BY <1>1, <1>3 DEF Untouched, ReadsBack
  <1>5. OnDisk'
    BY <1>1, <1>3 DEF OnDisk
  <1> QED BY <1>1, <1>2, <1>4, <1>5 DEF IInv

(* The PCI scan takes no frames. *)
LEMMA EnumerateIInv ==
    ASSUME IInv, EnumeratePci
    PROVE  IInv'
  <1>1. PICK s \in Scans : devices' = [i \in DOMAIN s |-> machine.pci[s[i]]]
    BY DEF EnumeratePci, Found
  <1>2. \A i \in DOMAIN s : s[i] \in DOMAIN machine.pci
    BY DEF Scans, Visible
  <1>3. ToSet(devices') \subseteq { machine.pci[f] : f \in DOMAIN machine.pci }
    BY <1>1, <1>2 DEF ToSet
  <1>4. /\ stage # "up" /\ stage' = "xhci"
        /\ UNCHANGED << machine, io_vars >> /\ UNCHANGED << free, xhci, nvme, ahci >>
    BY DEF EnumeratePci
  <1>5. FramesApart'
    BY <1>4 DEF IInv, FramesApart
  <1>6. /\ ahci'.port \in (1 .. Len(machine.ports)) \cup {None} /\ free' \subseteq free
        /\ nvme' \in [online : BOOLEAN, frames : Seq(Nat), buf : Contents]
    BY <1>4 DEF IInv, TypeOK
  <1> QED BY <1>3, <1>4, <1>5, <1>6, BootKeeps

(* xhci::init takes its frames from the free ones. *)
LEMMA XhciInitIInv ==
    ASSUME IInv, XhciInit
    PROVE  IInv'
  <1>1. /\ stage # "up" /\ stage' = "nvme"
        /\ UNCHANGED << machine, io_vars >> /\ UNCHANGED << devices, nvme, ahci >>
    BY DEF XhciInit
  <1>2. FramesApart' /\ free' \subseteq free
    <2>1. CASE UNCHANGED << xhci, free >>
      BY <1>1, <2>1 DEF IInv, FramesApart
    <2>2. CASE xhci' = [online |-> TRUE, frames |-> Grant(3)] /\ free' = free \ ToSet(Grant(3))
      <3> DEFINE got == Grant(3)
      <3>1. /\ got \in Seq(Nat) /\ Once(got) /\ Held(got) \subseteq free
            /\ Held(got) \cap (free \ ToSet(got)) = {}
        BY GrantFacts
      <3>2. xhci'.frames = got /\ free' = free \ ToSet(got)
        BY <2>2
      <3> HIDE DEF got
      <3> QED BY <1>1, <3>1, <3>2 DEF IInv, FramesApart
    <2> QED BY <2>1, <2>2 DEF XhciInit
  <1>3. /\ ahci'.port \in (1 .. Len(machine.ports)) \cup {None}
        /\ nvme' \in [online : BOOLEAN, frames : Seq(Nat), buf : Contents]
        /\ ToSet(devices') \subseteq { machine.pci[f] : f \in DOMAIN machine.pci }
    BY <1>1 DEF IInv, TypeOK
  <1> QED BY <1>1, <1>2, <1>3, BootKeeps

(* nvme::init takes its frames from the free ones, and is online only with *)
(* all of them.                                                            *)
LEMMA NvmeInitIInv ==
    ASSUME IInv, NvmeInit
    PROVE  IInv'
  <1>1. /\ stage # "up" /\ stage' = "ahci"
        /\ UNCHANGED << machine, io_vars >> /\ UNCHANGED << devices, xhci, ahci >>
    BY DEF NvmeInit
  <1>2. FramesApart' /\ free' \subseteq free
        /\ nvme' \in [online : BOOLEAN, frames : Seq(Nat), buf : Contents]
    <2> DEFINE got == Grant(5)
    <2>1. /\ got \in Seq(Nat) /\ Once(got) /\ Held(got) \subseteq free
          /\ Held(got) \cap (free \ ToSet(got)) = {}
      BY GrantFacts
    <2>2. \/ UNCHANGED << nvme, free >>
          \/ /\ Complete(got)
             /\ nvme' = [online |-> TRUE, frames |-> got, buf |-> Zero]
             /\ free' = free \ ToSet(got)
          \/ nvme' = nvme /\ free' = free \ ToSet(got)
      BY DEF NvmeInit
    <2> HIDE DEF got
    <2>3. CASE nvme' = nvme /\ free' \subseteq free
      BY <1>1, <2>3 DEF IInv, FramesApart
    <2>4. CASE /\ Complete(got)
               /\ nvme' = [online |-> TRUE, frames |-> got, buf |-> Zero]
               /\ free' = free \ ToSet(got)
      <3>1. nvme'.frames = got /\ Zero \in Contents
        BY <2>4 DEF Contents
      <3>2. 0 \notin ToSet(got)
        BY <2>4 DEF Complete, ToSet
      <3> QED BY <1>1, <2>1, <2>4, <3>1, <3>2 DEF IInv, FramesApart
    <2> QED BY <2>2, <2>3, <2>4
  <1>3. /\ ahci'.port \in (1 .. Len(machine.ports)) \cup {None}
        /\ ToSet(devices') \subseteq { machine.pci[f] : f \in DOMAIN machine.pci }
    BY <1>1 DEF IInv, TypeOK
  <1> QED BY <1>1, <1>2, <1>3, BootKeeps

(* ahci::init takes a frame for the bounce buffer once it has found the controller. *)
LEMMA AhciInitIInv ==
    ASSUME IInv, AhciInit
    PROVE  IInv'
  <1>1. /\ stage # "up" /\ stage' = "ata"
        /\ UNCHANGED << machine, io_vars >> /\ UNCHANGED << devices, xhci, nvme >>
    BY DEF AhciInit
  <1>2. DiskPort \in (1 .. Len(machine.ports)) \cup {None}
    <2> DEFINE disks == { i \in DOMAIN machine.ports : machine.ports[i] = "disk" }
    <2>1. machine.ports \in Seq(STRING)
      BY MachinesAssumption DEF IInv, TypeOK
    <2>2. disks \in SUBSET Nat /\ disks \subseteq 1 .. Len(machine.ports)
      BY <2>1
    <2>3. disks # {} => Min(disks) \in disks
      <3> HIDE DEF disks
      <3> SUFFICES ASSUME disks # {} PROVE Min(disks) \in disks
        OBVIOUS
      <3>1. \E x \in disks : \A y \in disks : x <= y
        BY <2>2, LeastNat
      <3> QED BY <3>1 DEF Min
    <2>4. DiskPort = IF disks = {} THEN None ELSE Min(disks)
      BY DEF DiskPort
    <2> HIDE DEF disks
    <2> QED BY <2>2, <2>3, <2>4
  <1>3. FramesApart' /\ free' \subseteq free
        /\ ahci'.port \in (1 .. Len(machine.ports)) \cup {None}
    <2>1. CASE UNCHANGED << ahci, free >>
      BY <1>1, <2>1 DEF IInv, FramesApart, TypeOK
    <2>2. CASE /\ Base(FindBar("ahci")) # 0
               /\ ahci' = [abar |-> Base(FindBar("ahci")), port |-> DiskPort, dma |-> Grant(1)[1]]
               /\ free' = free \ ToSet(Grant(1))
      <3> DEFINE got == Grant(1)
      <3>1. /\ got \in Seq(Nat) /\ DOMAIN got = 1 .. 1 /\ Held(got) \subseteq free
            /\ Held(got) \cap (free \ ToSet(got)) = {}
        BY GrantFacts
      <3>2. ahci'.dma = got[1] /\ ahci'.port = DiskPort /\ ahci'.abar # 0 /\ free' = free \ ToSet(got)
        BY <2>2
      <3> HIDE DEF got
      <3>3. got[1] \in Nat /\ (got[1] # 0 => got[1] \in Held(got))
        BY <3>1 DEF Held
      <3>4. 0 \notin free
        <4>1. machine.frames \in Nat /\ free \subseteq 1 .. machine.frames
          BY MachinesAssumption DEF IInv, TypeOK
        <4> QED BY <4>1
      <3>5. 0 \notin Held(xhci.frames) \cup Held(nvme.frames)
        BY DEF Held
      <3>6. got[1] \notin Held(xhci.frames) \cup Held(nvme.frames)
        BY <3>1, <3>3, <3>5 DEF IInv, FramesApart
      <3>7. got[1] \notin free'
        BY <3>1, <3>2, <3>3, <3>4
      <3> QED BY <1>1, <1>2, <3>2, <3>3, <3>6, <3>7 DEF IInv, FramesApart
    <2> QED BY <2>1, <2>2 DEF AhciInit
  <1>4. /\ nvme' \in [online : BOOLEAN, frames : Seq(Nat), buf : Contents]
        /\ ToSet(devices') \subseteq { machine.pci[f] : f \in DOMAIN machine.pci }
    BY <1>1 DEF IInv, TypeOK
  <1> QED BY <1>1, <1>3, <1>4, BootKeeps

(* ata::init looks for the IDE disk; the block layer is up. *)
LEMMA AtaInitIInv ==
    ASSUME IInv, AtaInit
    PROVE  IInv'
  <1>1. /\ stage # "up" /\ stage' = "up"
        /\ UNCHANGED << machine, io_vars >> /\ UNCHANGED << devices, free, xhci, nvme, ahci >>
    BY DEF AtaInit
  <1>2. FramesApart'
    BY <1>1 DEF IInv, FramesApart
  <1>3. /\ ahci'.port \in (1 .. Len(machine.ports)) \cup {None} /\ free' \subseteq free
        /\ nvme' \in [online : BOOLEAN, frames : Seq(Nat), buf : Contents]
        /\ ToSet(devices') \subseteq { machine.pci[f] : f \in DOMAIN machine.pci }
    BY <1>1 DEF IInv, TypeOK
  <1> QED BY <1>1, <1>2, <1>3, BootKeeps

-----------------------------------------------------------------------------
(* The AHCI port. *)

(* A command carried out changes its own sector only. *)
LEMMA DoneFacts ==
    ASSUME NEW h \in HbaState, NEW c \in Command, c.write => c.data \in Contents,
           NEW d \in Done(h, c)
    PROVE  /\ d \in HbaState /\ d.inflight = None
           /\ \A l \in Lbas : l # c.lba \/ ~ c.write => d.disk[l] = h.disk[l]
           /\ c.write => d.disk[c.lba] \in {c.data, h.bounce} /\ d.bounce = h.bounce
           /\ ~ c.write => d.bounce = h.disk[c.lba]
  <1>1. c.lba \in Lbas /\ c.write \in BOOLEAN
    BY DEF Command
  <1>2. CASE c.write
    <2>1. PICK data \in {c.data, h.bounce} : d = [h EXCEPT !.disk[c.lba] = data, !.inflight = None]
      BY <1>2 DEF Done
    <2>2. data \in Contents
      BY <1>2, <2>1 DEF HbaState
    <2> QED BY <1>1, <1>2, <2>1, <2>2 DEF HbaState
  <1>3. CASE ~ c.write
    <2>1. d = [h EXCEPT !.bounce = h.disk[c.lba], !.inflight = None]
      BY <1>3 DEF Done
    <2>2. h.disk[c.lba] \in Contents
      BY <1>1 DEF HbaState
    <2> QED BY <1>1, <1>3, <2>1, <2>2 DEF HbaState
  <1> QED BY <1>1, <1>2, <1>3

(* A command that fails has done nothing or all. *)
LEMMA FailedFacts ==
    ASSUME NEW h \in HbaState, NEW c \in Command, c.write => c.data \in Contents,
           NEW f \in Failed(h, c)
    PROVE  /\ f \in HbaState /\ f.inflight = None
           /\ \A l \in Lbas : l # c.lba \/ ~ c.write => f.disk[l] = h.disk[l]
           /\ c.write => f.disk[c.lba] \in {c.data, h.bounce, h.disk[c.lba]}
  <1>1. PICK d \in {h} \cup Done(h, c) : f = [d EXCEPT !.halted = TRUE, !.inflight = None]
    BY DEF Failed
  <1>2. /\ d \in HbaState
        /\ \A l \in Lbas : l # c.lba \/ ~ c.write => d.disk[l] = h.disk[l]
        /\ c.write => d.disk[c.lba] \in {c.data, h.bounce, h.disk[c.lba]}
    <2>1. CASE d = h
      BY <2>1
    <2>2. CASE d \in Done(h, c)
      BY <2>2, DoneFacts
    <2> QED BY <1>1, <2>1, <2>2
  <1>3. f \in HbaState /\ f.inflight = None /\ f.disk = d.disk
    BY <1>1, <1>2 DEF HbaState
  <1> QED BY <1>2, <1>3

(* A call of the block layer: to read, or to write b. *)
Call(lba, write, b) ==
    /\ lba \in Lbas
    /\ write \in BOOLEAN
    /\ IF write THEN b \in Sectors ELSE b = None

(* What the driver can get back, and what it then leaves in the slot. *)
LEMMA AnswersFacts ==
    ASSUME IInv, NEW lba, NEW write, NEW b, Call(lba, write, b),
           NEW a \in AhciAnswers(lba, write, b)
    PROVE  /\ a.hba \in HbaState
           /\ a.hba.inflight # None /\ a.hba.inflight.write => a.hba.inflight.data \in Contents
           /\ hba.inflight = None =>
                /\ \A l \in Lbas : l # lba \/ ~ write => a.hba.disk[l] = hba.disk[l]
                /\ write => a.hba.disk[lba] \in {b, hba.disk[lba]}
                /\ a.ok /\ write => a.hba.disk[lba] = b
                /\ a.ok => a.hba.inflight = None
                /\ a.ok /\ ~ write => a.hba.bounce = hba.disk[lba]
                /\ a.hba.inflight # None /\ a.hba.inflight.write =>
                      write /\ a.hba.inflight.lba = lba /\ a.hba.inflight.data = b /\ a.hba.bounce = b
  <1> DEFINE h == IF write THEN [hba EXCEPT !.bounce = b] ELSE hba
             new == [lba |-> lba, write |-> write, data |-> b]
  <1>1. /\ lba \in Lbas /\ write \in BOOLEAN /\ (write => b \in Contents)
        /\ b \in Contents \cup {None}
    BY DEF Call, Contents
  <1>2. hba \in HbaState
    BY DEF IInv
  <1>3. /\ h \in HbaState /\ h.disk = hba.disk /\ h.inflight = hba.inflight
        /\ write => h.bounce = b
    BY <1>1, <1>2 DEF HbaState
  <1>4. /\ new \in Command /\ (new.write => new.data \in Contents)
        /\ new.lba = lba /\ new.write = write /\ new.data = b
    BY <1>1 DEF Command
  <1>5. /\ hba.inflight # None => hba.inflight \in Command
        /\ hba.inflight # None /\ hba.inflight.write => hba.inflight.data \in Contents
    BY DEF IInv, TypeOK
  <1>6. \/ a = [ok |-> FALSE, hba |-> h]
        \/ \E c \in {new} \cup ({hba.inflight} \ {None}) :
              \/ \E d \in Done(h, c) : a = [ok |-> TRUE, hba |-> d]
              \/ \E f \in Failed(h, c) : a = [ok |-> FALSE, hba |-> f]
              \/ a = [ok |-> FALSE, hba |-> [h EXCEPT !.inflight = c]]
    BY DEF AhciAnswers
  <1> HIDE DEF h, new
  <1>7. CASE a = [ok |-> FALSE, hba |-> h]
    BY <1>3, <1>5, <1>7
  <1>8. CASE \E c \in {new} \cup ({hba.inflight} \ {None}) :
              \/ \E d \in Done(h, c) : a = [ok |-> TRUE, hba |-> d]
              \/ \E f \in Failed(h, c) : a = [ok |-> FALSE, hba |-> f]
              \/ a = [ok |-> FALSE, hba |-> [h EXCEPT !.inflight = c]]
    <2>1. PICK c \in {new} \cup ({hba.inflight} \ {None}) :
              \/ \E d \in Done(h, c) : a = [ok |-> TRUE, hba |-> d]
              \/ \E f \in Failed(h, c) : a = [ok |-> FALSE, hba |-> f]
              \/ a = [ok |-> FALSE, hba |-> [h EXCEPT !.inflight = c]]
      BY <1>8
    <2>2. c \in Command /\ (c.write => c.data \in Contents)
      BY <1>4, <1>5
    <2>3. hba.inflight = None => c = new
      OBVIOUS
    <2>4. CASE \E d \in Done(h, c) : a = [ok |-> TRUE, hba |-> d]
      <3>1. PICK d \in Done(h, c) : a = [ok |-> TRUE, hba |-> d]
        BY <2>4
      <3>2. /\ d \in HbaState /\ d.inflight = None
            /\ \A l \in Lbas : l # c.lba \/ ~ c.write => d.disk[l] = h.disk[l]
            /\ c.write => d.disk[c.lba] \in {c.data, h.bounce} /\ d.bounce = h.bounce
            /\ ~ c.write => d.bounce = h.disk[c.lba]
        BY <1>3, <2>2, DoneFacts
      <3>3. a.ok /\ a.hba = d
        BY <3>1
      <3> QED BY <1>1, <1>3, <1>4, <2>3, <3>2, <3>3
    <2>5. CASE \E f \in Failed(h, c) : a = [ok |-> FALSE, hba |-> f]
      <3>1. PICK f \in Failed(h, c) : a = [ok |-> FALSE, hba |-> f]
        BY <2>5
      <3>2. /\ f \in HbaState /\ f.inflight = None
            /\ \A l \in Lbas : l # c.lba \/ ~ c.write => f.disk[l] = h.disk[l]
            /\ c.write => f.disk[c.lba] \in {c.data, h.bounce, h.disk[c.lba]}
        BY <1>3, <2>2, FailedFacts
      <3>3. ~ a.ok /\ a.hba = f
        BY <3>1
      <3> QED BY <1>1, <1>3, <1>4, <2>3, <3>2, <3>3
    <2>6. CASE a = [ok |-> FALSE, hba |-> [h EXCEPT !.inflight = c]]
      <3> DEFINE d == [h EXCEPT !.inflight = c]
      <3>1. d \in HbaState /\ d.inflight = c /\ d.disk = h.disk /\ d.bounce = h.bounce
        BY <1>3, <2>2 DEF HbaState
      <3>2. ~ a.ok /\ a.hba = d
        BY <2>6
      <3> HIDE DEF d
      <3> QED BY <1>1, <1>3, <1>4, <2>2, <2>3, <3>1, <3>2
    <2> QED BY <2>1, <2>4, <2>5, <2>6
  <1> QED BY <1>6, <1>7, <1>8

-----------------------------------------------------------------------------
(* The block layer. *)

(* What is on record after a call: E is what a sector written may hold. *)
LEMMA ExpectFacts ==
    ASSUME expect \in [Lbas -> SUBSET Contents], NEW lba \in Lbas, NEW write \in BOOLEAN,
           NEW E, write => E \subseteq Contents,
           expect' = IF ~ write THEN expect ELSE [expect EXCEPT ![lba] = E]
    PROVE  /\ expect' \in [Lbas -> SUBSET Contents]
           /\ \A l \in Lbas : l # lba \/ ~ write => expect'[l] = expect[l]
           /\ write => expect'[lba] = E
  <1>1. CASE write
    BY <1>1
  <1>2. CASE ~ write
    BY <1>2
  <1> QED BY <1>1, <1>2

(* The parts of the invariant a call does not touch. *)
LEMMA CallKeeps ==
    ASSUME IInv, stage = "up", UNCHANGED boot_vars,
           nvme' \in [online : BOOLEAN, frames : Seq(Nat), buf : Contents],
           nvme'.online = nvme.online, nvme'.frames = nvme.frames,
           hba' \in HbaState,
           hba'.inflight # None /\ hba'.inflight.write => hba'.inflight.data \in Contents,
           ide' \in [{ Address(l) : l \in Lbas } -> Contents],
           expect' \in [Lbas -> SUBSET Contents], excused' \in BOOLEAN,
           last' # None /\ last'.ok => last'.data \in Contents,
           OnDisk', ReadsBack'
    PROVE  IInv'
  <1>1. UNCHANGED << machine, stage, devices, free, xhci, ahci >>
    BY DEF boot_vars
  <1>2. FramesApart' /\ Untouched'
    BY <1>1 DEF IInv, FramesApart, Untouched
  <1>3. TypeOK'
    BY <1>1 DEF IInv, TypeOK, HbaState
  <1> QED BY <1>2, <1>3 DEF IInv

(* A call NVMe serves: nothing is transferred. *)
LEMMA ByNvmeIInv ==
    ASSUME IInv, stage = "up", UNCHANGED boot_vars,
           NEW lba, NEW write, NEW b, Call(lba, write, b), ByNvme(lba, write, b)
    PROVE  IInv'
  <1>1. /\ nvme.online /\ Answered(lba, write, b, TRUE, nvme.buf)
        /\ UNCHANGED << hba, ide, excused >>
        /\ nvme' = IF write THEN [nvme EXCEPT !.buf = b] ELSE nvme
    BY DEF ByNvme
  <1>2. write => b \in Contents
    BY DEF Call, Contents
  <1>3. /\ nvme' \in [online : BOOLEAN, frames : Seq(Nat), buf : Contents]
        /\ nvme'.online = nvme.online /\ nvme'.frames = nvme.frames
    BY <1>1, <1>2 DEF IInv
  <1>4. expect' \in [Lbas -> SUBSET Contents] /\ last'.data = nvme.buf
    <2>1. /\ expect' = IF ~ write THEN expect ELSE [expect EXCEPT ![lba] = {b}]
          /\ last' = [write |-> write, lba |-> lba, ok |-> TRUE, data |-> nvme.buf]
      BY <1>1 DEF Answered
    <2>2. lba \in Lbas /\ write \in BOOLEAN /\ (write => {b} \subseteq Contents)
      BY DEF Call, Contents
    <2> QED BY <2>1, <2>2, ExpectFacts DEF IInv
  <1>5. OnDisk' /\ ReadsBack'
    BY <1>1, <1>3 DEF OnDisk, ReadsBack
  <1>6. /\ hba' \in HbaState /\ excused' \in BOOLEAN
        /\ (hba'.inflight # None /\ hba'.inflight.write => hba'.inflight.data \in Contents)
        /\ ide' \in [{ Address(l) : l \in Lbas } -> Contents]
        /\ last'.data \in Contents
    BY <1>1, <1>4 DEF IInv, TypeOK
  <1> QED BY <1>3, <1>4, <1>5, <1>6, CallKeeps

(* A call AHCI serves, completed, refused or timed out. *)
LEMMA ByAhciIInv ==
    ASSUME IInv, stage = "up", UNCHANGED boot_vars,
           NEW lba, NEW write, NEW b, Call(lba, write, b), ByAhci(lba, write, b)
    PROVE  IInv'
  <1>1. PICK a \in AhciAnswers(lba, write, b) :
          a.ok /\ hba' = a.hba /\ Answered(lba, write, b, TRUE, a.hba.bounce)
    BY DEF ByAhci
  <1>2. /\ ~ nvme.online /\ AhciAvailable
        /\ excused' = (excused \/ hba.inflight # None) /\ UNCHANGED << nvme, ide >>
    BY DEF ByAhci
  <1>3. /\ hba' \in HbaState
        /\ hba'.inflight # None /\ hba'.inflight.write => hba'.inflight.data \in Contents
        /\ hba.inflight = None =>
              /\ \A l \in Lbas : l # lba \/ ~ write => hba'.disk[l] = hba.disk[l]
              /\ write => hba'.disk[lba] = b
              /\ hba'.inflight = None
              /\ ~ write => hba'.bounce = hba.disk[lba]
    BY <1>1, AnswersFacts
  <1>4. /\ expect' \in [Lbas -> SUBSET Contents]
        /\ \A l \in Lbas : l # lba \/ ~ write => expect'[l] = expect[l]
        /\ write => expect'[lba] = {b}
        /\ last'.write = write /\ last'.lba = lba /\ last'.data = hba'.bounce
    <2>1. /\ expect' = IF ~ write THEN expect ELSE [expect EXCEPT ![lba] = {b}]
          /\ last' = [write |-> write, lba |-> lba, ok |-> TRUE, data |-> a.hba.bounce]
      BY <1>1 DEF Answered
    <2>2. lba \in Lbas /\ write \in BOOLEAN /\ (write => {b} \subseteq Contents)
      BY DEF Call, Contents
    <2>3. expect \in [Lbas -> SUBSET Contents]
      BY DEF IInv, TypeOK
    <2>4. /\ expect' \in [Lbas -> SUBSET Contents]
          /\ \A l \in Lbas : l # lba \/ ~ write => expect'[l] = expect[l]
          /\ write => expect'[lba] = {b}
      BY <2>1, <2>2, <2>3, ExpectFacts
    <2>5. last'.write = write /\ last'.lba = lba /\ last'.data = hba'.bounce
      BY <1>1, <2>1
    <2> QED BY <2>4, <2>5
  <1>5. AhciAvailable'
    BY <1>2 DEF AhciAvailable, boot_vars
  <1>6. lba \in Lbas
    BY DEF Call
  <1>7. OnDisk' /\ ReadsBack'
    <2>1. CASE excused'
      BY <2>1 DEF OnDisk, ReadsBack
    <2>2. CASE ~ excused'
      <3>1. ~ excused /\ hba.inflight = None
        BY <1>2, <2>2
      <3>2. \A l \in Lbas : hba.disk[l] \in expect[l]
        BY <1>2, <3>1 DEF IInv, OnDisk
      <3>3. \A l \in Lbas : hba'.disk[l] \in expect'[l]
        BY <1>3, <1>4, <3>1, <3>2
      <3>4. OnDisk'
        BY <1>3, <1>5, <3>1, <3>3 DEF OnDisk
      <3>5. ReadsBack'
        BY <1>3, <1>4, <1>6, <3>1, <3>2 DEF ReadsBack
      <3> QED BY <3>4, <3>5
    <2> QED BY <2>1, <2>2
  <1>8. /\ excused' \in BOOLEAN /\ last'.data \in Contents
        /\ ide' \in [{ Address(l) : l \in Lbas } -> Contents]
        /\ nvme' \in [online : BOOLEAN, frames : Seq(Nat), buf : Contents]
        /\ nvme'.online = nvme.online /\ nvme'.frames = nvme.frames
    BY <1>2, <1>3, <1>4 DEF IInv, TypeOK, HbaState
  <1> QED BY <1>3, <1>4, <1>7, <1>8, CallKeeps

(* The AHCI driver is asked first and fails, or is not there. *)
LEMMA PassesOnFacts ==
    ASSUME IInv, NEW lba, NEW write, NEW b, Call(lba, write, b), AhciPassesOn(lba, write, b)
    PROVE  /\ hba' \in HbaState
           /\ hba'.inflight # None /\ hba'.inflight.write => hba'.inflight.data \in Contents
           /\ ~ AhciAvailable => hba' = hba
           /\ hba.inflight = None =>
                /\ \A l \in Lbas : l # lba \/ ~ write => hba'.disk[l] = hba.disk[l]
                /\ write => hba'.disk[lba] \in {b, hba.disk[lba]}
                /\ hba'.inflight # None /\ hba'.inflight.write =>
                      write /\ hba'.inflight.lba = lba /\ hba'.inflight.data = b /\ hba'.bounce = b
  <1>1. CASE ~ AhciAvailable /\ hba' = hba
    BY <1>1 DEF IInv, Call
  <1>2. CASE AhciAvailable /\ \E a \in AhciAnswers(lba, write, b) : ~ a.ok /\ hba' = a.hba
    BY <1>2, AnswersFacts
  <1> QED BY <1>1, <1>2 DEF AhciPassesOn

(* A call no driver serves. *)
LEMMA ByNoneIInv ==
    ASSUME IInv, stage = "up", UNCHANGED boot_vars,
           NEW lba, NEW write, NEW b, Call(lba, write, b), ByNone(lba, write, b)
    PROVE  IInv'
  <1>1. /\ ~ nvme.online /\ AhciPassesOn(lba, write, b)
        /\ Answered(lba, write, b, FALSE, None)
        /\ excused' = (excused \/ hba.inflight # None)
        /\ UNCHANGED << nvme, ide >>
    BY DEF ByNone
  <1>2. /\ hba' \in HbaState
        /\ hba'.inflight # None /\ hba'.inflight.write => hba'.inflight.data \in Contents
        /\ ~ AhciAvailable => hba' = hba
        /\ hba.inflight = None =>
              /\ \A l \in Lbas : l # lba \/ ~ write => hba'.disk[l] = hba.disk[l]
              /\ write => hba'.disk[lba] \in {b, hba.disk[lba]}
              /\ hba'.inflight # None /\ hba'.inflight.write =>
                    write /\ hba'.inflight.lba = lba /\ hba'.inflight.data = b /\ hba'.bounce = b
    BY <1>1, PassesOnFacts
  <1>3. /\ expect' \in [Lbas -> SUBSET Contents]
        /\ \A l \in Lbas : l # lba \/ ~ write => expect'[l] = expect[l]
        /\ write => expect'[lba] = expect[lba] \cup {b}
        /\ ~ last'.ok
    <2>1. /\ expect' = IF ~ write THEN expect ELSE [expect EXCEPT ![lba] = expect[lba] \cup {b}]
          /\ last' = [write |-> write, lba |-> lba, ok |-> FALSE, data |-> None]
      BY <1>1 DEF Answered
    <2>2. lba \in Lbas /\ write \in BOOLEAN /\ (write => expect[lba] \cup {b} \subseteq Contents)
      BY DEF Call, Contents, IInv
    <2> QED BY <2>1, <2>2, ExpectFacts DEF IInv
  <1>4. AhciAvailable' = AhciAvailable /\ lba \in Lbas
    BY DEF AhciAvailable, boot_vars, Call
  <1>5. OnDisk' /\ ReadsBack'
    <2>1. ReadsBack'
      BY <1>3 DEF ReadsBack
    <2>2. CASE excused'
      BY <2>1, <2>2 DEF OnDisk
    <2>3. CASE ~ excused'
      <3>1. ~ excused /\ hba.inflight = None
        BY <1>1, <2>3
      <3>2. CASE AhciAvailable
        <4>1. \A l \in Lbas : hba.disk[l] \in expect[l]
          BY <1>1, <3>1, <3>2 DEF IInv, OnDisk
        <4>2. \A l \in Lbas : hba'.disk[l] \in expect'[l]
          BY <1>2, <1>3, <3>1, <4>1
        <4>3. hba'.inflight # None /\ hba'.inflight.write =>
                hba'.bounce = hba'.inflight.data /\ hba'.bounce \in expect'[hba'.inflight.lba]
          BY <1>2, <1>3, <3>1
        <4> QED BY <1>4, <2>1, <3>2, <4>2, <4>3 DEF OnDisk
      <3>3. CASE ~ AhciAvailable
        <4>1. \A l \in Lbas : AtaReaches(l) => ide[Address(l)] \in expect[l]
          BY <1>1, <3>1, <3>3 DEF IInv, OnDisk
        <4>2. \A l \in Lbas : AtaReaches(l) => ide'[Address(l)] \in expect'[l]
          BY <1>1, <1>3, <4>1
        <4> QED BY <1>2, <1>4, <2>1, <3>1, <3>3, <4>2 DEF OnDisk
      <3> QED BY <3>2, <3>3
    <2> QED BY <2>2, <2>3
  <1>6. /\ excused' \in BOOLEAN
        /\ ide' \in [{ Address(l) : l \in Lbas } -> Contents]
        /\ nvme' \in [online : BOOLEAN, frames : Seq(Nat), buf : Contents]
        /\ nvme'.online = nvme.online /\ nvme'.frames = nvme.frames
    BY <1>1 DEF IInv, TypeOK
  <1> QED BY <1>2, <1>3, <1>5, <1>6, CallKeeps

(* A call ATA serves, at the address its 28 bits make of the LBA. *)
LEMMA ByAtaIInv ==
    ASSUME IInv, stage = "up", UNCHANGED boot_vars,
           NEW lba, NEW write, NEW b, Call(lba, write, b), ByAta(lba, write, b)
    PROVE  IInv'
  <1> DEFINE at == Address(lba)
  <1>1. ~ nvme.online /\ AtaReaches(lba) /\ AhciPassesOn(lba, write, b) /\ UNCHANGED nvme
    BY DEF ByAta
  <1>2. PICK a \in AtaAnswers(lba, write, b) :
         /\ ide' = a.ide
         /\ Answered(lba, write, b, a.ok, ide[at])
         /\ excused' = (excused \/ AhciAvailable \/ (write /\ a.ok /\ a.ide[at] # b))
    BY DEF ByAta
  <1>3. lba \in Lbas /\ write \in BOOLEAN /\ (write => b \in Contents)
    BY DEF Call, Contents
  <1>4. a.ok \in BOOLEAN /\ (~ write => ide' = ide)
        /\ (write => ide' = ide \/ ide' = [ide EXCEPT ![at] = b])
    BY <1>2, <1>3 DEF AtaAnswers
  <1>5. ide \in [{ Address(l) : l \in Lbas } -> Contents] /\ at \in { Address(l) : l \in Lbas }
    BY <1>3 DEF IInv, TypeOK
  <1>6. /\ hba' \in HbaState
        /\ hba'.inflight # None /\ hba'.inflight.write => hba'.inflight.data \in Contents
        /\ ~ AhciAvailable => hba' = hba
    BY <1>1, PassesOnFacts
  <1>7. /\ expect' \in [Lbas -> SUBSET Contents]
        /\ \A l \in Lbas : l # lba \/ ~ write => expect'[l] = expect[l]
        /\ write /\ a.ok => expect'[lba] = {b}
        /\ write /\ ~ a.ok => expect'[lba] = expect[lba] \cup {b}
        /\ last'.write = write /\ last'.lba = lba /\ last'.ok = a.ok /\ last'.data = ide[at]
    <2> DEFINE E == IF a.ok THEN {b} ELSE expect[lba] \cup {b}
    <2>1. /\ expect' = IF ~ write THEN expect ELSE [expect EXCEPT ![lba] = E]
          /\ last' = [write |-> write, lba |-> lba, ok |-> a.ok, data |-> ide[at]]
      BY <1>2 DEF Answered
    <2>2. write => E \subseteq Contents
      BY <1>3 DEF IInv
    <2>3. (a.ok => E = {b}) /\ (~ a.ok => E = expect[lba] \cup {b})
      OBVIOUS
    <2> HIDE DEF E
    <2>4. /\ expect' \in [Lbas -> SUBSET Contents]
          /\ \A l \in Lbas : l # lba \/ ~ write => expect'[l] = expect[l]
          /\ write => expect'[lba] = E
      BY <1>3, <2>1, <2>2, ExpectFacts DEF IInv
    <2> QED BY <2>1, <2>3, <2>4
  <1>8. AhciAvailable' = AhciAvailable
    BY DEF AhciAvailable, boot_vars
  <1>9. \A l \in Lbas : AtaReaches(l) => Address(l) = l
    BY DevicesAssumption DEF AtaReaches, Address
  <1>10. OnDisk' /\ ReadsBack'
    <2>1. CASE excused'
      BY <2>1 DEF OnDisk, ReadsBack
    <2>2. CASE ~ excused'
      <3>1. ~ excused /\ ~ AhciAvailable /\ (write /\ a.ok => ide'[at] = b)
        BY <1>2, <2>2
      <3>2. /\ hba.inflight = None
            /\ \A l \in Lbas : AtaReaches(l) => ide[Address(l)] \in expect[l]
        BY <1>1, <3>1 DEF IInv, OnDisk
      <3>3. ASSUME NEW l \in Lbas, AtaReaches(l) PROVE ide'[Address(l)] \in expect'[l]
        <4>1. CASE l = lba
          <5>1. ide'[at] = ide[at] \/ (write /\ ide'[at] = b)
            BY <1>3, <1>4, <1>5
          <5> QED BY <1>3, <1>4, <1>7, <3>1, <3>2, <3>3, <4>1, <5>1
        <4>2. CASE l # lba
          <5>1. Address(l) # at /\ Address(l) \in { Address(k) : k \in Lbas }
            BY <1>1, <1>3, <1>9, <3>3, <4>2
          <5>2. ide'[Address(l)] = ide[Address(l)]
            BY <1>3, <1>4, <1>5, <5>1
          <5> QED BY <1>7, <3>2, <3>3, <4>2, <5>2
        <4> QED BY <4>1, <4>2
      <3>4. OnDisk'
        BY <1>6, <1>8, <3>1, <3>2, <3>3 DEF OnDisk, AtaReaches
      <3>5. ReadsBack'
        BY <1>1, <1>3, <1>7, <3>2 DEF ReadsBack
      <3> QED BY <3>4, <3>5
    <2> QED BY <2>1, <2>2
  <1>11. excused' \in BOOLEAN
    BY <1>2 DEF IInv
  <1>12. ide' \in [{ Address(l) : l \in Lbas } -> Contents] /\ last'.data \in Contents
    BY <1>3, <1>4, <1>5, <1>7
  <1>13. /\ nvme' \in [online : BOOLEAN, frames : Seq(Nat), buf : Contents]
         /\ nvme'.online = nvme.online /\ nvme'.frames = nvme.frames
    BY <1>1 DEF IInv
  <1> QED BY <1>6, <1>7, <1>10, <1>11, <1>12, <1>13, CallKeeps

(* A read or write of the block layer, whoever serves it. *)
LEMMA TransferIInv ==
    ASSUME IInv, NEW lba, NEW write, NEW b, Call(lba, write, b), Transfer(lba, write, b)
    PROVE  IInv'
  <1>1. stage = "up" /\ UNCHANGED boot_vars
    BY DEF Transfer
  <1> QED BY <1>1, ByNvmeIInv, ByAhciIInv, ByAtaIInv, ByNoneIInv DEF Transfer

(* The controller finishes what the driver has stopped waiting for. *)
LEMMA HbaFinishesIInv ==
    ASSUME IInv, HbaFinishes
    PROVE  IInv'
  <1> DEFINE c == hba.inflight
  <1>1. /\ c # None /\ UNCHANGED << boot_vars, nvme, ide, last, expect, excused >>
        /\ hba' \in Done(hba, c) \cup Failed(hba, c)
    BY DEF HbaFinishes
  <1>2. c \in Command /\ (c.write => c.data \in Contents) /\ hba \in HbaState
    BY <1>1 DEF IInv, TypeOK
  <1>3. /\ hba' \in HbaState /\ hba'.inflight = None
        /\ \A l \in Lbas : l # c.lba \/ ~ c.write => hba'.disk[l] = hba.disk[l]
        /\ c.write => hba'.disk[c.lba] \in {c.data, hba.bounce, hba.disk[c.lba]}
    <2> HIDE DEF c
    <2>1. CASE hba' \in Done(hba, c)
      BY <1>2, <2>1, DoneFacts
    <2>2. CASE hba' \in Failed(hba, c)
      BY <1>2, <2>2, FailedFacts
    <2> QED BY <1>1, <2>1, <2>2
  <1>4. stage = "up"
    BY <1>1 DEF IInv, Untouched
  <1>5. AhciAvailable' = AhciAvailable
    BY <1>1 DEF AhciAvailable, boot_vars
  <1>6. OnDisk'
    <2> SUFFICES ASSUME ~ nvme.online, ~ excused
                 PROVE  AhciAvailable /\ \A l \in Lbas : hba'.disk[l] \in expect[l]
      BY <1>1, <1>3, <1>5 DEF OnDisk
    <2>1. /\ AhciAvailable /\ \A l \in Lbas : hba.disk[l] \in expect[l]
          /\ c.write => hba.bounce = c.data /\ hba.bounce \in expect[c.lba]
      BY <1>1 DEF IInv, OnDisk
    <2> QED BY <1>2, <1>3, <2>1 DEF Command
  <1>7. ReadsBack'
    BY <1>1 DEF IInv, ReadsBack
  <1>8. /\ nvme' \in [online : BOOLEAN, frames : Seq(Nat), buf : Contents]
        /\ nvme'.online = nvme.online /\ nvme'.frames = nvme.frames
        /\ ide' \in [{ Address(l) : l \in Lbas } -> Contents]
        /\ expect' \in [Lbas -> SUBSET Contents] /\ excused' \in BOOLEAN
        /\ (last' # None /\ last'.ok => last'.data \in Contents)
    BY <1>1 DEF IInv, TypeOK
  <1> QED BY <1>1, <1>3, <1>4, <1>6, <1>7, <1>8, CallKeeps

(* Every step keeps the invariant. *)
LEMMA StepIInv == IInv /\ [Next]_vars => IInv'
  <1> SUFFICES ASSUME IInv, [Next]_vars PROVE IInv'
    OBVIOUS
  <1>1. ASSUME NEW lba \in Lbas, ReadDiskSector(lba) PROVE IInv'
    BY <1>1, TransferIInv DEF ReadDiskSector, Call
  <1>2. ASSUME NEW lba \in Lbas, NEW b \in Sectors, WriteDiskSector(lba, b) PROVE IInv'
    BY <1>2, TransferIInv DEF WriteDiskSector, Call
  <1>3. CASE EnumeratePci \/ XhciInit \/ NvmeInit \/ AhciInit \/ AtaInit
    BY <1>3, EnumerateIInv, XhciInitIInv, NvmeInitIInv, AhciInitIInv, AtaInitIInv
  <1>4. CASE HbaFinishes
    BY <1>4, HbaFinishesIInv
  <1>5. CASE UNCHANGED vars
    BY <1>5 DEF vars, IInv, TypeOK, FramesApart, Untouched, OnDisk, ReadsBack, AhciAvailable
  <1> QED BY <1>1, <1>2, <1>3, <1>4, <1>5 DEF Next

(* The invariant holds in every reachable state. *)
LEMMA Invariant == Spec => []IInv
  BY InitIInv, StepIInv, PTL DEF Spec

-----------------------------------------------------------------------------

(* Every variable has its type and the AHCI slot holds a command the       *)
(* driver issued.                                                          *)
THEOREM BlockDevicesTypeOK == Spec => []TypeOK
  <1>1. IInv => TypeOK
    BY DEF IInv
  <1> QED BY <1>1, Invariant, PTL

(* No frame a controller transfers through is free or another one's, and a *)
(* driver in use has all the frames it needs, on every machine.            *)
THEOREM DmaFramesOwned == Spec => []DmaOwned
  <1>1. IInv => DmaOwned
    <2> SUFFICES ASSUME IInv PROVE DmaOwned
      OBVIOUS
    <2> DEFINE x == xhci.frames
               n == nvme.frames
               d == << ahci.dma >>
               xn == x \o n
               all == xn \o d
    <2>1. x \in Seq(Nat) /\ n \in Seq(Nat) /\ d \in Seq(Nat) /\ Len(d) = 1 /\ d[1] = ahci.dma
      BY DEF IInv, FramesApart
    <2>2. /\ xn \in Seq(Nat) /\ Len(xn) = Len(x) + Len(n)
          /\ \A i \in 1 .. Len(x) + Len(n) : xn[i] = IF i <= Len(x) THEN x[i] ELSE n[i - Len(x)]
      BY <2>1, ConcatProperties
    <2> HIDE DEF xn, d
    <2>3. /\ all \in Seq(Nat) /\ Len(all) = Len(xn) + Len(d)
          /\ \A i \in 1 .. Len(xn) + Len(d) : all[i] = IF i <= Len(xn) THEN xn[i] ELSE d[i - Len(xn)]
      <3>1. xn \in Seq(Nat) /\ d \in Seq(Nat)
        BY <2>1, <2>2
      <3> QED BY <3>1, ConcatProperties
    <2>4. DmaFrames = all
      BY DEF DmaFrames, xn, d
    <2>5. /\ Once(x) /\ Once(n) /\ Held(x) \cap Held(n) = {}
          /\ ahci.dma \notin Held(x) \cup Held(n)
          /\ (Held(x) \cup Held(n) \cup {ahci.dma}) \cap free = {}
      BY DEF IInv, FramesApart
    <2> HIDE DEF x, n, d, xn, all
    <2>6. Len(x) \in Nat /\ Len(n) \in Nat /\ DOMAIN x = 1 .. Len(x) /\ DOMAIN n = 1 .. Len(n)
      BY <2>1
    <2>7. ASSUME NEW i \in DOMAIN all
          PROVE  \/ i \in DOMAIN x /\ all[i] = x[i]
                 \/ i - Len(x) \in DOMAIN n /\ all[i] = n[i - Len(x)]
                 \/ i = Len(x) + Len(n) + 1 /\ all[i] = ahci.dma
      <3>1. i \in 1 .. Len(x) + Len(n) + 1 /\ Len(xn) + Len(d) = Len(x) + Len(n) + 1
        BY <2>1, <2>2, <2>3, <2>6
      <3>2. CASE i <= Len(x)
        BY <2>2, <2>3, <2>6, <3>1, <3>2
      <3>3. CASE Len(x) < i /\ i <= Len(x) + Len(n)
        <4>1. i - Len(x) \in 1 .. Len(n) /\ i \in 1 .. Len(x) + Len(n) /\ ~ (i <= Len(x))
          BY <2>6, <3>1, <3>3
        <4>2. xn[i] = n[i - Len(x)] /\ i <= Len(xn)
          BY <2>2, <3>3, <4>1
        <4>3. all[i] = xn[i]
          BY <2>3, <3>1, <4>2
        <4> QED BY <2>6, <4>1, <4>2, <4>3
      <3>4. CASE i = Len(x) + Len(n) + 1
        BY <2>1, <2>2, <2>3, <2>6, <3>1, <3>4
      <3> QED BY <2>6, <3>1, <3>2, <3>3, <3>4
    <2>8. ASSUME NEW i \in DOMAIN all, NEW j \in DOMAIN all, all[i] # 0
          PROVE  all[i] \notin free /\ (all[i] = all[j] => i = j)
      <3>1. i \in Int /\ j \in Int
        BY <2>3
      <3>2. \A k \in DOMAIN x : x[k] # 0 => x[k] \in Held(x)
        BY DEF Held
      <3>3. \A k \in DOMAIN n : n[k] # 0 => n[k] \in Held(n)
        BY DEF Held
      <3>4. all[i] \notin free
        BY <2>5, <2>7, <2>8, <3>2, <3>3
      <3>5. ASSUME all[i] = all[j] PROVE i = j
        <4>1. CASE i \in DOMAIN x /\ all[i] = x[i]
          BY <2>5, <2>7, <2>8, <3>2, <3>3, <3>5, <4>1 DEF Once
        <4>2. CASE i - Len(x) \in DOMAIN n /\ all[i] = n[i - Len(x)]
          <5>1. j - Len(x) \in DOMAIN n /\ all[j] = n[j - Len(x)]
            BY <2>5, <2>7, <2>8, <3>2, <3>3, <3>5, <4>2
          <5>2. i - Len(x) = j - Len(x)
            BY <2>5, <2>8, <3>5, <4>2, <5>1 DEF Once
          <5> QED BY <2>6, <3>1, <5>2
        <4>3. CASE i = Len(x) + Len(n) + 1 /\ all[i] = ahci.dma
          BY <2>5, <2>7, <2>8, <3>2, <3>3, <3>5, <4>3
        <4> QED BY <2>7, <4>1, <4>2, <4>3
      <3> QED BY <3>4, <3>5
    <2>9. (nvme.online => 0 \notin ToSet(nvme.frames)) /\ (AhciAvailable => ahci.dma # 0 /\ ahci.abar # 0)
      BY DEF IInv, FramesApart, AhciAvailable
    <2> QED BY <2>4, <2>8, <2>9 DEF DmaOwned
  <1> QED BY <1>1, Invariant, PTL

(* A sector read without an error holds what was last written to it, or    *)
(* what a failed write may have left, with whatever delay the controller   *)
(* carries out abandoned commands.                                         *)
THEOREM SectorsReadBack == Spec => []ReadsBack
  <1>1. IInv => ReadsBack
    BY DEF IInv
  <1> QED BY <1>1, Invariant, PTL
=============================================================================
