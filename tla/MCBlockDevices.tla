--------------------------- MODULE MCBlockDevices ---------------------------
(***************************************************************************)
(* The machines BlockDevices is checked on: every combination of a PCI     *)
(* configuration, memory that is enough or runs out during the inits, a    *)
(* disk behind an optical drive or none, firmware that left a command list *)
(* or not, and what is on the IDE channel.                                 *)
(***************************************************************************)
EXTENDS BlockDevices, TLC

Function(class, bar, multi) == [class |-> class, bar |-> bar, multi |-> multi]

MCPci == {
    (* SATA alone. *)
    << 0, 0 >> :> Function("ahci", 48, FALSE),
    (* USB and NVMe in one slot, SATA in the next, all taking frames. *)
    << 0, 0 >> :> Function("usb", 16, TRUE) @@ << 0, 1 >> :> Function("nvme", 32, FALSE)
        @@ << 1, 0 >> :> Function("ahci", 48, FALSE),
    (* A first SATA controller without an address; a function the header   *)
    (* hides.                                                              *)
    << 0, 0 >> :> Function("ahci", 0, FALSE) @@ << 0, 1 >> :> Function("nvme", 32, FALSE)
        @@ << 1, 0 >> :> Function("ahci", 48, FALSE),
    (* An address that is only flag bits. *)
    << 0, 0 >> :> Function("nvme", 8, FALSE) }

MCMachines ==
    [ pci : MCPci,
      frames : {5, 9},
      ports : { << "optical", "disk" >>, << "optical" >> },
      clb : BOOLEAN,
      ide : {"optical", "disk"} ]
=============================================================================
