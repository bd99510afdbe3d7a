----------------------------- MODULE MCStorage ------------------------------
(***************************************************************************)
(* Instances of Storage.  The boot volume holds one file, SHELL, which     *)
(* lies across USER_CLUSTER: in the shipped fs.img SHELL.ELF has the       *)
(* clusters 72 to 117, and install_to_disk copies them.                    *)
(***************************************************************************)
EXTENDS Storage

(* Every name is an 8.3 name. *)
MCShort == [n \in Names |-> n]

(* No base name is a prefix of another name. *)
MCStartsWith == [n \in Names |-> {n}]

MCVolumeDir ==
    [i \in 1 .. ROOT_ENTRIES |->
        IF i = 1 THEN [name |-> "SHELL", cluster |-> 2, size |-> 2] ELSE End]

MCVolumeData == (2 :> "y" @@ 3 :> "z" @@ 4 :> NoBlock)
=============================================================================
