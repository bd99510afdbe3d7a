------------------------------ MODULE UserCopy ------------------------------
(***************************************************************************)
(* The copies between the kernel and a program's buffers: write_user_bytes *)
(* (messages, file contents, listings), read_user_bytes (SYS_WRITE_FILE)   *)
(* and read_user_string (names) of syscall.rs, through get_mapped_frame of *)
(* memory/paging.rs.                                                       *)
(*                                                                         *)
(* Memory is bytes, a page has PAGE of them (4096 in the code).  A program *)
(* reaches its memory through the processor's own translation; the kernel  *)
(* walks the same tables in software.  The tables are any tables; what     *)
(* changes them is the subject of Memory.                                  *)
(***************************************************************************)
EXTENDS Naturals, Sequences, SequencesExt, FiniteSetsExt

CONSTANTS
    PAGE,       \* bytes of a page
    Frames,     \* 0 .. N: the frames programs may get; frame N + 1 is the kernel's
    Procs,
    Pages,      \* page numbers of a program's address space
    Unmapped,   \* an entry without PRESENT
    Bytes,      \* contents of a byte, 0 among them
    MaxCopy     \* bound: bytes of one copy

VARIABLES
    memory,     \* physical memory
    tables,     \* [Procs -> [Pages -> frame or Unmapped]]
    last        \* the last copy: what the kernel holds and where the program has it

vars == << memory, tables, last >>

Physical == 0 .. (Max(Frames) + 2) * PAGE - 1

Addresses == { n * PAGE + off : n \in Pages, off \in 0 .. PAGE - 1 }

-----------------------------------------------------------------------------

Offset(vaddr) == vaddr % PAGE

Entry(p, vaddr) ==
    LET n == vaddr \div PAGE IN IF n \in Pages THEN tables[p][n] ELSE Unmapped

(* What the processor makes of an address of program p. *)
Translated(p, vaddr) == Entry(p, vaddr) * PAGE + Offset(vaddr)

(* get_mapped_frame: not the frame, but the physical address of the byte. *)
get_mapped_frame(p, vaddr) ==
    IF Entry(p, vaddr) = Unmapped THEN Unmapped ELSE Entry(p, vaddr) * PAGE + Offset(vaddr)

(* The byte the two helpers for buffers reach: they add the offset. *)
Target(p, vaddr) ==
    IF get_mapped_frame(p, vaddr) = Unmapped THEN Unmapped
    ELSE get_mapped_frame(p, vaddr) + Offset(vaddr)

-----------------------------------------------------------------------------

(* The program stores a byte. *)
UserStores(p, vaddr, b) ==
    /\ Entry(p, vaddr) # Unmapped
    /\ memory' = [memory EXCEPT ![Translated(p, vaddr)] = b]
    /\ last' = << >>
    /\ UNCHANGED tables

(* write_user_bytes, byte after byte; an unmapped byte is skipped. *)
WriteUserBytes(p, start, data) ==
    /\ memory' =
         [a \in Physical |->
             LET hits == { i \in DOMAIN data : Target(p, start + i - 1) = a }
             IN  IF hits = {} THEN memory[a] ELSE data[Max(hits)]]
    /\ last' = [pid |-> p, start |-> start, data |-> data]
    /\ UNCHANGED tables

(* read_user_bytes into a zeroed buffer; an unmapped byte stays zero. *)
ReadUserBytes(p, start, len) ==
    /\ last' = [ pid |-> p, start |-> start,
                 data |-> [i \in 1 .. len |->
                     LET t == Target(p, start + i - 1) IN IF t = Unmapped THEN 0 ELSE memory[t]] ]
    /\ UNCHANGED << memory, tables >>

(* read_user_string uses the address as it is, and gives up at the first   *)
(* unmapped byte.                                                          *)
ReadUserString(p, start, len) ==
    /\ last' =
         IF \E i \in 1 .. len : get_mapped_frame(p, start + i - 1) = Unmapped THEN << >>
         ELSE [ pid |-> p, start |-> start,
                data |-> [i \in 1 .. len |-> memory[get_mapped_frame(p, start + i - 1)]] ]
    /\ UNCHANGED << memory, tables >>

Init ==
    /\ memory = [a \in Physical |-> 0]
    /\ tables \in [Procs -> [Pages -> Frames \cup {Unmapped}]]
    /\ last = << >>

Next ==
    \E p \in Procs, vaddr \in Addresses :
        \/ \E b \in Bytes : UserStores(p, vaddr, b)
        \/ \E data \in BoundedSeq(Bytes, MaxCopy) : WriteUserBytes(p, vaddr, data)
        \/ \E len \in 1 .. MaxCopy :
              ReadUserBytes(p, vaddr, len) \/ ReadUserString(p, vaddr, len)

Spec == Init /\ [][Next]_vars

-----------------------------------------------------------------------------

(* "write bytes into a userspace address via the process's page table",    *)
(* and likewise for reads: after a copy the kernel's bytes and the bytes   *)
(* the program finds at the addresses it named are the same, wherever they *)
(* are mapped at all.                                                      *)
CopiedInPlace ==
    last # << >> =>
        \A i \in DOMAIN last.data :
            Entry(last.pid, last.start + i - 1) # Unmapped =>
                memory[Translated(last.pid, last.start + i - 1)] = last.data[i]
=============================================================================
