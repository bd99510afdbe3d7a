----------------------------- MODULE IpcMessage -----------------------------
(***************************************************************************)
(* IPC messages and what one MessageQueue does with them, stated on plain  *)
(* sequences: kernel/src/ipc.rs, Message and MessageQueue::push.  The ring *)
(* buffer that implements these operators is module MessageQueue; the      *)
(* kernel module uses the operators directly.                              *)
(*                                                                         *)
(* The six 64-bit arguments of a Message are abstracted to one payload.    *)
(***************************************************************************)
EXTENDS Naturals, Sequences

CONSTANTS
    QUEUE_SIZE,      \* capacity of one queue (64 in the code)
    Senders,         \* pids that appear as senders; 0 is the idle task
    MsgTypes,        \* message types in use
    MSG_MOUSE_MOVE,  \* the one type that is coalesced (0x41)
    Payloads         \* abstract argument blocks

ASSUME QueueSizeAssumption == QUEUE_SIZE \in Nat \ {0}

Message == [sender: Senders, msg_type: MsgTypes, args: Payloads]

(* push() overwrites the newest queued message instead of adding one when   *)
(* both are mouse moves of the same sender.                                 *)
SameMove(old, new) ==
    /\ new.msg_type = MSG_MOUSE_MOVE
    /\ old.msg_type = MSG_MOUSE_MOVE
    /\ old.sender = new.sender

Coalesces(q, m) == q # << >> /\ SameMove(q[Len(q)], m)

(* The value push() returns: a coalesced move is accepted by a full queue.  *)
Accepts(q, m) == Coalesces(q, m) \/ Len(q) < QUEUE_SIZE

(* The queue after push() returned true. *)
Pushed(q, m) ==
    IF Coalesces(q, m) THEN [q EXCEPT ![Len(q)] = m] ELSE Append(q, m)
=============================================================================
