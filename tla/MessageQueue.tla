---------------------------- MODULE MessageQueue ----------------------------
(***************************************************************************)
(* The ring buffer of kernel/src/ipc.rs: struct MessageQueue, push and pop.*)
(* Every queue is reached under the IPC_QUEUES lock with interrupts off,   *)
(* so one call is one step.                                                *)
(***************************************************************************)
EXTENDS IpcMessage, Positions

CONSTANT NoMessage       \* Option::None

ASSUME NoMessageAssumption == NoMessage \notin Message

VARIABLES
    messages,   \* [Option<Message>; QUEUE_SIZE]
    head,       \* index of the oldest message
    tail,       \* index the next message goes to
    count,      \* number of messages
    ret         \* what the last call returned

vars == << messages, head, tail, count, ret >>

Index == 0 .. QUEUE_SIZE - 1

(* Type correctness; head and tail never leave the array. *)
TypeOK ==
    /\ messages \in [Index -> Message \cup {NoMessage}]
    /\ head \in Index
    /\ tail \in Index
    /\ count \in 0 .. QUEUE_SIZE
    /\ ret \in [op : {"new"}]
               \cup [op : {"push"}, ok : BOOLEAN]
               \cup [op : {"pop"}, msg : Message \cup {NoMessage}]

-----------------------------------------------------------------------------

(* Mutated forms, each a slip this code could plausibly contain. *)

LastIndexUnadjusted == tail

FullOffByOne == count > QUEUE_SIZE

CoalescesAnyLastMessage(m) ==
    /\ m.msg_type = MSG_MOUSE_MOVE
    /\ count > 0
    /\ messages[(tail + QUEUE_SIZE - 1) % QUEUE_SIZE] # NoMessage
    /\ messages[(tail + QUEUE_SIZE - 1) % QUEUE_SIZE].sender = m.sender

PopLeavesSlot ==
    /\ count # 0
    /\ head' = (head + 1) % QUEUE_SIZE
    /\ count' = count - 1
    /\ ret' = [op |-> "pop", msg |-> messages[head]]
    /\ UNCHANGED << messages, tail >>

-----------------------------------------------------------------------------

(* MessageQueue::new *)
Init ==
    /\ messages = [i \in Index |-> NoMessage]
    /\ head = 0
    /\ tail = 0
    /\ count = 0
    /\ ret = [op |-> "new"]

last_idx == (tail + QUEUE_SIZE - 1) % QUEUE_SIZE

(* The condition of the early return that overwrites the newest message. *)
CoalescesWithLast(m) ==
    /\ m.msg_type = MSG_MOUSE_MOVE
    /\ count > 0
    /\ messages[last_idx] # NoMessage
    /\ SameMove(messages[last_idx], m)

Full == count >= QUEUE_SIZE

PushCoalesce(m) ==
    /\ CoalescesWithLast(m)
    /\ messages' = [messages EXCEPT ![last_idx] = m]
    /\ ret' = [op |-> "push", ok |-> TRUE]
    /\ UNCHANGED << head, tail, count >>

PushFull(m) ==
    /\ ~ CoalescesWithLast(m)
    /\ Full
    /\ ret' = [op |-> "push", ok |-> FALSE]
    /\ UNCHANGED << messages, head, tail, count >>

PushStore(m) ==
    /\ ~ CoalescesWithLast(m)
    /\ ~ Full
    /\ messages' = [messages EXCEPT ![tail] = m]
    /\ tail' = (tail + 1) % QUEUE_SIZE
    /\ count' = count + 1
    /\ ret' = [op |-> "push", ok |-> TRUE]
    /\ UNCHANGED head

PopEmpty ==
    /\ count = 0
    /\ ret' = [op |-> "pop", msg |-> NoMessage]
    /\ UNCHANGED << messages, head, tail, count >>

PopTake ==
    /\ count # 0
    /\ messages' = [messages EXCEPT ![head] = NoMessage]
    /\ head' = (head + 1) % QUEUE_SIZE
    /\ count' = count - 1
    /\ ret' = [op |-> "pop", msg |-> messages[head]]
    /\ UNCHANGED tail

Next ==
    \/ \E m \in Message : PushCoalesce(m) \/ PushFull(m) \/ PushStore(m)
    \/ PopEmpty
    \/ PopTake

Spec == Init /\ [][Next]_vars

-----------------------------------------------------------------------------

(* The ring is consistent: tail is count places after head, and the        *)
(* occupied slots are exactly the count slots from head on, around the end *)
(* of the array.  pop()'s take() and push()'s coalescing both rely on it:  *)
(* a slot outside the window that still held a message would be handed out *)
(* a second time after a wrap.                                             *)
RingInv ==
    /\ tail = (head + count) % QUEUE_SIZE
    /\ \A i \in Index :
          messages[(head + i) % QUEUE_SIZE] # NoMessage <=> i < count

(* The queue the ring stands for. *)
queueOf == [i \in 1 .. count |-> messages[(head + i - 1) % QUEUE_SIZE]]

Fifo == INSTANCE IpcFifo WITH queue <- queueOf

(* The ring implements the bounded coalescing FIFO: push and pop return    *)
(* what the FIFO returns in every sequence of calls, wrap-around and       *)
(* coalescing on a full queue included.                                    *)
ImplementsFifo == Fifo!Spec

(* Two neighbouring queued messages are never mouse moves of one sender:   *)
(* a burst of moves takes one slot between two other messages, which is    *)
(* what keeps room for the clicks (the comment in push()).                 *)
MovesNeverAdjacent ==
    \A i \in 1 .. count - 1 : ~ SameMove(queueOf[i], queueOf[i + 1])

(* The messages of a queue that are no mouse moves. *)
Others(q) == OfType(q, MsgTypes \ {MSG_MOUSE_MOVE})

(* Mouse traffic never costs another message: in every step the queued     *)
(* messages other than moves stay as they are, gain one at the end, or     *)
(* lose the first one to pop().                                            *)
OthersKept ==
    [][ LET old == Others(queueOf)
            new == Others(queueOf)'
        IN  \/ new = old
            \/ ret'.op = "push" /\ \E m \in Message : new = Append(old, m)
            \/ /\ ret'.op = "pop"
               /\ old # << >> /\ new = Tail(old) /\ ret'.msg = old[1] ]_vars
=============================================================================
