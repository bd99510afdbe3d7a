------------------------------ MODULE IpcFifo -------------------------------
(***************************************************************************)
(* What a message queue of the kernel promises its users, free of slots,   *)
(* indices and counters: a bounded FIFO whose newest element is replaced   *)
(* by a following mouse move of the same sender.  `ret` is the value the   *)
(* last call returned, so that an implementation must also return the same *)
(* values.                                                                 *)
(***************************************************************************)
EXTENDS IpcMessage

CONSTANT NoMessage       \* Option::None

VARIABLES
    queue,   \* the messages waiting, oldest first
    ret      \* what the last push() or pop() returned

vars == << queue, ret >>

Pushes(m) == [op |-> "push", ok |-> Accepts(queue, m)]

Init ==
    /\ queue = << >>
    /\ ret = [op |-> "new"]

Push(m) ==
    /\ queue' = IF Accepts(queue, m) THEN Pushed(queue, m) ELSE queue
    /\ ret' = Pushes(m)

Pop ==
    /\ queue' = IF queue = << >> THEN queue ELSE Tail(queue)
    /\ ret' = [op |-> "pop",
               msg |-> IF queue = << >> THEN NoMessage ELSE Head(queue)]

Next == Pop \/ \E m \in Message : Push(m)

Spec == Init /\ [][Next]_vars
=============================================================================
