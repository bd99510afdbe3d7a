\* A ring of three slots wraps after three pushes; two senders and two types
\* give every outcome of the coalescing test.
CONSTANTS
    QUEUE_SIZE = 3
    Senders = {0, 4}
    MsgTypes = {"move", "click"}
    MSG_MOUSE_MOVE = "move"
    Payloads = {"a", "b"}
    NoMessage = NoMessage

SPECIFICATION Spec

INVARIANTS
    TypeOK
    RingInv
    MovesNeverAdjacent

PROPERTIES
    ImplementsFifo
    OthersKept
