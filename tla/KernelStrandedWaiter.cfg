CONSTANTS
    QUEUE_SIZE = 1
    Senders = {0, 1, 2, 3}
    MsgTypes = {"irq"}
    MSG_MOUSE_MOVE = "move"
    Payloads = {"x"}
    MAX_PROCESSES = 3
    NUM_QUEUES = 2
    KEYBOARD_PID = 1
    MOUSE_PID = 2
    MSG_HARDWARE_INTERRUPT = "irq"
    MSG_MOUSE_PACKET = "irq"
    ExitCodes = {1}
    MAX = MAX
    NoCode = NoCode
    MaxPid = 3
    SendTargets = {1}
    WaitTargets = {2, 3}

SPECIFICATION Spec

INVARIANT
    NoStrandedWaiter
