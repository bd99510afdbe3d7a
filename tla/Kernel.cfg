CONSTANTS
    QUEUE_SIZE = 1
    Senders = {0, 1, 2, 3, 4}
    MsgTypes = {"irq"}
    MSG_MOUSE_MOVE = "move"
    Payloads = {"x"}
    MAX_PROCESSES = 3
    NUM_QUEUES = 2
    KEYBOARD_PID = 1
    MOUSE_PID = 2
    MSG_HARDWARE_INTERRUPT = "irq"
    MSG_MOUSE_PACKET = "irq"
    ExitCodes = {1}
    MAX = MAX
    NoCode = NoCode
    MaxPid = 4
    SendTargets = {1, 2}
    WaitTargets = {2}

SPECIFICATION FairSpec

INVARIANTS
    TypeOK
    OneRunning
    PidsUnique
    NoLostWakeup
    ZombieHasReaper
    StaleWaitHarmless
    ExitCodeIntact

PROPERTIES
    CodeDelivered
    ReadyRuns
    ZombieReaped
