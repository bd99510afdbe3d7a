CONSTANTS
    QUEUE_SIZE = 2
    IRQ_QUEUE_SIZE = 1
    Senders = {3, 4, 6}
    MsgTypes = {"move", "click", "key", "create", "damage"}
    MSG_MOUSE_MOVE = "move"
    Payloads = {0}
    KEYBOARD_PID = 3
    MOUSE_PID = 4
    Terminals = {6}
    Bytes = {0, 8, 9}
    SCREEN_W = 4
    SCREEN_H = 3
    TOPBAR_HEIGHT = 1
    BORDER_WIDTH = 0
    TITLE_BAR_HEIGHT = 1
    CLOSE_BTN_SIZE = 1
    CLOSE_BTN_MARGIN = 0
    WIN_W = 2
    WIN_H = 1
    PAD = 0
    STEP = 1
    EDGE = 0
    KEEP_X = 2
    KEEP_Y = 1
    PowerBtn = {}
    TermBtn = {}
    ModeBtn = {}

SPECIFICATION FairSpec

INVARIANT
    PressRecognised
