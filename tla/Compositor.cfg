CONSTANTS
    SCREEN_W = 4
    SCREEN_H = 3
    TOPBAR_HEIGHT = 1
    BORDER_WIDTH = 0
    TITLE_BAR_HEIGHT = 1
    CLOSE_BTN_SIZE = 1
    CLOSE_BTN_MARGIN = 0
    WIN_W = 2
    WIN_H = 1
    PAD = 0
    STEP = 1
    EDGE = 0
    KEEP_X = 2
    KEEP_Y = 1
    PowerBtn <- MCPowerBtn
    TermBtn <- MCTermBtn
    ModeBtn <- MCModeBtn
    Points <- MCPoints
    Buttons = {0, 1}
    Owners = {6}
    MaxWindowId = 3

SPECIFICATION Spec

INVARIANTS
    TypeOK
    FloatingInPlace
    TilesDisjoint
    TitleReachable
    DragGlued

PROPERTIES
    ZOrderStable
