----------------------------- MODULE Compositor -----------------------------
(***************************************************************************)
(* The window system: userland/compositor/src/main.rs, struct Compositor   *)
(* with handle_message and the main loop.  One handled message is one      *)
(* step; no other process shares this state.  The kernel lets any process  *)
(* send any message, so here messages come in any order; module Desktop    *)
(* connects the compositor to the programs that do send them.              *)
(*                                                                         *)
(* All windows have the size of the terminal's.  Pixels are left out.      *)
(***************************************************************************)
EXTENDS Integers, Sequences, SequencesExt, FiniteSetsExt

CONSTANTS
    SCREEN_W, SCREEN_H,
    TOPBAR_HEIGHT, BORDER_WIDTH, TITLE_BAR_HEIGHT,
    CLOSE_BTN_SIZE, CLOSE_BTN_MARGIN,
    WIN_W, WIN_H,                  \* size of a client area
    PAD,                           \* margin of the tiled layout (12)
    STEP,                          \* cascade of new windows (24)
    EDGE,                          \* distance of a new window from the edge (8)
    KEEP_X, KEEP_Y,                \* what a drag leaves on the screen (60, 30)
    PowerBtn, TermBtn, ModeBtn,    \* the points of the buttons in the top bar
    Buttons,                       \* button bytes; bit 0 is the left button
    Points,                        \* bound: where the pointer goes
    Owners,                        \* pids that create windows
    MaxWindowId                    \* bound: windows ever created

VARIABLES
    windows,         \* in Z-order, the last one on top
    next_window_id,
    drag,            \* DragState
    mouse,           \* mouse_x, mouse_y
    mouse_buttons,
    tile_mode,
    dirty,
    powered          \* FALSE once shutdown() was called, which does not return

vars == << windows, next_window_id, drag, mouse, mouse_buttons, tile_mode, dirty, powered >>

-----------------------------------------------------------------------------
(* Geometry. *)

SatSub(a, b) == IF a > b THEN a - b ELSE 0
Smaller(a, b) == Min({a, b})
Larger(a, b) == Max({a, b})

total_width == WIN_W + 2 * BORDER_WIDTH
total_height == WIN_H + TITLE_BAR_HEIGHT + 2 * BORDER_WIDTH

(* The coordinates of the code are unsigned. *)
ASSUME GeometryAssumption ==
    /\ \A n \in { SCREEN_W, SCREEN_H, TOPBAR_HEIGHT, BORDER_WIDTH, TITLE_BAR_HEIGHT, WIN_W,
                   WIN_H, PAD, STEP, EDGE, KEEP_X, KEEP_Y, MaxWindowId } : n \in Nat
    /\ Points \subseteq [x : 0 .. SCREEN_W - 1, y : 0 .. SCREEN_H - 1]
    /\ 0 \in Buttons /\ Buttons \subseteq Nat

(* The screen has room for a window below the top bar and for the margins  *)
(* of the tiles, and what a drag keeps on the screen is no more than what  *)
(* a new window has there: 1024 x 768, 522 x 362, 24, 12, 8, 60 and 30 in  *)
(* the code.                                                               *)
ASSUME ScreenAssumption ==
    /\ WIN_W > 0 /\ WIN_H > 0
    /\ KEEP_X \in 1 .. SCREEN_W /\ KEEP_X <= total_width + EDGE
    /\ KEEP_Y > 0 /\ KEEP_Y <= total_height + EDGE
    /\ TOPBAR_HEIGHT + KEEP_Y <= SCREEN_H
    /\ TOPBAR_HEIGHT + total_height + EDGE <= SCREEN_H
    /\ PAD < SCREEN_W /\ TOPBAR_HEIGHT + PAD < SCREEN_H

hit_title_bar(w, m) ==
    /\ w.x <= m.x /\ m.x < w.x + total_width
    /\ w.y + BORDER_WIDTH <= m.y /\ m.y < w.y + BORDER_WIDTH + TITLE_BAR_HEIGHT

hit_close_button(w, m) ==
    LET btn_x == w.x + total_width - BORDER_WIDTH - CLOSE_BTN_MARGIN - CLOSE_BTN_SIZE
        btn_y == w.y + BORDER_WIDTH + (TITLE_BAR_HEIGHT - CLOSE_BTN_SIZE) \div 2
    IN  /\ btn_x <= m.x /\ m.x < btn_x + CLOSE_BTN_SIZE
        /\ btn_y <= m.y /\ m.y < btn_y + CLOSE_BTN_SIZE

hit_anywhere(w, m) ==
    /\ w.x <= m.x /\ m.x < w.x + total_width
    /\ w.y <= m.y /\ m.y < w.y + total_height

(* Mutated form: going back to floating windows leaves the tiles. *)
LayoutOnlyTiles(ws, tile) ==
    IF ~ tile THEN ws ELSE
    LET cell_w == SatSub(SCREEN_W, 2 * PAD) \div Len(ws) IN
    [i \in DOMAIN ws |-> [ws[i] EXCEPT
        !.x = PAD + (i - 1) * cell_w + SatSub(cell_w, total_width) \div 2,
        !.y = TOPBAR_HEIGHT + PAD]]

(* apply_layout: side by side, or where each window floats. *)
Layout(ws, tile) ==
    LET cell_w == SatSub(SCREEN_W, 2 * PAD) \div Len(ws)
        avail_h == SatSub(SCREEN_H, TOPBAR_HEIGHT + 2 * PAD)
    IN  [i \in DOMAIN ws |->
            IF tile
              THEN [ws[i] EXCEPT
                      !.x = PAD + (i - 1) * cell_w + SatSub(cell_w, total_width) \div 2,
                      !.y = TOPBAR_HEIGHT + PAD + SatSub(avail_h, total_height) \div 2]
              ELSE [ws[i] EXCEPT !.x = ws[i].float_x, !.y = ws[i].float_y]]

(* Mutated form: tiles are laid out only when the mode changes. *)
NotRetiled(ws) == ws

(* After a window has come or gone. *)
Retiled(ws) == IF tile_mode THEN Layout(ws, TRUE) ELSE ws

-----------------------------------------------------------------------------
(* Window state. *)

(* Mutated form: the window changes places with the top one. *)
SwappedToTop(ws, i) == [ws EXCEPT ![i] = ws[Len(ws)], ![Len(ws)] = ws[i]]

Raised(ws, i) == Append(RemoveAt(ws, i), ws[i])

(* Mutated form: windows are numbered by how many there are. *)
NewWindowCounted(owner) ==
    [ id |-> Len(windows) + 1, owner |-> owner, x |-> 0, y |-> TOPBAR_HEIGHT,
      float_x |-> 0, float_y |-> TOPBAR_HEIGHT ]

(* A new window, cascaded from the centre. *)
NewWindow(owner) ==
    LET center_x == SatSub(SCREEN_W, total_width) \div 2
        center_y == TOPBAR_HEIGHT + SatSub(SatSub(SCREEN_H, TOPBAR_HEIGHT), total_height) \div 2
        fx == Smaller(center_x + Len(windows) * STEP, SatSub(SCREEN_W, total_width + EDGE))
        fy == Smaller(center_y + Len(windows) * STEP, SatSub(SCREEN_H, total_height + EDGE))
    IN  [ id |-> next_window_id, owner |-> owner, x |-> fx, y |-> fy,
          float_x |-> fx, float_y |-> fy ]

(* Where a drag takes the window when the pointer is at (px, py). *)
DragX(px) == Smaller(Larger(px - drag.offset_x, 0), SatSub(SCREEN_W, KEEP_X))
DragYUnderBar(py) == Smaller(Larger(py - drag.offset_y, 0), SatSub(SCREEN_H, KEEP_Y))  \* mutated form
DragY(py) == Smaller(Larger(py - drag.offset_y, TOPBAR_HEIGHT), SatSub(SCREEN_H, KEEP_Y))

DraggedTo(px, py) ==
    [i \in DOMAIN windows |->
        IF windows[i].id = drag.window_id
          THEN [windows[i] EXCEPT !.x = DragX(px), !.y = DragY(py),
                                  !.float_x = DragX(px), !.float_y = DragY(py)]
          ELSE windows[i]]

NoDrag == [active |-> FALSE, window_id |-> 0, offset_x |-> 0, offset_y |-> 0]

-----------------------------------------------------------------------------
(* handle_message, one action per case. *)

Drags(b) == drag.active /\ b % 2 = 1 /\ ~ tile_mode

(* Mutated form: a drag is ended by the release of the button only. *)
DragAfterMoveInTiles(b) == IF b % 2 = 0 THEN [drag EXCEPT !.active = FALSE] ELSE drag

DragAfterMove(b) == IF Drags(b) THEN drag ELSE [drag EXCEPT !.active = FALSE]

MouseMove(px, py, b) ==
    /\ powered
    /\ mouse_buttons' = b
    /\ windows' = IF Drags(b) THEN DraggedTo(px, py) ELSE windows
    /\ drag' = DragAfterMove(b)
    /\ mouse' = [x |-> px, y |-> py]
    /\ UNCHANGED << next_window_id, tile_mode, powered >>
    /\ dirty' = TRUE

just_pressed(b) == b % 2 = 1 /\ mouse_buttons % 2 = 0

(* MSG_MOUSE_CLICK takes over the buttons, sets the flag and stops, or     *)
(* acts on a press.                                                        *)
ClickIgnored(b) ==
    /\ powered
    /\ ~ just_pressed(b)
    /\ mouse_buttons' = b
    /\ UNCHANGED << windows, next_window_id, drag, mouse, tile_mode, powered >>
    /\ dirty' = TRUE

Press(b) ==
    /\ powered
    /\ just_pressed(b)
    /\ mouse_buttons' = b
    /\ dirty' = TRUE

OnTopBar == mouse \in PowerBtn \cup TermBtn \cup ModeBtn

PressPower(b) ==
    /\ Press(b)
    /\ mouse \in PowerBtn
    /\ powered' = FALSE
    /\ UNCHANGED << windows, next_window_id, drag, mouse, tile_mode >>

PressMode(b) ==
    /\ Press(b)
    /\ mouse \in ModeBtn \ (PowerBtn \cup TermBtn)
    /\ tile_mode' = ~ tile_mode
    /\ windows' = Layout(windows, ~ tile_mode)
    /\ UNCHANGED << next_window_id, drag, mouse, powered >>

(* The topmost window the pointer is on; the close button and the title    *)
(* bar are parts of hit_anywhere's rectangle.                              *)
IsTarget(i) ==
    /\ ~ OnTopBar
    /\ hit_anywhere(windows[i], mouse)
    /\ \A j \in DOMAIN windows : j > i => ~ hit_anywhere(windows[j], mouse)

(* The close button: MSG_QUIT to the owner (module Desktop), shm_unmap. *)
PressClose(b, i) ==
    /\ Press(b)
    /\ IsTarget(i)
    /\ hit_close_button(windows[i], mouse)
    /\ windows' = Retiled(RemoveAt(windows, i))
    /\ UNCHANGED << next_window_id, drag, mouse, tile_mode, powered >>

PressTitle(b, i) ==
    /\ Press(b)
    /\ IsTarget(i)
    /\ hit_title_bar(windows[i], mouse) /\ ~ hit_close_button(windows[i], mouse)
    /\ windows' = Raised(windows, i)
    /\ drag' = IF tile_mode THEN drag
               ELSE [ active |-> TRUE, window_id |-> windows[i].id,
                      offset_x |-> mouse.x - windows[i].x,
                      offset_y |-> mouse.y - windows[i].y ]
    /\ UNCHANGED << next_window_id, mouse, tile_mode, powered >>

PressBody(b, i) ==
    /\ Press(b)
    /\ IsTarget(i)
    /\ ~ hit_title_bar(windows[i], mouse) /\ ~ hit_close_button(windows[i], mouse)
    /\ windows' = Raised(windows, i)
    /\ UNCHANGED << next_window_id, drag, mouse, tile_mode, powered >>

(* The launcher button, which spawns term.elf, and the bare desktop. *)
PressElsewhere(b) ==
    /\ Press(b)
    /\ \/ mouse \in TermBtn \ PowerBtn
       \/ ~ OnTopBar /\ \A i \in DOMAIN windows : ~ hit_anywhere(windows[i], mouse)
    /\ UNCHANGED << windows, next_window_id, drag, mouse, tile_mode, powered >>

(* MSG_WINDOW_CREATE; if shm_map fails nothing changes. *)
WindowCreate(owner) ==
    /\ powered
    /\ next_window_id <= MaxWindowId
    /\ windows' = Retiled(Append(windows, NewWindow(owner)))
    /\ next_window_id' = next_window_id + 1
    /\ UNCHANGED << drag, mouse, mouse_buttons, tile_mode, powered >>
    /\ dirty' = TRUE

(* Mutated form: the message does not set the flag. *)
DamageUnmarked ==
    /\ powered
    /\ UNCHANGED << windows, next_window_id, drag, mouse, mouse_buttons, tile_mode, dirty, powered >>

WindowDamage ==
    /\ powered
    /\ UNCHANGED << windows, next_window_id, drag, mouse, mouse_buttons, tile_mode, powered >>
    /\ dirty' = TRUE

(* The main loop renders when the queue is empty and the flag is set. *)
Render ==
    /\ powered
    /\ dirty
    /\ dirty' = FALSE
    /\ UNCHANGED << windows, next_window_id, drag, mouse, mouse_buttons, tile_mode, powered >>

Click(b) ==
    \/ ClickIgnored(b)
    \/ PressPower(b)
    \/ PressMode(b)
    \/ \E i \in DOMAIN windows : PressClose(b, i) \/ PressTitle(b, i) \/ PressBody(b, i)
    \/ PressElsewhere(b)

(* SYS_SHUTDOWN called by another program, the terminal's `off`. *)
SwitchedOff ==
    /\ powered
    /\ powered' = FALSE
    /\ UNCHANGED << windows, next_window_id, drag, mouse, mouse_buttons, tile_mode, dirty >>

Off == ~ powered /\ UNCHANGED vars

(* Compositor::new; the pointer starts at (512, 384), the middle of the     *)
(* default screen.                                                         *)
Init ==
    /\ windows = << >>
    /\ next_window_id = 1
    /\ drag = NoDrag
    /\ mouse = [x |-> SCREEN_W \div 2, y |-> SCREEN_H \div 2]
    /\ mouse_buttons = 0
    /\ tile_mode = FALSE
    /\ dirty = TRUE
    /\ powered = TRUE

Next ==
    \/ \E at \in Points, b \in Buttons : MouseMove(at.x, at.y, b)
    \/ \E b \in Buttons : Click(b)
    \/ \E owner \in Owners : WindowCreate(owner)
    \/ WindowDamage
    \/ Render
    \/ SwitchedOff
    \/ Off

Spec == Init /\ [][Next]_vars

-----------------------------------------------------------------------------

Window == [ id : 1 .. MaxWindowId, owner : Owners, x : 0 .. SCREEN_W, y : 0 .. SCREEN_H,
            float_x : 0 .. SCREEN_W, float_y : 0 .. SCREEN_H ]

(* Type correctness; window ids are unique and a drag grips a point of the *)
(* window.                                                                 *)
TypeOK ==
    /\ windows \in Seq(Window)
    /\ IsInjective([i \in DOMAIN windows |-> windows[i].id])
    /\ next_window_id \in 1 .. MaxWindowId + 1
    /\ drag.active \in BOOLEAN /\ drag.window_id \in 0 .. MaxWindowId
    /\ drag.offset_x \in 0 .. total_width - 1 /\ drag.offset_y \in 0 .. total_height - 1
    /\ mouse \in [x : 0 .. SCREEN_W - 1, y : 0 .. SCREEN_H - 1]
    /\ mouse_buttons \in Buttons
    /\ {tile_mode, dirty, powered} \subseteq BOOLEAN

(* A floating window is where its float_x, float_y say, so that tiling the *)
(* desktop and going back is without loss, whatever was created, dragged,  *)
(* raised or closed in between.                                            *)
FloatingInPlace ==
    ~ tile_mode => \A i \in DOMAIN windows :
        windows[i].x = windows[i].float_x /\ windows[i].y = windows[i].float_y

(* Tiles that fit side by side do not overlap: no click in tile mode can   *)
(* reach a window below another one.                                       *)
TilesDisjoint ==
    tile_mode /\ Len(windows) * total_width <= SatSub(SCREEN_W, 2 * PAD) =>
        \A i, j \in DOMAIN windows :
            i = j \/ windows[i].x + total_width <= windows[j].x
                  \/ windows[j].x + total_width <= windows[i].x

(* No sequence of drags, layouts and new windows puts a title bar under    *)
(* the top bar or outside the screen, where it could not be grabbed again. *)
TitleReachable ==
    \A i \in DOMAIN windows :
        /\ windows[i].x < SCREEN_W
        /\ TOPBAR_HEIGHT <= windows[i].y /\ windows[i].y < SCREEN_H

(* A dragged window stays glued to the point it was grabbed at, up to the  *)
(* clamping: no stale drag, left over from another window or from before a *)
(* change of layout, makes a window jump.                                  *)
DragGlued ==
    drag.active /\ ~ tile_mode => \A i \in DOMAIN windows :
        windows[i].id = drag.window_id =>
            windows[i].x = DragX(mouse.x) /\ windows[i].y = DragY(mouse.y)

(* Window a is window b or lies below it. *)
UpTo(ws, a, b) ==
    \E i, j \in DOMAIN ws : i <= j /\ ws[i].id = a /\ ws[j].id = b

(* A message moves at most one window in Z-order, and only to the top or   *)
(* off the desktop: keyboard focus, which is the top window's, never goes  *)
(* to a window the user did not choose, and the others keep their order.   *)
ZOrderStable ==
    [][\E r \in 0 .. MaxWindowId :
          /\ \A a, b \in (1 .. MaxWindowId) \ {r} : UpTo(windows, a, b) <=> UpTo(windows', a, b)
          /\ \A i \in DOMAIN windows' : windows'[i].id = r => i = Len(windows')]_vars
=============================================================================
