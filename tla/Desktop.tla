------------------------------ MODULE Desktop -------------------------------
(***************************************************************************)
(* The programs init starts, connected by the kernel's message queues:     *)
(*                                                                         *)
(*   IRQ 12 -> mouse driver (pid 4) ----.                                  *)
(*                                       +-> compositor (pid 5) -> terminal*)
(*   IRQ 1 -> keyboard driver (pid 3) --'        ^                    |    *)
(*                                               '----- damage -------'    *)
(*                                                                         *)
(* (userland/mouse_driver, keyboard_driver, compositor and terminal, each  *)
(* src/main.rs).  Everyone who sends to the compositor repeats the send    *)
(* until there is room; the compositor sends once and does not care.  The  *)
(* interrupt handlers send once as well.  A sender that finds a queue full *)
(* yields and tries again, which changes nothing: here it waits for room.  *)
(*                                                                         *)
(* A scancode makes a character or does not (modifiers, releases, keys     *)
(* without one); which character is left out, and so is what the terminal  *)
(* draws and the files and processes its commands deal with.               *)
(***************************************************************************)
EXTENDS IpcMessage, Positions, Integers, SequencesExt

CONSTANTS
    IRQ_QUEUE_SIZE,               \* capacity of the drivers' queues (64 as well)
    KEYBOARD_PID, MOUSE_PID,
    Terminals,                    \* pids of the terminals
    Bytes,                        \* bytes the mouse sends
    SCREEN_W, SCREEN_H, TOPBAR_HEIGHT, BORDER_WIDTH, TITLE_BAR_HEIGHT,
    CLOSE_BTN_SIZE, CLOSE_BTN_MARGIN, WIN_W, WIN_H, PAD, STEP, EDGE, KEEP_X, KEEP_Y,
    PowerBtn, TermBtn, ModeBtn

VARIABLES
    windows, next_window_id, drag, mouse, mouse_buttons, tile_mode, dirty, powered,
    comp_q,      \* the compositor's queue
    mouse_q,     \* the mouse driver's queue, the bytes of MSG_MOUSE_PACKET
    key_q,       \* the keyboard driver's queue: scancodes, "char" or "none"
    term_q,      \* term_q[t]: the queue of terminal t, as message types
    state,       \* the mouse driver's MouseState
    prev_buttons,
    pending,     \* pending[p]: the messages p is still to send to the compositor
    running,     \* the terminals that have not exited
    owed,        \* history: changes of the buttons not yet handled as clicks
    last_click,  \* history: the buttons of the last click handled
    undrawn      \* history: the picture has changed since it was last drawn

(* The programs are processes of their own, their messages have types of   *)
(* their own, the screen is not empty and a byte has eight bits.           *)
ASSUME DesktopAssumption ==
    /\ IRQ_QUEUE_SIZE \in Nat
    /\ SCREEN_W \in Nat \ {0} /\ SCREEN_H \in Nat \ {0}
    /\ Bytes \subseteq 0 .. 255
    /\ KEYBOARD_PID # MOUSE_PID /\ {KEYBOARD_PID, MOUSE_PID} \cap Terminals = {}
    /\ IsFiniteSet(Terminals)
    /\ MSG_MOUSE_MOVE \notin {"click", "key", "create", "damage", "off"}

Screen == [x : 0 .. SCREEN_W - 1, y : 0 .. SCREEN_H - 1]

Comp == INSTANCE Compositor WITH
    Points <- Screen, Buttons <- 0 .. 7, Owners <- Terminals,
    MaxWindowId <- Cardinality(Terminals)

comp_vars == << windows, next_window_id, drag, mouse, mouse_buttons, tile_mode, dirty,
                powered >>

vars == << comp_vars, comp_q, mouse_q, key_q, term_q, state, prev_buttons, pending,
           running, owed, last_click, undrawn >>

Programs == {KEYBOARD_PID, MOUSE_PID} \cup Terminals

Msg(p, type, args) == [sender |-> p, msg_type |-> type, args |-> args]

NoArgs == << 0, 0, 0 >>

-----------------------------------------------------------------------------
(* The interrupt handlers (idt.rs) send once; a full queue loses the byte. *)
(* What the driver reads is then no sequence of whole packets any more, so *)
(* the bytes come in any order.                                            *)

SentOnce(q, byte) == IF Len(q) < IRQ_QUEUE_SIZE THEN Append(q, byte) ELSE q

MouseIrq(b) ==
    /\ mouse_q' = SentOnce(mouse_q, b)
    /\ UNCHANGED << comp_vars, comp_q, key_q, term_q, state, prev_buttons, pending,
                    running, owed, last_click, undrawn >>

KeyboardIrq(scancode) ==
    /\ key_q' = SentOnce(key_q, scancode)
    /\ UNCHANGED << comp_vars, comp_q, mouse_q, term_q, state, prev_buttons, pending,
                    running, owed, last_click, undrawn >>

-----------------------------------------------------------------------------
(* userland/mouse_driver *)

Clamp(v, hi) == IF v < 0 THEN 0 ELSE IF v > hi THEN hi ELSE v

(* Ballistic acceleration; division truncates towards zero. *)
Accelerated(d) ==
    IF d > 8 THEN (d * 3) \div 2 ELSE IF d < -8 THEN - ((- d * 3) \div 2) ELSE d

Signed(byte, negative) == IF negative THEN byte - 256 ELSE byte

Bit(byte, i) == (byte \div 2^i) % 2 = 1

(* process_packet, for the packet << flags, byte 1, byte 2 >>. *)
Processed(s, packet) ==
    LET flags == packet[1]
        dx == Accelerated(Signed(packet[2], Bit(flags, 4)))
        dy == Accelerated(- Signed(packet[3], Bit(flags, 5)))
    IN  IF Bit(flags, 6) \/ Bit(flags, 7) THEN [s EXCEPT !.packet = << >>]
        ELSE [ packet |-> << >>, buttons |-> flags % 8,
               x |-> Clamp(s.x + dx, SCREEN_W - 1), y |-> Clamp(s.y + dy, SCREEN_H - 1) ]

(* What the driver sends after a packet: the move, and the click if the    *)
(* buttons are not the ones it announced last.                             *)
Announcements(s) ==
    LET args == << s.x, s.y, s.buttons >> IN
    << Msg(MOUSE_PID, MSG_MOUSE_MOVE, args) >>
       \o IF s.buttons # prev_buttons THEN << Msg(MOUSE_PID, "click", args) >> ELSE << >>

(* feed: `packet` holds the bytes so far, so phase is its length.  A byte  *)
(* without bit 3 cannot start a packet.                                    *)
MouseDriverFeeds ==
    LET byte == Head(mouse_q)
        packet == Append(state.packet, byte)
        next == Processed(state, packet)
    IN  /\ pending[MOUSE_PID] = << >>
        /\ mouse_q # << >>
        /\ mouse_q' = Tail(mouse_q)
        /\ \/ /\ state.packet = << >> /\ ~ Bit(byte, 3)
              /\ UNCHANGED << state, pending, owed >>
           \/ /\ Len(packet) < 3 /\ (state.packet # << >> \/ Bit(byte, 3))
              /\ state' = [state EXCEPT !.packet = packet]
              /\ UNCHANGED << pending, owed >>
           \/ /\ Len(packet) = 3
              /\ state' = next
              /\ pending' = [pending EXCEPT ![MOUSE_PID] = Announcements(next)]
              /\ owed' = IF next.buttons # state.buttons THEN Append(owed, next.buttons) ELSE owed
        /\ UNCHANGED << comp_vars, comp_q, key_q, term_q, prev_buttons, running,
                        last_click, undrawn >>

(* userland/keyboard_driver: translate_scancode finds a character, or the  *)
(* scancode only changes a modifier or nothing.                            *)
KeyboardDriverReads ==
    /\ pending[KEYBOARD_PID] = << >>
    /\ key_q # << >>
    /\ key_q' = Tail(key_q)
    /\ pending' = [pending EXCEPT ![KEYBOARD_PID] =
          IF Head(key_q) = "char" THEN << Msg(KEYBOARD_PID, "key", NoArgs) >> ELSE << >>]
    /\ UNCHANGED << comp_vars, comp_q, mouse_q, term_q, state, prev_buttons, running,
                    owed, last_click, undrawn >>

-----------------------------------------------------------------------------
(* `while !ipc::send(5, ..) { yield_now() }`, in all three programs. *)

(* Mutated form: the send is not repeated. *)
SendsOnce(p) ==
    /\ pending[p] # << >> /\ Head(pending[p]).msg_type # "off"
    /\ LET m == Head(pending[p]) IN
       /\ comp_q' = IF Accepts(comp_q, m) THEN Pushed(comp_q, m) ELSE comp_q
       /\ prev_buttons' = IF m.msg_type = "click" THEN state.buttons ELSE prev_buttons
    /\ pending' = [pending EXCEPT ![p] = Tail(@)]
    /\ undrawn' = (undrawn \/ Head(pending[p]).msg_type = "damage")
    /\ UNCHANGED << comp_vars, mouse_q, key_q, term_q, state, running, owed, last_click >>

SendsToCompositor(p) ==
    /\ pending[p] # << >> /\ Head(pending[p]).msg_type # "off"
    /\ LET m == Head(pending[p]) IN
       /\ Accepts(comp_q, m)
       /\ comp_q' = Pushed(comp_q, m)
       /\ prev_buttons' = IF m.msg_type = "click" THEN state.buttons ELSE prev_buttons
    /\ pending' = [pending EXCEPT ![p] = Tail(@)]
    /\ undrawn' = (undrawn \/ Head(pending[p]).msg_type = "damage")
    /\ UNCHANGED << comp_vars, mouse_q, key_q, term_q, state, running, owed, last_click >>

-----------------------------------------------------------------------------
(* userland/compositor *)

(* Mutated form: the compositor, too, repeats a send until there is room. *)
ForwardedWhenRoom(to, type) ==
    /\ Len(term_q[to]) < QUEUE_SIZE
    /\ term_q' = [term_q EXCEPT ![to] = Append(@, type)]

EnqueuedAlways(q, type) == Append(q, type)   \* mutated form

(* The compositor's own sends: the result is ignored, a full queue loses   *)
(* the message.                                                            *)
Enqueued(q, type) == IF Len(q) < QUEUE_SIZE THEN Append(q, type) ELSE q

Forwarded(to, type) == term_q' = [term_q EXCEPT ![to] = Enqueued(@, type)]

(* A key goes to the owner of the top window. *)
ForwardKey ==
    /\ \/ windows # << >> /\ Forwarded(Last(windows).owner, "key")
       \/ windows = << >> /\ UNCHANGED term_q
    /\ UNCHANGED comp_vars

(* A click that closes a window tells its owner to quit. *)
HandleClick(b) ==
    /\ Comp!Click(b)
    /\ LET left == { windows'[i].id : i \in DOMAIN windows' }
           closed == { windows[i].owner : i \in { j \in DOMAIN windows : windows[j].id \notin left } }
       IN  term_q' = [t \in Terminals |->
                         IF t \in closed THEN Enqueued(term_q[t], "quit") ELSE term_q[t]]

(* MSG_WINDOW_CREATE: shm_map may fail. *)
HandleCreate(owner) ==
    /\ Comp!WindowCreate(owner) \/ UNCHANGED comp_vars
    /\ UNCHANGED term_q

(* What of the compositor's state render() shows. *)
Visible == << windows, mouse, tile_mode >>

(* One message of the main loop. *)
CompositorHandles ==
    /\ powered
    /\ comp_q # << >>
    /\ comp_q' = Tail(comp_q)
    /\ LET m == Head(comp_q)
           click == m.msg_type = "click"
       IN  /\ \/ /\ m.msg_type = MSG_MOUSE_MOVE
                 /\ Comp!MouseMove(m.args[1], m.args[2], m.args[3])
                 /\ UNCHANGED term_q
              \/ click /\ HandleClick(m.args[3])
              \/ m.msg_type = "key" /\ ForwardKey
              \/ m.msg_type = "create" /\ HandleCreate(m.sender)
              \/ m.msg_type = "damage" /\ Comp!WindowDamage /\ UNCHANGED term_q
           /\ owed' = IF click /\ owed # << >> THEN Tail(owed) ELSE owed
           /\ last_click' = IF click THEN m.args[3] ELSE last_click
    /\ undrawn' = (undrawn \/ Visible' # Visible)
    /\ UNCHANGED << mouse_q, key_q, state, prev_buttons, pending, running >>

CompositorRenders ==
    /\ comp_q = << >>
    /\ Comp!Render
    /\ undrawn' = FALSE
    /\ UNCHANGED << comp_q, mouse_q, key_q, term_q, state, prev_buttons, pending,
                    running, owed, last_click >>

-----------------------------------------------------------------------------
(* userland/terminal *)

Damage(t) == Msg(t, "damage", NoArgs)

(* What execute_command has the terminal do besides drawing: `install`     *)
(* reports its first line before it starts, `off` before it calls          *)
(* shutdown, every other command leaves it to handle_key.                  *)
CommandEffects(t) == { << >>, << Damage(t) >>, << Damage(t), Msg(t, "off", NoArgs) >> }

(* handle_key: Enter runs the command line, and every key is reported once *)
(* it is handled.                                                          *)
KeyEffects(t) == { effects \o << Damage(t) >> : effects \in CommandEffects(t) }

(* A key changes what the window shows; MSG_QUIT ends the program. *)
TerminalReceives(t) ==
    /\ powered
    /\ t \in running
    /\ pending[t] = << >>
    /\ term_q[t] # << >>
    /\ term_q' = [term_q EXCEPT ![t] = Tail(@)]
    /\ \/ /\ Head(term_q[t]) = "key"
          /\ \E effects \in KeyEffects(t) : pending' = [pending EXCEPT ![t] = effects]
          /\ undrawn' = TRUE
          /\ UNCHANGED running
       \/ /\ Head(term_q[t]) = "quit"
          /\ running' = running \ {t}
          /\ UNCHANGED << pending, undrawn >>
    /\ UNCHANGED << comp_vars, comp_q, mouse_q, key_q, state, prev_buttons, owed,
                    last_click >>

(* SYS_SHUTDOWN *)
TerminalShutsDown(t) ==
    /\ pending[t] # << >> /\ Head(pending[t]).msg_type = "off"
    /\ Comp!SwitchedOff
    /\ UNCHANGED << comp_q, mouse_q, key_q, term_q, state, prev_buttons, pending, running,
                    owed, last_click, undrawn >>

-----------------------------------------------------------------------------

(* The programs as init starts them.  A terminal that gets no shared       *)
(* memory exits at once; any other creates its window and draws its banner *)
(* first.                                                                  *)
Init ==
    /\ Comp!Init
    /\ comp_q = << >>
    /\ mouse_q = << >>
    /\ key_q = << >>
    /\ term_q = [t \in Terminals |-> << >>]
    /\ state = [ packet |-> << >>, buttons |-> 0, x |-> SCREEN_W \div 2, y |-> SCREEN_H \div 2 ]
    /\ prev_buttons = 0
    /\ running \in SUBSET Terminals
    /\ pending = [p \in Programs |->
                     IF p \in running
                       THEN << Msg(p, "create", NoArgs), Msg(p, "damage", NoArgs) >>
                       ELSE << >>]
    /\ owed = << >>
    /\ last_click = 0
    /\ undrawn = TRUE

Runs ==
    \/ \E b \in Bytes : MouseIrq(b)
    \/ \E scancode \in {"char", "none"} : KeyboardIrq(scancode)
    \/ MouseDriverFeeds
    \/ KeyboardDriverReads
    \/ \E p \in Programs : SendsToCompositor(p)
    \/ CompositorHandles
    \/ CompositorRenders
    \/ \E t \in Terminals : TerminalReceives(t) \/ TerminalShutsDown(t)

(* The machine, switched off, stays so. *)
Next == (powered /\ Runs) \/ (~ powered /\ UNCHANGED vars)

Spec == Init /\ [][Next]_vars

(* A process with a message waiting is Ready and is dispatched (module     *)
(* Kernel: NoLostWakeup, ReadyRuns), and so is one that yields between two *)
(* attempts to send, or that has yet to render.                            *)
Fairness ==
    /\ WF_vars(CompositorHandles) /\ WF_vars(CompositorRenders)
    /\ WF_vars(\E p \in Programs : SendsToCompositor(p))
    /\ \A t \in Terminals : WF_vars(TerminalReceives(t))

FairSpec == Spec /\ Fairness

-----------------------------------------------------------------------------

(* Type correctness; no queue outgrows its ring, the mouse driver never    *)
(* holds three bytes and its pointer stays on the screen.                  *)
TypeOK ==
    /\ Len(comp_q) <= QUEUE_SIZE
    /\ \A i \in DOMAIN comp_q :
          comp_q[i].sender \in Programs /\ comp_q[i].args[3] \in 0 .. 7
    /\ mouse_q \in Seq(0 .. 255) /\ Len(mouse_q) <= IRQ_QUEUE_SIZE
    /\ key_q \in Seq({"char", "none"}) /\ Len(key_q) <= IRQ_QUEUE_SIZE
    /\ \A t \in Terminals : term_q[t] \in Seq({"key", "quit"}) /\ Len(term_q[t]) <= QUEUE_SIZE
    /\ state.packet \in Seq(0 .. 255) /\ Len(state.packet) <= 2
    /\ state.x \in 0 .. SCREEN_W - 1 /\ state.y \in 0 .. SCREEN_H - 1
    /\ {state.buttons, prev_buttons, last_click} \subseteq 0 .. 7
    /\ \A p \in Programs : Len(pending[p]) <= 3
    /\ running \subseteq Terminals /\ undrawn \in BOOLEAN

Clicks(q) == OfType(q, {"click"})

(* Every change of the buttons the mouse driver decodes reaches the        *)
(* compositor as one click, in order, however full the queue is and        *)
(* however many moves are coalesced: the changes not handled yet are the   *)
(* clicks in the queue followed by the one about to be sent.               *)
ClicksDelivered ==
    LET underway == Clicks(comp_q \o pending[MOUSE_PID]) IN
    owed = [i \in DOMAIN underway |-> underway[i].args[3]]

(* The programs cannot wait for each other in a circle: a full compositor  *)
(* queue is always drained, although the drivers and the terminals insist  *)
(* on sending to it and it sends to the terminals, unless the machine is   *)
(* switched off.                                                           *)
QueueDrains == Len(comp_q) = QUEUE_SIZE ~> (Len(comp_q) < QUEUE_SIZE \/ ~ powered)

(* Once the mouse and the keyboard fall silent, the screen comes to show   *)
(* what the windows hold and stays so: every message that changes the      *)
(* picture sets the dirty flag, none is lost on its way through the full   *)
(* queue, and the compositor does not go to sleep before it has drawn.     *)
(* (While input keeps coming it may never draw: it renders only when its   *)
(* queue is empty.)                                                        *)
ScreenCatchesUp ==
    <>[](mouse_q = << >> /\ key_q = << >>) => <>[](~ undrawn \/ ~ powered)

(* "You can drag windows around by their title bars, click on them to      *)
(* bring them to the front (Z-order focus), and close them": a click that  *)
(* reports the left button going down is taken as a press.                 *)
PressRecognised ==
    comp_q # << >> /\ Head(comp_q).msg_type = "click"
        /\ Head(comp_q).args[3] % 2 = 1 /\ last_click % 2 = 0
      => Comp!just_pressed(Head(comp_q).args[3])
=============================================================================
