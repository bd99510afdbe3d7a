---------------------------- MODULE DesktopProofs ----------------------------
(***************************************************************************)
(* The programs of the desktop together, for any number of terminals, any  *)
(* queue sizes, any screen and whatever bytes the mouse sends: every       *)
(* change of the buttons reaches the compositor, none is taken as a press, *)
(* and the compositor, driven by these programs, is the one of module      *)
(* Compositor, so that what CompositorProofs shows holds here.             *)
(***************************************************************************)
EXTENDS Desktop, OrderLemmas

-----------------------------------------------------------------------------
(* The inductive invariant. *)

Byte == 0 .. 255

Args == (0 .. SCREEN_W - 1) \X (0 .. SCREEN_H - 1) \X (0 .. 7)

(* What waits in the compositor's queue; windows are the terminals'. *)
Queued ==
    { m \in [ sender : Programs, args : Args,
              msg_type : {MSG_MOUSE_MOVE, "click", "key", "create", "damage"} ] :
        m.msg_type = "create" => m.sender \in Terminals }

(* What a program may still have to send, the shutdown included. *)
Sendable ==
    [ sender : Programs, args : Args,
      msg_type : {MSG_MOUSE_MOVE, "click", "key", "create", "damage", "off"} ]

TerminalMsg(t) == { Msg(t, type, NoArgs) : type \in {"create", "damage", "off"} }

(* What the mouse driver announces: its state after the last packet. *)
Move == Msg(MOUSE_PID, MSG_MOUSE_MOVE, << state.x, state.y, state.buttons >>)
Click == Msg(MOUSE_PID, "click", << state.x, state.y, state.buttons >>)

QueuesInv ==
    /\ comp_q \in Seq(Queued) /\ Len(comp_q) <= QUEUE_SIZE
    /\ mouse_q \in Seq(Byte) /\ Len(mouse_q) <= IRQ_QUEUE_SIZE
    /\ key_q \in Seq({"char", "none"}) /\ Len(key_q) <= IRQ_QUEUE_SIZE
    /\ term_q \in [Terminals -> Seq({"key", "quit"})]
    /\ \A t \in Terminals : Len(term_q[t]) <= QUEUE_SIZE

MouseState ==
    [ packet : { s \in Seq(Byte) : Len(s) <= 2 }, buttons : 0 .. 7,
      x : 0 .. SCREEN_W - 1, y : 0 .. SCREEN_H - 1 ]

StateInv ==
    /\ state \in MouseState
    /\ prev_buttons \in 0 .. 7 /\ last_click \in 0 .. 7
    /\ running \subseteq Terminals

PendingInv ==
    /\ pending \in [Programs -> Seq(Sendable)]
    /\ pending[KEYBOARD_PID] \in { << >>, << Msg(KEYBOARD_PID, "key", NoArgs) >> }
    /\ pending[MOUSE_PID] \in { << >>, << Move >>, << Move, Click >>, << Click >> }
    /\ \A t \in Terminals : pending[t] \in Seq(TerminalMsg(t)) /\ Len(pending[t]) <= 3

(* A click is still to be sent exactly as long as the buttons are not the  *)
(* ones announced last.                                                    *)
ClickPending == pending[MOUSE_PID] \in { << Move, Click >>, << Click >> }

AnnouncedInv == ClickPending \/ state.buttons = prev_buttons

(* The buttons of the clicks in q. *)
ButtonsOf(q) == [i \in DOMAIN Clicks(q) |-> Clicks(q)[i].args[3]]

OwedInv ==
    owed = IF ClickPending THEN Append(ButtonsOf(comp_q), state.buttons) ELSE ButtonsOf(comp_q)

IInv == QueuesInv /\ StateInv /\ PendingInv /\ AnnouncedInv /\ OwedInv

-----------------------------------------------------------------------------
(* The drivers. *)

(* The constants and the messages made of them. *)
LEMMA Constants ==
    /\ QUEUE_SIZE \in Nat /\ 0 < QUEUE_SIZE /\ IRQ_QUEUE_SIZE \in Nat
    /\ SCREEN_W \in Nat /\ SCREEN_H \in Nat /\ 0 < SCREEN_W /\ 0 < SCREEN_H
    /\ KEYBOARD_PID \in Programs /\ MOUSE_PID \in Programs /\ Terminals \subseteq Programs
    /\ KEYBOARD_PID # MOUSE_PID /\ KEYBOARD_PID \notin Terminals /\ MOUSE_PID \notin Terminals
    /\ NoArgs \in Args
  <1>1. /\ SCREEN_W \in Nat /\ SCREEN_H \in Nat /\ 0 < SCREEN_W /\ 0 < SCREEN_H
    BY DesktopAssumption
  <1>2. 0 \in 0 .. SCREEN_W - 1 /\ 0 \in 0 .. SCREEN_H - 1 /\ 0 \in 0 .. 7
    BY <1>1
  <1>3. NoArgs \in Args
    BY <1>2 DEF NoArgs, Args
  <1> QED BY <1>1, <1>3, DesktopAssumption, QueueSizeAssumption DEF Programs

(* The acceleration keeps whole numbers. *)
LEMMA AcceleratedInt ==
    ASSUME NEW d \in Int
    PROVE  Accelerated(d) \in Int
  <1>1. d * 3 \in Int /\ (- d * 3) \in Int
    OBVIOUS
  <1>2. (d * 3) \div 2 \in Int /\ (- d * 3) \div 2 \in Int
    BY <1>1
  <1> QED BY <1>2 DEF Accelerated

(* A pointer moved by any amount is on the screen. *)
LEMMA ClampOnScreen ==
    ASSUME NEW v \in Int, NEW n \in Nat, 0 < n
    PROVE  Clamp(v, n - 1) \in 0 .. n - 1
  BY DEF Clamp

(* A packet of any three bytes gives a state of the mouse. *)
LEMMA ProcessedFacts ==
    ASSUME NEW s \in MouseState, NEW bytes \in Seq(Byte), Len(bytes) = 3
    PROVE  Processed(s, bytes) \in MouseState
  <1>1. bytes[1] \in Byte /\ bytes[2] \in Byte /\ bytes[3] \in Byte
    <2>1. 1 \in 1 .. Len(bytes) /\ 2 \in 1 .. Len(bytes) /\ 3 \in 1 .. Len(bytes)
      OBVIOUS
    <2> QED BY <2>1, ElementOfSeq
  <1>2. \A x \in Byte : \A c : Signed(x, Bit(c, 4)) \in Int /\ - Signed(x, Bit(c, 5)) \in Int
    BY DEF Signed, Byte
  <1>3. \A x \in Byte : x % 8 \in 0 .. 7
    BY DEF Byte
  <1> DEFINE flags == bytes[1]
             dx == Accelerated(Signed(bytes[2], Bit(flags, 4)))
             dy == Accelerated(- Signed(bytes[3], Bit(flags, 5)))
             nx == Clamp(s.x + dx, SCREEN_W - 1)
             ny == Clamp(s.y + dy, SCREEN_H - 1)
  <1>4. dx \in Int /\ dy \in Int /\ flags % 8 \in 0 .. 7
    BY <1>1, <1>2, <1>3, AcceleratedInt
  <1>5. s.x \in Int /\ s.y \in Int
    BY Constants DEF MouseState
  <1> HIDE DEF flags, dx, dy
  <1>6. nx \in 0 .. SCREEN_W - 1
    <2>1. s.x + dx \in Int
      BY <1>4, <1>5
    <2> QED BY <2>1, ClampOnScreen, Constants
  <1>7. ny \in 0 .. SCREEN_H - 1
    <2>1. s.y + dy \in Int
      BY <1>4, <1>5
    <2> QED BY <2>1, ClampOnScreen, Constants
  <1>8. << >> \in { q \in Seq(Byte) : Len(q) <= 2 }
    OBVIOUS
  <1> HIDE DEF nx, ny
  <1>9. [s EXCEPT !.packet = << >>] \in MouseState
    BY <1>8 DEF MouseState
  <1>10. [packet |-> << >>, buttons |-> flags % 8, x |-> nx, y |-> ny] \in MouseState
    BY <1>4, <1>6, <1>7, <1>8 DEF MouseState
  <1> QED BY <1>9, <1>10 DEF Processed, flags, dx, dy, nx, ny

-----------------------------------------------------------------------------
(* The clicks in a queue. *)

LEMMA QueuedFacts ==
    ASSUME NEW m \in Queued
    PROVE  /\ m.sender \in Programs /\ m.args \in Args /\ m.args[3] \in 0 .. 7
           /\ m.args[1] \in 0 .. SCREEN_W - 1 /\ m.args[2] \in 0 .. SCREEN_H - 1
           /\ m.msg_type \in {MSG_MOUSE_MOVE, "click", "key", "create", "damage"}
           /\ m.msg_type = "create" => m.sender \in Terminals
  BY DEF Queued, Args

(* The buttons of the clicks when a message is appended. *)
LEMMA ButtonsAppend ==
    ASSUME NEW q \in Seq(Queued), NEW m \in Queued
    PROVE  /\ ButtonsOf(q) \in Seq(0 .. 7)
           /\ ButtonsOf(Append(q, m)) = IF m.msg_type = "click" THEN Append(ButtonsOf(q), m.args[3])
                                        ELSE ButtonsOf(q)
  <1> DEFINE c == OfType(q, {"click"})
             d == OfType(Append(q, m), {"click"})
  <1>1. /\ c \in Seq(Queued)
        /\ m.msg_type # "click" => d = c
        /\ m.msg_type = "click" => d = Append(c, m)
    BY OfTypeAppend
  <1>2. ButtonsOf(q) = [i \in DOMAIN c |-> c[i].args[3]]
    BY DEF ButtonsOf, Clicks
  <1>3. ButtonsOf(Append(q, m)) = [i \in DOMAIN d |-> d[i].args[3]]
    BY DEF ButtonsOf, Clicks
  <1> HIDE DEF c, d
  <1>4. DOMAIN c = 1 .. Len(c) /\ Len(c) \in Nat /\ \A i \in 1 .. Len(c) : c[i].args[3] \in 0 .. 7
    <2>1. \A i \in 1 .. Len(c) : c[i] \in Queued
      BY <1>1
    <2> QED BY <1>1, <2>1, QueuedFacts
  <1>5. ButtonsOf(q) \in [1 .. Len(c) -> 0 .. 7]
    BY <1>2, <1>4
  <1>6. ButtonsOf(q) \in Seq(0 .. 7) /\ Len(ButtonsOf(q)) = Len(c)
    BY <1>4, <1>5
  <1>7. CASE m.msg_type # "click"
    BY <1>1, <1>2, <1>3, <1>6, <1>7
  <1>8. CASE m.msg_type = "click"
    <2>1. /\ DOMAIN d = 1 .. Len(c) + 1 /\ d[Len(c) + 1] = m
          /\ \A i \in 1 .. Len(c) : d[i] = c[i]
      BY <1>1, <1>8
    <2>2. Append(ButtonsOf(q), m.args[3])
            = [i \in 1 .. Len(c) + 1 |-> IF i = Len(c) + 1 THEN m.args[3] ELSE ButtonsOf(q)[i]]
      BY <1>6
    <2>3. \A i \in 1 .. Len(c) + 1 : i # Len(c) + 1 => i \in 1 .. Len(c)
      BY <1>4
    <2>4. \A i \in 1 .. Len(c) + 1 :
             d[i].args[3] = IF i = Len(c) + 1 THEN m.args[3] ELSE ButtonsOf(q)[i]
      BY <1>2, <1>4, <2>1, <2>3
    <2>5. ButtonsOf(Append(q, m))
            = [i \in 1 .. Len(c) + 1 |-> IF i = Len(c) + 1 THEN m.args[3] ELSE ButtonsOf(q)[i]]
      BY <1>3, <2>1, <2>4
    <2> QED BY <1>6, <1>8, <2>2, <2>5
  <1> QED BY <1>7, <1>8

(* The buttons of the clicks when the first message is taken. *)
LEMMA ButtonsTail ==
    ASSUME NEW q \in Seq(Queued), q # << >>
    PROVE  /\ ButtonsOf(q) \in Seq(0 .. 7)
           /\ q[1].msg_type # "click" => ButtonsOf(Tail(q)) = ButtonsOf(q)
           /\ q[1].msg_type = "click" =>
                 ButtonsOf(q) # << >> /\ ButtonsOf(Tail(q)) = Tail(ButtonsOf(q))
  <1> DEFINE c == OfType(q, {"click"})
             d == OfType(Tail(q), {"click"})
             b == ButtonsOf(q)
  <1>1. /\ c \in Seq(Queued)
        /\ q[1].msg_type # "click" => d = c
        /\ q[1].msg_type = "click" => c # << >> /\ d = Tail(c)
    BY OfTypeTail
  <1>2. b = [i \in DOMAIN c |-> c[i].args[3]]
    BY DEF ButtonsOf, Clicks
  <1>3. ButtonsOf(Tail(q)) = [i \in DOMAIN d |-> d[i].args[3]]
    BY DEF ButtonsOf, Clicks
  <1> HIDE DEF c, d
  <1>4. DOMAIN c = 1 .. Len(c) /\ Len(c) \in Nat /\ \A i \in 1 .. Len(c) : c[i].args[3] \in 0 .. 7
    <2>1. \A i \in 1 .. Len(c) : c[i] \in Queued
      BY <1>1
    <2> QED BY <1>1, <2>1, QueuedFacts
  <1> HIDE DEF b
  <1>5. b \in [1 .. Len(c) -> 0 .. 7]
    BY <1>2, <1>4
  <1>6. b \in Seq(0 .. 7) /\ Len(b) = Len(c)
    BY <1>4, <1>5
  <1>7. CASE q[1].msg_type # "click"
    BY <1>1, <1>2, <1>3, <1>6, <1>7 DEF b
  <1>8. CASE q[1].msg_type = "click"
    <2>1. c # << >> /\ Len(c) > 0 /\ b # << >>
      BY <1>1, <1>4, <1>6, <1>8
    <2>2. /\ Tail(c) \in Seq(Queued) /\ Len(Tail(c)) = Len(c) - 1
          /\ \A i \in 1 .. Len(c) - 1 : Tail(c)[i] = c[i + 1]
      BY <1>1, <2>1, HeadTailProperties
    <2>3. DOMAIN d = 1 .. Len(c) - 1 /\ \A i \in 1 .. Len(c) - 1 : d[i] = c[i + 1]
      <3>1. d = Tail(c)
        BY <1>1, <1>8
      <3>2. DOMAIN Tail(c) = 1 .. Len(c) - 1
        BY <2>2, LenProperties
      <3> QED BY <2>2, <3>1, <3>2
    <2>4. /\ Tail(b) \in Seq(0 .. 7) /\ Len(Tail(b)) = Len(c) - 1
          /\ \A i \in 1 .. Len(c) - 1 : Tail(b)[i] = b[i + 1]
      BY <1>6, <2>1, HeadTailProperties
    <2>5. Tail(b) \in [1 .. Len(c) - 1 -> 0 .. 7]
      BY <2>4, SeqFunction
    <2>6. \A i \in 1 .. Len(c) - 1 : i + 1 \in 1 .. Len(c)
      BY <1>4
    <2>7. \A i \in 1 .. Len(c) - 1 : Tail(b)[i] = d[i].args[3]
      BY <1>2, <1>4, <2>3, <2>4, <2>6
    <2>8. Tail(b) = [i \in DOMAIN d |-> d[i].args[3]]
      BY <2>3, <2>5, <2>7
    <2> QED BY <1>3, <1>6, <1>8, <2>1, <2>8 DEF b
  <1> QED BY <1>7, <1>8

(* push() into the compositor's queue: the clicks are the ones before and  *)
(* the new one, if it is one, even when a move is coalesced.               *)
LEMMA PushedFacts ==
    ASSUME NEW q \in Seq(Queued), Len(q) <= QUEUE_SIZE, NEW m \in Queued, Accepts(q, m)
    PROVE  /\ Pushed(q, m) \in Seq(Queued) /\ Len(Pushed(q, m)) <= QUEUE_SIZE
           /\ ButtonsOf(Pushed(q, m)) =
                 IF m.msg_type = "click" THEN Append(ButtonsOf(q), m.args[3]) ELSE ButtonsOf(q)
  <1>1. Len(q) \in Nat /\ QUEUE_SIZE \in Nat
    BY Constants
  <1>2. CASE ~ Coalesces(q, m)
    <2>1. Pushed(q, m) = Append(q, m) /\ Len(q) < QUEUE_SIZE
      BY <1>2 DEF Pushed, Accepts
    <2>2. Append(q, m) \in Seq(Queued) /\ Len(Append(q, m)) = Len(q) + 1
      BY AppendProperties
    <2>3. ButtonsOf(Append(q, m)) = IF m.msg_type = "click" THEN Append(ButtonsOf(q), m.args[3])
                                    ELSE ButtonsOf(q)
      BY ButtonsAppend
    <2> QED BY <1>1, <2>1, <2>2, <2>3
  <1>3. CASE Coalesces(q, m)
    <2> DEFINE r == Pushed(q, m)
    <2>1. /\ q # << >> /\ m.msg_type = MSG_MOUSE_MOVE /\ q[Len(q)].msg_type = MSG_MOUSE_MOVE
          /\ r = [q EXCEPT ![Len(q)] = m]
      BY <1>3 DEF Coalesces, SameMove, Pushed
    <2>2. Len(q) \in 1 .. Len(q)
      BY <2>1
    <2>3. /\ r \in Seq(Queued) /\ Len(r) = Len(q) /\ r[Len(q)] = m
          /\ \A i \in 1 .. Len(q) : i # Len(q) => r[i] = q[i]
      BY <2>1, <2>2
    <2>4. m.msg_type \notin {"click"} /\ q[Len(q)].msg_type \notin {"click"}
      BY <2>1, DesktopAssumption
    <2> HIDE DEF r
    <2>5. \A i \in 1 .. Len(q) :
             r[i] = q[i] \/ (q[i].msg_type \notin {"click"} /\ r[i].msg_type \notin {"click"})
      BY <2>3, <2>4
    <2>6. OfType(r, {"click"}) = OfType(q, {"click"})
      BY <2>3, <2>5, OfTypeReplace
    <2>7. ButtonsOf(r) = ButtonsOf(q)
      BY <2>6 DEF ButtonsOf, Clicks
    <2> QED BY <2>3, <2>4, <2>7 DEF r
  <1> QED BY <1>2, <1>3

-----------------------------------------------------------------------------
(* The invariant is inductive. *)

(* What the programs send. *)
LEMMA MessageFacts ==
    ASSUME StateInv
    PROVE  /\ Move \in Queued /\ Move.msg_type = MSG_MOUSE_MOVE /\ Move.args[3] = state.buttons
           /\ Click \in Queued /\ Click.msg_type = "click" /\ Click.args[3] = state.buttons
           /\ Msg(KEYBOARD_PID, "key", NoArgs) \in Queued
           /\ Msg(KEYBOARD_PID, "key", NoArgs).msg_type = "key"
           /\ Queued \subseteq Sendable
           /\ \A t \in Terminals : TerminalMsg(t) \subseteq Sendable
           /\ \A t \in Terminals : \A m \in TerminalMsg(t) :
                 /\ m.msg_type \in {"create", "damage", "off"}
                 /\ m.msg_type # "off" => m \in Queued
  <1>1. /\ state.x \in 0 .. SCREEN_W - 1 /\ state.y \in 0 .. SCREEN_H - 1
        /\ state.buttons \in 0 .. 7
    BY DEF StateInv, MouseState
  <1>2. << state.x, state.y, state.buttons >> \in Args
    BY <1>1 DEF Args
  <1>3. Move \in Queued /\ Click \in Queued
    BY <1>2, Constants, DesktopAssumption DEF Move, Click, Msg, Queued
  <1>4. /\ Move.msg_type = MSG_MOUSE_MOVE /\ Click.msg_type = "click"
        /\ Move.args[3] = state.buttons /\ Click.args[3] = state.buttons
    BY DEF Move, Click, Msg
  <1>5. /\ Msg(KEYBOARD_PID, "key", NoArgs) \in Queued
        /\ Msg(KEYBOARD_PID, "key", NoArgs).msg_type = "key"
    BY Constants DEF Msg, Queued
  <1>6. Queued \subseteq Sendable
    BY DEF Queued, Sendable
  <1>7. ASSUME NEW t \in Terminals, NEW m \in TerminalMsg(t)
        PROVE  /\ m \in Sendable /\ m.msg_type \in {"create", "damage", "off"}
               /\ m.msg_type # "off" => m \in Queued
    <2>1. PICK type \in {"create", "damage", "off"} : m = Msg(t, type, NoArgs)
      BY DEF TerminalMsg
    <2>2. t \in Programs /\ NoArgs \in Args
      BY Constants
    <2>3. m.msg_type = type /\ m.sender = t
      BY <2>1 DEF Msg
    <2>4. m \in Sendable
      BY <2>1, <2>2 DEF Msg, Sendable
    <2>5. type # "off" => m \in Queued
      BY <2>1, <2>2, DesktopAssumption DEF Msg, Queued
    <2> QED BY <2>1, <2>3, <2>4, <2>5
  <1> QED BY <1>3, <1>4, <1>5, <1>6, <1>7

(* Whether a click is pending shows in the driver's messages. *)
LEMMA Shapes ==
    LET p == pending[MOUSE_PID] IN
    /\ p = << >> => ~ ClickPending
    /\ p = << Move >> => ~ ClickPending
    /\ p = << Move, Click >> => ClickPending
    /\ p = << Click >> => ClickPending
  <1>1. Move # Click
    <2>1. Move.msg_type # Click.msg_type
      BY DesktopAssumption DEF Move, Click, Msg
    <2> QED BY <2>1
  <1>2. \A a, b : << a >> # << >> /\ << a, b >> # << >> /\ << a >> # << a, b >> /\ << b >> # << a, b >>
    OBVIOUS
  <1>3. << Move >> # << Click >>
    BY <1>1
  <1> QED BY <1>2, <1>3 DEF ClickPending

(* What depends on the driver's state and on the compositor's queue stays  *)
(* when they do.                                                           *)
LEMMA SameAnnounced ==
    ASSUME IInv, UNCHANGED << comp_q, state, prev_buttons, owed >>,
           pending'[MOUSE_PID] = pending[MOUSE_PID]
    PROVE  AnnouncedInv' /\ OwedInv'
  <1>1. Move' = Move /\ Click' = Click
    BY DEF Move, Click
  <1>2. ClickPending' <=> ClickPending
    BY <1>1 DEF ClickPending
  <1> QED BY <1>2 DEF IInv, AnnouncedInv, OwedInv

(* An interrupt handler's send. *)
LEMMA SentOnceFacts ==
    ASSUME NEW E, NEW q \in Seq(E), NEW e \in E, Len(q) <= IRQ_QUEUE_SIZE
    PROVE  SentOnce(q, e) \in Seq(E) /\ Len(SentOnce(q, e)) <= IRQ_QUEUE_SIZE
  <1>1. Append(q, e) \in Seq(E) /\ Len(Append(q, e)) = Len(q) + 1 /\ Len(q) \in Nat
    BY AppendProperties
  <1> QED BY <1>1, Constants DEF SentOnce

(* No clicks wait in an empty queue. *)
LEMMA NoButtons == ButtonsOf(<< >>) = << >>
  <1>1. << >> \in Seq(Queued) /\ {} \in SUBSET (1 .. Len(<< >>))
    OBVIOUS
  <1>2. Picked(<< >>, {}) = << >>
    BY <1>1, PickedSeq
  <1>3. OfType(<< >>, {"click"}) = << >>
    BY <1>2 DEF OfType
  <1> QED BY <1>3 DEF ButtonsOf, Clicks

(* The programs as init starts them. *)
LEMMA InitIInv == Init => IInv
  <1> SUFFICES ASSUME Init PROVE IInv
    OBVIOUS
  <1>1. QueuesInv
    BY Constants DEF Init, QueuesInv
  <1>2. StateInv
    <2>1. SCREEN_W \div 2 \in 0 .. SCREEN_W - 1 /\ SCREEN_H \div 2 \in 0 .. SCREEN_H - 1
      BY Constants
    <2>2. << >> \in { s \in Seq(Byte) : Len(s) <= 2 }
      OBVIOUS
    <2>3. state \in MouseState
      BY <2>1, <2>2 DEF Init, MouseState
    <2> QED BY <2>3 DEF Init, StateInv
  <1>3. PendingInv
    <2>1. ASSUME NEW t \in Terminals
          PROVE  << Msg(t, "create", NoArgs), Msg(t, "damage", NoArgs) >> \in Seq(TerminalMsg(t))
      BY DEF TerminalMsg
    <2>2. \A t \in Terminals : Seq(TerminalMsg(t)) \subseteq Seq(Sendable)
      <3>1. \A t \in Terminals : TerminalMsg(t) \subseteq Sendable
        BY <1>2, MessageFacts
      <3> QED BY <3>1
    <2>3. pending \in [Programs -> Seq(Sendable)]
      <3> DEFINE First(p) == IF p \in running
                               THEN << Msg(p, "create", NoArgs), Msg(p, "damage", NoArgs) >>
                               ELSE << >>
      <3>1. pending = [p \in Programs |-> First(p)]
        BY DEF Init
      <3>2. << >> \in Seq(Sendable)
        OBVIOUS
      <3>3. \A p \in Programs : First(p) \in Seq(Sendable)
        BY <1>2, <2>1, <2>2, <3>2 DEF StateInv
      <3> HIDE DEF First
      <3> QED BY <3>1, <3>3
    <2>4. \A t \in Terminals :
             \/ pending[t] = << Msg(t, "create", NoArgs), Msg(t, "damage", NoArgs) >>
             \/ pending[t] = << >>
      BY Constants DEF Init
    <2>5. pending[KEYBOARD_PID] = << >> /\ pending[MOUSE_PID] = << >>
      BY <1>2, Constants DEF Init, StateInv
    <2>6. \A t \in Terminals : Len(pending[t]) <= 3
      <3>1. \A a, b : Len(<< >>) = 0 /\ Len(<< a, b >>) = 2
        OBVIOUS
      <3>2. \A t \in Terminals : Len(pending[t]) \in {0, 2}
        BY <2>4, <3>1, Zenon
      <3>3. \A n \in {0, 2} : n <= 3
        OBVIOUS
      <3> QED BY <3>2, <3>3, Zenon
    <2>7. \A t \in Terminals : pending[t] \in Seq(TerminalMsg(t))
      <3>1. \A S : << >> \in Seq(S)
        OBVIOUS
      <3> QED BY <2>1, <2>4, <3>1, Zenon
    <2> QED BY <2>3, <2>5, <2>6, <2>7 DEF PendingInv
  <1>4. ~ ClickPending
    <2>1. pending[MOUSE_PID] = << >>
      BY <1>2, Constants DEF Init, StateInv
    <2> QED BY <2>1, Shapes
  <1>5. AnnouncedInv /\ OwedInv
    BY <1>4, NoButtons DEF Init, AnnouncedInv, OwedInv
  <1> QED BY <1>1, <1>2, <1>3, <1>5 DEF IInv

(* An interrupt adds a byte or loses it. *)
LEMMA IrqIInv ==
    ASSUME IInv, \/ \E b \in Bytes : MouseIrq(b)
                 \/ \E scancode \in {"char", "none"} : KeyboardIrq(scancode)
    PROVE  IInv'
  <1>1. CASE \E b \in Bytes : MouseIrq(b)
    <2>1. PICK b \in Bytes : MouseIrq(b)
      BY <1>1
    <2>2. b \in Byte
      BY DesktopAssumption DEF Byte
    <2>3. mouse_q \in Seq(Byte) /\ Len(mouse_q) <= IRQ_QUEUE_SIZE
      BY DEF IInv, QueuesInv
    <2>4. SentOnce(mouse_q, b) \in Seq(Byte) /\ Len(SentOnce(mouse_q, b)) <= IRQ_QUEUE_SIZE
      BY <2>2, <2>3, SentOnceFacts
    <2>5. /\ mouse_q' = SentOnce(mouse_q, b)
          /\ UNCHANGED << comp_q, key_q, term_q, state, prev_buttons, pending, running, owed,
                          last_click >>
      BY <2>1 DEF MouseIrq
    <2>6. QueuesInv'
      BY <2>4, <2>5 DEF IInv, QueuesInv
    <2>7. StateInv' /\ PendingInv'
      BY <2>5 DEF IInv, StateInv, PendingInv, Move, Click
    <2>8. AnnouncedInv' /\ OwedInv'
      BY <2>5, SameAnnounced
    <2> QED BY <2>6, <2>7, <2>8 DEF IInv
  <1>2. CASE \E scancode \in {"char", "none"} : KeyboardIrq(scancode)
    <2>1. PICK scancode \in {"char", "none"} : KeyboardIrq(scancode)
      BY <1>2
    <2>2. key_q \in Seq({"char", "none"}) /\ Len(key_q) <= IRQ_QUEUE_SIZE
      BY DEF IInv, QueuesInv
    <2>3. /\ SentOnce(key_q, scancode) \in Seq({"char", "none"})
          /\ Len(SentOnce(key_q, scancode)) <= IRQ_QUEUE_SIZE
      BY <2>2, SentOnceFacts
    <2>4. /\ key_q' = SentOnce(key_q, scancode)
          /\ UNCHANGED << comp_q, mouse_q, term_q, state, prev_buttons, pending, running, owed,
                          last_click >>
      BY <2>1 DEF KeyboardIrq
    <2>5. QueuesInv'
      BY <2>3, <2>4 DEF IInv, QueuesInv
    <2>6. StateInv' /\ PendingInv'
      BY <2>4 DEF IInv, StateInv, PendingInv, Move, Click
    <2>7. AnnouncedInv' /\ OwedInv'
      BY <2>4, SameAnnounced
    <2> QED BY <2>5, <2>6, <2>7 DEF IInv
  <1> QED BY <1>1, <1>2

(* A sequence that loses its head. *)
LEMMA TailFacts ==
    ASSUME NEW E, NEW q \in Seq(E), q # << >>
    PROVE  /\ Head(q) \in E /\ Head(q) = q[1] /\ Tail(q) \in Seq(E)
           /\ \A n \in Nat : Len(q) <= n => Len(Tail(q)) <= n
  <1>1. Head(q) \in E /\ Tail(q) \in Seq(E) /\ Len(Tail(q)) = Len(q) - 1 /\ Len(q) \in Nat
    BY HeadTailProperties
  <1>2. \A n \in Nat : Len(q) <= n => Len(Tail(q)) <= n
    BY <1>1
  <1>3. Head(q) = q[1]
    OBVIOUS
  <1> QED BY <1>1, <1>2, <1>3

(* The concatenations that announcements are. *)
LEMMA OneOrTwo ==
    ASSUME NEW a, NEW b
    PROVE  << a >> \o << >> = << a >> /\ << a >> \o << b >> = << a, b >>
  <1> DEFINE E == {a, b}
  <1>1. << a >> \in Seq(E) /\ << b >> \in Seq(E) /\ << a, b >> \in Seq(E)
    OBVIOUS
  <1>2. Len(<< a >>) = 1 /\ Len(<< b >>) = 1 /\ Len(<< a, b >>) = 2
    OBVIOUS
  <1>3. << a >>[1] = a /\ << b >>[1] = b /\ << a, b >>[1] = a /\ << a, b >>[2] = b
    OBVIOUS
  <1> HIDE DEF E
  <1>4. << a >> \o << >> = << a >>
    BY <1>1, ConcatEmptySeq
  <1>5. \A r : r = << a >> \o << b >> =>
           /\ r \in Seq(E) /\ Len(r) = 2 /\ r[1] = a /\ r[2] = b
    <2>1. /\ << a >> \o << b >> \in Seq(E)
          /\ Len(<< a >> \o << b >>) = Len(<< a >>) + Len(<< b >>)
          /\ \A i \in 1 .. Len(<< a >>) + Len(<< b >>) :
                (<< a >> \o << b >>)[i] = IF i <= Len(<< a >>) THEN << a >>[i]
                                          ELSE << b >>[i - Len(<< a >>)]
      BY <1>1, ConcatProperties
    <2> QED BY <1>2, <1>3, <2>1
  <1>6. \A r \in Seq(E) : Len(r) = 2 /\ r[1] = a /\ r[2] = b => r = << a, b >>
    <2> SUFFICES ASSUME NEW r \in Seq(E), Len(r) = 2, r[1] = a, r[2] = b PROVE r = << a, b >>
      OBVIOUS
    <2>1. r \in [1 .. 2 -> E] /\ << a, b >> \in [1 .. 2 -> E]
      BY <1>1, <1>2, SeqFunction
    <2>2. \A i \in 1 .. 2 : r[i] = << a, b >>[i]
      OBVIOUS
    <2> QED BY <2>1, <2>2
  <1> QED BY <1>4, <1>5, <1>6

(* The messages of the mouse driver after a packet. *)
LEMMA AnnouncementsFacts ==
    ASSUME IInv, pending[MOUSE_PID] = << >>, NEW s \in MouseState, state' = s,
           pending' = [pending EXCEPT ![MOUSE_PID] = Announcements(s)],
           UNCHANGED << comp_q, prev_buttons, last_click, running >>,
           owed' = IF s.buttons # state.buttons THEN Append(owed, s.buttons) ELSE owed
    PROVE  StateInv' /\ PendingInv' /\ AnnouncedInv' /\ OwedInv'
  <1>1. StateInv'
    BY DEF IInv, StateInv
  <1>2. Move' \in Sendable /\ Click' \in Sendable
    <2>1. (StateInv => Move \in Queued /\ Click \in Queued /\ Queued \subseteq Sendable)'
      BY MessageFacts, PTL
    <2>2. Move' \in Queued' /\ Click' \in Queued' /\ Queued' \subseteq Sendable'
      BY <1>1, <2>1
    <2> QED BY <2>2 DEF Queued, Sendable, Args, Programs
  <1>3. state.buttons = prev_buttons /\ owed = ButtonsOf(comp_q)
    <2>1. ~ ClickPending
      BY Shapes
    <2> QED BY <2>1 DEF IInv, AnnouncedInv, OwedInv
  <1>4. Announcements(s) = IF s.buttons # prev_buttons THEN << Move', Click' >> ELSE << Move' >>
    <2>1. Move' = Msg(MOUSE_PID, MSG_MOUSE_MOVE, << s.x, s.y, s.buttons >>)
      BY DEF Move
    <2>2. Click' = Msg(MOUSE_PID, "click", << s.x, s.y, s.buttons >>)
      BY DEF Click
    <2>3. \A a, b : << a >> \o << >> = << a >> /\ << a >> \o << b >> = << a, b >>
      BY OneOrTwo
    <2> QED BY <2>1, <2>2, <2>3 DEF Announcements
  <1>5. /\ MOUSE_PID \in Programs /\ pending \in [Programs -> Seq(Sendable)]
    BY Constants DEF IInv, PendingInv
  <1>6. /\ pending'[MOUSE_PID] = Announcements(s)
        /\ \A p \in Programs : p # MOUSE_PID => pending'[p] = pending[p]
        /\ DOMAIN pending' = Programs
    BY <1>5
  <1>7. Announcements(s) \in Seq(Sendable)
    BY <1>2, <1>4
  <1>8. pending' \in [Programs -> Seq(Sendable)]
    BY <1>5, <1>7
  <1>9. PendingInv'
    <2>1. pending'[KEYBOARD_PID] = pending[KEYBOARD_PID] /\ \A t \in Terminals : pending'[t] = pending[t]
      BY <1>6, Constants
    <2>2. pending'[MOUSE_PID] \in { << >>, << Move' >>, << Move', Click' >>, << Click' >> }
      BY <1>4, <1>6
    <2>3. /\ pending[KEYBOARD_PID] \in { << >>, << Msg(KEYBOARD_PID, "key", NoArgs) >> }
          /\ \A t \in Terminals : pending[t] \in Seq(TerminalMsg(t)) /\ Len(pending[t]) <= 3
      BY DEF IInv, PendingInv
    <2> QED BY <1>8, <2>1, <2>2, <2>3 DEF PendingInv
  <1>10. ClickPending' <=> s.buttons # prev_buttons
    <2>1. pending'[MOUSE_PID] = << Move', Click' >> => ClickPending'
      BY DEF ClickPending
    <2>2. (pending[MOUSE_PID] = << Move >> => ~ ClickPending)'
      BY Shapes, PTL
    <2>3. pending'[MOUSE_PID] = << Move' >> => ~ ClickPending'
      BY <2>2
    <2> QED BY <1>4, <1>6, <2>1, <2>3
  <1>11. AnnouncedInv'
    BY <1>10 DEF AnnouncedInv
  <1>12. OwedInv'
    <2>1. ButtonsOf(comp_q)' = ButtonsOf(comp_q)
      BY DEF ButtonsOf, Clicks
    <2> QED BY <1>3, <1>10, <2>1 DEF OwedInv
  <1> QED BY <1>1, <1>9, <1>11, <1>12

(* A byte fed to the mouse driver, of which each third ends a packet. *)
LEMMA FeedsIInv ==
    ASSUME IInv, MouseDriverFeeds
    PROVE  IInv'
  <1> DEFINE byte == Head(mouse_q)
             bytes == Append(state.packet, byte)
             next == Processed(state, bytes)
  <1>1. /\ pending[MOUSE_PID] = << >> /\ mouse_q # << >> /\ mouse_q' = Tail(mouse_q)
        /\ UNCHANGED << comp_q, key_q, term_q, prev_buttons, running, last_click >>
    BY DEF MouseDriverFeeds
  <1>2. mouse_q \in Seq(Byte) /\ Len(mouse_q) <= IRQ_QUEUE_SIZE
    BY DEF IInv, QueuesInv
  <1>3. byte \in Byte /\ mouse_q' \in Seq(Byte) /\ Len(mouse_q') <= IRQ_QUEUE_SIZE
    BY <1>1, <1>2, TailFacts, Constants
  <1>4. QueuesInv'
    BY <1>1, <1>3 DEF IInv, QueuesInv
  <1>5. state \in MouseState /\ state.packet \in Seq(Byte) /\ Len(state.packet) <= 2
    BY DEF IInv, StateInv, MouseState
  <1> HIDE DEF byte
  <1>6. bytes \in Seq(Byte) /\ Len(bytes) = Len(state.packet) + 1
    BY <1>3, <1>5, AppendProperties
  <1>7. /\ \/ UNCHANGED << state, pending, owed >>
           \/ /\ Len(bytes) < 3 /\ state' = [state EXCEPT !.packet = bytes]
              /\ UNCHANGED << pending, owed >>
           \/ /\ Len(bytes) = 3 /\ state' = next
              /\ pending' = [pending EXCEPT ![MOUSE_PID] = Announcements(next)]
              /\ owed' = IF next.buttons # state.buttons THEN Append(owed, next.buttons) ELSE owed
    BY DEF MouseDriverFeeds, byte
  <1> HIDE DEF bytes
  <1>8. CASE UNCHANGED << state, pending, owed >>
    <2>1. StateInv' /\ PendingInv'
      BY <1>1, <1>8 DEF IInv, StateInv, PendingInv, Move, Click
    <2>2. AnnouncedInv' /\ OwedInv'
      BY <1>1, <1>8, SameAnnounced
    <2> QED BY <1>4, <2>1, <2>2 DEF IInv
  <1>9. CASE /\ Len(bytes) < 3 /\ state' = [state EXCEPT !.packet = bytes]
             /\ UNCHANGED << pending, owed >>
    <2>1. /\ bytes \in { s \in Seq(Byte) : Len(s) <= 2 }
      <3>1. Len(bytes) <= 2
        BY <1>6, <1>9
      <3> QED BY <1>6, <3>1
    <2>2. /\ state' \in MouseState /\ state'.x = state.x /\ state'.y = state.y
          /\ state'.buttons = state.buttons
      BY <1>5, <1>9, <2>1 DEF MouseState
    <2>3. StateInv'
      BY <1>1, <2>2 DEF IInv, StateInv
    <2>4. Move' = Move /\ Click' = Click
      BY <2>2 DEF Move, Click
    <2>5. PendingInv'
      BY <1>9, <2>4 DEF IInv, PendingInv
    <2>6. ClickPending' <=> ClickPending
      BY <1>9, <2>4 DEF ClickPending
    <2>7. AnnouncedInv' /\ OwedInv'
      BY <1>1, <1>9, <2>2, <2>6 DEF IInv, AnnouncedInv, OwedInv
    <2> QED BY <1>4, <2>3, <2>5, <2>7 DEF IInv
  <1>10. CASE /\ Len(bytes) = 3 /\ state' = next
              /\ pending' = [pending EXCEPT ![MOUSE_PID] = Announcements(next)]
              /\ owed' = IF next.buttons # state.buttons THEN Append(owed, next.buttons) ELSE owed
    <2>1. next \in MouseState
      BY <1>5, <1>6, <1>10, ProcessedFacts
    <2> HIDE DEF next
    <2>2. StateInv' /\ PendingInv' /\ AnnouncedInv' /\ OwedInv'
      BY <1>1, <1>10, <2>1, AnnouncementsFacts
    <2> QED BY <1>4, <2>2 DEF IInv
  <1> QED BY <1>7, <1>8, <1>9, <1>10

(* Another program than the mouse driver gets messages to send. *)
LEMMA OthersPending ==
    ASSUME IInv, NEW p \in Programs, p # MOUSE_PID, NEW new \in Seq(Sendable),
           pending' = [pending EXCEPT ![p] = new],
           p = KEYBOARD_PID => new \in { << >>, << Msg(KEYBOARD_PID, "key", NoArgs) >> },
           p \in Terminals => new \in Seq(TerminalMsg(p)) /\ Len(new) <= 3,
           UNCHANGED state
    PROVE  PendingInv' /\ pending'[MOUSE_PID] = pending[MOUSE_PID]
  <1>1. pending \in [Programs -> Seq(Sendable)]
    BY DEF IInv, PendingInv
  <1>2. /\ pending' \in [Programs -> Seq(Sendable)]
        /\ \A r \in Programs : pending'[r] = IF r = p THEN new ELSE pending[r]
    BY <1>1
  <1>3. /\ pending'[MOUSE_PID] = pending[MOUSE_PID]
        /\ pending'[KEYBOARD_PID] = IF KEYBOARD_PID = p THEN new ELSE pending[KEYBOARD_PID]
        /\ \A t \in Terminals : pending'[t] = IF t = p THEN new ELSE pending[t]
    BY <1>2, Constants
  <1>4. /\ pending[KEYBOARD_PID] \in { << >>, << Msg(KEYBOARD_PID, "key", NoArgs) >> }
        /\ pending[MOUSE_PID] \in { << >>, << Move >>, << Move, Click >>, << Click >> }
        /\ \A t \in Terminals : pending[t] \in Seq(TerminalMsg(t)) /\ Len(pending[t]) <= 3
    BY DEF IInv, PendingInv
  <1>5. Move' = Move /\ Click' = Click
    BY DEF Move, Click
  <1>6. pending'[MOUSE_PID] \in { << >>, << Move' >>, << Move', Click' >>, << Click' >> }
    BY <1>3, <1>4, <1>5
  <1>7. pending'[KEYBOARD_PID] \in { << >>, << Msg(KEYBOARD_PID, "key", NoArgs) >> }
    BY <1>3, <1>4
  <1>8. \A t \in Terminals : pending'[t] \in Seq(TerminalMsg(t)) /\ Len(pending'[t]) <= 3
    BY <1>3, <1>4
  <1> QED BY <1>2, <1>3, <1>6, <1>7, <1>8 DEF PendingInv

(* A scancode read by the keyboard driver. *)
LEMMA KeyboardIInv ==
    ASSUME IInv, KeyboardDriverReads
    PROVE  IInv'
  <1> DEFINE key == Msg(KEYBOARD_PID, "key", NoArgs)
             new == IF Head(key_q) = "char" THEN << key >> ELSE << >>
  <1>1. /\ key_q # << >> /\ key_q' = Tail(key_q)
        /\ pending' = [pending EXCEPT ![KEYBOARD_PID] = new]
        /\ UNCHANGED << comp_q, mouse_q, term_q, state, prev_buttons, running, owed, last_click >>
    BY DEF KeyboardDriverReads
  <1>2. key_q \in Seq({"char", "none"}) /\ Len(key_q) <= IRQ_QUEUE_SIZE
    BY DEF IInv, QueuesInv
  <1>3. key_q' \in Seq({"char", "none"}) /\ Len(key_q') <= IRQ_QUEUE_SIZE
    BY <1>1, <1>2, TailFacts, Constants
  <1>4. QueuesInv'
    BY <1>1, <1>3 DEF IInv, QueuesInv
  <1>5. StateInv'
    BY <1>1 DEF IInv, StateInv
  <1>6. key \in Sendable
    BY MessageFacts DEF IInv
  <1>7. new \in { << >>, << key >> }
    OBVIOUS
  <1> HIDE DEF key
  <1>8. new \in Seq(Sendable)
    BY <1>6
  <1> HIDE DEF new
  <1>9. PendingInv' /\ pending'[MOUSE_PID] = pending[MOUSE_PID]
    BY <1>1, <1>7, <1>8, OthersPending, Constants DEF key
  <1>10. AnnouncedInv' /\ OwedInv'
    BY <1>1, <1>9, SameAnnounced
  <1> QED BY <1>4, <1>5, <1>9, <1>10 DEF IInv

(* The heads and tails of what the drivers have to send. *)
LEMMA ShortTails ==
    ASSUME NEW a, NEW b
    PROVE  /\ Head(<< a >>) = a /\ Tail(<< a >>) = << >>
           /\ Head(<< a, b >>) = a /\ Tail(<< a, b >>) = << b >>
  OBVIOUS

(* A message sent by the mouse driver: a move leaves the clicks as they    *)
(* are, a click goes behind the others and settles the buttons.            *)
LEMMA MouseSendsIInv ==
    ASSUME IInv, SendsToCompositor(MOUSE_PID)
    PROVE  IInv'
  <1> DEFINE p == pending[MOUSE_PID]
             m == Head(p)
  <1>1. /\ p # << >> /\ Accepts(comp_q, m) /\ comp_q' = Pushed(comp_q, m)
        /\ prev_buttons' = IF m.msg_type = "click" THEN state.buttons ELSE prev_buttons
        /\ pending' = [pending EXCEPT ![MOUSE_PID] = Tail(p)]
        /\ UNCHANGED << mouse_q, key_q, term_q, state, running, owed, last_click >>
    BY DEF SendsToCompositor
  <1>2. /\ comp_q \in Seq(Queued) /\ Len(comp_q) <= QUEUE_SIZE
        /\ StateInv /\ pending \in [Programs -> Seq(Sendable)] /\ MOUSE_PID \in Programs
        /\ state.buttons \in 0 .. 7
    BY Constants DEF IInv, QueuesInv, StateInv, PendingInv, MouseState
  <1>3. /\ Move \in Queued /\ Move.msg_type # "click"
        /\ Click \in Queued /\ Click.msg_type = "click" /\ Click.args[3] = state.buttons
    BY <1>2, MessageFacts, DesktopAssumption
  <1>4. \/ p = << Move >> /\ m = Move /\ Tail(p) = << >>
        \/ p = << Move, Click >> /\ m = Move /\ Tail(p) = << Click >>
        \/ p = << Click >> /\ m = Click /\ Tail(p) = << >>
    <2>1. p \in { << Move >>, << Move, Click >>, << Click >> }
      BY <1>1 DEF IInv, PendingInv
    <2> QED BY <2>1, ShortTails
  <1> HIDE DEF m
  <1>5. m \in Queued
    BY <1>3, <1>4
  <1>6. /\ comp_q' \in Seq(Queued) /\ Len(comp_q') <= QUEUE_SIZE
        /\ ButtonsOf(comp_q') = IF m.msg_type = "click" THEN Append(ButtonsOf(comp_q), m.args[3])
                                ELSE ButtonsOf(comp_q)
    BY <1>1, <1>2, <1>5, PushedFacts
  <1>7. QueuesInv'
    BY <1>1, <1>6 DEF IInv, QueuesInv
  <1>8. StateInv'
    BY <1>1, <1>2 DEF StateInv
  <1>9. Move' = Move /\ Click' = Click
    BY <1>1 DEF Move, Click
  <1>10. Tail(p) \in Seq(Sendable)
    BY <1>1, <1>2, TailFacts
  <1>11. /\ pending' \in [Programs -> Seq(Sendable)] /\ pending'[MOUSE_PID] = Tail(p)
         /\ \A r \in Programs : r # MOUSE_PID => pending'[r] = pending[r]
    BY <1>1, <1>2, <1>10
  <1>12. PendingInv'
    <2>1. pending'[KEYBOARD_PID] = pending[KEYBOARD_PID] /\ \A t \in Terminals : pending'[t] = pending[t]
      BY <1>11, Constants
    <2>2. pending'[MOUSE_PID] \in { << >>, << Move' >>, << Move', Click' >>, << Click' >> }
      BY <1>4, <1>9, <1>11
    <2>3. /\ pending[KEYBOARD_PID] \in { << >>, << Msg(KEYBOARD_PID, "key", NoArgs) >> }
          /\ \A t \in Terminals : pending[t] \in Seq(TerminalMsg(t)) /\ Len(pending[t]) <= 3
      BY DEF IInv, PendingInv
    <2> QED BY <1>11, <2>1, <2>2, <2>3 DEF PendingInv
  <1>13. /\ pending'[MOUSE_PID] = << >> => ~ ClickPending'
         /\ pending'[MOUSE_PID] = << Click >> => ClickPending'
    <2>1. (/\ pending[MOUSE_PID] = << >> => ~ ClickPending
           /\ pending[MOUSE_PID] = << Click >> => ClickPending)'
      BY Shapes, PTL
    <2> QED BY <1>9, <2>1
  <1>14. CASE m = Move
    <2>1. ClickPending' <=> ClickPending
      <3>1. CASE p = << Move >> /\ Tail(p) = << >>
        BY <1>11, <1>13, <3>1, Shapes
      <3>2. CASE p = << Move, Click >> /\ Tail(p) = << Click >>
        BY <1>11, <1>13, <3>2, Shapes
      <3>3. m # Click
        BY <1>3, <1>14
      <3> QED BY <1>4, <3>1, <3>2, <3>3
    <2>2. ButtonsOf(comp_q') = ButtonsOf(comp_q) /\ prev_buttons' = prev_buttons
      BY <1>1, <1>3, <1>6, <1>14
    <2>3. AnnouncedInv' /\ OwedInv'
      BY <1>1, <2>1, <2>2 DEF IInv, AnnouncedInv, OwedInv
    <2> QED BY <1>7, <1>8, <1>12, <2>3 DEF IInv
  <1>15. CASE m = Click
    <2>1. p = << Click >> /\ Tail(p) = << >>
      BY <1>3, <1>4, <1>15
    <2>2. ClickPending /\ ~ ClickPending'
      BY <1>11, <1>13, <2>1, Shapes
    <2>3. /\ ButtonsOf(comp_q') = Append(ButtonsOf(comp_q), state.buttons)
          /\ prev_buttons' = state.buttons
      BY <1>1, <1>3, <1>6, <1>15
    <2>4. AnnouncedInv' /\ OwedInv'
      BY <1>1, <2>2, <2>3 DEF IInv, AnnouncedInv, OwedInv
    <2> QED BY <1>7, <1>8, <1>12, <2>4 DEF IInv
  <1> QED BY <1>4, <1>14, <1>15

(* A message sent by the keyboard driver or a terminal is no click. *)
LEMMA OthersSendIInv ==
    ASSUME IInv, NEW p \in Programs, p # MOUSE_PID, SendsToCompositor(p)
    PROVE  IInv'
  <1> DEFINE mine == pending[p]
             m == Head(mine)
  <1>1. /\ mine # << >> /\ m.msg_type # "off"
        /\ Accepts(comp_q, m) /\ comp_q' = Pushed(comp_q, m)
        /\ prev_buttons' = IF m.msg_type = "click" THEN state.buttons ELSE prev_buttons
        /\ pending' = [pending EXCEPT ![p] = Tail(mine)]
        /\ UNCHANGED << mouse_q, key_q, term_q, state, running, owed, last_click >>
    BY DEF SendsToCompositor
  <1>2. /\ comp_q \in Seq(Queued) /\ Len(comp_q) <= QUEUE_SIZE
        /\ StateInv /\ pending \in [Programs -> Seq(Sendable)]
    BY DEF IInv, QueuesInv, PendingInv
  <1>3. mine \in Seq(Sendable)
    BY <1>2
  <1>4. /\ p = KEYBOARD_PID => mine \in { << >>, << Msg(KEYBOARD_PID, "key", NoArgs) >> }
        /\ p \in Terminals => mine \in Seq(TerminalMsg(p)) /\ Len(mine) <= 3
    BY DEF IInv, PendingInv
  <1>5. p = KEYBOARD_PID \/ p \in Terminals
    BY DEF Programs
  <1> HIDE DEF mine
  <1>6. Tail(mine) \in Seq(Sendable)
    BY <1>1, <1>3, TailFacts
  <1>7. /\ p = KEYBOARD_PID => Tail(mine) \in { << >>, << Msg(KEYBOARD_PID, "key", NoArgs) >> }
        /\ p = KEYBOARD_PID => m = Msg(KEYBOARD_PID, "key", NoArgs)
    BY <1>1, <1>4, ShortTails
  <1>8. ASSUME p \in Terminals
        PROVE  Tail(mine) \in Seq(TerminalMsg(p)) /\ Len(Tail(mine)) <= 3 /\ m \in TerminalMsg(p)
    <2>1. mine \in Seq(TerminalMsg(p)) /\ Len(mine) <= 3 /\ mine # << >> /\ 3 \in Nat
      BY <1>1, <1>4, <1>8
    <2> QED BY <2>1, TailFacts
  <1> HIDE DEF m
  <1>9. m \in Queued /\ m.msg_type # "click"
    <2>1. p = KEYBOARD_PID => m \in Queued /\ m.msg_type # "click"
      BY <1>2, <1>7, MessageFacts
    <2>2. p \in Terminals => m \in Queued /\ m.msg_type # "click"
      BY <1>1, <1>2, <1>8, MessageFacts
    <2> QED BY <1>5, <2>1, <2>2
  <1>10. /\ comp_q' \in Seq(Queued) /\ Len(comp_q') <= QUEUE_SIZE
         /\ ButtonsOf(comp_q') = ButtonsOf(comp_q) /\ prev_buttons' = prev_buttons
    BY <1>1, <1>2, <1>9, PushedFacts
  <1>11. QueuesInv'
    BY <1>1, <1>10 DEF IInv, QueuesInv
  <1>12. StateInv'
    BY <1>1, <1>2, <1>10 DEF StateInv
  <1>13. PendingInv' /\ pending'[MOUSE_PID] = pending[MOUSE_PID]
    BY <1>1, <1>6, <1>7, <1>8, OthersPending
  <1>14. ClickPending' <=> ClickPending
    BY <1>1, <1>13 DEF ClickPending, Move, Click
  <1>15. AnnouncedInv' /\ OwedInv'
    BY <1>1, <1>10, <1>14 DEF IInv, AnnouncedInv, OwedInv
  <1> QED BY <1>11, <1>12, <1>13, <1>15 DEF IInv

(* The compositor's sends to the terminals. *)
LEMMA EnqueuedFacts ==
    ASSUME NEW q \in Seq({"key", "quit"}), Len(q) <= QUEUE_SIZE, NEW type \in {"key", "quit"}
    PROVE  Enqueued(q, type) \in Seq({"key", "quit"}) /\ Len(Enqueued(q, type)) <= QUEUE_SIZE
  <1>1. /\ Append(q, type) \in Seq({"key", "quit"}) /\ Len(Append(q, type)) = Len(q) + 1
        /\ Len(q) \in Nat
    BY AppendProperties
  <1> QED BY <1>1, Constants DEF Enqueued

(* What the compositor does with a message leaves the terminals' queues in *)
(* order, whichever window the message is for.                             *)
LEMMA HandlesTerminals ==
    ASSUME IInv, CompositorHandles
    PROVE  /\ term_q' \in [Terminals -> Seq({"key", "quit"})]
           /\ \A t \in Terminals : Len(term_q'[t]) <= QUEUE_SIZE
  <1>1. /\ term_q \in [Terminals -> Seq({"key", "quit"})]
        /\ \A t \in Terminals : Len(term_q[t]) <= QUEUE_SIZE
    BY DEF IInv, QueuesInv
  <1>2. \A t \in Terminals : \A type \in {"key", "quit"} :
           /\ Enqueued(term_q[t], type) \in Seq({"key", "quit"})
           /\ Len(Enqueued(term_q[t], type)) <= QUEUE_SIZE
    <2>1. \A t \in Terminals : term_q[t] \in Seq({"key", "quit"}) /\ Len(term_q[t]) <= QUEUE_SIZE
      BY <1>1
    <2> QED BY <2>1, EnqueuedFacts
  <1>3. ASSUME NEW o, term_q' = [term_q EXCEPT ![o] = Enqueued(term_q[o], "key")]
        PROVE  /\ term_q' \in [Terminals -> Seq({"key", "quit"})]
               /\ \A t \in Terminals : Len(term_q'[t]) <= QUEUE_SIZE
    <2>1. /\ DOMAIN term_q' = Terminals
          /\ \A t \in Terminals : term_q'[t] = IF t = o THEN Enqueued(term_q[t], "key") ELSE term_q[t]
      BY <1>1, <1>3
    <2>2. term_q' = [t \in Terminals |-> IF t = o THEN Enqueued(term_q[t], "key") ELSE term_q[t]]
      BY <1>1, <1>3
    <2>3. \A t \in Terminals : term_q'[t] \in Seq({"key", "quit"}) /\ Len(term_q'[t]) <= QUEUE_SIZE
      BY <1>1, <1>2, <2>1
    <2> QED BY <2>2, <2>3
  <1>4. ASSUME NEW closed,
               term_q' = [t \in Terminals |->
                             IF t \in closed THEN Enqueued(term_q[t], "quit") ELSE term_q[t]]
        PROVE  /\ term_q' \in [Terminals -> Seq({"key", "quit"})]
               /\ \A t \in Terminals : Len(term_q'[t]) <= QUEUE_SIZE
    <2>1. \A t \in Terminals : term_q'[t] \in Seq({"key", "quit"}) /\ Len(term_q'[t]) <= QUEUE_SIZE
      BY <1>1, <1>2, <1>4
    <2> QED BY <1>4, <2>1
  <1>5. \/ UNCHANGED term_q
        \/ \E b : HandleClick(b)
        \/ ForwardKey
    BY DEF CompositorHandles, HandleCreate
  <1>6. CASE \E b : HandleClick(b)
    <2>1. \E closed : term_q' = [t \in Terminals |->
                             IF t \in closed THEN Enqueued(term_q[t], "quit") ELSE term_q[t]]
      BY <1>6 DEF HandleClick
    <2> QED BY <1>4, <2>1
  <1>7. CASE ForwardKey
    <2>1. \/ UNCHANGED term_q
          \/ \E o : term_q' = [term_q EXCEPT ![o] = Enqueued(term_q[o], "key")]
      BY <1>7 DEF ForwardKey, Forwarded
    <2> QED BY <1>1, <1>3, <2>1
  <1> QED BY <1>1, <1>5, <1>6, <1>7

(* Functions that agree everywhere are one. *)
LEMMA SameFunction ==
    ASSUME NEW D, NEW E, NEW f \in [D -> E], NEW g \in [D -> E], \A i \in D : f[i] = g[i]
    PROVE  f = g
  OBVIOUS

(* The head of a sequence with something in it stays when it grows. *)
LEMMA TailOfAppend ==
    ASSUME NEW E, NEW q \in Seq(E), q # << >>, NEW e \in E
    PROVE  Append(q, e) # << >> /\ Tail(Append(q, e)) = Append(Tail(q), e)
  <1> DEFINE n == Len(q)
             r == Append(q, e)
             s == Tail(q)
  <1>1. n \in Nat /\ n > 0
    OBVIOUS
  <1>2. /\ r \in Seq(E) /\ Len(r) = n + 1 /\ r # << >> /\ r[n + 1] = e
        /\ \A i \in 1 .. n : r[i] = q[i]
    BY AppendProperties
  <1>3. s \in Seq(E) /\ Len(s) = n - 1 /\ \A i \in 1 .. n - 1 : s[i] = q[i + 1]
    BY HeadTailProperties
  <1> HIDE DEF r, s, n
  <1>4. Tail(r) \in Seq(E) /\ Len(Tail(r)) = n /\ \A i \in 1 .. n : Tail(r)[i] = r[i + 1]
    <2>1. /\ Tail(r) \in Seq(E) /\ Len(Tail(r)) = Len(r) - 1
          /\ \A i \in 1 .. Len(Tail(r)) : Tail(r)[i] = r[i + 1]
      BY <1>2, HeadTailProperties
    <2> QED BY <1>1, <1>2, <2>1
  <1>5. /\ Append(s, e) \in Seq(E) /\ Len(Append(s, e)) = n /\ Append(s, e)[n] = e
        /\ \A i \in 1 .. n - 1 : Append(s, e)[i] = s[i]
    <2>1. /\ Append(s, e) \in Seq(E) /\ Len(Append(s, e)) = Len(s) + 1
          /\ \A i \in 1 .. Len(s) : Append(s, e)[i] = s[i]
          /\ Append(s, e)[Len(s) + 1] = e
      BY <1>3, AppendProperties
    <2> QED BY <1>1, <1>3, <2>1
  <1>6. Tail(r) \in [1 .. n -> E] /\ Append(s, e) \in [1 .. n -> E]
    BY <1>4, <1>5, SeqFunction
  <1>7. ASSUME NEW i \in 1 .. n PROVE Tail(r)[i] = Append(s, e)[i]
    <2>1. CASE i = n
      BY <1>1, <1>2, <1>4, <1>5, <2>1
    <2>2. CASE i # n
      <3>1. i \in 1 .. n - 1 /\ i + 1 \in 1 .. n
        BY <1>1, <2>2
      <3> QED BY <1>2, <1>3, <1>4, <1>5, <3>1
    <2> QED BY <2>1, <2>2
  <1>8. Tail(r) = Append(s, e)
    <2>1. \A f, g \in [1 .. n -> E] : (\A i \in 1 .. n : f[i] = g[i]) => f = g
      BY SameFunction
    <2>2. \A i \in 1 .. n : Tail(r)[i] = Append(s, e)[i]
      BY <1>7
    <2> QED BY <1>6, <2>1, <2>2, Zenon
  <1> QED BY <1>2, <1>8 DEF r, s

(* A message handled by the compositor; a click is the first one owed. *)
LEMMA HandlesIInv ==
    ASSUME IInv, CompositorHandles
    PROVE  IInv'
  <1> DEFINE m == Head(comp_q)
  <1>1. /\ comp_q # << >> /\ comp_q' = Tail(comp_q)
        /\ owed' = IF m.msg_type = "click" /\ owed # << >> THEN Tail(owed) ELSE owed
        /\ last_click' = IF m.msg_type = "click" THEN m.args[3] ELSE last_click
        /\ UNCHANGED << mouse_q, key_q, state, prev_buttons, pending, running >>
    BY DEF CompositorHandles
  <1>2. comp_q \in Seq(Queued) /\ Len(comp_q) <= QUEUE_SIZE /\ StateInv
    BY DEF IInv, QueuesInv
  <1>3. m \in Queued /\ m = comp_q[1] /\ comp_q' \in Seq(Queued) /\ Len(comp_q') <= QUEUE_SIZE
    BY <1>1, <1>2, TailFacts, Constants
  <1>4. /\ ButtonsOf(comp_q) \in Seq(0 .. 7)
        /\ m.msg_type # "click" => ButtonsOf(comp_q') = ButtonsOf(comp_q)
        /\ m.msg_type = "click" => /\ ButtonsOf(comp_q) # << >>
                                   /\ ButtonsOf(comp_q') = Tail(ButtonsOf(comp_q))
    BY <1>1, <1>2, <1>3, ButtonsTail
  <1> HIDE DEF m
  <1>5. QueuesInv'
    BY <1>1, <1>3, HandlesTerminals DEF IInv, QueuesInv
  <1>6. StateInv'
    BY <1>1, <1>2, <1>3, QueuedFacts DEF StateInv
  <1>7. Move' = Move /\ Click' = Click
    BY <1>1 DEF Move, Click
  <1>8. PendingInv' /\ (ClickPending' <=> ClickPending) /\ AnnouncedInv'
    <2>1. PendingInv'
      BY <1>1, <1>7 DEF IInv, PendingInv
    <2>2. ClickPending' <=> ClickPending
      BY <1>1, <1>7 DEF ClickPending
    <2> QED BY <1>1, <2>1, <2>2 DEF IInv, AnnouncedInv
  <1>9. OwedInv'
    <2> DEFINE old == ButtonsOf(comp_q)
    <2>1. CASE m.msg_type # "click"
      BY <1>1, <1>4, <1>8, <2>1 DEF IInv, OwedInv
    <2>2. CASE m.msg_type = "click" /\ ~ ClickPending
      <3>1. owed = old /\ old # << >> /\ ButtonsOf(comp_q') = Tail(old)
        BY <1>4, <2>2 DEF IInv, OwedInv
      <3>2. owed' = Tail(old)
        BY <1>1, <2>2, <3>1
      <3> QED BY <1>8, <2>2, <3>1, <3>2 DEF OwedInv
    <2>3. CASE m.msg_type = "click" /\ ClickPending
      <3>1. owed = Append(old, state.buttons) /\ old # << >> /\ ButtonsOf(comp_q') = Tail(old)
        BY <1>4, <2>3 DEF IInv, OwedInv
      <3>2. old \in Seq(0 .. 7) /\ state.buttons \in 0 .. 7
        BY <1>2, <1>4 DEF StateInv, MouseState
      <3> HIDE DEF old
      <3>3. /\ Append(old, state.buttons) # << >>
            /\ Tail(Append(old, state.buttons)) = Append(Tail(old), state.buttons)
        BY <3>1, <3>2, TailOfAppend
      <3>4. owed' = Append(Tail(old), state.buttons)
        BY <1>1, <2>3, <3>1, <3>3
      <3> QED BY <1>1, <1>8, <2>3, <3>1, <3>4 DEF OwedInv
    <2> QED BY <2>1, <2>2, <2>3
  <1> QED BY <1>5, <1>6, <1>8, <1>9 DEF IInv
(* A terminal handles a key, or quits. *)
LEMMA ReceivesIInv ==
    ASSUME IInv, NEW t \in Terminals, TerminalReceives(t)
    PROVE  IInv'
  <1>1. /\ term_q[t] # << >> /\ term_q' = [term_q EXCEPT ![t] = Tail(term_q[t])]
        /\ UNCHANGED << comp_q, mouse_q, key_q, state, prev_buttons, owed, last_click >>
    BY DEF TerminalReceives
  <1>2. /\ term_q \in [Terminals -> Seq({"key", "quit"})]
        /\ \A u \in Terminals : Len(term_q[u]) <= QUEUE_SIZE
    BY DEF IInv, QueuesInv
  <1>3. Tail(term_q[t]) \in Seq({"key", "quit"}) /\ Len(Tail(term_q[t])) <= QUEUE_SIZE
    BY <1>1, <1>2, TailFacts, Constants
  <1>4. /\ term_q' \in [Terminals -> Seq({"key", "quit"})]
        /\ \A u \in Terminals : term_q'[u] = IF u = t THEN Tail(term_q[t]) ELSE term_q[u]
    BY <1>1, <1>2, <1>3
  <1>5. QueuesInv'
    <2>1. \A u \in Terminals : Len(term_q'[u]) <= QUEUE_SIZE
      BY <1>2, <1>3, <1>4
    <2> QED BY <1>1, <1>4, <2>1 DEF IInv, QueuesInv
  <1>6. running' \subseteq running
    BY DEF TerminalReceives
  <1>7. StateInv'
    BY <1>1, <1>6 DEF IInv, StateInv
  <1>8. \/ UNCHANGED pending
        \/ \E effects \in KeyEffects(t) : pending' = [pending EXCEPT ![t] = effects]
    BY DEF TerminalReceives
  <1>9. CASE UNCHANGED pending
    <2>1. PendingInv'
      BY <1>1, <1>9 DEF IInv, PendingInv, Move, Click
    <2>2. AnnouncedInv' /\ OwedInv'
      BY <1>1, <1>9, SameAnnounced
    <2> QED BY <1>5, <1>7, <2>1, <2>2 DEF IInv
  <1>10. CASE \E effects \in KeyEffects(t) : pending' = [pending EXCEPT ![t] = effects]
    <2>1. PICK effects \in KeyEffects(t) : pending' = [pending EXCEPT ![t] = effects]
      BY <1>10
    <2>2. PICK first \in CommandEffects(t) : effects = first \o << Damage(t) >>
      BY DEF KeyEffects
    <2>3. Damage(t) \in TerminalMsg(t) /\ Msg(t, "off", NoArgs) \in TerminalMsg(t)
      BY DEF TerminalMsg, Damage
    <2>4. first \in Seq(TerminalMsg(t)) /\ Len(first) <= 2
      <3>1. \A S : \A a, b \in S :
               /\ << >> \in Seq(S) /\ << a >> \in Seq(S) /\ << a, b >> \in Seq(S)
               /\ Len(<< >>) <= 2 /\ Len(<< a >>) <= 2 /\ Len(<< a, b >>) <= 2
        OBVIOUS
      <3>2. first \in { << >>, << Damage(t) >>, << Damage(t), Msg(t, "off", NoArgs) >> }
        BY DEF CommandEffects
      <3>3. CASE first = << >>
        BY <2>3, <3>1, <3>3, Zenon
      <3>4. CASE first = << Damage(t) >>
        BY <2>3, <3>1, <3>4, Zenon
      <3>5. CASE first = << Damage(t), Msg(t, "off", NoArgs) >>
        BY <2>3, <3>1, <3>5, Zenon
      <3> QED BY <3>2, <3>3, <3>4, <3>5, Zenon
    <2>5. << Damage(t) >> \in Seq(TerminalMsg(t)) /\ Len(<< Damage(t) >>) = 1
      BY <2>3
    <2>6. effects \in Seq(TerminalMsg(t)) /\ Len(effects) <= 3
      <3>1. /\ first \o << Damage(t) >> \in Seq(TerminalMsg(t))
            /\ Len(first \o << Damage(t) >>) = Len(first) + Len(<< Damage(t) >>)
        BY <2>4, <2>5, ConcatProperties
      <3>2. Len(first) \in Nat
        BY <2>4
      <3> QED BY <2>2, <2>4, <2>5, <3>1, <3>2
    <2>7. effects \in Seq(Sendable)
      <3>1. TerminalMsg(t) \subseteq Sendable
        BY MessageFacts DEF IInv
      <3> QED BY <2>6, <3>1
    <2>8. PendingInv' /\ pending'[MOUSE_PID] = pending[MOUSE_PID]
      <3>1. t \in Programs /\ t # MOUSE_PID /\ t # KEYBOARD_PID
        BY Constants
      <3> QED BY <1>1, <2>1, <2>6, <2>7, <3>1, OthersPending
    <2>9. AnnouncedInv' /\ OwedInv'
      BY <1>1, <2>8, SameAnnounced
    <2> QED BY <1>5, <1>7, <2>8, <2>9 DEF IInv
  <1> QED BY <1>8, <1>9, <1>10

(* What leaves the queues and the programs alone. *)
LEMMA SameIInv ==
    ASSUME IInv, UNCHANGED << comp_q, mouse_q, key_q, term_q, state, prev_buttons, pending,
                              running, owed, last_click >>
    PROVE  IInv'
  <1>1. QueuesInv' /\ StateInv' /\ PendingInv'
    BY DEF IInv, QueuesInv, StateInv, PendingInv, Move, Click
  <1>2. AnnouncedInv' /\ OwedInv'
    BY SameAnnounced
  <1> QED BY <1>1, <1>2 DEF IInv

(* Each step of each program keeps the invariant. *)
LEMMA StepIInv == IInv /\ [Next]_vars => IInv'
  <1> SUFFICES ASSUME IInv, [Next]_vars PROVE IInv'
    OBVIOUS
  <1>1. CASE \E b \in Bytes : MouseIrq(b)
    BY <1>1, IrqIInv
  <1>2. CASE \E scancode \in {"char", "none"} : KeyboardIrq(scancode)
    BY <1>2, IrqIInv
  <1>3. CASE MouseDriverFeeds
    BY <1>3, FeedsIInv
  <1>4. CASE KeyboardDriverReads
    BY <1>4, KeyboardIInv
  <1>5. CASE \E p \in Programs : SendsToCompositor(p)
    <2>1. PICK p \in Programs : SendsToCompositor(p)
      BY <1>5
    <2> QED BY <2>1, MouseSendsIInv, OthersSendIInv
  <1>6. CASE CompositorHandles
    BY <1>6, HandlesIInv
  <1>7. CASE CompositorRenders
    BY <1>7, SameIInv DEF CompositorRenders
  <1>8. CASE \E t \in Terminals : TerminalReceives(t)
    BY <1>8, ReceivesIInv
  <1>9. CASE \E t \in Terminals : TerminalShutsDown(t)
    BY <1>9, SameIInv DEF TerminalShutsDown
  <1>10. CASE UNCHANGED vars
    BY <1>10, SameIInv DEF vars
  <1> QED BY <1>1, <1>2, <1>3, <1>4, <1>5, <1>6, <1>7, <1>8, <1>9, <1>10 DEF Next, Runs

LEMMA Invariant == Spec => []IInv
  BY InitIInv, StepIInv, PTL DEF Spec

-----------------------------------------------------------------------------
(* What is not drawn yet is noted. *)

HasDamage(q) == \E i \in 1 .. Len(q) : q[i].msg_type = "damage"

(* A program still has to report that its window has changed, or has.      *)
DamageUnderWay == HasDamage(comp_q) \/ \E p \in Programs : HasDamage(pending[p])

NotedInv == undrawn \in BOOLEAN /\ (undrawn => dirty \/ DamageUnderWay)

(* Coalescing replaces moves only. *)
LEMMA DamagePushed ==
    ASSUME NEW q \in Seq(Queued), NEW m
    PROVE  /\ HasDamage(q) => HasDamage(Pushed(q, m))
           /\ m.msg_type = "damage" => HasDamage(Pushed(q, m))
  <1> DEFINE r == Pushed(q, m)
  <1>1. Len(q) \in Nat
    OBVIOUS
  <1>2. CASE ~ Coalesces(q, m)
    <2>1. r = Append(q, m)
      BY <1>2 DEF Pushed
    <2>2. Len(r) = Len(q) + 1 /\ r[Len(q) + 1] = m /\ \A i \in 1 .. Len(q) : r[i] = q[i]
      BY <2>1
    <2> HIDE DEF r
    <2>3. Len(q) + 1 \in 1 .. Len(r) /\ \A i \in 1 .. Len(q) : i \in 1 .. Len(r)
      BY <1>1, <2>2
    <2>4. HasDamage(q) => HasDamage(r)
      BY <2>2, <2>3 DEF HasDamage
    <2>5. m.msg_type = "damage" => HasDamage(r)
      BY <2>2, <2>3 DEF HasDamage
    <2> QED BY <2>4, <2>5 DEF r
  <1>3. CASE Coalesces(q, m)
    <2>1. /\ q # << >> /\ m.msg_type # "damage" /\ q[Len(q)].msg_type # "damage"
          /\ r = [q EXCEPT ![Len(q)] = m]
      BY <1>3, DesktopAssumption DEF Coalesces, SameMove, Pushed
    <2>2. Len(r) = Len(q) /\ \A i \in 1 .. Len(q) : i # Len(q) => r[i] = q[i]
      BY <2>1
    <2> HIDE DEF r
    <2>3. HasDamage(q) => HasDamage(r)
      BY <2>1, <2>2 DEF HasDamage
    <2> QED BY <2>1, <2>3 DEF r
  <1> QED BY <1>2, <1>3

(* The message taken from a queue is the damage, or the damage stays. *)
LEMMA DamageTail ==
    ASSUME NEW E, NEW q \in Seq(E), q # << >>, HasDamage(q), Head(q).msg_type # "damage"
    PROVE  HasDamage(Tail(q))
  <1>1. /\ Len(Tail(q)) = Len(q) - 1 /\ Len(q) \in Nat /\ Head(q) = q[1]
        /\ \A k \in 1 .. Len(Tail(q)) : Tail(q)[k] = q[k + 1]
    BY HeadTailProperties
  <1>2. PICK i \in 1 .. Len(q) : q[i].msg_type = "damage"
    BY DEF HasDamage
  <1>3. i - 1 \in 1 .. Len(Tail(q)) /\ i - 1 + 1 = i
    BY <1>1, <1>2
  <1>4. Tail(q)[i - 1].msg_type = "damage"
    BY <1>1, <1>2, <1>3
  <1> QED BY <1>3, <1>4 DEF HasDamage

(* A message on its way to the compositor's queue. *)
LEMMA SendsNoted ==
    ASSUME IInv, NotedInv, NEW p \in Programs, SendsToCompositor(p)
    PROVE  NotedInv'
  <1> DEFINE m == Head(pending[p])
  <1>1. /\ pending[p] # << >> /\ comp_q' = Pushed(comp_q, m) /\ dirty' = dirty
        /\ pending' = [pending EXCEPT ![p] = Tail(pending[p])]
        /\ undrawn' = (undrawn \/ m.msg_type = "damage")
    BY DEF SendsToCompositor, comp_vars
  <1>2. comp_q \in Seq(Queued) /\ pending \in [Programs -> Seq(Sendable)]
    BY DEF IInv, QueuesInv, PendingInv
  <1>3. /\ HasDamage(comp_q) => HasDamage(comp_q')
        /\ m.msg_type = "damage" => HasDamage(comp_q')
    BY <1>1, <1>2, DamagePushed
  <1>4. HasDamage(pending[p]) /\ m.msg_type # "damage" => HasDamage(Tail(pending[p]))
    <2>1. pending[p] \in Seq(Sendable)
      BY <1>2
    <2> QED BY <1>1, <2>1, DamageTail
  <1> HIDE DEF m
  <1>5. \A u \in Programs : pending'[u] = IF u = p THEN Tail(pending[p]) ELSE pending[u]
    BY <1>1, <1>2
  <1>6. ASSUME NEW u \in Programs, HasDamage(pending[u]) PROVE DamageUnderWay'
    <2>1. CASE u # p
      <3>1. HasDamage(pending'[u])
        BY <1>5, <1>6, <2>1
      <3> QED BY <3>1 DEF DamageUnderWay, HasDamage
    <2>2. CASE u = p /\ m.msg_type # "damage"
      <3>1. HasDamage(pending'[u])
        BY <1>4, <1>5, <1>6, <2>2
      <3> QED BY <3>1 DEF DamageUnderWay, HasDamage
    <2>3. CASE m.msg_type = "damage"
      BY <1>3, <2>3 DEF DamageUnderWay, HasDamage
    <2> QED BY <2>1, <2>2, <2>3
  <1>7. (DamageUnderWay => DamageUnderWay') /\ (m.msg_type = "damage" => DamageUnderWay')
    BY <1>3, <1>6 DEF DamageUnderWay, HasDamage
  <1> QED BY <1>1, <1>7 DEF NotedInv

(* A message handled: it sets the flag or leaves the picture alone. *)
LEMMA HandlesNoted ==
    ASSUME IInv, NotedInv, CompositorHandles
    PROVE  NotedInv'
  <1> DEFINE m == Head(comp_q)
  <1>1. /\ comp_q # << >> /\ comp_q' = Tail(comp_q) /\ UNCHANGED pending
        /\ undrawn' = (undrawn \/ Visible' # Visible)
    BY DEF CompositorHandles
  <1>2. \/ dirty' = TRUE
        \/ m.msg_type # "damage" /\ UNCHANGED comp_vars
    <2>1. CASE m.msg_type = MSG_MOUSE_MOVE /\ Comp!MouseMove(m.args[1], m.args[2], m.args[3])
      BY <2>1 DEF Comp!MouseMove
    <2>2. CASE m.msg_type = "click" /\ HandleClick(m.args[3])
      BY <2>2 DEF HandleClick, Comp!Click, Comp!ClickIgnored, Comp!PressPower, Comp!PressMode,
             Comp!PressClose, Comp!PressTitle, Comp!PressBody, Comp!PressElsewhere, Comp!Press
    <2>3. CASE m.msg_type = "key" /\ ForwardKey
      BY <2>3 DEF ForwardKey
    <2>4. CASE m.msg_type = "create" /\ HandleCreate(m.sender)
      BY <2>4 DEF HandleCreate, Comp!WindowCreate
    <2>5. CASE Comp!WindowDamage
      BY <2>5 DEF Comp!WindowDamage
    <2> QED BY <2>1, <2>2, <2>3, <2>4, <2>5 DEF CompositorHandles
  <1>3. CASE dirty' = TRUE
    BY <1>1, <1>3 DEF NotedInv
  <1>4. CASE m.msg_type # "damage" /\ UNCHANGED comp_vars
    <2>1. undrawn' = undrawn /\ dirty' = dirty
      BY <1>1, <1>4 DEF comp_vars, Visible, NotedInv
    <2>2. HasDamage(comp_q) => HasDamage(comp_q')
      BY <1>1, <1>4, DamageTail DEF IInv, QueuesInv
    <2>3. DamageUnderWay => DamageUnderWay'
      BY <1>1, <2>2 DEF DamageUnderWay, HasDamage
    <2> QED BY <2>1, <2>3 DEF NotedInv
  <1> QED BY <1>2, <1>3, <1>4

(* A key changes the window, and the terminal has the damage to report. *)
LEMMA ReceivesNoted ==
    ASSUME IInv, NotedInv, NEW t \in Terminals, TerminalReceives(t)
    PROVE  NotedInv'
  <1>1. CASE Head(term_q[t]) = "quit"
    <2>1. UNCHANGED << comp_q, pending, undrawn, dirty >>
      BY <1>1 DEF TerminalReceives, comp_vars
    <2> QED BY <2>1 DEF NotedInv, DamageUnderWay, HasDamage
  <1>2. CASE Head(term_q[t]) = "key"
    <2>1. PICK effects \in KeyEffects(t) : pending' = [pending EXCEPT ![t] = effects]
      BY <1>2 DEF TerminalReceives
    <2>2. undrawn' = TRUE
      BY <1>2 DEF TerminalReceives
    <2>3. PICK first \in CommandEffects(t) : effects = first \o << Damage(t) >>
      BY DEF KeyEffects
    <2>4. first \in Seq({Damage(t), Msg(t, "off", NoArgs)})
      <3>1. \A S : \A a, b \in S : << >> \in Seq(S) /\ << a >> \in Seq(S) /\ << a, b >> \in Seq(S)
        OBVIOUS
      <3>2. \A a, b : a \in {a, b} /\ b \in {a, b}
        OBVIOUS
      <3> QED BY <3>1, <3>2, Zenon DEF CommandEffects
    <2>5. /\ Len(effects) = Len(first) + 1 /\ Len(first) \in Nat
          /\ effects[Len(first) + 1] = Damage(t)
      BY <2>3, <2>4
    <2>6. HasDamage(effects)
      <3>1. Damage(t).msg_type = "damage"
        BY DEF Damage, Msg
      <3>2. Len(first) + 1 \in 1 .. Len(effects)
        BY <2>5
      <3> QED BY <2>5, <3>1, <3>2 DEF HasDamage
    <2>7. t \in Programs /\ pending'[t] = effects
      BY <2>1, Constants DEF IInv, PendingInv
    <2>8. DamageUnderWay'
      BY <2>6, <2>7 DEF DamageUnderWay, HasDamage
    <2> QED BY <2>2, <2>8 DEF NotedInv
  <1> QED BY <1>1, <1>2 DEF TerminalReceives

(* Each step of each program. *)
LEMMA StepNoted == IInv /\ NotedInv /\ [Next]_vars => NotedInv'
  <1> SUFFICES ASSUME IInv, NotedInv, [Next]_vars PROVE NotedInv'
    OBVIOUS
  <1>1. ASSUME UNCHANGED << comp_q, pending, undrawn, dirty >> PROVE NotedInv'
    BY <1>1 DEF NotedInv, DamageUnderWay, HasDamage
  <1>2. ASSUME UNCHANGED << comp_q, undrawn, dirty >>, NEW p \in Programs, pending[p] = << >>,
               NEW e, pending' = [pending EXCEPT ![p] = e]
        PROVE  NotedInv'
    <2>1. \A u \in Programs : u # p => pending'[u] = pending[u]
      BY <1>2 DEF IInv, PendingInv
    <2>2. ~ HasDamage(pending[p])
      BY <1>2 DEF HasDamage
    <2>3. \A u \in Programs : HasDamage(pending[u]) => HasDamage(pending'[u])
      BY <2>1, <2>2
    <2>4. DamageUnderWay => DamageUnderWay'
      BY <1>2, <2>3 DEF DamageUnderWay, HasDamage
    <2> QED BY <1>2, <2>4 DEF NotedInv
  <1>3. CASE \E b \in Bytes : MouseIrq(b)
    BY <1>1, <1>3 DEF MouseIrq, comp_vars
  <1>4. CASE \E scancode \in {"char", "none"} : KeyboardIrq(scancode)
    BY <1>1, <1>4 DEF KeyboardIrq, comp_vars
  <1>5. CASE MouseDriverFeeds
    <2>1. /\ UNCHANGED << comp_q, undrawn, dirty >> /\ pending[MOUSE_PID] = << >>
          /\ UNCHANGED pending \/ \E e : pending' = [pending EXCEPT ![MOUSE_PID] = e]
      BY <1>5 DEF MouseDriverFeeds, comp_vars
    <2> QED BY <1>1, <1>2, <2>1, Constants
  <1>6. CASE KeyboardDriverReads
    <2>1. /\ UNCHANGED << comp_q, undrawn, dirty >> /\ pending[KEYBOARD_PID] = << >>
          /\ \E e : pending' = [pending EXCEPT ![KEYBOARD_PID] = e]
      BY <1>6 DEF KeyboardDriverReads, comp_vars
    <2> QED BY <1>2, <2>1, Constants
  <1>7. CASE \E p \in Programs : SendsToCompositor(p)
    BY <1>7, SendsNoted
  <1>8. CASE CompositorHandles
    BY <1>8, HandlesNoted
  <1>9. CASE CompositorRenders
    BY <1>9 DEF CompositorRenders, NotedInv
  <1>10. CASE \E t \in Terminals : TerminalReceives(t)
    BY <1>10, ReceivesNoted
  <1>11. CASE \E t \in Terminals : TerminalShutsDown(t)
    BY <1>1, <1>11 DEF TerminalShutsDown, Comp!SwitchedOff
  <1>12. CASE UNCHANGED vars
    BY <1>1, <1>12 DEF vars, comp_vars
  <1> QED BY <1>3, <1>4, <1>5, <1>6, <1>7, <1>8, <1>9, <1>10, <1>11, <1>12 DEF Next, Runs

LEMMA Noted == Spec => []NotedInv
  <1>1. Init => NotedInv
    BY DEF Init, Comp!Init, NotedInv
  <1> QED BY <1>1, StepNoted, Invariant, PTL DEF Spec

(* A picture that is out of date is marked for drawing, or the message     *)
(* that will mark it is queued or about to be sent, at every moment and    *)
(* however full the queue is: no arm of the message loop forgets the flag, *)
(* no drawing clears it too early, and coalescing swallows no damage.      *)
THEOREM NoChangeForgotten == Spec => [](undrawn => dirty \/ DamageUnderWay)
  <1>1. NotedInv => (undrawn => dirty \/ DamageUnderWay)
    BY DEF NotedInv
  <1> QED BY <1>1, Noted, PTL

-----------------------------------------------------------------------------
(* What the invariant says. *)

(* No queue outgrows its ring, the mouse driver never holds three bytes    *)
(* and its pointer stays on the screen, for any bytes the mouse sends.     *)
THEOREM DesktopTypeOK == Spec => []TypeOK
  <1>1. IInv /\ NotedInv => TypeOK
    <2> SUFFICES ASSUME IInv, NotedInv PROVE TypeOK
      OBVIOUS
    <2>1. /\ Len(comp_q) <= QUEUE_SIZE
          /\ \A i \in DOMAIN comp_q : comp_q[i].sender \in Programs /\ comp_q[i].args[3] \in 0 .. 7
      <3>1. comp_q \in Seq(Queued) /\ Len(comp_q) <= QUEUE_SIZE
        BY DEF IInv, QueuesInv
      <3>2. \A i \in DOMAIN comp_q : comp_q[i] \in Queued
        BY <3>1
      <3> QED BY <3>1, <3>2, QueuedFacts
    <2>2. /\ mouse_q \in Seq(0 .. 255) /\ Len(mouse_q) <= IRQ_QUEUE_SIZE
          /\ key_q \in Seq({"char", "none"}) /\ Len(key_q) <= IRQ_QUEUE_SIZE
      BY Zenon DEF IInv, QueuesInv, Byte
    <2>3. \A t \in Terminals :
             term_q[t] \in Seq({"key", "quit"}) /\ Len(term_q[t]) <= QUEUE_SIZE
      BY DEF IInv, QueuesInv
    <2>4. /\ state.packet \in Seq(Byte) /\ Len(state.packet) <= 2
          /\ state.x \in 0 .. SCREEN_W - 1 /\ state.y \in 0 .. SCREEN_H - 1
          /\ {state.buttons, prev_buttons, last_click} \subseteq 0 .. 7
          /\ running \subseteq Terminals
      BY DEF IInv, StateInv, MouseState
    <2>5. state.packet \in Seq(0 .. 255)
      BY <2>4, Zenon DEF Byte
    <2>6. \A p \in Programs : Len(pending[p]) <= 3
      <3>1. \A a, b : Len(<< >>) = 0 /\ Len(<< a >>) = 1 /\ Len(<< a, b >>) = 2
        OBVIOUS
      <3>2. /\ pending[KEYBOARD_PID] \in { << >>, << Msg(KEYBOARD_PID, "key", NoArgs) >> }
            /\ pending[MOUSE_PID] \in { << >>, << Move >>, << Move, Click >>, << Click >> }
            /\ \A t \in Terminals : Len(pending[t]) <= 3
        BY DEF IInv, PendingInv
      <3>3. Len(pending[KEYBOARD_PID]) \in {0, 1, 2} /\ Len(pending[MOUSE_PID]) \in {0, 1, 2}
        BY <3>1, <3>2, Zenon
      <3>4. Len(pending[KEYBOARD_PID]) <= 3 /\ Len(pending[MOUSE_PID]) <= 3
        <4>1. \A n \in {0, 1, 2} : n <= 3
          OBVIOUS
        <4> QED BY <3>3, <4>1, Zenon
      <3> QED BY <3>2, <3>4 DEF Programs
    <2>7. undrawn \in BOOLEAN
      BY DEF NotedInv
    <2> QED BY <2>1, <2>2, <2>3, <2>4, <2>5, <2>6, <2>7, Zenon DEF TypeOK
  <1> QED BY <1>1, Invariant, Noted, PTL

(* Joining a short sequence is appending its elements. *)
LEMMA JoinShort ==
    ASSUME NEW E, NEW q \in Seq(E), NEW a \in E, NEW b \in E
    PROVE  /\ q \o << >> = q /\ q \o << a >> = Append(q, a)
           /\ q \o << a, b >> = Append(Append(q, a), b)
  OBVIOUS

(* Every change of the buttons the mouse driver decodes is delivered to    *)
(* the compositor as one click, in order, whatever is coalesced and        *)
(* however full the queue is.                                              *)
THEOREM AllClicksDelivered == Spec => []ClicksDelivered
  <1>1. IInv => ClicksDelivered
    <2> SUFFICES ASSUME IInv PROVE ClicksDelivered
      OBVIOUS
    <2> DEFINE q == comp_q
               p == pending[MOUSE_PID]
    <2>1. q \in Seq(Queued) /\ StateInv
      BY DEF IInv, QueuesInv
    <2>2. /\ Move \in Queued /\ Move.msg_type # "click"
          /\ Click \in Queued /\ Click.msg_type = "click" /\ Click.args[3] = state.buttons
      BY <2>1, MessageFacts, DesktopAssumption
    <2>3. p \in { << >>, << Move >>, << Move, Click >>, << Click >> }
      BY DEF IInv, PendingInv
    <2>4. owed = IF ClickPending THEN Append(ButtonsOf(q), state.buttons) ELSE ButtonsOf(q)
      BY DEF IInv, OwedInv
    <2>5. /\ q \o << >> = q /\ q \o << Move >> = Append(q, Move)
          /\ q \o << Click >> = Append(q, Click)
          /\ q \o << Move, Click >> = Append(Append(q, Move), Click)
      BY <2>1, <2>2, JoinShort
    <2>6. /\ ButtonsOf(Append(q, Move)) = ButtonsOf(q)
          /\ ButtonsOf(Append(q, Click)) = Append(ButtonsOf(q), state.buttons)
      BY <2>1, <2>2, ButtonsAppend
    <2>7. ButtonsOf(Append(Append(q, Move), Click)) = Append(ButtonsOf(q), state.buttons)
      <3>1. Append(q, Move) \in Seq(Queued)
        BY <2>1, <2>2, AppendProperties
      <3> QED BY <2>2, <2>6, <3>1, ButtonsAppend
    <2> HIDE DEF q, p
    <2>8. owed = ButtonsOf(q \o p)
      <3>1. CASE p = << >>
        BY <2>4, <2>5, <3>1, Shapes DEF p
      <3>2. CASE p = << Move >>
        BY <2>4, <2>5, <2>6, <3>2, Shapes DEF p
      <3>3. CASE p = << Move, Click >>
        BY <2>4, <2>5, <2>7, <3>3, Shapes DEF p
      <3>4. CASE p = << Click >>
        BY <2>4, <2>5, <2>6, <3>4, Shapes DEF p
      <3> QED BY <2>3, <3>1, <3>2, <3>3, <3>4
    <2> QED BY <2>8 DEF q, p, ClicksDelivered, ButtonsOf
  <1> QED BY <1>1, Invariant, PTL
-----------------------------------------------------------------------------
(* The desktop runs the compositor of module Compositor. *)

(* Whatever reaches the head of the compositor's queue is a message its    *)
(* module allows for: the pointer of a move is on the screen, the buttons  *)
(* are three bits, windows are created by terminals.                       *)
LEMMA HandlesIsCompositorStep ==
    ASSUME IInv, CompositorHandles
    PROVE  [Comp!Next]_comp_vars
  <1> DEFINE m == Head(comp_q)
  <1>1. m \in Queued
    <2>1. comp_q \in Seq(Queued) /\ comp_q # << >>
      BY DEF IInv, QueuesInv, CompositorHandles
    <2> QED BY <2>1, TailFacts
  <1>2. /\ m.args[3] \in 0 .. 7
        /\ m.msg_type = "create" => m.sender \in Terminals
        /\ [x |-> m.args[1], y |-> m.args[2]] \in Screen
    BY <1>1, QueuedFacts DEF Screen
  <1>3. \/ Comp!MouseMove(m.args[1], m.args[2], m.args[3])
        \/ HandleClick(m.args[3])
        \/ ForwardKey
        \/ m.msg_type = "create" /\ HandleCreate(m.sender)
        \/ Comp!WindowDamage
    BY DEF CompositorHandles
  <1> HIDE DEF m
  <1>4. CASE Comp!MouseMove(m.args[1], m.args[2], m.args[3])
    <2> DEFINE at == [x |-> m.args[1], y |-> m.args[2]]
    <2>1. at.x = m.args[1] /\ at.y = m.args[2] /\ at \in Screen
      BY <1>2
    <2>2. Comp!MouseMove(at.x, at.y, m.args[3])
      BY <1>4, <2>1
    <2> HIDE DEF at
    <2>3. \E p \in Screen, b \in 0 .. 7 : Comp!MouseMove(p.x, p.y, b)
      BY <1>2, <2>1, <2>2
    <2> QED BY <2>3 DEF Comp!Next
  <1>5. CASE HandleClick(m.args[3])
    BY <1>2, <1>5 DEF HandleClick, Comp!Next
  <1>6. CASE ForwardKey
    BY <1>6 DEF ForwardKey
  <1>7. CASE m.msg_type = "create" /\ HandleCreate(m.sender)
    BY <1>2, <1>7 DEF HandleCreate, Comp!Next
  <1>8. CASE Comp!WindowDamage
    BY <1>8 DEF Comp!Next
  <1> QED BY <1>3, <1>4, <1>5, <1>6, <1>7, <1>8

(* The other programs leave the compositor's state alone. *)
LEMMA StepIsCompositorStep == IInv /\ [Next]_vars => [Comp!Next]_comp_vars
  <1> SUFFICES ASSUME IInv, [Next]_vars PROVE [Comp!Next]_comp_vars
    OBVIOUS
  <1>1. CASE \E b \in Bytes : MouseIrq(b)
    BY <1>1 DEF MouseIrq
  <1>2. CASE \E scancode \in {"char", "none"} : KeyboardIrq(scancode)
    BY <1>2 DEF KeyboardIrq
  <1>3. CASE MouseDriverFeeds
    BY <1>3 DEF MouseDriverFeeds
  <1>4. CASE KeyboardDriverReads
    BY <1>4 DEF KeyboardDriverReads
  <1>5. CASE \E p \in Programs : SendsToCompositor(p)
    BY <1>5 DEF SendsToCompositor
  <1>6. CASE CompositorHandles
    BY <1>6, HandlesIsCompositorStep
  <1>7. CASE CompositorRenders
    BY <1>7 DEF CompositorRenders, Comp!Next
  <1>8. CASE \E t \in Terminals : TerminalReceives(t)
    BY <1>8 DEF TerminalReceives
  <1>9. CASE \E t \in Terminals : TerminalShutsDown(t)
    BY <1>9 DEF TerminalShutsDown, Comp!Next
  <1>10. CASE UNCHANGED vars
    BY <1>10 DEF vars
  <1> QED BY <1>1, <1>2, <1>3, <1>4, <1>5, <1>6, <1>7, <1>8, <1>9, <1>10 DEF Next, Runs

(* The compositor between the drivers and the terminals does only what the *)
(* compositor of module Compositor may do with messages in any order.      *)
THEOREM DesktopRunsCompositor == Spec => Comp!Spec
  <1>1. Init => Comp!Init
    BY DEF Init
  <1>2. IInv /\ [Next]_vars => [Comp!Next]_Comp!vars
    BY StepIsCompositorStep DEF comp_vars, Comp!vars
  <1> QED BY <1>1, <1>2, Invariant, PTL DEF Spec, Comp!Spec
-----------------------------------------------------------------------------
(* What CompositorProofs shows holds on the desktop, if its screen has the *)
(* room Compositor assumes.                                                *)

Windows == INSTANCE CompositorProofs WITH
    Points <- Screen, Buttons <- 0 .. 7, Owners <- Terminals,
    MaxWindowId <- Cardinality(Terminals)

(* The two instances are the same: the geometry, *)
LEMMA SameGeometry ==
    /\ Comp!total_width = Windows!total_width /\ Comp!total_height = Windows!total_height
    /\ \A a, b : /\ Comp!SatSub(a, b) = Windows!SatSub(a, b)
                 /\ Comp!Smaller(a, b) = Windows!Smaller(a, b)
                 /\ Comp!Larger(a, b) = Windows!Larger(a, b)
    /\ \A w, m : /\ Comp!hit_title_bar(w, m) <=> Windows!hit_title_bar(w, m)
                 /\ Comp!hit_close_button(w, m) <=> Windows!hit_close_button(w, m)
                 /\ Comp!hit_anywhere(w, m) <=> Windows!hit_anywhere(w, m)
  <1>1. Comp!total_width = Windows!total_width /\ Comp!total_height = Windows!total_height
    BY DEF Comp!total_width, Windows!total_width, Comp!total_height, Windows!total_height
  <1>2. \A a, b : Comp!SatSub(a, b) = Windows!SatSub(a, b)
    BY DEF Comp!SatSub, Windows!SatSub
  <1>3. \A a, b : /\ Comp!Smaller(a, b) = Windows!Smaller(a, b)
                  /\ Comp!Larger(a, b) = Windows!Larger(a, b)
    BY DEF Comp!Smaller, Windows!Smaller, Comp!Larger, Windows!Larger, Comp!Min,
           Windows!Min, Comp!Max, Windows!Max
  <1>4. \A w, m : /\ Comp!hit_title_bar(w, m) <=> Windows!hit_title_bar(w, m)
                  /\ Comp!hit_close_button(w, m) <=> Windows!hit_close_button(w, m)
                  /\ Comp!hit_anywhere(w, m) <=> Windows!hit_anywhere(w, m)
    BY DEF Comp!hit_title_bar, Windows!hit_title_bar, Comp!hit_close_button,
           Windows!hit_close_button, Comp!hit_anywhere, Windows!hit_anywhere,
           Comp!total_width, Windows!total_width, Comp!total_height, Windows!total_height
  <1> QED BY <1>1, <1>2, <1>3, <1>4

(* the windows' places, *)
LEMMA SameLayout ==
    /\ \A ws, tile : Comp!Layout(ws, tile) = Windows!Layout(ws, tile)
    /\ \A ws : Comp!Retiled(ws) = Windows!Retiled(ws)
    /\ \A ws, i : /\ Comp!RemoveAt(ws, i) = Windows!RemoveAt(ws, i)
                  /\ Comp!Raised(ws, i) = Windows!Raised(ws, i)
    /\ \A owner : Comp!NewWindow(owner) = Windows!NewWindow(owner)
    /\ \A v : Comp!DragX(v) = Windows!DragX(v) /\ Comp!DragY(v) = Windows!DragY(v)
    /\ \A px, py : Comp!DraggedTo(px, py) = Windows!DraggedTo(px, py)
    /\ Comp!NoDrag = Windows!NoDrag
  <1>1. \A ws, tile : Comp!Layout(ws, tile) = Windows!Layout(ws, tile)
    BY DEF Comp!Layout, Windows!Layout, Comp!SatSub, Windows!SatSub, Comp!total_width,
           Windows!total_width, Comp!total_height, Windows!total_height
  <1>2. \A ws : Comp!Retiled(ws) = Windows!Retiled(ws)
    BY DEF Comp!Retiled, Windows!Retiled, Comp!Layout, Windows!Layout, Comp!SatSub,
           Windows!SatSub, Comp!total_width, Windows!total_width, Comp!total_height,
           Windows!total_height
  <1>3. \A ws, i : Comp!RemoveAt(ws, i) = Windows!RemoveAt(ws, i)
    BY DEF Comp!RemoveAt, Windows!RemoveAt
  <1>4. \A ws, i : Comp!Raised(ws, i) = Windows!Raised(ws, i)
    BY <1>3 DEF Comp!Raised, Windows!Raised
  <1>5. \A owner : Comp!NewWindow(owner) = Windows!NewWindow(owner)
    BY SameGeometry DEF Comp!NewWindow, Windows!NewWindow
  <1>6. \A v : Comp!DragX(v) = Windows!DragX(v) /\ Comp!DragY(v) = Windows!DragY(v)
    BY SameGeometry DEF Comp!DragX, Windows!DragX, Comp!DragY, Windows!DragY
  <1>7. \A px, py : Comp!DraggedTo(px, py) = Windows!DraggedTo(px, py)
    BY DEF Comp!DraggedTo, Windows!DraggedTo, Comp!DragX, Windows!DragX, Comp!DragY,
           Windows!DragY, Comp!SatSub, Windows!SatSub, Comp!Smaller, Windows!Smaller,
           Comp!Larger, Windows!Larger, Comp!Min, Windows!Min, Comp!Max, Windows!Max
  <1>8. Comp!NoDrag = Windows!NoDrag
    BY DEF Comp!NoDrag, Windows!NoDrag
  <1> QED BY <1>1, <1>2, <1>3, <1>4, <1>5, <1>6, <1>7, <1>8

(* and the steps. *)
LEMMA SameSteps == Comp!Next => Windows!Next
  <1>1. \A px, py, b : Comp!MouseMove(px, py, b) <=> Windows!MouseMove(px, py, b)
    BY SameLayout DEF Comp!MouseMove, Windows!MouseMove, Comp!Drags, Windows!Drags,
           Comp!DragAfterMove, Windows!DragAfterMove
  <1>2. \A b : Comp!just_pressed(b) <=> Windows!just_pressed(b)
    BY DEF Comp!just_pressed, Windows!just_pressed
  <1>3. \A b : Comp!Press(b) <=> Windows!Press(b)
    BY <1>2 DEF Comp!Press, Windows!Press
  <1>4. \A i : Comp!IsTarget(i) <=> Windows!IsTarget(i)
    BY SameGeometry DEF Comp!IsTarget, Windows!IsTarget, Comp!OnTopBar, Windows!OnTopBar
  <1>5. \A b : Comp!ClickIgnored(b) <=> Windows!ClickIgnored(b)
    BY <1>2 DEF Comp!ClickIgnored, Windows!ClickIgnored
  <1>6. ASSUME NEW b
        PROVE  /\ Comp!PressPower(b) <=> Windows!PressPower(b)
               /\ Comp!PressMode(b) <=> Windows!PressMode(b)
               /\ Comp!PressElsewhere(b) <=> Windows!PressElsewhere(b)
    <2>1. Comp!PressPower(b) <=> Windows!PressPower(b)
      BY <1>3 DEF Comp!PressPower, Windows!PressPower
    <2>2. Comp!PressMode(b) <=> Windows!PressMode(b)
      BY <1>3, SameLayout DEF Comp!PressMode, Windows!PressMode
    <2>3. Comp!PressElsewhere(b) <=> Windows!PressElsewhere(b)
      BY <1>3, SameGeometry DEF Comp!PressElsewhere, Windows!PressElsewhere, Comp!OnTopBar, Windows!OnTopBar
    <2> QED BY <2>1, <2>2, <2>3
  <1>7. ASSUME NEW b, NEW i
        PROVE  /\ Comp!PressClose(b, i) <=> Windows!PressClose(b, i)
               /\ Comp!PressTitle(b, i) <=> Windows!PressTitle(b, i)
               /\ Comp!PressBody(b, i) <=> Windows!PressBody(b, i)
    <2>1. Comp!PressClose(b, i) <=> Windows!PressClose(b, i)
      BY <1>3, <1>4, SameLayout, SameGeometry DEF Comp!PressClose, Windows!PressClose
    <2>2. Comp!PressTitle(b, i) <=> Windows!PressTitle(b, i)
      BY <1>3, <1>4, SameLayout, SameGeometry DEF Comp!PressTitle, Windows!PressTitle
    <2>3. Comp!PressBody(b, i) <=> Windows!PressBody(b, i)
      BY <1>3, <1>4, SameLayout, SameGeometry DEF Comp!PressBody, Windows!PressBody
    <2> QED BY <2>1, <2>2, <2>3
  <1>8. \A b : Comp!Click(b) <=> Windows!Click(b)
    BY <1>5, <1>6, <1>7 DEF Comp!Click, Windows!Click
  <1>9. \A owner : Comp!WindowCreate(owner) <=> Windows!WindowCreate(owner)
    BY SameLayout DEF Comp!WindowCreate, Windows!WindowCreate
  <1>10. /\ Comp!WindowDamage <=> Windows!WindowDamage
         /\ Comp!Render <=> Windows!Render
         /\ Comp!SwitchedOff <=> Windows!SwitchedOff
         /\ Comp!Off <=> Windows!Off
    BY DEF Comp!WindowDamage, Windows!WindowDamage, Comp!Render, Windows!Render,
           Comp!SwitchedOff, Windows!SwitchedOff, Comp!Off, Windows!Off, Comp!vars,
           Windows!vars
  <1> QED BY <1>1, <1>8, <1>9, <1>10 DEF Comp!Next, Windows!Next

(* Driven by these programs, too, the compositor keeps every title bar     *)
(* below the top bar and on the screen, a floating window where it floats, *)
(* and a message reorders at most one window, to the top or off the        *)
(* desktop.                                                                *)
THEOREM DesktopKeepsWindows ==
    ASSUME Comp!GeometryAssumption, Comp!ScreenAssumption
    PROVE  Spec => /\ [](Comp!TitleReachable /\ Comp!FloatingInPlace)
                   /\ Comp!ZOrderStable
  <1>1. Windows!GeometryAssumption /\ Windows!ScreenAssumption
    BY SameGeometry DEF Comp!GeometryAssumption, Windows!GeometryAssumption, Comp!ScreenAssumption,
           Windows!ScreenAssumption
  <1>2. Comp!Init => Windows!Init
    BY SameLayout DEF Comp!Init, Windows!Init
  <1>3. [Comp!Next]_Comp!vars => [Windows!Next]_Windows!vars
    BY SameSteps DEF Comp!vars, Windows!vars
  <1>4. Comp!Spec => Windows!Spec
    BY <1>2, <1>3, PTL DEF Comp!Spec, Windows!Spec
  <1>5. Windows!Spec => []Windows!TitleReachable
    BY <1>1, Windows!TitlesReachable
  <1>6. Windows!Spec => []Windows!FloatingInPlace
    BY <1>1, Windows!FloatsKept
  <1>7. /\ Windows!TitleReachable => Comp!TitleReachable
        /\ Windows!FloatingInPlace => Comp!FloatingInPlace
    BY DEF Comp!TitleReachable, Windows!TitleReachable, Comp!FloatingInPlace,
           Windows!FloatingInPlace
  <1>8. Windows!Spec => Windows!ZOrderStable
    BY <1>1, Windows!ZOrderKept
  <1>9. Windows!ZOrderStable => Comp!ZOrderStable
    BY PTL DEF Windows!ZOrderStable, Comp!ZOrderStable, Windows!UpTo, Comp!UpTo,
               Windows!vars, Comp!vars
  <1> QED BY <1>4, <1>5, <1>6, <1>7, <1>8, <1>9, DesktopRunsCompositor, PTL
-----------------------------------------------------------------------------
(* No click is taken as a press. *)

OfPointer(m) == m.msg_type \in {MSG_MOUSE_MOVE, "click"}

(* The buttons the compositor, now knowing the given ones, will know of    *)
(* when it comes to position i of q: those of the last message of the      *)
(* mouse before i.                                                         *)
Told(known, q, i, b) ==
    \/ \E j \in 1 .. i - 1 : /\ OfPointer(q[j]) /\ q[j].args[3] = b
                             /\ \A k \in j + 1 .. i - 1 : ~ OfPointer(q[k])
    \/ known = b /\ \A k \in 1 .. i - 1 : ~ OfPointer(q[k])

(* Each click reports buttons the compositor knows of by then. *)
Heralded(known, q) == \A i \in 1 .. Len(q) : q[i].msg_type = "click" => Told(known, q, i, q[i].args[3])

HeraldInv ==
    /\ Heralded(mouse_buttons, comp_q)
    /\ pending[MOUSE_PID] = << Click >> => Told(mouse_buttons, comp_q, Len(comp_q) + 1, state.buttons)

NoneToldToQuit == \A t \in Terminals : \A i \in 1 .. Len(term_q[t]) : term_q[t][i] = "key"

(* The desktop as a pointer that never presses leaves it. *)
Untouched ==
    /\ drag = Comp!NoDrag /\ ~ tile_mode
    /\ NoneToldToQuit

UnpressedInv == HeraldInv /\ Untouched

(* A message appended: what was told stays, and a message of another       *)
(* program tells nothing.                                                  *)
LEMMA ToldAppend ==
    ASSUME NEW known, NEW q \in Seq(Queued), NEW m \in Queued, NEW r, r = Append(q, m)
    PROVE  /\ \A i \in 1 .. Len(q) + 1 : \A b : Told(known, q, i, b) <=> Told(known, r, i, b)
           /\ ~ OfPointer(m) => \A b : Told(known, q, Len(q) + 1, b) => Told(known, r, Len(r) + 1, b)
           /\ OfPointer(m) => Told(known, r, Len(r) + 1, m.args[3])
  <1> DEFINE n == Len(q)
  <1>1. n \in Nat /\ Len(r) = n + 1 /\ r[n + 1] = m /\ \A i \in 1 .. n : r[i] = q[i]
    BY AppendProperties
  <1> HIDE DEF n
  <1>2. ASSUME NEW i \in 1 .. n + 1, NEW b PROVE Told(known, q, i, b) <=> Told(known, r, i, b)
    <2>1. \A k \in 1 .. i - 1 : r[k] = q[k]
      BY <1>1
    <2>2. \A j \in 1 .. i - 1 : \A k \in j + 1 .. i - 1 : r[k] = q[k]
      BY <1>1, <2>1
    <2> QED BY <2>1, <2>2 DEF Told
  <1>3. ASSUME ~ OfPointer(m), NEW b, Told(known, q, n + 1, b) PROVE Told(known, r, n + 2, b)
    <2>1. Told(known, r, n + 1, b)
      BY <1>1, <1>2, <1>3
    <2>2. CASE \E j \in 1 .. n : /\ OfPointer(r[j]) /\ r[j].args[3] = b
                                 /\ \A k \in j + 1 .. n : ~ OfPointer(r[k])
      <3>1. PICK j \in 1 .. n : /\ OfPointer(r[j]) /\ r[j].args[3] = b
                                /\ \A k \in j + 1 .. n : ~ OfPointer(r[k])
        BY <2>2
      <3>2. \A k \in j + 1 .. n + 1 : ~ OfPointer(r[k])
        BY <1>1, <1>3, <3>1
      <3>3. j \in 1 .. (n + 2) - 1 /\ (n + 2) - 1 = n + 1
        BY <1>1
      <3> QED BY <3>1, <3>2, <3>3 DEF Told
    <2>3. CASE known = b /\ \A k \in 1 .. n : ~ OfPointer(r[k])
      <3>1. \A k \in 1 .. n + 1 : ~ OfPointer(r[k])
        BY <1>1, <1>3, <2>3
      <3>2. (n + 2) - 1 = n + 1
        BY <1>1
      <3> QED BY <2>3, <3>1, <3>2 DEF Told
    <2>4. (n + 1) - 1 = n
      BY <1>1
    <2> QED BY <2>1, <2>2, <2>3, <2>4 DEF Told
  <1>4. ASSUME OfPointer(m) PROVE Told(known, r, n + 2, m.args[3])
    <2>1. n + 1 \in 1 .. (n + 2) - 1 /\ \A k \in (n + 1) + 1 .. (n + 2) - 1 : FALSE
      BY <1>1
    <2> QED BY <1>1, <1>4, <2>1 DEF Told
  <1>5. Len(r) + 1 = n + 2
    BY <1>1
  <1> QED BY <1>2, <1>3, <1>4, <1>5 DEF n

(* The queue after push(): a move coalesced with the last one replaces     *)
(* what it told, and no click waits behind that one.                       *)
LEMMA HeraldedPushed ==
    ASSUME NEW known, NEW q \in Seq(Queued), NEW m \in Queued, NEW r, r = Pushed(q, m),
           Heralded(known, q),
           m.msg_type = "click" => Told(known, q, Len(q) + 1, m.args[3])
    PROVE  /\ Heralded(known, r)
           /\ ~ OfPointer(m) => \A b : Told(known, q, Len(q) + 1, b) => Told(known, r, Len(r) + 1, b)
           /\ OfPointer(m) => Told(known, r, Len(r) + 1, m.args[3])
  <1> DEFINE n == Len(q)
  <1>1. n \in Nat
    OBVIOUS
  <1>2. CASE ~ Coalesces(q, m)
    <2>1. r = Append(q, m)
      BY <1>2 DEF Pushed
    <2>2. Len(r) = n + 1 /\ r[n + 1] = m /\ \A i \in 1 .. n : r[i] = q[i]
      BY <2>1, AppendProperties
    <2>3. /\ \A i \in 1 .. n + 1 : \A b : Told(known, q, i, b) <=> Told(known, r, i, b)
          /\ ~ OfPointer(m) => \A b : Told(known, q, n + 1, b) => Told(known, r, Len(r) + 1, b)
          /\ OfPointer(m) => Told(known, r, Len(r) + 1, m.args[3])
      BY <2>1, ToldAppend
    <2> HIDE DEF n
    <2>4. ASSUME NEW i \in 1 .. n + 1, r[i].msg_type = "click" PROVE Told(known, r, i, r[i].args[3])
      <3>1. CASE i = n + 1
        BY <2>2, <2>3, <2>4, <3>1 DEF n
      <3>2. CASE i # n + 1
        <4>1. i \in 1 .. n
          BY <1>1, <3>2
        <4> QED BY <2>2, <2>3, <2>4, <4>1 DEF n, Heralded
      <3> QED BY <3>1, <3>2
    <2>5. Heralded(known, r)
      BY <2>2, <2>4 DEF Heralded
    <2> QED BY <2>3, <2>5 DEF n
  <1>3. CASE Coalesces(q, m)
    <2>1. /\ q # << >> /\ m.msg_type = MSG_MOUSE_MOVE /\ r = [q EXCEPT ![n] = m]
      BY <1>3 DEF Coalesces, SameMove, Pushed
    <2>2. n \in 1 .. n
      BY <2>1
    <2>3. Len(r) = n /\ r[n] = m /\ \A i \in 1 .. n : i # n => r[i] = q[i]
      BY <2>1, <2>2
    <2> HIDE DEF n
    <2>4. OfPointer(m) /\ m.msg_type # "click"
      BY <2>1, DesktopAssumption DEF OfPointer
    <2>5. ASSUME NEW i \in 1 .. n, r[i].msg_type = "click" PROVE Told(known, r, i, r[i].args[3])
      <3>1. i # n /\ r[i] = q[i]
        BY <2>3, <2>4, <2>5
      <3>2. \A k \in 1 .. i - 1 : r[k] = q[k]
        BY <1>1, <2>3
      <3>3. \A j \in 1 .. i - 1 : \A k \in j + 1 .. i - 1 : r[k] = q[k]
        BY <1>1, <3>2
      <3>4. Told(known, q, i, q[i].args[3])
        BY <2>5, <3>1 DEF Heralded, n
      <3> QED BY <3>1, <3>2, <3>3, <3>4 DEF Told
    <2>6. Heralded(known, r)
      BY <2>3, <2>5 DEF Heralded
    <2>7. Told(known, r, Len(r) + 1, m.args[3])
      <3>1. n \in 1 .. (n + 1) - 1 /\ \A k \in n + 1 .. (n + 1) - 1 : FALSE
        BY <1>1, <2>2
      <3> QED BY <2>3, <2>4, <3>1 DEF Told
    <2> QED BY <2>4, <2>6, <2>7
  <1> QED BY <1>2, <1>3

(* The queue after its head is handled, which tells the compositor the     *)
(* buttons if it is a message of the mouse.                                *)
LEMMA HeraldedTail ==
    ASSUME NEW known, NEW q \in Seq(Queued), q # << >>, NEW r, r = Tail(q), NEW knows,
           knows = IF OfPointer(q[1]) THEN q[1].args[3] ELSE known
    PROVE  /\ Heralded(known, q) => Heralded(knows, r)
           /\ \A b : Told(known, q, Len(q) + 1, b) => Told(knows, r, Len(r) + 1, b)
           /\ Heralded(known, q) /\ q[1].msg_type = "click" => q[1].args[3] = known
  <1> DEFINE n == Len(q)
  <1>1. n \in Nat /\ n > 0 /\ Len(r) = n - 1 /\ \A i \in 1 .. n - 1 : r[i] = q[i + 1]
    BY HeadTailProperties
  <1> HIDE DEF n
  <1>2. ASSUME NEW i \in 1 .. n, NEW b, Told(known, q, i + 1, b) PROVE Told(knows, r, i, b)
    <2>1. (i + 1) - 1 = i
      OBVIOUS
    <2>2. \/ \E j \in 1 .. i : /\ OfPointer(q[j]) /\ q[j].args[3] = b
                               /\ \A k \in j + 1 .. i : ~ OfPointer(q[k])
          \/ known = b /\ \A k \in 1 .. i : ~ OfPointer(q[k])
      BY <1>2, <2>1 DEF Told
    <2>3. \A k \in 1 .. i - 1 : r[k] = q[k + 1] /\ k + 1 \in 1 .. i
      BY <1>1
    <2>4. CASE known = b /\ \A k \in 1 .. i : ~ OfPointer(q[k])
      <3>1. \A k \in 1 .. i - 1 : ~ OfPointer(r[k])
        BY <2>3, <2>4
      <3>2. knows = b
        BY <2>4
      <3> QED BY <3>1, <3>2 DEF Told
    <2>5. CASE \E j \in 1 .. i : /\ OfPointer(q[j]) /\ q[j].args[3] = b
                                 /\ \A k \in j + 1 .. i : ~ OfPointer(q[k])
      <3>1. PICK j \in 1 .. i : /\ OfPointer(q[j]) /\ q[j].args[3] = b
                                /\ \A k \in j + 1 .. i : ~ OfPointer(q[k])
        BY <2>5
      <3>2. CASE j = 1
        <4>1. \A k \in 1 .. i - 1 : k + 1 \in j + 1 .. i
          BY <3>2
        <4>2. \A k \in 1 .. i - 1 : ~ OfPointer(r[k])
          BY <2>3, <3>1, <4>1
        <4>3. knows = b
          BY <3>1, <3>2
        <4> QED BY <4>2, <4>3 DEF Told
      <3>3. CASE j # 1
        <4>1. j - 1 \in 1 .. i - 1 /\ (j - 1) + 1 = j
          BY <3>3
        <4>2. OfPointer(r[j - 1]) /\ r[j - 1].args[3] = b
          BY <2>3, <3>1, <4>1
        <4>3. \A k \in (j - 1) + 1 .. i - 1 : k \in 1 .. i - 1 /\ k + 1 \in j + 1 .. i
          BY <4>1
        <4>4. \A k \in (j - 1) + 1 .. i - 1 : ~ OfPointer(r[k])
          BY <2>3, <3>1, <4>3
        <4> QED BY <4>1, <4>2, <4>4 DEF Told
      <3> QED BY <3>2, <3>3
    <2> QED BY <2>2, <2>4, <2>5
  <1>3. ASSUME Heralded(known, q) PROVE Heralded(knows, r)
    <2> SUFFICES ASSUME NEW i \in 1 .. n - 1, r[i].msg_type = "click"
                 PROVE  Told(knows, r, i, r[i].args[3])
      BY <1>1 DEF Heralded
    <2>1. i + 1 \in 1 .. n /\ i \in 1 .. n /\ r[i] = q[i + 1]
      BY <1>1
    <2>2. Told(known, q, i + 1, q[i + 1].args[3])
      BY <1>3, <2>1 DEF Heralded, n
    <2> QED BY <1>2, <2>1, <2>2
  <1>4. ASSUME NEW b, Told(known, q, n + 1, b) PROVE Told(knows, r, Len(r) + 1, b)
    <2>1. n \in 1 .. n /\ Len(r) + 1 = n
      BY <1>1
    <2> QED BY <1>2, <1>4, <2>1
  <1>5. ASSUME Heralded(known, q), q[1].msg_type = "click" PROVE q[1].args[3] = known
    <2>1. 1 \in 1 .. n /\ \A j \in 1 .. 1 - 1 : FALSE
      BY <1>1
    <2>2. Told(known, q, 1, q[1].args[3])
      BY <1>5, <2>1 DEF Heralded, n
    <2> QED BY <2>1, <2>2 DEF Told
  <1> QED BY <1>3, <1>4, <1>5 DEF n

(* The programs as init starts them. *)
LEMMA InitUnpressed == Init => UnpressedInv
  <1> SUFFICES ASSUME Init PROVE UnpressedInv
    OBVIOUS
  <1>1. comp_q = << >> /\ pending[MOUSE_PID] = << >>
    BY InitIInv, Constants DEF Init, IInv, StateInv
  <1>2. Len(<< >>) = 0 /\ << Click >> # << >> /\ \A i \in 1 .. 0 : FALSE
    OBVIOUS
  <1>3. HeraldInv
    BY <1>1, <1>2 DEF HeraldInv, Heralded
  <1>4. drag = Comp!NoDrag /\ ~ tile_mode
    BY DEF Init, Comp!Init
  <1>5. \A t \in Terminals : term_q[t] = << >>
    BY DEF Init
  <1>6. Untouched
    BY <1>2, <1>4, <1>5 DEF Untouched, NoneToldToQuit
  <1> QED BY <1>3, <1>6 DEF UnpressedInv

(* What leaves the queue and the click under way as they are. *)
LEMMA SameHerald ==
    ASSUME HeraldInv, UNCHANGED << comp_q, mouse_buttons, state >>,
           pending'[MOUSE_PID] = pending[MOUSE_PID]
    PROVE  HeraldInv'
  <1>1. Click' = Click
    BY DEF Click
  <1>2. /\ Heralded(mouse_buttons, comp_q)' = Heralded(mouse_buttons, comp_q)
        /\ Told(mouse_buttons, comp_q, Len(comp_q) + 1, state.buttons)'
             = Told(mouse_buttons, comp_q, Len(comp_q) + 1, state.buttons)
    BY DEF Heralded, Told, OfPointer
  <1> QED BY <1>1, <1>2 DEF HeraldInv

(* A byte fed to the mouse driver: a move goes before the click. *)
LEMMA FeedsUnpressed ==
    ASSUME IInv, UnpressedInv, MouseDriverFeeds
    PROVE  UnpressedInv'
  <1>1. /\ UNCHANGED << comp_q, mouse_buttons, drag, tile_mode, term_q >>
        /\ pending[MOUSE_PID] = << >>
        /\ \/ pending' = pending
           \/ \E s : pending' = [pending EXCEPT ![MOUSE_PID] = Announcements(s)]
    BY DEF MouseDriverFeeds, comp_vars
  <1>2. Untouched'
    BY <1>1 DEF UnpressedInv, Untouched, NoneToldToQuit
  <1>3. Heralded(mouse_buttons, comp_q)'
    BY <1>1 DEF UnpressedInv, HeraldInv, Heralded, Told, OfPointer
  <1>4. pending'[MOUSE_PID] # << Click' >>
    <2>1. CASE pending' = pending
      BY <1>1, <2>1
    <2>2. CASE \E s : pending' = [pending EXCEPT ![MOUSE_PID] = Announcements(s)]
      <3>1. PICK s : pending' = [pending EXCEPT ![MOUSE_PID] = Announcements(s)]
        BY <2>2
      <3>2. pending'[MOUSE_PID] = Announcements(s)
        BY <3>1, Constants DEF IInv, PendingInv
      <3>3. \A a, b : << a >> \o << >> # << b >> \/ a = b
        BY OneOrTwo
      <3>4. \A a, b, c : << a >> \o << b >> # << c >>
        <4>1. \A a, b : << a >> \o << b >> = << a, b >>
          BY OneOrTwo
        <4>2. \A a, b, c : << a, b >> # << c >>
          OBVIOUS
        <4> SUFFICES ASSUME NEW a, NEW b, NEW c PROVE << a >> \o << b >> # << c >>
          OBVIOUS
        <4>3. << a >> \o << b >> = << a, b >>
          BY <4>1
        <4>4. << a, b >> # << c >>
          BY <4>2
        <4> QED BY <4>3, <4>4, Zenon
      <3>5. Click'.msg_type = "click" /\ \A args : Msg(MOUSE_PID, MSG_MOUSE_MOVE, args).msg_type # "click"
        BY DesktopAssumption DEF Click, Msg
      <3>6. \A args : Msg(MOUSE_PID, MSG_MOUSE_MOVE, args) # Click'
        BY <3>5
      <3> QED BY <3>2, <3>3, <3>4, <3>6 DEF Announcements
    <2> QED BY <1>1, <2>1, <2>2
  <1> QED BY <1>2, <1>3, <1>4 DEF UnpressedInv, HeraldInv

(* A message sent to the compositor: a move tells of the click behind it,  *)
(* and what the others send between the two tells nothing.                 *)
LEMMA SendsUnpressed ==
    ASSUME IInv, UnpressedInv, NEW p \in Programs, SendsToCompositor(p)
    PROVE  UnpressedInv'
  <1> DEFINE m == Head(pending[p])
  <1>1. /\ pending[p] # << >> /\ m.msg_type # "off" /\ comp_q' = Pushed(comp_q, m)
        /\ pending' = [pending EXCEPT ![p] = Tail(pending[p])]
        /\ UNCHANGED << mouse_buttons, drag, tile_mode, state, term_q >>
    BY DEF SendsToCompositor, comp_vars
  <1>2. Untouched'
    BY <1>1 DEF UnpressedInv, Untouched, NoneToldToQuit
  <1>3. comp_q \in Seq(Queued) /\ StateInv /\ pending \in [Programs -> Seq(Sendable)]
    BY DEF IInv, QueuesInv, PendingInv
  <1>4. Click' = Click
    BY <1>1 DEF Click
  <1>5. /\ pending'[p] = Tail(pending[p])
        /\ p # MOUSE_PID => pending'[MOUSE_PID] = pending[MOUSE_PID]
    BY <1>1, <1>3, Constants
  <1>6. /\ Heralded(mouse_buttons, comp_q)
        /\ pending[MOUSE_PID] = << Click >> => Told(mouse_buttons, comp_q, Len(comp_q) + 1, state.buttons)
    BY DEF UnpressedInv, HeraldInv
  <1>7. CASE p = MOUSE_PID
    <2>1. /\ Move \in Queued /\ Move.msg_type = MSG_MOUSE_MOVE /\ Move.args[3] = state.buttons
          /\ Click \in Queued /\ Click.msg_type = "click" /\ Click.args[3] = state.buttons
          /\ Move.msg_type # "click"
      BY <1>3, MessageFacts, DesktopAssumption
    <2>2. \/ m = Move
          \/ pending[p] = << Click >> /\ m = Click /\ Tail(pending[p]) = << >>
      <3>1. pending[p] \in { << Move >>, << Move, Click >>, << Click >> }
        BY <1>1, <1>7 DEF IInv, PendingInv
      <3> QED BY <3>1, ShortTails
    <2> HIDE DEF m
    <2>3. m \in Queued /\ OfPointer(m) /\ m.args[3] = state.buttons
      BY <2>1, <2>2 DEF OfPointer
    <2>4. m.msg_type = "click" => Told(mouse_buttons, comp_q, Len(comp_q) + 1, m.args[3])
      BY <1>6, <1>7, <2>1, <2>2
    <2>5. Heralded(mouse_buttons, comp_q') /\ Told(mouse_buttons, comp_q', Len(comp_q') + 1, state.buttons)
      BY <1>1, <1>3, <1>6, <2>3, <2>4, HeraldedPushed
    <2>6. HeraldInv'
      BY <1>1, <2>5 DEF HeraldInv, Heralded, Told, OfPointer
    <2> QED BY <1>2, <2>6 DEF UnpressedInv
  <1>8. CASE p # MOUSE_PID
    <2>1. m \in Queued /\ ~ OfPointer(m)
      <3>1. CASE p = KEYBOARD_PID
        <4>1. m = Msg(KEYBOARD_PID, "key", NoArgs)
          BY <1>1, <3>1, ShortTails DEF IInv, PendingInv
        <4> QED BY <1>3, <4>1, MessageFacts, DesktopAssumption DEF OfPointer
      <3>2. CASE p \in Terminals
        <4>1. pending[p] \in Seq(TerminalMsg(p))
          BY <3>2 DEF IInv, PendingInv
        <4>2. m \in TerminalMsg(p)
          BY <1>1, <4>1, TailFacts
        <4> HIDE DEF m
        <4>3. m \in Queued /\ m.msg_type \in {"create", "damage", "off"}
          BY <1>1, <1>3, <3>2, <4>2, MessageFacts
        <4> QED BY <4>3, DesktopAssumption DEF OfPointer
      <3> QED BY <1>8, <3>1, <3>2 DEF Programs
    <2> HIDE DEF m
    <2>2. m.msg_type # "click"
      BY <2>1 DEF OfPointer
    <2>3. /\ Heralded(mouse_buttons, comp_q')
          /\ \A b : Told(mouse_buttons, comp_q, Len(comp_q) + 1, b)
                       => Told(mouse_buttons, comp_q', Len(comp_q') + 1, b)
      BY <1>1, <1>3, <1>6, <2>1, <2>2, HeraldedPushed
    <2>4. pending'[MOUSE_PID] = << Click' >> => Told(mouse_buttons, comp_q', Len(comp_q') + 1, state.buttons)
      BY <1>4, <1>5, <1>6, <1>8, <2>3
    <2>5. HeraldInv'
      BY <1>1, <2>3, <2>4 DEF HeraldInv, Heralded, Told, OfPointer
    <2> QED BY <1>2, <2>5 DEF UnpressedInv
  <1> QED BY <1>7, <1>8

(* The buttons the compositor knows of once it has handled a message. *)
LEMMA HandledButtons ==
    ASSUME CompositorHandles, Head(comp_q) \in Queued
    PROVE  mouse_buttons' = IF OfPointer(Head(comp_q)) THEN Head(comp_q).args[3] ELSE mouse_buttons
  <1> DEFINE m == Head(comp_q)
  <1>1. \/ m.msg_type = MSG_MOUSE_MOVE /\ Comp!MouseMove(m.args[1], m.args[2], m.args[3])
        \/ m.msg_type = "click" /\ HandleClick(m.args[3])
        \/ m.msg_type = "key" /\ ForwardKey
        \/ m.msg_type = "create" /\ HandleCreate(m.sender)
        \/ m.msg_type = "damage" /\ Comp!WindowDamage
    BY DEF CompositorHandles
  <1> HIDE DEF m
  <1>2. CASE m.msg_type = MSG_MOUSE_MOVE /\ Comp!MouseMove(m.args[1], m.args[2], m.args[3])
    BY <1>2 DEF Comp!MouseMove, OfPointer, m
  <1>3. CASE m.msg_type = "click" /\ HandleClick(m.args[3])
    <2>1. \A b : Comp!Click(b) => mouse_buttons' = b
      BY DEF Comp!Click, Comp!ClickIgnored, Comp!PressPower, Comp!PressMode, Comp!PressClose,
             Comp!PressTitle, Comp!PressBody, Comp!PressElsewhere, Comp!Press
    <2> QED BY <1>3, <2>1 DEF HandleClick, OfPointer, m
  <1>4. CASE m.msg_type = "key" /\ ForwardKey
    BY <1>4, DesktopAssumption DEF ForwardKey, comp_vars, OfPointer, m
  <1>5. CASE m.msg_type = "create" /\ HandleCreate(m.sender)
    <2>1. Comp!WindowCreate(m.sender) => UNCHANGED mouse_buttons
      BY DEF Comp!WindowCreate
    <2> QED BY <1>5, <2>1, DesktopAssumption DEF HandleCreate, comp_vars, OfPointer, m
  <1>6. CASE m.msg_type = "damage" /\ Comp!WindowDamage
    BY <1>6, DesktopAssumption DEF Comp!WindowDamage, OfPointer, m
  <1> QED BY <1>1, <1>2, <1>3, <1>4, <1>5, <1>6

(* A click that reports the buttons the compositor knows of is ignored. *)
LEMMA KnownIgnored ==
    ASSUME NEW b, b = mouse_buttons, Comp!Click(b)
    PROVE  UNCHANGED << windows, drag, tile_mode >>
  <1>1. ~ Comp!just_pressed(b)
    BY DEF Comp!just_pressed
  <1>2. Comp!ClickIgnored(b)
    BY <1>1 DEF Comp!Click, Comp!PressPower, Comp!PressMode, Comp!PressClose, Comp!PressTitle,
           Comp!PressBody, Comp!PressElsewhere, Comp!Press
  <1> QED BY <1>2 DEF Comp!ClickIgnored

(* The compositor's state and the terminals' queues after such messages. *)
LEMMA HandlesUntouched ==
    ASSUME IInv, Untouched, CompositorHandles,
           Head(comp_q).msg_type = "click" => Head(comp_q).args[3] = mouse_buttons
    PROVE  Untouched'
  <1> DEFINE m == Head(comp_q)
             Keys(q) == \A i \in 1 .. Len(q) : q[i] = "key"
  <1>1. /\ \/ Comp!MouseMove(m.args[1], m.args[2], m.args[3]) /\ UNCHANGED term_q
           \/ m.msg_type = "click" /\ HandleClick(m.args[3])
           \/ ForwardKey
           \/ HandleCreate(m.sender)
           \/ Comp!WindowDamage /\ UNCHANGED term_q
    BY DEF CompositorHandles
  <1>2. /\ drag = Comp!NoDrag /\ ~ tile_mode
        /\ term_q \in [Terminals -> Seq({"key", "quit"})]
        /\ \A t \in Terminals : Keys(term_q[t])
    BY DEF Untouched, NoneToldToQuit, IInv, QueuesInv
  <1>3. m.msg_type = "click" => m.args[3] = mouse_buttons
    OBVIOUS
  <1> HIDE DEF m
  <1>4. /\ drag' = Comp!NoDrag /\ ~ tile_mode'
        /\ \/ UNCHANGED term_q
           \/ \E closed : closed = {} /\ term_q' = [t \in Terminals |->
                 IF t \in closed THEN Enqueued(term_q[t], "quit") ELSE term_q[t]]
           \/ \E o : term_q' = [term_q EXCEPT ![o] = Enqueued(term_q[o], "key")]
    <2>1. CASE Comp!MouseMove(m.args[1], m.args[2], m.args[3]) /\ UNCHANGED term_q
      BY <1>2, <2>1 DEF Comp!MouseMove, Comp!DragAfterMove, Comp!Drags, Comp!NoDrag
    <2>2. CASE m.msg_type = "click" /\ HandleClick(m.args[3])
      <3>1. UNCHANGED << windows, drag, tile_mode >>
        BY <1>3, <2>2, KnownIgnored DEF HandleClick
      <3> DEFINE left == { windows'[i].id : i \in DOMAIN windows' }
                 closed == { windows[i].owner : i \in { j \in DOMAIN windows : windows[j].id \notin left } }
      <3>2. closed = {}
        BY <3>1
      <3>3. term_q' = [t \in Terminals |->
                          IF t \in closed THEN Enqueued(term_q[t], "quit") ELSE term_q[t]]
        BY <2>2 DEF HandleClick
      <3> HIDE DEF closed
      <3> QED BY <1>2, <3>1, <3>2, <3>3
    <2>3. CASE ForwardKey
      BY <1>2, <2>3 DEF ForwardKey, Forwarded, comp_vars
    <2>4. CASE HandleCreate(m.sender)
      <3>1. Comp!WindowCreate(m.sender) => UNCHANGED << drag, tile_mode >>
        BY DEF Comp!WindowCreate
      <3> QED BY <1>2, <2>4, <3>1 DEF HandleCreate, comp_vars
    <2>5. CASE Comp!WindowDamage /\ UNCHANGED term_q
      BY <1>2, <2>5 DEF Comp!WindowDamage
    <2> QED BY <1>1, <2>1, <2>2, <2>3, <2>4, <2>5
  <1>5. ASSUME NEW t \in Terminals PROVE Keys(Enqueued(term_q[t], "key"))
    <2> DEFINE q == term_q[t]
               r == Append(q, "key")
    <2>1. q \in Seq({"key", "quit"}) /\ Keys(q)
      BY <1>2
    <2>2. Len(r) = Len(q) + 1 /\ r[Len(q) + 1] = "key" /\ \A i \in 1 .. Len(q) : r[i] = q[i]
      BY <2>1, AppendProperties
    <2> HIDE DEF q, r
    <2>3. Len(q) \in Nat /\ \A i \in 1 .. Len(q) + 1 : i = Len(q) + 1 \/ i \in 1 .. Len(q)
      BY <2>1
    <2>4. Keys(r)
      BY <2>1, <2>2, <2>3
    <2> QED BY <2>1, <2>4 DEF Enqueued, q, r
  <1> HIDE DEF Keys
  <1>6. \A t \in Terminals : Keys(term_q'[t])
    <2>1. CASE UNCHANGED term_q
      BY <1>2, <2>1
    <2>2. CASE \E closed : closed = {} /\ term_q' = [t \in Terminals |->
                 IF t \in closed THEN Enqueued(term_q[t], "quit") ELSE term_q[t]]
      BY <1>2, <2>2
    <2>3. CASE \E o : term_q' = [term_q EXCEPT ![o] = Enqueued(term_q[o], "key")]
      BY <1>2, <1>5, <2>3
    <2> QED BY <1>4, <2>1, <2>2, <2>3
  <1> QED BY <1>1, <1>2, <1>4, <1>6 DEF Untouched, NoneToldToQuit, Keys

(* A message handled by the compositor. *)
LEMMA HandlesUnpressed ==
    ASSUME IInv, UnpressedInv, CompositorHandles
    PROVE  UnpressedInv'
  <1>1. /\ comp_q # << >> /\ comp_q' = Tail(comp_q)
        /\ UNCHANGED << state, pending >>
    BY DEF CompositorHandles
  <1>2. comp_q \in Seq(Queued)
    BY DEF IInv, QueuesInv
  <1>3. Head(comp_q) \in Queued /\ Head(comp_q) = comp_q[1]
    BY <1>1, <1>2, TailFacts
  <1>4. mouse_buttons' = IF OfPointer(comp_q[1]) THEN comp_q[1].args[3] ELSE mouse_buttons
    BY <1>3, HandledButtons
  <1>5. /\ Heralded(mouse_buttons, comp_q)
        /\ pending[MOUSE_PID] = << Click >> => Told(mouse_buttons, comp_q, Len(comp_q) + 1, state.buttons)
    BY DEF UnpressedInv, HeraldInv
  <1>6. /\ Heralded(mouse_buttons, comp_q) => Heralded(mouse_buttons', comp_q')
        /\ \A b : Told(mouse_buttons, comp_q, Len(comp_q) + 1, b)
                     => Told(mouse_buttons', comp_q', Len(comp_q') + 1, b)
        /\ Heralded(mouse_buttons, comp_q) /\ comp_q[1].msg_type = "click"
              => comp_q[1].args[3] = mouse_buttons
    <2> DEFINE r == Tail(comp_q)
               k == IF OfPointer(comp_q[1]) THEN comp_q[1].args[3] ELSE mouse_buttons
    <2>1. /\ r = Tail(comp_q) /\ comp_q # << >>
          /\ k = IF OfPointer(comp_q[1]) THEN comp_q[1].args[3] ELSE mouse_buttons
      BY <1>1
    <2>2. mouse_buttons' = k /\ comp_q' = r
      BY <1>1, <1>4
    <2> HIDE DEF r, k
    <2>3. /\ Heralded(mouse_buttons, comp_q) => Heralded(k, r)
          /\ \A b : Told(mouse_buttons, comp_q, Len(comp_q) + 1, b) => Told(k, r, Len(r) + 1, b)
          /\ Heralded(mouse_buttons, comp_q) /\ comp_q[1].msg_type = "click"
                => comp_q[1].args[3] = mouse_buttons
      BY <1>2, <2>1, HeraldedTail, ZenonT(30)
    <2> QED BY <2>2, <2>3
  <1>7. Click' = Click
    BY <1>1 DEF Click
  <1>8. /\ Heralded(mouse_buttons', comp_q')
        /\ pending'[MOUSE_PID] = << Click' >>
              => Told(mouse_buttons', comp_q', Len(comp_q') + 1, state'.buttons)
    BY <1>1, <1>5, <1>6, <1>7
  <1>9. HeraldInv'
    BY <1>8 DEF HeraldInv, Heralded, Told, OfPointer
  <1>10. Untouched'
    BY <1>3, <1>5, <1>6, HandlesUntouched DEF UnpressedInv
  <1> QED BY <1>9, <1>10 DEF UnpressedInv

(* A terminal handles a key; none is told to quit. *)
LEMMA ReceivesUnpressed ==
    ASSUME IInv, UnpressedInv, NEW t \in Terminals, TerminalReceives(t)
    PROVE  UnpressedInv'
  <1>1. /\ term_q[t] # << >> /\ term_q' = [term_q EXCEPT ![t] = Tail(term_q[t])]
        /\ UNCHANGED << comp_q, mouse_buttons, drag, tile_mode, state >>
    BY DEF TerminalReceives, comp_vars
  <1>2. /\ term_q \in [Terminals -> Seq({"key", "quit"})]
        /\ \A u \in Terminals : \A i \in 1 .. Len(term_q[u]) : term_q[u][i] = "key"
        /\ pending \in [Programs -> Seq(Sendable)] /\ t \in Programs /\ t # MOUSE_PID
    BY Constants DEF UnpressedInv, Untouched, NoneToldToQuit, IInv, QueuesInv, PendingInv
  <1>3. Head(term_q[t]) = "key"
    BY <1>1, <1>2, TailFacts
  <1>4. \E e : pending' = [pending EXCEPT ![t] = e]
    BY <1>3 DEF TerminalReceives
  <1>5. pending'[MOUSE_PID] = pending[MOUSE_PID]
    BY <1>2, <1>4
  <1>6. HeraldInv'
    BY <1>1, <1>5, SameHerald DEF UnpressedInv
  <1>7. ASSUME NEW u \in Terminals, NEW i \in 1 .. Len(term_q'[u]) PROVE term_q'[u][i] = "key"
    <2>1. CASE u = t
      <3>1. term_q'[u] = Tail(term_q[t]) /\ term_q[t] \in Seq({"key", "quit"})
        BY <1>1, <1>2, <2>1
      <3>2. /\ Len(Tail(term_q[t])) = Len(term_q[t]) - 1 /\ Len(term_q[t]) \in Nat
            /\ \A k \in 1 .. Len(Tail(term_q[t])) : Tail(term_q[t])[k] = term_q[t][k + 1]
        BY <1>1, <3>1, HeadTailProperties
      <3>3. i \in 1 .. Len(Tail(term_q[t])) /\ i + 1 \in 1 .. Len(term_q[t])
        BY <3>1, <3>2
      <3> QED BY <1>2, <3>1, <3>2, <3>3
    <2>2. CASE u # t
      BY <1>1, <1>2, <2>2
    <2> QED BY <2>1, <2>2
  <1>8. Untouched'
    BY <1>1, <1>4, <1>7 DEF UnpressedInv, Untouched, NoneToldToQuit
  <1> QED BY <1>6, <1>8 DEF UnpressedInv

(* Each step of each program. *)
LEMMA StepUnpressed == IInv /\ UnpressedInv /\ [Next]_vars => UnpressedInv'
  <1> SUFFICES ASSUME IInv, UnpressedInv, [Next]_vars PROVE UnpressedInv'
    OBVIOUS
  <1>1. ASSUME UNCHANGED << comp_q, mouse_buttons, state, drag, tile_mode, term_q >>,
               pending'[MOUSE_PID] = pending[MOUSE_PID]
        PROVE  UnpressedInv'
    BY <1>1, SameHerald DEF UnpressedInv, Untouched, NoneToldToQuit
  <1>2. CASE \E b \in Bytes : MouseIrq(b)
    BY <1>1, <1>2 DEF MouseIrq, comp_vars
  <1>3. CASE \E scancode \in {"char", "none"} : KeyboardIrq(scancode)
    BY <1>1, <1>3 DEF KeyboardIrq, comp_vars
  <1>4. CASE MouseDriverFeeds
    BY <1>4, FeedsUnpressed
  <1>5. CASE KeyboardDriverReads
    <2>1. pending \in [Programs -> Seq(Sendable)]
      BY DEF IInv, PendingInv
    <2>2. \E e : pending' = [pending EXCEPT ![KEYBOARD_PID] = e]
      BY <1>5 DEF KeyboardDriverReads
    <2>3. pending'[MOUSE_PID] = pending[MOUSE_PID]
      BY <2>1, <2>2, Constants
    <2> QED BY <1>1, <1>5, <2>3 DEF KeyboardDriverReads, comp_vars
  <1>6. CASE \E p \in Programs : SendsToCompositor(p)
    BY <1>6, SendsUnpressed
  <1>7. CASE CompositorHandles
    BY <1>7, HandlesUnpressed
  <1>8. CASE CompositorRenders
    BY <1>1, <1>8 DEF CompositorRenders, Comp!Render
  <1>9. CASE \E t \in Terminals : TerminalReceives(t)
    BY <1>9, ReceivesUnpressed
  <1>10. CASE \E t \in Terminals : TerminalShutsDown(t)
    BY <1>1, <1>10 DEF TerminalShutsDown, Comp!SwitchedOff
  <1>11. CASE UNCHANGED vars
    BY <1>1, <1>11 DEF vars, comp_vars
  <1> QED BY <1>2, <1>3, <1>4, <1>5, <1>6, <1>7, <1>8, <1>9, <1>10, <1>11 DEF Next, Runs

LEMMA Unpressed == Spec => []UnpressedInv
  BY InitUnpressed, StepUnpressed, Invariant, PTL DEF Spec

(* The click at the head of the compositor's queue is not a press. *)
HeadIsNoPress ==
    comp_q # << >> /\ Head(comp_q).msg_type = "click" => ~ Comp!just_pressed(Head(comp_q).args[3])

(* No click is ever taken as a press, whatever the mouse sends and however *)
(* the programs are scheduled: the move the driver sends before it has     *)
(* told the compositor the same buttons.  So no drag ever begins, the      *)
(* desktop is never tiled and no terminal is ever told to quit.            *)
THEOREM NoClickIsAPress ==
    Spec => [](HeadIsNoPress /\ drag = Comp!NoDrag /\ ~ tile_mode /\ NoneToldToQuit)
  <1>1. IInv /\ UnpressedInv => HeadIsNoPress
    <2> SUFFICES ASSUME IInv, UnpressedInv, comp_q # << >>, Head(comp_q).msg_type = "click",
                        Comp!just_pressed(Head(comp_q).args[3])
                 PROVE  FALSE
      BY DEF HeadIsNoPress
    <2>1. comp_q \in Seq(Queued)
      BY DEF IInv, QueuesInv
    <2>2. Head(comp_q) = comp_q[1]
      BY <2>1, TailFacts
    <2>3. Heralded(mouse_buttons, comp_q)
      BY DEF UnpressedInv, HeraldInv
    <2>4. comp_q[1].args[3] = mouse_buttons
      BY <2>1, <2>2, <2>3, HeraldedTail
    <2> QED BY <2>2, <2>4 DEF Comp!just_pressed
  <1>2. UnpressedInv => drag = Comp!NoDrag /\ ~ tile_mode /\ NoneToldToQuit
    BY DEF UnpressedInv, Untouched, NoneToldToQuit
  <1> QED BY <1>1, <1>2, Invariant, Unpressed, PTL
=============================================================================
