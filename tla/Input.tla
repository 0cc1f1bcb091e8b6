------------------------------- MODULE Input -------------------------------
(***************************************************************************)
(* The way of a key or a mouse movement to the window manager: the devices *)
(* put bytes on a wire, the handlers of src/drivers/keyboard.c and         *)
(* src/kernel/mouse.c make events of them, the ring of EventQueue carries  *)
(* the events, and wm_thread_main of src/kernel/kernel.c hands them on.    *)
(*                                                                         *)
(* A mouse event carries no position: the wm thread asks mouse.c where the *)
(* cursor is when it handles the event, with interrupts on, and x and y in *)
(* two calls.                                                              *)
(***************************************************************************)
EXTENDS EventQueue, FiniteSets

CONSTANTS Keys,           \* the keys of the keyboard, of those in Wire
          Reports,        \* what the mouse may report, [move : <<dx, up>>, buttons, overflow]
          SCREEN_W, SCREEN_H,
          MaxGestures,    \* bound: how often the user does something, by what is used
          MaxLost         \* bound: how many bytes of the mouse are lost

VARIABLES
  mods, extended,                           \* keyboard.c
  packet, mouse_x, mouse_y, last_buttons,   \* mouse.c; packet_index is Len(packet)
  view,      \* what wm.c has been told: position, buttons and modifiers
  half,      \* a coordinate read for the event in hand, or {}
  lost,      \* an event was dropped
  down,      \* modifiers the last action on whose keys was a press
  held,      \* keys that are down
  kwire, mwire,            \* bytes on their way
  using,                   \* the keyboard, the mouse or both
  gestures, losses,        \* how often so far
  astray, mistaken         \* packets made of two; data bytes taken for a first byte

kbdVars   == <<mods, extended>>
mouseVars == <<packet, mouse_x, mouse_y, last_buttons, astray, mistaken>>
wmVars    == <<view, half>>
userVars  == <<down, held, using, gestures, losses>>
inputVars == <<vars, kbdVars, mouseVars, wmVars, userVars, lost, kwire, mwire>>

Buttons == {"LEFT", "RIGHT"}

-----------------------------------------------------------------------------
(* The keyboard: set 1 codes, some behind the E0 prefix. *)

E0 == [code |-> "E0", break |-> FALSE]

Wire == [LSHIFT |-> <<"2A">>, RSHIFT |-> <<"36">>, CTRL |-> <<"1D">>, RCTRL |-> <<"E0", "1D">>,
         ALT |-> <<"38">>, ALTGR |-> <<"E0", "38">>,
         A |-> <<"1E">>, F1 |-> <<"3B">>, LEFT |-> <<"E0", "4B">>, KP4 |-> <<"4B">>]

ASSUME InputAssumption ==
  /\ Keys \subseteq DOMAIN Wire
  /\ \A r \in Reports : /\ r.move \in (-256 .. 255) \X (-256 .. 255)
                        /\ r.buttons \subseteq Buttons /\ r.overflow \in BOOLEAN
  /\ SCREEN_W \in Nat \ {0} /\ SCREEN_H \in Nat \ {0}

BytesOf(k, isBreak) ==
  IF Len(Wire[k]) = 2 THEN <<E0, [code |-> Wire[k][2], break |-> isBreak]>>
                      ELSE <<[code |-> Wire[k][1], break |-> isBreak]>>

Modifiers(code, ext) ==
  CASE code = "1D" -> {"CTRL"}
    [] code = "38" -> {"ALT"}
    [] code \in {"2A", "36"} /\ ~ext -> {"SHIFT"}
    [] OTHER -> {}

\* keyboard_extended_ascii, and the two tables.
Ascii(code, ext, shift) ==
  CASE code = "4B" /\ ext -> {"KEY_LEFT"}
    [] code = "1E" /\ ~ext -> IF shift THEN {"A"} ELSE {"a"}
    [] OTHER -> {}

KeyEvent(b, key, ms) == <<IF b.break THEN "KEY_UP" ELSE "KEY_DOWN", key, ms>>

Modified(ms, m, isBreak) == IF isBreak THEN ms \ {m} ELSE ms \cup {m}

\* What keyboard_irq_handler makes of a byte.
KeyboardByte_NoRight(b, ms, ext) ==
  LET ascii == Ascii(b.code, ext, "SHIFT" \in ms)
      m     == IF ext THEN {} ELSE Modifiers(b.code, ext)
      ms2   == IF m = {} THEN ms ELSE Modified(ms, CHOOSE x \in m : TRUE, b.break)
  IN  IF b = E0 THEN [mods |-> ms, ext |-> TRUE, push |-> <<>>]
      ELSE [mods |-> ms2, ext |-> FALSE,
            push |-> SetToSeq({KeyEvent(b, x, ms2) : x \in m \cup ascii})]

KeyboardByte(b, ms, ext) ==
  LET ascii == Ascii(b.code, ext, "SHIFT" \in ms)
      m     == Modifiers(b.code, ext)
      ms2   == IF m = {} THEN ms ELSE Modified(ms, CHOOSE x \in m : TRUE, b.break)
  IN  IF b = E0 THEN [mods |-> ms, ext |-> TRUE, push |-> <<>>]
      ELSE [mods |-> ms2, ext |-> FALSE,
            push |-> SetToSeq({KeyEvent(b, x, ms2) : x \in m \cup ascii})]

Pushing(es) == Handler(es) /\ lost' = (lost \/ Len(es) > Room)

KeyboardIrq ==
  /\ kwire # <<>> /\ kwire' = Tail(kwire)
  /\ LET r == KeyboardByte(Head(kwire), mods, extended)
     IN  mods' = r.mods /\ extended' = r.ext /\ Pushing(r.push)
  /\ UNCHANGED <<mouseVars, wmVars, userVars, mwire>>

-----------------------------------------------------------------------------
(* The mouse: packets of three bytes, the first with bit 3 set. *)

Bit(byte, n) == (byte \div 2^n) % 2 = 1

ButtonsOf(flags) == {b \in Buttons : Bit(flags, IF b = "LEFT" THEN 0 ELSE 1)}

PacketOf(r) ==
  << 8 + (IF "LEFT" \in r.buttons THEN 1 ELSE 0) + (IF "RIGHT" \in r.buttons THEN 2 ELSE 0)
       + (IF r.move[1] < 0 THEN 16 ELSE 0) + (IF r.move[2] < 0 THEN 32 ELSE 0)
       + (IF r.overflow THEN 64 ELSE 0),
     r.move[1] % 256, r.move[2] % 256 >>

Clamp(i, n) == IF i < 0 THEN 0 ELSE IF i >= n THEN n - 1 ELSE i

ButtonEvents_PressOnly(buttons) ==
  IF buttons \ last_buttons # {} THEN << <<"MOUSE_DOWN", buttons \ last_buttons>> >> ELSE <<>>

ButtonEvents(buttons) ==
  LET pressed  == buttons \ last_buttons
      released == last_buttons \ buttons
  IN  (IF pressed # {} THEN << <<"MOUSE_DOWN", pressed>> >> ELSE <<>>)
        \o (IF released # {} THEN << <<"MOUSE_UP", released>> >> ELSE <<>>)

\* A whole packet p.
Decode(p) ==
  LET flags == p[1]
      dx == p[2] - IF Bit(flags, 4) THEN 256 ELSE 0
      dy == -(p[3] - IF Bit(flags, 5) THEN 256 ELSE 0)
  IN  IF Bit(flags, 6) \/ Bit(flags, 7)
      THEN Pushing(<<>>) /\ UNCHANGED <<mouse_x, mouse_y, last_buttons>>
      ELSE /\ mouse_x' = Clamp(mouse_x + dx, SCREEN_W)
           /\ mouse_y' = Clamp(mouse_y + dy, SCREEN_H)
           /\ last_buttons' = ButtonsOf(flags)
           /\ Pushing((IF dx # 0 \/ dy # 0 THEN << <<"MOUSE_MOVE", dx, dy>> >> ELSE <<>>)
                        \o ButtonEvents(ButtonsOf(flags)))

InPlace_Any(data) == TRUE

\* The test at the start of a packet.
InPlace(data) == packet # <<>> \/ Bit(data, 3)

MouseIrq ==
  /\ mwire # <<>> /\ mwire' = Tail(mwire)
  /\ LET data == Head(mwire)
         first == Len(mwire) = 3      \* the mouse meant it as a first byte
     IN  /\ IF ~InPlace(data) \/ Len(packet) < 2
            THEN /\ packet' = IF InPlace(data) THEN Append(packet, data) ELSE packet
                 /\ Pushing(<<>>)
                 /\ UNCHANGED <<mouse_x, mouse_y, last_buttons, astray>>
            ELSE /\ packet' = <<>>
                 /\ Decode(Append(packet, data))
                 /\ astray' = IF Len(mwire) = 1 THEN astray ELSE astray + 1
         /\ mistaken' = IF packet = <<>> /\ Bit(data, 3) /\ ~first THEN mistaken + 1 ELSE mistaken
  /\ UNCHANGED <<kbdVars, wmVars, userVars, kwire>>

\* ticks goes with the event, and nobody reads it there.
TimerIrq == /\ Pushing(<< <<"TIMER_TICK">> >>)
            /\ UNCHANGED <<kbdVars, mouseVars, wmVars, userVars, kwire, mwire>>

-----------------------------------------------------------------------------
(* wm_thread_main.  The order of the two calls is the compiler's. *)

ToldAll(v, e) ==
  CASE e[1] \in {"KEY_DOWN", "KEY_UP"} -> [v EXCEPT !.mods = e[3]]
    [] e[1] = "MOUSE_DOWN" -> [v EXCEPT !.buttons = @ \cup e[2]]
    [] e[1] = "MOUSE_UP"   -> [v EXCEPT !.buttons = @ \ e[2]]
    [] OTHER -> v

OfMouse(e) == e[1] \in {"MOUSE_MOVE", "MOUSE_DOWN", "MOUSE_UP"}

\* A cell never written would read as all zero, which is EVENT_NONE.
EventIn(cell) == IF cell = {} THEN <<"EVENT_NONE">> ELSE CHOOSE e \in cell : TRUE

Event == EventIn(out)

ReadCursor ==
  /\ pc = "handle" /\ OfMouse(Event) /\ half = {}
  /\ half' \in {{<<"x", mouse_x>>}, {<<"y", mouse_y>>}}
  /\ UNCHANGED <<vars, view, lost>>

Dispatch ==
  /\ pc = "handle" /\ pc' = "call"
  /\ \/ /\ ~OfMouse(Event)
        /\ view' = ToldAll(view, Event)
     \/ \E h \in half :
          view' = [ToldAll(view, Event) EXCEPT !.x = IF h[1] = "x" THEN h[2] ELSE mouse_x,
                                               !.y = IF h[1] = "y" THEN h[2] ELSE mouse_y]
  /\ half' = {}
  /\ UNCHANGED <<queue, head, tail, q_count, out, intr, skew, lost>>

\* event_init forgets what the handlers pushed before it.
Start == Initialise /\ lost' = (lost \/ q_count > 0) /\ UNCHANGED wmVars

Consumer ==
  /\ Start \/ ReadCursor \/ Dispatch \/ (Wait /\ UNCHANGED <<wmVars, lost>>)
  /\ UNCHANGED <<kbdVars, mouseVars, userVars, kwire, mwire>>

-----------------------------------------------------------------------------
(* The user and the wires. *)

\* The user is slower than the wires.
Gesture(device) ==
  /\ using \in {device, "both"} /\ UNCHANGED using
  /\ gestures < MaxGestures[using] /\ gestures' = gestures + 1
  /\ kwire = <<>> /\ mwire = <<>>

\* A key that is held repeats its make code.
PressKey(k) ==
  /\ Gesture("keyboard")
  /\ kwire' = BytesOf(k, FALSE)
  /\ held' = held \cup {k}
  /\ down' = down \cup Modifiers(Last(Wire[k]), Len(Wire[k]) = 2)
  /\ UNCHANGED <<vars, kbdVars, mouseVars, wmVars, lost, mwire, losses>>

ReleaseKey(k) ==
  /\ Gesture("keyboard")
  /\ k \in held /\ held' = held \ {k}
  /\ kwire' = BytesOf(k, TRUE)
  /\ down' = down \ Modifiers(Last(Wire[k]), Len(Wire[k]) = 2)
  /\ UNCHANGED <<vars, kbdVars, mouseVars, wmVars, lost, mwire, losses>>

Report(r) ==
  /\ Gesture("mouse")
  /\ mwire' = PacketOf(r)
  /\ UNCHANGED <<vars, kbdVars, mouseVars, wmVars, lost, kwire, down, held, losses>>

\* A byte of the mouse that nobody fetched in time.
LoseByte ==
  /\ losses < MaxLost /\ losses' = losses + 1
  /\ mwire # <<>> /\ mwire' = Tail(mwire)
  /\ UNCHANGED <<vars, kbdVars, mouseVars, wmVars, lost, kwire, down, held, using, gestures>>

User == \/ \E k \in Keys : PressKey(k) \/ ReleaseKey(k)
        \/ \E r \in Reports : Report(r)
        \/ LoseByte

-----------------------------------------------------------------------------

\* The ring as the loader left it, with interrupts already on, and the drivers
\* as keyboard_init and mouse_init left them.
Init ==
  /\ RingInit
  /\ mods = {} /\ extended = FALSE
  /\ packet = <<>> /\ last_buttons = {}
  /\ mouse_x = SCREEN_W \div 2 /\ mouse_y = SCREEN_H \div 2
  /\ view = [x |-> mouse_x, y |-> mouse_y, buttons |-> {}, mods |-> {}] /\ half = {}
  /\ lost = FALSE
  /\ down = {} /\ held = {} /\ kwire = <<>> /\ mwire = <<>>
  /\ using \in DOMAIN MaxGestures /\ gestures = 0 /\ losses = 0 /\ astray = 0 /\ mistaken = 0

Next == Consumer \/ KeyboardIrq \/ MouseIrq \/ TimerIrq \/ User

Spec == Init /\ [][Next]_inputVars

\* The wm thread runs, at whatever speed; no interrupt is made to come.
FairSpec == Spec /\ WF_inputVars(Consumer)

-----------------------------------------------------------------------------
(* Properties. *)

\* The events the wm thread has still to handle, in order.
Pending == (IF pc \in {"advance", "count", "sti", "handle"} THEN <<Event>> ELSE <<>>)
             \o [k \in 1 .. Waiting |-> EventIn(WaitingCells[k])]

(* The window manager sees each press and release of a button in turn, and *)
(* once it has handled what is pending it has the drivers' buttons and     *)
(* modifiers, and the cursor where mouse.c has it (mouse.h lines 10-11):   *)
(* a position read half before and half after a movement does not stay.    *)
(* Only an event dropped at a full ring, or by event_init, breaks this.    *)
CaughtUp ==
  LET after[k \in 0 .. Len(Pending)] ==
        IF k = 0 THEN view ELSE ToldAll(after[k - 1], Pending[k])
  IN  ~lost =>
        /\ after[Len(Pending)].buttons = last_buttons
        /\ after[Len(Pending)].mods = mods
        /\ \A k \in 1 .. Len(Pending) :
             /\ Pending[k][1] = "MOUSE_DOWN" => Pending[k][2] \cap after[k - 1].buttons = {}
             /\ Pending[k][1] = "MOUSE_UP"   => Pending[k][2] \subseteq after[k - 1].buttons
        /\ (\A k \in 1 .. Len(Pending) : ~OfMouse(Pending[k]))
             => view.x = mouse_x /\ view.y = mouse_y

(* keyboard_get_mods is the "live" mask (keyboard.h line 10): a modifier is *)
(* set exactly when the last thing done to one of its keys, left or right, *)
(* was to press it; so it never stays set with all of them up.             *)
ModifiersHonest ==
  kwire = <<>> => /\ mods = down
                  /\ ~extended
                  /\ \A m \in mods : \E k \in held : m \in Modifiers(Last(Wire[k]), Len(Wire[k]) = 2)

(* Out of step, the driver drops bytes "until byte 0" (mouse.c line 53): a *)
(* lost byte spoils one packet, and another one only when a data byte with *)
(* bit 3 set is taken for a first byte; in step, no packet is spoilt.      *)
OneLossOnePacket ==
  /\ astray <= losses + mistaken
  /\ losses = 0 => mistaken = 0 /\ Len(packet) = (3 - Len(mwire)) % 3
=============================================================================
