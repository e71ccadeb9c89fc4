------------------------------- MODULE Input -------------------------------
(* Input: the platform's window collects key and mouse events in a state of *)
(* its own while it polls (platform/glfw/window.c, platform/mac/window.m),  *)
(* hands the game a copy each frame and forgets the edges; engine_update    *)
(* copies that copy into the state scripts read through InputState          *)
(* (types/input_state_lua.c).  The game's loop is the one of the examples.  *)
(* The keyboard, the mouse and the window system are external: a key can    *)
(* only be released while it is down, and mac repeats a held key's press.   *)
EXTENDS Integers, FiniteSets

CONSTANTS
  Hosts,        \* the platforms: "glfw", "mac"
  PlainKeys,    \* keys both platforms report
  Modifiers,    \* keys known only by an event's modifier bits
  ButtonMax,    \* InputMouse_MAX: buttons 0 .. ButtonMax - 1
  ButtonCount,  \* MOUSE_BUTTON_COUNT: what the getters let through (8 and 5)
  MaxEvents     \* bound: events in one frame

ASSUME InputAssumption ==
  /\ Hosts \subseteq {"glfw", "mac"}
  /\ {ButtonMax, ButtonCount, MaxEvents} \subseteq Nat
  /\ PlainKeys \cap Modifiers = {} /\ {"caps", "f13"} \cap (PlainKeys \cup Modifiers) = {}

VARIABLES
  host,     \* the platform of this build
  win,      \* [made, asked, should]: the EseWindow
  front,    \* the platform's EseInputState
  out,      \* the game's
  told,     \* the engine's, which scripts read
  table,    \* the mouse table a script asked for last
  turn,     \* where the loop is: "poll", "shown", "scripts"
  events,   \* events of this frame
  hands,    \* external: [keys, buttons] physically down
  before,   \* what scripts saw down in the frame before
  owed      \* scrolled, and not yet shown to a script

inputVars == <<host, win, front, out, told, table, turn, events, hands, before, owed>>

Buttons == 0 .. ButtonMax - 1
Unmapped == {"f13"}   \* the keys mapGLFWKeyToInputKey does not know
MouseTables == {"mouse_down", "mouse_clicked", "mouse_released"}

NoInput ==
  [keys_down |-> {}, keys_pressed |-> {}, keys_released |-> {}, mouse_down |-> {},
   mouse_clicked |-> {}, mouse_released |-> {}, scroll |-> 0]

(* Mutant: the released keys are forgotten about. *)
WrongSettled(i) ==
  [i EXCEPT !.keys_pressed = {}, !.scroll = 0, !.mouse_clicked = {}, !.mouse_released = {}]

(* window_process after the copy: the edges go, what is down stays. *)
Settled(i) ==
  [i EXCEPT !.keys_pressed = {}, !.keys_released = {}, !.scroll = 0,
            !.mouse_clicked = {}, !.mouse_released = {}]

(* The modifier keys are down as the event says; a glfw event never says    *)
(* caps lock, because nobody sets GLFW_LOCK_KEY_MODS.                       *)
Modified(i, mods) ==
  [i EXCEPT !.keys_down = (@ \ (Modifiers \cup {"caps"})) \cup mods]

Mods == SUBSET (IF host = "mac" THEN Modifiers \cup {"caps"} ELSE Modifiers)

InputInit ==
  /\ host \in Hosts
  /\ win = [made |-> FALSE, asked |-> FALSE, should |-> FALSE]
  /\ front = NoInput /\ out = NoInput /\ told = NoInput
  /\ table = "none" /\ turn = "poll" /\ events = 0
  /\ hands = [keys |-> {}, buttons |-> {}] /\ before = hands /\ owed = 0

(* window_create; a failure ends the game before the loop. *)
OpenWindow ==
  /\ ~win.made /\ ~win.should
  /\ win' = [win EXCEPT !.made = TRUE]
  /\ UNCHANGED <<host, front, out, told, table, turn, events, hands, before, owed>>

Polling == win.made /\ turn = "poll" /\ events < MaxEvents

(* glfw_key_callback with GLFW_PRESS or GLFW_REPEAT; NSEventTypeKeyDown,    *)
(* which comes for repeats as well.                                         *)
PressKey(k, mods) ==
  LET i == Modified(front, mods) IN
    /\ Polling /\ (host = "mac" => k # "caps")
    /\ front' =
         IF k \notin Unmapped /\ (host = "mac" \/ k \notin hands.keys)
         THEN [i EXCEPT !.keys_down = @ \cup {k}, !.keys_pressed = @ \cup {k}]
         ELSE i
    /\ hands' = [hands EXCEPT !.keys = @ \cup {k}]
    /\ events' = events + 1
    /\ UNCHANGED <<host, win, out, told, table, turn, before, owed>>

ReleaseKey(k, mods) ==
  LET i == Modified(front, mods) IN
    /\ Polling /\ k \in hands.keys
    /\ front' = IF k \in Unmapped THEN i
                ELSE [i EXCEPT !.keys_down = @ \ {k}, !.keys_released = @ \cup {k}]
    /\ hands' = [hands EXCEPT !.keys = @ \ {k}]
    /\ events' = events + 1
    /\ UNCHANGED <<host, win, out, told, table, turn, before, owed>>

(* Mac reads the modifiers from every event, glfw only from key events. *)
ByMouse(mods) == IF host = "mac" THEN Modified(front, mods) ELSE front

PressButton(b, mods) ==
  /\ Polling /\ b \notin hands.buttons /\ mods \in IF host = "mac" THEN Mods ELSE {{}}
  /\ front' = LET i == ByMouse(mods) IN
       [i EXCEPT !.mouse_clicked = IF b \in i.mouse_down THEN @ ELSE @ \cup {b},
                 !.mouse_down = @ \cup {b}]
  /\ hands' = [hands EXCEPT !.buttons = @ \cup {b}]
  /\ events' = events + 1
  /\ UNCHANGED <<host, win, out, told, table, turn, before, owed>>

ReleaseButton(b, mods) ==
  /\ Polling /\ b \in hands.buttons /\ mods \in IF host = "mac" THEN Mods ELSE {{}}
  /\ front' = [ByMouse(mods) EXCEPT !.mouse_down = @ \ {b}, !.mouse_released = @ \cup {b}]
  /\ hands' = [hands EXCEPT !.buttons = @ \ {b}]
  /\ events' = events + 1
  /\ UNCHANGED <<host, win, out, told, table, turn, before, owed>>

Scroll(d) ==
  /\ Polling
  /\ front' = [front EXCEPT !.scroll = @ + d]
  /\ owed' = owed + d
  /\ events' = events + 1
  /\ UNCHANGED <<host, win, out, told, table, turn, hands, before>>

(* The user closes the window, or the game calls window_close.  On mac the  *)
(* window is gone at once; glfw only sets a flag of its own.                *)
AskClose ==
  /\ win.made /\ ~win.asked /\ turn \in {"poll", "scripts"}
  /\ win' = [win EXCEPT !.asked = TRUE, !.should = (turn = "scripts" /\ host = "glfw")]
  /\ UNCHANGED <<host, front, out, told, table, turn, events, hands, before, owed>>

(* window_close after glfw has destroyed the window. *)
CloseAgain ==
  /\ ~win.made /\ win.asked /\ turn = "scripts"
  /\ win' = [win EXCEPT !.should = TRUE]
  /\ UNCHANGED <<host, front, out, told, table, turn, events, hands, before, owed>>

(* window_process, from the copy on.  In the frame that closes the window   *)
(* the game still gets the copy; glfw destroys its window, mac's just stays *)
(* invisible.                                                               *)
Process ==
  /\ win.made /\ turn = "poll"
  /\ out' = front
  /\ front' = Settled(front)
  /\ win' = [win EXCEPT !.should = win.asked, !.made = ~(win.asked /\ host = "glfw")]
  /\ turn' = "shown"
  /\ UNCHANGED <<host, told, table, events, hands, before, owed>>

(* window_process without a glfw window: everything is up. *)
ProcessClosed ==
  /\ ~win.made /\ win.should /\ host = "glfw" /\ turn = "poll"
  /\ front' = NoInput /\ out' = NoInput
  /\ turn' = "shown"
  /\ UNCHANGED <<host, win, told, table, events, hands, before, owed>>

(* engine_update copies the game's state; the gui gets a copy of the copy.  *)
EngineCopies ==
  /\ turn = "shown"
  /\ told' = out
  /\ owed' = owed - out.scroll
  /\ turn' = "scripts"
  /\ UNCHANGED <<host, win, front, out, table, events, hands, before>>

(* InputState.mouse_down: no table is made.  The new metatable goes to the  *)
(* value below it on the stack, the key: it becomes the metatable of every  *)
(* string of the runtime, and the answer is the string.                     *)
ReadMouseTable(t) ==
  /\ turn = "scripts" /\ table' = t
  /\ UNCHANGED <<host, win, front, out, told, turn, events, hands, before, owed>>

(* keys_down[k] and its like. *)
TellKey(t, k) == k \in told[t]

(* "mouse_down"[b] asks the metatable set last.  An index between ButtonMax *)
(* and ButtonCount passes the check and reads the array that follows.       *)
TellButton(b) ==
  CASE b \in Buttons -> b \in told[table]
    [] b \in ButtonMax .. ButtonCount - 1 /\ table = "mouse_down" -> b - ButtonMax \in told.mouse_clicked
    [] b \in ButtonMax .. ButtonCount - 1 /\ table = "mouse_clicked" -> b - ButtonMax \in told.mouse_released
    [] OTHER -> FALSE

(* The frame is over. *)
NextFrame ==
  /\ turn = "scripts"
  /\ turn' = "poll" /\ events' = 0
  /\ before' = [keys |-> told.keys_down, buttons |-> told.mouse_down]
  /\ table' = "none"
  /\ UNCHANGED <<host, win, front, out, told, hands, owed>>

InputNext ==
  \/ OpenWindow
  \/ \E mods \in Mods : \E k \in PlainKeys \cup {"caps"} \cup Unmapped :
       PressKey(k, mods) \/ ReleaseKey(k, mods)
  \/ \E mods \in Mods, b \in Buttons : PressButton(b, mods) \/ ReleaseButton(b, mods)
  \/ Scroll(1)
  \/ AskClose \/ CloseAgain \/ Process \/ ProcessClosed \/ EngineCopies
  \/ \E t \in MouseTables : ReadMouseTable(t)
  \/ NextFrame

-----------------------------------------------------------------------------
Inputs ==
  [keys_down : SUBSET (PlainKeys \cup Modifiers \cup {"caps"}),
   keys_pressed : SUBSET (PlainKeys \cup {"caps"}), keys_released : SUBSET (PlainKeys \cup {"caps"}),
   mouse_down : SUBSET Buttons, mouse_clicked : SUBSET Buttons, mouse_released : SUBSET Buttons,
   scroll : -MaxEvents .. MaxEvents]

InputTypeOK ==
  /\ host \in Hosts
  /\ win \in [made : BOOLEAN, asked : BOOLEAN, should : BOOLEAN]
  /\ {front, out, told} \subseteq Inputs
  /\ table \in MouseTables \cup {"none"} /\ turn \in {"poll", "shown", "scripts"}
  /\ events \in 0 .. MaxEvents /\ owed \in -MaxEvents .. MaxEvents
  /\ before.keys \subseteq PlainKeys \cup Modifiers \cup {"caps"} /\ before.buttons \subseteq Buttons

(* While the window is there, what a script is told to be down is down, as  *)
(* of the last event; a key or a button that went down or up since the last *)
(* frame is told as pressed, clicked or released in this frame and in no    *)
(* other; what is scrolled is told once.  The docs promise more: on mac a   *)
(* key that is held is pressed again with every repeat; a table of buttons  *)
(* answers as the one asked for last does, and for a button the arrays do   *)
(* not have it reads what follows them.  (keys_down of the modifiers and of *)
(* caps lock is only as good as the last event's bits.)                     *)
EdgesTold ==
  (turn = "scripts" /\ (win.made \/ win.should) /\ told # NoInput) =>
    /\ \A k \in PlainKeys :
         LET was == k \in before.keys
             is == TellKey("keys_down", k)
         IN  /\ is <=> k \in hands.keys
             /\ (is /\ ~was) => TellKey("keys_pressed", k)
             /\ (was /\ ~is) => TellKey("keys_released", k)
             /\ (TellKey("keys_pressed", k) /\ ~TellKey("keys_released", k)) => is
             /\ (is /\ was /\ TellKey("keys_pressed", k) /\ host = "glfw") => TellKey("keys_released", k)
             /\ (~is /\ ~was) => (TellKey("keys_pressed", k) <=> TellKey("keys_released", k))
    /\ \A b \in Buttons :
         /\ (b \in told.mouse_down /\ b \notin before.buttons) => b \in told.mouse_clicked
         /\ (b \in before.buttons \ told.mouse_down) => b \in told.mouse_released
         /\ (b \in told.mouse_clicked /\ b \in before.buttons) => b \in told.mouse_released
         /\ table = "mouse_down" => (TellButton(b) <=> b \in hands.buttons)
    /\ owed = 0
=============================================================================
