------------------------------- MODULE Input --------------------------------
(***************************************************************************)
(* drivers/keyboard.c, kernel/event.c and the keyboard and event system    *)
(* calls (3 and 29): scancodes come in from the PS/2 port, become events   *)
(* in the ring of the task that has the focus or characters in the ring of *)
(* the terminal, and are read by the tasks.                                *)
(*                                                                         *)
(* The handler runs on the boot processor.  It asks the window manager     *)
(* who is to have the key and pushes the event afterwards: tasks of other  *)
(* processors may exit, and their slots be taken again, in between.  The   *)
(* mouse handler sends its events the same way (routing itself is in Kwm). *)
(***************************************************************************)
EXTENDS Integers, Sequences, FiniteSets

CONSTANTS
  ETASKS,              \* task slots
  Keys,                \* [code, ext, mod, text]: scan code, E0 prefix, the modifier it is, or a character
  EVENT_QUEUE_SIZE, KBD_BUFFER_SIZE,
  MaxKeys, MaxTasks    \* bounds: key strokes, tasks started

ASSUME InputAssumption == EVENT_QUEUE_SIZE \in Nat /\ EVENT_QUEUE_SIZE > 1
                          /\ KBD_BUFFER_SIZE \in Nat /\ KBD_BUFFER_SIZE > 1

NoTarget == -1
E0 == [code |-> "E0", released |-> FALSE]

VARIABLES
  port,                \* bytes the keyboard has sent and the handler has not read
  down,                \* the keys that are held
  kbd_held, kbd_caps, kbd_extended,
  irq,                 \* {} or the event that is routed and not pushed yet
  queue,               \* per task: head, tail and the cells of its ring
  kbd,                 \* the terminal's ring
  live,                \* per slot: {} or the number of the task in it
  focus,               \* the slot that owns the focused window, or nobody
  pushed,              \* history: per slot, the latest events not read, as many as fit
  typed,               \* history: the characters not read, the ones that did not fit left out
  leaked,              \* history: slots with an event routed to an earlier task of theirs
  strokes, started     \* counters

inputVars == <<port, down, kbd_held, kbd_caps, kbd_extended, irq, queue, kbd, live, focus,
               pushed, typed, leaked, strokes, started>>
keyboard == <<kbd_held, kbd_caps, kbd_extended>>
rings    == <<queue, kbd, pushed, typed>>

Ring(size) == [head |-> 0, tail |-> 0, cell |-> [i \in 0 .. size - 1 |-> {}]]
InputInit ==
  /\ port = <<>> /\ down = {} /\ kbd_held = {} /\ kbd_caps = FALSE /\ kbd_extended = FALSE
  /\ irq = {}
  /\ queue = [t \in ETASKS |-> Ring(EVENT_QUEUE_SIZE)]
  /\ kbd = Ring(KBD_BUFFER_SIZE)
  /\ live = [t \in ETASKS |-> {}] /\ focus = NoTarget
  /\ pushed = [t \in ETASKS |-> <<>>] /\ typed = <<>> /\ leaked = {}
  /\ strokes = 0 /\ started = 0

-----------------------------------------------------------------------------
(* The keyboard (external): a key goes down or up, and its bytes are sent *)

Bytes(k, released) == (IF k.ext THEN <<E0>> ELSE <<>>) \o <<[code |-> k.code, released |-> released]>>
Stroke(k) ==
  /\ strokes < MaxKeys /\ strokes' = strokes + 1
  /\ down' = IF k \in down THEN down \ {k} ELSE down \cup {k}
  /\ port' = port \o Bytes(k, k \in down)
  /\ UNCHANGED <<keyboard, irq, rings, live, focus, leaked, started>>

-----------------------------------------------------------------------------
(* keyboard_handler *)

KeyOf(code) == CHOOSE k \in Keys : k.code = code /\ k.ext = kbd_extended
Mods(held, caps) == {k.mod : k \in held} \cap {"shift", "ctrl", "alt"}

Prefix ==
  /\ irq = {} /\ port # <<>> /\ Head(port) = E0
  /\ kbd_extended' = TRUE
  /\ port' = Tail(port)
  /\ UNCHANGED <<down, kbd_held, kbd_caps, irq, rings, live, focus, leaked, strokes, started>>

\* The modifiers, each side by itself; CapsLock turns once for a press however long it
\* is held.  Then the key is routed: to the owner of the focused window, or as text to
\* the terminal, or nowhere.  The window manager's own shortcuts are taken out first.
HeldAfter(k, released) ==
  IF k.mod \in {"none", "tab"} THEN kbd_held
  ELSE IF released THEN kbd_held \ {k} ELSE kbd_held \cup {k}
Shortcut(k, mods) == "alt" \in mods /\ k.mod = "tab"
Key ==
  /\ irq = {} /\ port # <<>> /\ Head(port) # E0
  /\ \E k \in {KeyOf(Head(port).code)} :
     \E released \in {Head(port).released} :
       LET mods == Mods(kbd_held', kbd_caps')
           text == ~released /\ k.text /\ mods \cap {"ctrl", "alt"} = {}
       IN  /\ kbd_held' = HeldAfter(k, released)
           /\ kbd_caps' = IF k.mod = "caps" /\ ~released /\ k \notin kbd_held THEN ~kbd_caps ELSE kbd_caps
           /\ irq' = IF Shortcut(k, mods) THEN {}
                     ELSE IF focus # NoTarget THEN {[to |-> focus, of |-> live[focus], key |-> k, released |-> released]}
                     ELSE IF text THEN {[to |-> NoTarget, of |-> {}, key |-> k, released |-> FALSE]}
                     ELSE {}
  /\ kbd_extended' = FALSE
  /\ port' = Tail(port)
  /\ UNCHANGED <<down, rings, live, focus, leaked, strokes, started>>

\* push_event_to: a full ring loses its oldest event.
DropsOldest(r, size) == IF (r.head + 1) % size = r.tail THEN (r.tail + 1) % size ELSE r.tail
push_event_to ==
  \E e \in irq :
    /\ e.to \in ETASKS
    /\ queue' = [queue EXCEPT ![e.to] =
         [head |-> (@.head + 1) % EVENT_QUEUE_SIZE,
          tail |-> DropsOldest(@, EVENT_QUEUE_SIZE),
          cell |-> [@.cell EXCEPT ![queue[e.to].head] = {e}]]]
    /\ pushed' = [pushed EXCEPT ![e.to] =
         IF Len(@) < EVENT_QUEUE_SIZE - 1 THEN Append(@, e) ELSE Append(Tail(@), e)]
    /\ leaked' = IF live[e.to] # e.of THEN leaked \cup {e.to} ELSE leaked
    /\ irq' = {}
    /\ UNCHANGED <<port, down, keyboard, kbd, typed, live, focus, strokes, started>>

\* The terminal's ring: a full one refuses the character.
Typed ==
  \E e \in irq :
    LET next == (kbd.head + 1) % KBD_BUFFER_SIZE
    IN  /\ e.to = NoTarget
        /\ kbd' = IF next # kbd.tail THEN [kbd EXCEPT !.head = next, !.cell[kbd.head] = {e.key}] ELSE kbd
        /\ typed' = IF Len(typed) < KBD_BUFFER_SIZE - 1 THEN Append(typed, e.key) ELSE typed
        /\ irq' = {}
        /\ UNCHANGED <<port, down, keyboard, queue, pushed, live, focus, leaked, strokes, started>>

-----------------------------------------------------------------------------
(* The tasks *)

\* sys_get_event: pop_event from the caller's own ring.
pop_event(t) ==
  /\ live[t] # {} /\ queue[t].head # queue[t].tail
  /\ queue' = [queue EXCEPT ![t].tail = (@ + 1) % EVENT_QUEUE_SIZE]
  /\ pushed' = [pushed EXCEPT ![t] = Tail(@)]
  /\ UNCHANGED <<port, down, keyboard, irq, kbd, typed, live, focus, leaked, strokes, started>>

\* sys_read_keyboard: keyboard_read takes what there is.
keyboard_read ==
  /\ kbd.head # kbd.tail
  /\ kbd' = [kbd EXCEPT !.tail = (@ + 1) % KBD_BUFFER_SIZE]
  /\ typed' = Tail(typed)
  /\ UNCHANGED <<port, down, keyboard, irq, queue, pushed, live, focus, leaked, strokes, started>>

\* flush_event_queue
MutFlushed(t) == UNCHANGED <<queue, pushed>>
Flushed(t) ==
  /\ queue' = [queue EXCEPT ![t].head = 0, ![t].tail = 0]
  /\ pushed' = [pushed EXCEPT ![t] = <<>>]

\* create_task_prio and create_user_task on a dead slot.
StartTask(t) ==
  /\ live[t] = {} /\ started < MaxTasks
  /\ started' = started + 1
  /\ live' = [live EXCEPT ![t] = {started + 1}]
  /\ Flushed(t)
  /\ leaked' = leaked \ {t}
  /\ UNCHANGED <<port, down, keyboard, irq, kbd, typed, focus, strokes>>

\* sys_exit: the windows go first, then the queue is flushed and the slot is dead.
ExitTask(t) ==
  /\ live[t] # {}
  /\ live' = [live EXCEPT ![t] = {}]
  /\ focus' = IF focus = t THEN NoTarget ELSE focus
  /\ Flushed(t)
  /\ UNCHANGED <<port, down, keyboard, irq, kbd, typed, leaked, strokes, started>>

\* sys_load_elf, sys_exec: the caller's events and the terminal's characters are dropped.
FlushInput(t) ==
  /\ live[t] # {}
  /\ Flushed(t)
  /\ kbd' = [kbd EXCEPT !.head = 0, !.tail = 0]
  /\ typed' = <<>>
  /\ UNCHANGED <<port, down, keyboard, irq, live, focus, leaked, strokes, started>>

\* A window of a live task gets the focus, or none has it (Kwm).
Focus(t) ==
  /\ t = NoTarget \/ (t \in ETASKS /\ live[t] # {})
  /\ focus # t
  /\ focus' = t
  /\ UNCHANGED <<port, down, keyboard, irq, rings, live, leaked, strokes, started>>

InputNext ==
  \/ \E k \in Keys : Stroke(k)
  \/ Prefix \/ Key \/ push_event_to \/ Typed \/ keyboard_read
  \/ \E t \in ETASKS : pop_event(t) \/ StartTask(t) \/ ExitTask(t) \/ FlushInput(t)
  \/ \E t \in ETASKS \cup {NoTarget} : Focus(t)
InputSpec == InputInit /\ [][InputNext]_inputVars

-----------------------------------------------------------------------------
(* Properties *)

\* What a ring holds, oldest first.
Held(r, size) ==
  [i \in 1 .. (r.head - r.tail) % size |-> CHOOSE e \in r.cell[(r.tail + i - 1) % size] : TRUE]

\* The rings are bounded queues: that of a task keeps the latest events, and an overflow
\* costs the oldest and no others; that of the terminal keeps what it has and refuses
\* the rest.  When every byte has been read, the modifiers are those of the keys that
\* are down, each side by itself.
InputExact ==
  /\ \A t \in ETASKS : Held(queue[t], EVENT_QUEUE_SIZE) = pushed[t]
  /\ Held(kbd, KBD_BUFFER_SIZE) = typed
  /\ port = <<>> => kbd_held = {k \in down : k.mod \notin {"none", "tab"}}

\* A task reads only events routed to it, never those of the task that had its slot
\* before, unless the slot changed hands between the routing of an event and its push.
EventsOfOwner ==
  \A t \in ETASKS : live[t] # {} /\ t \notin leaked =>
    \A i \in DOMAIN Held(queue[t], EVENT_QUEUE_SIZE) : Held(queue[t], EVENT_QUEUE_SIZE)[i].of = live[t]

\* Both: no key is lost or invented but by an overflow, and none reaches a stranger.
InputSound == InputExact /\ EventsOfOwner

-----------------------------------------------------------------------------
(***************************************************************************)
(* drivers/mouse.c: bytes of the PS/2 mouse become packets, packets move   *)
(* the cursor and become click, move and scroll events for the window      *)
(* under it.  What the window manager makes of a click is in Kwm; here it  *)
(* only says whether it keeps the event to itself.                         *)
(*                                                                         *)
(* Names that start with Mut are slips of the code.                        *)
(***************************************************************************)

CONSTANTS
  Width, Height,       \* of the screen, less the cursor
  HALF,                \* half the range of a signed byte (128)
  Motions,             \* movements of one packet, <<x, y, z>>
  Owner(_, _),         \* the task whose window is at a position, or -1
  MaxPackets           \* bound

ASSUME MouseAssumption == HALF \in Nat /\ Width \in Nat /\ Height \in Nat

VARIABLES
  mouse_has_wheel,
  wire,                \* bytes sent and not read
  mouse_byte,          \* the bytes of the packet so far
  mouse_x, mouse_y, last_left_click, last_right_click,
  real,                \* history: where the mouse was moved to, and its buttons
  skewed,              \* history: a packet was refused, or a movement does not fit a byte
  told,                \* events pushed for the last packet
  pressing,            \* history: tasks whose last left click was a press
  strayed,             \* history: tasks whose press was released elsewhere
  packets

mouseVars == <<mouse_has_wheel, wire, mouse_byte, mouse_x, mouse_y, last_left_click,
               last_right_click, real, skewed, told, pressing, strayed, packets>>

\* init_mouse: the wheel answers, or it does not.
MouseInit ==
  /\ mouse_has_wheel \in BOOLEAN
  /\ wire = <<>> /\ mouse_byte = <<>>
  /\ mouse_x = 0 /\ mouse_y = 0 /\ last_left_click = FALSE /\ last_right_click = FALSE
  /\ real = [x |-> 0, y |-> 0, left |-> FALSE, right |-> FALSE]
  /\ skewed = FALSE /\ told = <<>> /\ pressing = {} /\ strayed = {} /\ packets = 0

SignedByte(d) == ((d + HALF) % (2 * HALF)) - HALF
Within(n, limit) == IF n < 0 THEN 0 ELSE IF n > limit THEN limit ELSE n

\* The device (external): a movement or a button; the packet says if it overflowed.
Packet(m, left, right, over) ==
  <<[left |-> left, right |-> right, over |-> over], m[1], m[2]>>
    \o (IF mouse_has_wheel THEN <<m[3]>> ELSE <<>>)
Moved(m, left, right, over) ==
  /\ packets < MaxPackets /\ packets' = packets + 1
  /\ wire' = wire \o Packet(m, left, right, over)
  /\ real' = [x |-> Within(real.x + m[1], Width), y |-> Within(real.y - m[2], Height),
              left |-> left, right |-> right]
  /\ skewed' = (skewed \/ over \/ m[1] # SignedByte(m[1]) \/ m[2] # SignedByte(m[2]))
  /\ UNCHANGED <<mouse_has_wheel, mouse_byte, mouse_x, mouse_y, last_left_click, last_right_click, told, pressing, strayed>>

\* mouse_handler, for a byte that does not end a packet.
PacketSize == IF mouse_has_wheel THEN 4 ELSE 3
ByteRead ==
  /\ wire # <<>> /\ Len(mouse_byte) + 1 < PacketSize
  /\ mouse_byte' = Append(mouse_byte, Head(wire))
  /\ wire' = Tail(wire)
  /\ UNCHANGED <<mouse_has_wheel, mouse_x, mouse_y, last_left_click, last_right_click, real, skewed, told, pressing, strayed, packets>>

PacketEnds ==
  /\ wire # <<>> /\ Len(mouse_byte) + 1 >= PacketSize
  /\ mouse_byte' = <<>>
  /\ wire' = Tail(wire)

\* A packet that overflowed is dropped, its buttons included.
Overflowed ==
  /\ PacketEnds /\ mouse_byte[1].over
  /\ UNCHANGED <<mouse_has_wheel, mouse_x, mouse_y, last_left_click, last_right_click, real, skewed, told, pressing, strayed, packets>>

\* The left click: an edge goes to the window under the cursor, unless the window
\* manager keeps it (consumed), which a release is passed on all the same.
MutTellsLeft(left, consumed) == left # last_left_click /\ ~consumed
TellsLeft(left, consumed) == left # last_left_click /\ (~consumed \/ ~left)

Event(type, to, p) == <<[type |-> type, to |-> to, p |-> p]>>
Given(b, e) == IF b THEN e ELSE <<>>

\* The cursor, the edges of the buttons, the move and the wheel; over no window the
\* wheel scrolls the terminal (to -1).
Handle(consumed) ==
  /\ PacketEnds /\ ~mouse_byte[1].over
  /\ LET all == Append(mouse_byte, Head(wire))
         left == all[1].left
         right == all[1].right
         x == Within(mouse_x + SignedByte(all[2]), Width)
         y == Within(mouse_y - SignedByte(all[3]), Height)
         z == IF mouse_has_wheel THEN all[4] ELSE 0
         to == Owner(x, y)
         tells == to >= 0 /\ TellsLeft(left, consumed)
     IN  /\ mouse_x' = x /\ mouse_y' = y
         /\ last_left_click' = left /\ last_right_click' = right
         /\ told' = Given(tells, Event("click", to, <<0, left>>))
                      \o Given(to >= 0 /\ right # last_right_click, Event("click", to, <<1, right>>))
                      \o Given(to >= 0, Event("move", to, <<x, y>>))
                      \o Given(z # 0, IF to >= 0 THEN Event("scroll", to, z) ELSE Event("view", to, -z * 3))
         /\ pressing' = IF tells THEN IF left THEN pressing \cup {to} ELSE pressing \ {to} ELSE pressing
         /\ strayed' = (strayed \cup (IF last_left_click /\ ~left THEN pressing \ {to} ELSE {}))
                         \ (IF tells THEN {to} ELSE {})
  /\ UNCHANGED <<mouse_has_wheel, real, skewed, packets>>

MouseNext ==
  \/ \E m \in Motions : \E left, right, over \in BOOLEAN : Moved(m, left, right, over)
  \/ ByteRead \/ Overflowed \/ \E consumed \in BOOLEAN : Handle(consumed)
MouseSpec == MouseInit /\ [][MouseNext]_mouseVars

-----------------------------------------------------------------------------
(* Properties *)

\* When every byte has been read, the cursor is where the mouse went and the buttons
\* are as they are, on the screen and whatever the packet size, unless a packet was
\* refused or a movement was too fast for a signed byte.  A window that was told of a
\* press is told of the release too, unless the button was let go elsewhere.
CursorTrue ==
  /\ wire = <<>> /\ ~skewed =>
       /\ mouse_byte = <<>>
       /\ real = [x |-> mouse_x, y |-> mouse_y, left |-> last_left_click, right |-> last_right_click]
  /\ mouse_x \in 0 .. Width /\ mouse_y \in 0 .. Height
  /\ ~last_left_click => pressing \subseteq strayed
=============================================================================
