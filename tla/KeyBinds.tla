------------------------------ MODULE KeyBinds ------------------------------
(***************************************************************************)
(* Key and pointer binds, from the entries of binds { } to the command     *)
(* that runs (src/config/parse/bindings.cpp, run_key_binds, grabkeys,      *)
(* mappingnotify and focusin of src/dispatch/xcb_handlers.cpp, the second  *)
(* setxkbmap of src/input_apply.cpp), against the X server that decides    *)
(* which key events zestwm receives.                                       *)
(*                                                                         *)
(* The server gives zestwm the events of a key only while a grab made by   *)
(* grabkeys is active: from the press of a grabbed key to its release, and *)
(* then those of every other key too.  zestwm never asks for detectable    *)
(* auto-repeat, so a repeat is a release and a press.  The end of a grab   *)
(* and a change of focus send FocusIn to the client window that has the    *)
(* focus; the root window does not select it.                              *)
(*                                                                         *)
(* Lock modifiers are left out (grabs and cleanmask cover both states), as *)
(* are modifier keys as keys.  Only a command's effects on the focus and   *)
(* the grabs are kept.  The bind flags for releases, any modifier and      *)
(* replay are left out: no configuration sets them.                        *)
(***************************************************************************)
EXTENDS Naturals, SequencesExt

CONSTANTS
    Keycodes,       \* the keys of the keyboard
    Buttons,        \* the pointer buttons that tokens such as WheelScrollUp name
    Symbols,        \* keysyms
    NoSymbol,       \* what an empty column of a key holds
    Layouts,        \* the columns of each key, by keyboard layout
    Configured,     \* the layout of the input block
    Entries,        \* the entries of binds { }, in order
    Mods,           \* modifier states
    ReapplyDelay,   \* kInputKbReapplyDelay, in ticks
    Nothing,        \* no key, no deadline
    MaxQueue, MaxTime   \* bounds on the events under way and on the clock

\* An entry: what comes before and within its braces.  A bad one has an unknown
\* property, modifier, key or action.
EntrySet == [on : Keycodes \cup Buttons \cup Symbols, mods : Mods,
             repeat : BOOLEAN, cooldown : Nat, bad : BOOLEAN]

ASSUME KeyBindsAssumption ==
    /\ Nothing \notin Keycodes \cup Nat
    /\ Keycodes \cap Symbols = {} /\ Buttons \cap (Keycodes \cup Symbols) = {}
    /\ Configured \in DOMAIN Layouts
    /\ NoSymbol \notin Symbols
    /\ \A l \in DOMAIN Layouts : Layouts[l] \in [Keycodes -> Seq(Symbols \cup {NoSymbol})]
    /\ Entries \in Seq(EntrySet)
    /\ ReapplyDelay \in Nat /\ MaxQueue \in Nat /\ MaxTime \in Nat

VARIABLES
    down, mods, \* the keys that are held, and the modifiers
    repeating,  \* the key that repeats, the last one pressed if it is still held
    grab,       \* the key whose press activated the grab that is active
    focused,    \* whether a client window has the focus, not the root window
    layout,     \* the layout of the keyboard
    queue,      \* the events under way to zestwm
    grabs,      \* the keys and modifiers grabbed on the root window
    pressed,    \* pressed_keys
    until,      \* Key::cooldown_until_ms of each bind
    deadline,   \* input_kb_reapply_deadline
    now,        \* the clock
    fired,      \* the binds that the last event handled ran
    ran         \* when each bind with a cooldown ran last

server == <<down, mods, repeating, grab, focused, layout>>
wm == <<grabs, pressed, until, deadline, ran>>
vars == <<server, queue, wm, now, fired>>

-----------------------------------------------------------------------------
(* Binds.                                                                  *)

\* parse_niri_bind_entry: a bad entry is skipped.
Parsed == {b \in DOMAIN Entries : ~Entries[b].bad}

\* g_config.keys: the entries that become a Key, each known by its place; their order
\* is that of the entries.  A pointer entry becomes a Button, which has no cooldown and
\* no repeat flag.
Keys == {b \in Parsed : Entries[b].on \notin Buttons}

\* Whether run_key_binds takes key k for the one a bind names: by its code, or by a
\* symbol in a column that no empty one precedes.
Carries(l, k, b) ==
    \/ b.on = k
    \/ \E i \in DOMAIN Layouts[l][k] :
         Layouts[l][k][i] = b.on /\ \A j \in 1..i : Layouts[l][k][j] # NoSymbol

\* grabkeys: the keys of all binds, with the symbol in any column, and nothing else.
Grabbed(l) ==
    {km \in Keycodes \X Mods :
        \E b \in Keys :
            /\ Entries[b].mods = km[2]
            /\ Entries[b].on \in {km[1]} \cup ToSet(Layouts[l][km[1]])}

-----------------------------------------------------------------------------
(* The X server and the user.  "fresh" marks the press of a key that was   *)
(* up, with the focus on a client; it is not part of the event.            *)

FocusInEvent == [type |-> "focusin", key |-> Nothing, fresh |-> FALSE]
MappingEvent == [type |-> "mapping", key |-> Nothing, fresh |-> FALSE]
KeyEvent(type, k, fresh) == [type |-> type, key |-> k, mods |-> mods, fresh |-> fresh]

Deliver(events) ==
    /\ queue' = queue \o events
    /\ Len(queue') <= MaxQueue

UserActs == fired' = {} /\ UNCHANGED <<wm, now>>

\* wmconf_apply_input_settings and grabkeys in setup.
Init ==
    /\ down = {} /\ mods \in Mods /\ repeating = Nothing /\ grab = Nothing
    /\ focused \in BOOLEAN
    /\ layout \in DOMAIN Layouts
    /\ queue = <<>>
    /\ grabs = Grabbed(layout)
    /\ pressed = {}
    /\ until = [b \in Keys |-> 0]
    /\ deadline = ReapplyDelay
    /\ now = 0
    /\ fired = {}
    /\ ran = [b \in Keys |-> Nothing]

PressKey(k) ==
    /\ k \notin down
    /\ down' = down \cup {k}
    /\ repeating' = k
    /\ grab' = IF grab = Nothing /\ <<k, mods>> \in grabs THEN k ELSE grab
    /\ Deliver(IF grab' = Nothing THEN <<>> ELSE <<KeyEvent("press", k, focused)>>)
    /\ UserActs /\ UNCHANGED <<mods, focused, layout>>

RepeatKey ==
    /\ repeating # Nothing
    /\ Deliver(IF grab = Nothing THEN <<>>
               ELSE <<KeyEvent("release", repeating, FALSE),
                      KeyEvent("press", repeating, FALSE)>>)
    /\ UserActs /\ UNCHANGED server

ReleaseKey(k) ==
    /\ k \in down
    /\ down' = down \ {k}
    /\ repeating' = IF repeating = k THEN Nothing ELSE repeating
    /\ grab' = IF grab = k THEN Nothing ELSE grab
    /\ Deliver((IF grab = Nothing THEN <<>> ELSE <<KeyEvent("release", k, FALSE)>>)
               \o (IF grab = k /\ focused THEN <<FocusInEvent>> ELSE <<>>))
    /\ UserActs /\ UNCHANGED <<mods, focused, layout>>

ChangeMods(m) ==
    /\ mods' = m
    /\ UserActs /\ UNCHANGED <<down, repeating, grab, focused, layout, queue>>

\* A window takes the focus, or loses it to the root window.
FocusMoves ==
    /\ \/ focused' = FALSE /\ UNCHANGED queue
       \/ focused' = TRUE /\ Deliver(<<FocusInEvent>>)
    /\ UserActs /\ UNCHANGED <<down, mods, repeating, grab, layout>>

\* setxkbmap, run by zestwm (apply_setxkbmap) or by another program.
SetLayout(l) ==
    /\ layout' = l
    /\ Deliver(<<MappingEvent>>)

\* Another program sets the keyboard layout.
Remap(l) ==
    /\ SetLayout(l)
    /\ UserActs /\ UNCHANGED <<down, mods, repeating, grab, focused>>

Tick ==
    /\ now < MaxTime
    /\ now' = now + 1
    /\ fired' = {}
    /\ UNCHANGED <<server, queue, wm>>

-----------------------------------------------------------------------------
(* Handlers.                                                               *)

\* What the command of a bind does here: it may move the focus, and for a workspace
\* that is new to the registry it grabs the keys again.
Effect(rest) ==
    /\ grabs' \in {grabs, Grabbed(layout)}
    /\ \/ focused' \in {focused, FALSE} /\ queue' = rest
       \/ focused' = TRUE /\ queue' = Append(rest, FocusInEvent)

NoEffect(rest) == queue' = rest /\ UNCHANGED <<grabs, focused>>

\* Mutation: the cooldown is not counted from now.
Until_Alone(b) == Entries[b].cooldown

\* The end of the cooldown of a bind that runs now.
Until(b) == now + Entries[b].cooldown

\* The binds for the key of a press that are not in their cooldown.
Ready(e) ==
    {b \in Keys :
        /\ Entries[b].mods = e.mods
        /\ ~(Entries[b].cooldown > 0 /\ now < until[b])
        /\ Carries(layout, e.key, Entries[b])}

\* Those that run for it: a key taken to be held runs only binds that repeat.
Answers(e) == {b \in Ready(e) : Entries[b].repeat \/ e.key \notin pressed}

First(binds) == CHOOSE b \in binds : \A c \in binds : b <= c

\* keypress: the first bind that answers runs.
Press(e, rest) ==
    LET answers == Answers(e)
        first == First(answers)
    IN  /\ pressed' = pressed \cup {e.key}
        /\ IF answers = {}
           THEN NoEffect(rest) /\ fired' = {} /\ UNCHANGED <<until, ran>>
           ELSE /\ Effect(rest)
                /\ fired' = {first}
                /\ IF Entries[first].cooldown = 0 THEN UNCHANGED <<until, ran>>
                   ELSE /\ until' = [until EXCEPT ![first] = Until(first)]
                        /\ ran' = [ran EXCEPT ![first] = now]

\* keyrelease; there are no binds for it.
Release(e, rest) ==
    /\ pressed' = pressed \ {e.key}
    /\ NoEffect(rest)
    /\ fired' = {}
    /\ UNCHANGED <<until, ran>>

\* Mutation: what is held stays known.
FocusIn_Keeps(rest) ==
    /\ \/ queue' = rest
       \/ queue' = Append(rest, FocusInEvent)
    /\ fired' = {}
    /\ UNCHANGED <<pressed, grabs, focused, until, ran>>

\* focusin_with_ctx; a client that took the focus from the selection loses it again.
FocusIn(rest) ==
    /\ pressed' = {}
    /\ \/ queue' = rest /\ UNCHANGED focused
       \/ queue' = Append(rest, FocusInEvent) /\ focused' = TRUE
    /\ fired' = {}
    /\ UNCHANGED <<grabs, until, ran>>

\* Mutation: what was grabbed stays grabbed.
Mapping_Adds(rest) ==
    /\ grabs' = grabs \cup Grabbed(layout)
    /\ queue' = rest
    /\ fired' = {}
    /\ UNCHANGED <<focused, pressed, until, ran>>

\* mappingnotify.
Mapping(rest) ==
    /\ grabs' = Grabbed(layout)
    /\ queue' = rest
    /\ fired' = {}
    /\ UNCHANGED <<focused, pressed, until, ran>>

Handle ==
    /\ queue # <<>>
    /\ LET e == Head(queue)
           rest == Tail(queue)
       IN  \/ e.type = "press" /\ Press(e, rest)
           \/ e.type = "release" /\ Release(e, rest)
           \/ e.type = "focusin" /\ FocusIn(rest)
           \/ e.type = "mapping" /\ Mapping(rest)
    /\ UNCHANGED <<down, mods, repeating, grab, layout, deadline, now>>

\* wmconf_input_kb_reapply_poll, which the main loop calls: once, after programs of the
\* session have had time to set a layout of their own.  setxkbmap may fail.
Reapply ==
    /\ deadline # Nothing /\ now >= deadline
    /\ deadline' = Nothing
    /\ SetLayout(Configured) \/ UNCHANGED <<layout, queue>>
    /\ fired' = {}
    /\ UNCHANGED <<down, mods, repeating, grab, focused, grabs, pressed, until, ran, now>>

Next ==
    \/ \E k \in Keycodes : PressKey(k) \/ ReleaseKey(k)
    \/ RepeatKey
    \/ \E m \in Mods : ChangeMods(m)
    \/ FocusMoves
    \/ \E l \in DOMAIN Layouts : Remap(l)
    \/ Tick
    \/ Handle
    \/ Reapply

Spec == Init /\ [][Next]_vars

-----------------------------------------------------------------------------
(* Properties.                                                             *)

\* Two runs of a key bind are at least its cooldown apart, whatever other binds its key
\* has, however often it repeats and whenever the events are handled (run_key_binds).
CooldownHolds ==
    [][\A b \in fired' : ran[b] # Nothing => now - ran[b] >= Entries[b].cooldown]_vars

\* The press of a key that was up is never taken for a repeat and swallowed, though
\* zestwm does not see every release: a bind for it runs unless all are in their
\* cooldown.  Presses on the empty desktop are left out: there nothing tells zestwm of
\* a release it misses.
PressRuns ==
    [][Handle /\ Head(queue).fresh /\ Ready(Head(queue)) # {} => fired' # {}]_vars

\* Once zestwm has handled the changes of the layout, the keys it takes from the clients
\* are those of its binds on the layout of the keyboard (mappingnotify, grabkeys).
GrabsFollowLayout ==
    ~Contains(queue, MappingEvent) => grabs = Grabbed(layout)
=============================================================================
