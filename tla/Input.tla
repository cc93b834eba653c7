-------------------------------- MODULE Input ---------------------------------
(***************************************************************************)
(* Physical input on its way from the hub to the spokes: the capture of    *)
(* the hub's platform with its own modifier mask (capture.rs of pal-x11    *)
(* and pal-windows; that of pal-macos is a scaffold), the forwarder that   *)
(* broadcasts each event to the sessions of the moment                     *)
(* (crates/cli/src/runtime/server.rs:120-139), the reader of each spoke    *)
(* and the emitter of its platform (emit.rs). Sessions come and go; a      *)
(* spoke's system keeps what was pressed in it.                            *)
(*                                                                         *)
(* Pointer motion is left out: nothing is held down by it.                 *)
(***************************************************************************)
EXTENDS KeyMaps, SequencesExt

CONSTANTS
    Spokes,
    Setups,                 \* pairs of the hub's platform and the spokes'
    Keys, Buttons,          \* the keys and mouse buttons the hub has
    NoKeycode,              \* usages an X11 spoke's keyboard map lacks
    HeldAtStart,            \* what may be down when the capture starts
    Flaky,                  \* the spokes whose emitter may return errors
    MaxEvents               \* bound: presses and releases on the hub

Platforms == {"x11", "windows", "macos"}

\* open_input_emit: none if input is disabled or the X server does not answer.
Emitters == Platforms \cup {"none"}

\* Mouse buttons go by their X11 numbers; a scroll, by that of its wheel.
Left == 1
Middle == 2
Right == 3
Wheels == 4 .. 7
Named == {Left, Middle, Right, 8, 9}

Inputs == ({"key"} \X Keys) \cup ({"button"} \X Buttons)

ASSUME InputAssumption ==
    /\ Setups \subseteq Platforms \X [Spokes -> Emitters]
    /\ Keys \subseteq Usages /\ Buttons \subseteq 1 .. 255
    /\ NoKeycode \subseteq Usages
    /\ HeldAtStart \subseteq Inputs
    /\ Flaky \subseteq Spokes
    /\ MaxEvents \in Nat

Events == [kind : {"key", "button", "scroll"}, code : Nat, pressed : BOOLEAN,
           mask : SUBSET Modifiers]

VARIABLES
    hub, os,    \* the hub's platform, and each spoke's as far as it emits
    hubHeld,    \* what is down on the hub's keyboard and mouse
    mask,       \* the modifiers the capture believes down
    captured,   \* the channel from the capture to the forwarder
    session,    \* the spokes that have a session
    frames,     \* frames[s]: input frames on their way to s
    held,       \* held[s]: native keys and buttons down in the system of s
    seen,       \* seen[s]: those whose last event in this session s has emitted
    events      \* presses and releases so far

machines == <<hub, os>>
vars == <<hub, os, hubHeld, mask, captured, session, frames, held, seen, events>>

Controls == ({"key"} \X Nat) \cup ({"button"} \X (Nat \ Wheels))

TypeOK ==
    /\ <<hub, os>> \in Setups
    /\ hubHeld \subseteq Inputs /\ mask \subseteq Modifiers
    /\ captured \in Seq(Events)
    /\ session \subseteq Spokes
    /\ frames \in [Spokes -> Seq(Events)]
    /\ held \in [Spokes -> SUBSET Controls]
    /\ events \in 0 .. MaxEvents

Init ==
    /\ \E setup \in Setups : hub = setup[1] /\ os = setup[2]
    /\ hubHeld \in SUBSET HeldAtStart
    /\ mask = {} /\ captured = <<>> /\ session = {} /\ events = 0
    /\ frames = [s \in Spokes |-> <<>>]
    /\ held = [s \in Spokes |-> {}]
    /\ seen = [s \in Spokes |-> {}]
-------------------------------------------------------------------------------
(* The hub's side.                                                          *)

\* The code a platform reports for a key, and the tables that read it.
Reported ==
    [x11 |-> hid_to_keysym, windows |-> hid_to_win_vk, macos |-> hid_to_mac]
Reads == [x11 |-> keysym_to_hid, windows |-> vk_to_hid, macos |-> mac_to_hid]

\* Heard[p]: what the capture of p makes of the keys it knows.
Heard ==
    [p \in Platforms |->
        LET known == {u \in DOMAIN Reported[p] : Reported[p][u] \in DOMAIN Reads[p]}
        IN  [u \in known |-> Reads[p][Reported[p][u]]]]

After(S, k, pressed) == IF pressed THEN S \cup {k} ELSE S \ {k}

\* Mutant of Masked: a release leaves the modifier in the mask.
MaskedForGood(u, pressed) == IF u \in Modifiers THEN mask \cup {u} ELSE mask

\* update_modifiers: the mask with this key in it.
Masked(u, pressed) == IF u \in Modifiers THEN After(mask, u, pressed) ELSE mask

Key(u, pressed) ==
    [kind |-> "key", code |-> u, pressed |-> pressed, mask |-> Masked(u, pressed)]
Button(n, pressed) ==
    [kind |-> "button", code |-> n, pressed |-> pressed, mask |-> {}]
Scroll(n) == [kind |-> "scroll", code |-> n, pressed |-> TRUE, mask |-> {}]

\* Mutant of X11Button: no release is sent of any button.
X11ButtonPress(n, pressed) ==
    IF ~pressed THEN <<>>
    ELSE IF n \in Wheels THEN <<Scroll(n)>> ELSE <<Button(n, TRUE)>>

\* handle_button: a wheel's press is a scroll, its release falls through to
\* the arm of the other buttons.
X11Button(n, pressed) ==
    IF n \in Wheels /\ pressed THEN <<Scroll(n)>> ELSE <<Button(n, pressed)>>

\* low_level_mouse_proc: one message for a turn of the vertical wheel, none
\* for the horizontal one and the buttons without a name.
WindowsButton(n, pressed) ==
    IF n \in Named THEN <<Button(n, pressed)>>
    ELSE IF n \in {4, 5} /\ pressed THEN <<Scroll(n)>> ELSE <<>>

\* handle_key, low_level_keyboard_proc: a key the table does not know is
\* dropped before the mask is touched.
KeyEvents(k, pressed) ==
    IF k \in DOMAIN Heard[hub] THEN <<Key(Heard[hub][k], pressed)>> ELSE <<>>

InputEvents(i, pressed) ==
    IF hub = "macos" THEN <<>>
    ELSE IF i[1] = "key" THEN KeyEvents(i[2], pressed)
    ELSE IF hub = "x11" THEN X11Button(i[2], pressed)
    ELSE WindowsButton(i[2], pressed)

\* Windows repeats a key that is held down.
Repeats(i) == hub = "windows" /\ i[1] = "key"

\* An event of the hub's system, dispatched by the capture.
Capture(i, pressed) ==
    /\ events < MaxEvents /\ events' = events + 1
    /\ pressed = (i \notin hubHeld) \/ (pressed /\ Repeats(i))
    /\ hubHeld' = After(hubHeld, i, pressed)
    /\ LET new == InputEvents(i, pressed) IN
       /\ captured' = captured \o new
       /\ mask' = IF new # <<>> /\ i[1] = "key" THEN new[1].mask ELSE mask
    /\ UNCHANGED <<machines, session, frames, held, seen>>

\* The input forwarder broadcasts to the sessions registered now.
Forward ==
    /\ captured # <<>>
    /\ captured' = Tail(captured)
    /\ frames' = [s \in Spokes |->
                    IF s \in session THEN Append(frames[s], Head(captured))
                    ELSE frames[s]]
    /\ UNCHANGED <<machines, hubHeld, mask, session, held, seen, events>>

\* A session is registered.
Join(s) ==
    /\ s \notin session
    /\ session' = session \cup {s}
    /\ UNCHANGED <<machines, hubHeld, mask, captured, frames, held, seen, events>>

\* A session ends: its frames are lost, what s holds stays down.
Leave(s) ==
    /\ s \in session
    /\ session' = session \ {s}
    /\ frames' = [frames EXCEPT ![s] = <<>>]
    /\ seen' = [seen EXCEPT ![s] = {}]
    /\ UNCHANGED <<machines, hubHeld, mask, captured, held, events>>
-------------------------------------------------------------------------------
(* A spoke's side.                                                          *)

\* The code each platform types a usage with.
Typed ==
    [x11 |-> hid_to_keysym, windows |-> hid_to_win_scan, macos |-> hid_to_mac,
     none |-> <<>>]

\* The native key a usage stands for on s: one or none (hid_to_keycode of
\* X11 asks the server's own table as well).
KeyOf(s, u) ==
    LET none == IF os[s] = "x11" THEN NoKeycode ELSE {}
    IN  {<<"key", Typed[os[s]][v]>> : v \in ({u} \ none) \cap DOMAIN Typed[os[s]]}

\* X11 has a code for every button.
button_to_code(n) == {n}

\* Windows turns a button without a name into a move by nothing.
button_flags(n) == {n} \cap Named

\* macOS takes every button but the left and the right one for the middle one.
mouse_event_type(n) == {IF n \in {Left, Right} THEN n ELSE Middle}

ButtonOf(s, n) ==
    {"button"} \X (IF os[s] = "x11" THEN button_to_code(n)
                   ELSE IF os[s] = "windows" THEN button_flags(n)
                   ELSE IF os[s] = "macos" THEN mouse_event_type(n)
                   ELSE {})

\* Mutant of Pressed: a scroll is a press without its release.
PressedByScroll(s, e) ==
    IF e.kind = "key" THEN KeyOf(s, e.code) ELSE ButtonOf(s, e.code)

\* What an event presses or releases; a scroll does both at once.
Pressed(s, e) ==
    IF e.kind = "key" THEN KeyOf(s, e.code)
    ELSE IF e.kind = "button" THEN ButtonOf(s, e.code)
    ELSE {}

Emitted(s, e) ==
    IF e.pressed THEN held[s] \cup Pressed(s, e) ELSE held[s] \ Pressed(s, e)

\* The reader of s takes the next frame and hands it to the emitter.
Emit(s) ==
    /\ frames[s] # <<>>
    /\ frames' = [frames EXCEPT ![s] = Tail(@)]
    /\ held' = [held EXCEPT ![s] = Emitted(s, Head(frames[s]))]
    /\ seen' = [seen EXCEPT ![s] = @ \cup Pressed(s, Head(frames[s]))]
    /\ UNCHANGED <<machines, hubHeld, mask, captured, session, events>>

\* What an emitter that returns an error may leave done: nothing, but for X11,
\* where the request is queued and the flush after it fails.
LeftDone(s, e) == {held[s]} \cup (IF os[s] = "x11" THEN {Emitted(s, e)} ELSE {})

\* ... and drops an error: the key or button stays as it was, a release
\* included, until its next event.
EmitFails(s) ==
    /\ s \in Flaky /\ os[s] # "none"
    /\ frames[s] # <<>>
    /\ frames' = [frames EXCEPT ![s] = Tail(@)]
    /\ \E left \in LeftDone(s, Head(frames[s])) :
          held' = [held EXCEPT ![s] = left]
    /\ seen' = [seen EXCEPT ![s] = @ \ Pressed(s, Head(frames[s]))]
    /\ UNCHANGED <<machines, hubHeld, mask, captured, session, events>>

Next ==
    \/ \E i \in Inputs, pressed \in BOOLEAN : Capture(i, pressed)
    \/ Forward
    \/ \E s \in Spokes : Join(s) \/ Leave(s) \/ Emit(s) \/ EmitFails(s)

Spec == Init /\ [][Next]_vars
-------------------------------------------------------------------------------
\* Nothing is on its way to s.
Drained(s) == captured = <<>> /\ frames[s] = <<>>

\* The native keys and buttons of s that input i of the hub moves.
Reaches(s, i) ==
    UNION {Pressed(s, e) :
            e \in ToSet(InputEvents(i, TRUE) \o InputEvents(i, FALSE))}

\* Once everything has arrived, a spoke holds down a key or button whose last
\* event in this session it has emitted just when the hub holds the one input
\* that moves it, whichever sessions came and went and whichever emissions
\* failed before (capture.rs and emit.rs of the three platforms,
\* client.rs:239-245): an error puts no other key out of step, and the next
\* event of the same key puts it right. Inputs that share a native button are
\* left out: on macOS every button but the left and the right one does.
SpokesInStep ==
    \A s \in session : Drained(s) =>
        \A i \in Inputs \ ({"button"} \X Wheels) :
            \A c \in Reaches(s, i) \cap seen[s] :
                (\A j \in Inputs \ {i} : c \notin Reaches(s, j)) =>
                    (c \in held[s] <=> i \in hubHeld)

\* The modifiers a key frame carries are those the spoke holds when it has
\* emitted it, of the modifiers whose last event in this session it has emitted
\* (pal-x11 capture.rs:237-266, pal-windows capture.rs:139-152;
\* architecture.md: the mask travels with the key).
MaskIsWhatTheSpokeHolds ==
    \A s \in session :
        frames[s] # <<>> /\ Head(frames[s]).kind = "key" =>
            LET e == Head(frames[s]) IN
            \A m \in Modifiers :
                \A c \in KeyOf(s, m) \cap (seen[s] \cup Pressed(s, e)) :
                    m \in e.mask <=> c \in Emitted(s, e)

Misheard == [p \in Platforms |-> {u \in DOMAIN Heard[p] : Heard[p][u] # u}]

Confused ==
    [p \in Emitters |->
        {u \in DOMAIN Typed[p] :
            \E v \in DOMAIN Typed[p] \ {u} : Typed[p][u] = Typed[p][v]}]

\* The tables of a platform are written by hand and agree: a key the capture
\* knows is sent as the key that was pressed, but for Windows, which reports
\* both Enter keys with one code; and no two usages are typed with the same
\* native key, so the release of one never lets go of another (keymap.rs of
\* the three platforms).
KeyTablesAgree ==
    /\ Misheard[hub] \subseteq (IF hub = "windows" THEN {KP_ENTER} ELSE {})
    /\ \A s \in Spokes : Confused[os[s]] = {}
===============================================================================
