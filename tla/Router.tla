-------------------------------- MODULE Router --------------------------------
(***************************************************************************)
(* The edge-crossing router (crates/input-router): the cursor of one node  *)
(* on its screen, the adjacency of the screens, and the modifiers that     *)
(* travel with the cursor. The crate is a library that no binary links     *)
(* yet: its caller, who feeds it mouse deltas and keys and may connect     *)
(* further screens at any time, is external.                               *)
(*                                                                         *)
(* Screens registered with set_screen are left out: nothing reads them.    *)
(***************************************************************************)
EXTENDS Integers, SequencesExt

CONSTANTS
    Nodes, self,
    Screens,                \* pairs of width and height of the local screen
    Half,                   \* i32 holds -Half .. Half - 1
    Deltas,                 \* mouse deltas, of i32
    Mods, OtherKeys,
    MaxConnects, MaxKeys    \* bounds: calls of connect, key events

Edges == {"Left", "Right", "Top", "Bottom"}
Int32 == -Half .. Half - 1

ASSUME RouterAssumption ==
    /\ self \in Nodes /\ Nodes # {self}
    /\ Half \in Nat \ {0}
    /\ Screens \subseteq (0 .. Half - 1) \X (0 .. Half - 1)
    /\ Deltas \subseteq Int32
    /\ Mods \cap OtherKeys = {}
    /\ MaxConnects \in Nat /\ MaxKeys \in Nat

CONSTANT Unknown            \* a node that has not been entered
ASSUME UnknownAssumption == \A mask \in SUBSET Mods : mask # Unknown

VARIABLES
    adjacency,      \* <<node, edge>> -> the node across that edge
    connects,       \* calls of connect so far
    width, height,  \* the local screen
    checked,        \* a build that panics on overflow
    active,         \* the node that has the cursor
    x, y,           \* the cursor on the local screen
    modifiers,      \* ModifierState
    panicked,
    out,            \* what the last call returned
    keyboard,       \* what is down on the local keyboard
    touched,        \* modifiers there has been an event of
    told,           \* told[n]: the modifiers down, from what n was sent
    keys            \* key events so far

layout == <<adjacency, connects>>
screen == <<width, height, checked>>
cursor == <<active, x, y, panicked>>
typing == <<modifiers, keyboard, touched, keys>>
vars == <<layout, screen, cursor, typing, out, told>>

TypeOK ==
    /\ DOMAIN adjacency \subseteq Nodes \X Edges
    /\ Range(adjacency) \subseteq Nodes
    /\ connects \in 0 .. MaxConnects
    /\ <<width, height>> \in Screens /\ checked \in BOOLEAN
    /\ active \in Nodes /\ x \in Int32 /\ y \in Int32
    /\ modifiers \subseteq Mods /\ keyboard \subseteq Mods \cup OtherKeys
    /\ touched \subseteq Mods
    /\ told \in [Nodes -> (SUBSET Mods) \cup {Unknown}]
    /\ keys \in 0 .. MaxKeys

\* Router::new, on a keyboard where something may be down already.
Init ==
    /\ adjacency = <<>> /\ connects = 0
    /\ \E s \in Screens : width = s[1] /\ height = s[2]
    /\ checked \in BOOLEAN
    /\ active = self /\ x = width \div 2 /\ y = height \div 2
    /\ modifiers = {} /\ touched = {} /\ keys = 0
    /\ keyboard \in SUBSET Mods
    /\ panicked = FALSE /\ out = <<>>
    /\ told = [n \in Nodes |-> Unknown]
-------------------------------------------------------------------------------
opposite ==
    [Left |-> "Right", Right |-> "Left", Top |-> "Bottom", Bottom |-> "Top"]

\* Mutant of Linked: the reciprocal entry is forgotten.
LinkedOneWay(from, edge, to) ==
    [k \in DOMAIN adjacency \cup {<<from, edge>>} |->
        IF k = <<from, edge>> THEN to ELSE adjacency[k]]

\* Both entries; each takes the place of an earlier one.
Linked(from, edge, to) ==
    LET back == <<to, opposite[edge]>>
    IN  [k \in DOMAIN adjacency \cup {<<from, edge>>, back} |->
            CASE k = back -> from
              [] k # back /\ k = <<from, edge>> -> to
              [] OTHER -> adjacency[k]]

\* Layout::connect
Connect(from, edge, to) ==
    /\ ~panicked /\ connects < MaxConnects
    /\ connects' = connects + 1
    /\ adjacency' = Linked(from, edge, to)
    /\ UNCHANGED <<screen, cursor, typing, out, told>>

\* Layout::neighbor: one node or none.
Neighbors(edge) ==
    {adjacency[k] : k \in {<<self, edge>>} \cap DOMAIN adjacency}

Wrap(i) == ((i + Half) % (2 * Half)) - Half

\* Mutant of EdgeAt: the last column counts as off the screen.
EdgeAtEarly(p, q) ==
    CASE p < 0 -> {"Left"}
      [] p >= width - 1 -> {"Right"}
      [] q < 0 -> {"Top"}
      [] q >= height -> {"Bottom"}
      [] OTHER -> {}

\* The edge crossed to reach <<p, q>>: x is looked at first.
EdgeAt(p, q) ==
    CASE p < 0 -> {"Left"}
      [] p >= width -> {"Right"}
      [] q < 0 -> {"Top"}
      [] q >= height -> {"Bottom"}
      [] OTHER -> {}

\* Mutant of Clamped: the cursor may rest one past the last pixel.
ClampedPast(p, size) == IF p < 0 THEN 0 ELSE IF p > size THEN size ELSE p

\* i32::clamp(0, size - 1), which panics for a size of 0.
Clamped(p, size) == IF p < 0 THEN 0 ELSE IF p >= size THEN size - 1 ELSE p

Local(event) == <<[target |-> self, remote |-> FALSE, event |-> event]>>
Remote(n, event) == <<[target |-> n, remote |-> TRUE, event |-> event]>>

Move == [kind |-> "move"]
KeyEvent(k, pressed) == [kind |-> "key", code |-> k, pressed |-> pressed]

\* Mutant of Enter: the modifiers stay behind.
EnterBare == [kind |-> "enter", modifiers |-> {}]

Enter == [kind |-> "enter", modifiers |-> modifiers]

\* The pair a crossing to n returns.
Crossing(n) == Remote(self, [kind |-> "leave"]) \o Remote(n, Enter)

Apply(S, k, pressed) == IF pressed THEN S \cup {k} ELSE S \ {k}

\* What n knows of the modifiers after event.
Learns(n, event) ==
    CASE event.kind = "enter" -> event.modifiers
      [] event.kind = "key" /\ event.code \in Mods /\ told[n] # Unknown ->
            Apply(told[n], event.code, event.pressed)
      [] OTHER -> told[n]

\* The call returns r, and the caller sends what it names to other nodes.
Return(r) ==
    /\ out' = r
    /\ told' = [n \in Nodes |->
                    LET mine == {i \in DOMAIN r : r[i].remote /\ r[i].target = n}
                    IN  IF mine = {} \/ n = self THEN told[n]
                        ELSE Learns(n, r[CHOOSE i \in mine : TRUE].event)]

Panic == panicked' = TRUE /\ UNCHANGED <<x, y, active, out, told>>

Cross(n) ==
    /\ active' = n
    /\ x' = width \div 2 /\ y' = height \div 2
    /\ Return(Crossing(n))
    /\ UNCHANGED panicked

Stay(p, q) ==
    IF width = 0 \/ height = 0 THEN Panic
    ELSE /\ x' = Clamped(p, width) /\ y' = Clamped(q, height)
         /\ Return(Local(Move))
         /\ UNCHANGED <<active, panicked>>

\* on_mouse_move
MouseMove(dx, dy) ==
    /\ ~panicked
    /\ IF active # self
       THEN Return(Remote(active, Move)) /\ UNCHANGED <<active, x, y, panicked>>
       ELSE IF checked /\ ~({x + dx, y + dy} \subseteq Int32) THEN Panic
       ELSE LET p == Wrap(x + dx)
                q == Wrap(y + dy)
                next == UNION {Neighbors(e) : e \in EdgeAt(p, q)}
            IN  \/ \E n \in next : Cross(n)
                \/ next = {} /\ Stay(p, q)
    /\ UNCHANGED <<layout, screen, typing>>

\* ModifierState::update
Updated(k, pressed) == IF k \in Mods THEN Apply(modifiers, k, pressed) ELSE modifiers

\* on_key
OnKey(k, pressed) ==
    /\ ~panicked /\ keys < MaxKeys
    /\ keys' = keys + 1
    /\ pressed = (k \notin keyboard)
    /\ keyboard' = Apply(keyboard, k, pressed)
    /\ touched' = touched \cup ({k} \cap Mods)
    /\ modifiers' = Updated(k, pressed)
    /\ LET event == KeyEvent(k, pressed) IN
       Return(IF active = self THEN Local(event) ELSE Remote(active, event))
    /\ UNCHANGED <<layout, screen, cursor>>

Next ==
    \/ \E from, to \in Nodes, edge \in Edges : Connect(from, edge, to)
    \/ \E dx, dy \in Deltas : MouseMove(dx, dy)
    \/ \E k \in Mods \cup OtherKeys, pressed \in BOOLEAN : OnKey(k, pressed)

Spec == Init /\ [][Next]_vars
-------------------------------------------------------------------------------
\* Whatever the deltas, wrapped sums included, a release build with a real
\* screen keeps the cursor on it and does not panic (router.rs:75-94).
CursorOnScreen ==
    width > 0 /\ height > 0 =>
        /\ x \in 0 .. width - 1 /\ y \in 0 .. height - 1
        /\ panicked => checked

\* The cursor, with the types of everything a call leaves behind
\* (router.rs:60-133).
RouterInv == TypeOK /\ CursorOnScreen

\* The node with the cursor has been told the modifiers that are down, by the
\* mask of its Enter and the keys since, wherever they were pressed; so has
\* the router itself (router.rs:98-133, modifier.rs:28-52). Modifiers held
\* since before the router started are not known to anybody.
ReceiverKnowsModifiers ==
    /\ modifiers \cap touched = keyboard \cap touched
    /\ active # self =>
        /\ told[active] # Unknown
        /\ told[active] \cap touched = keyboard \cap touched

\* The cursor crosses only when the delta has taken it off the screen, on the
\* side of the node it crosses to; a sum that overflows comes out on the
\* other side (router.rs:75-90).
CrossesOffTheScreen ==
    [][\A dx, dy \in Deltas : active' # active /\ MouseMove(dx, dy) =>
        LET p == x + dx
            q == y + dy
            off == {e \in Edges : CASE e = "Left" -> p < 0 \/ p >= Half
                                    [] e = "Right" -> p >= width \/ p < -Half
                                    [] e = "Top" -> q < 0 \/ q >= Half
                                    [] e = "Bottom" -> q >= height \/ q < -Half}
        IN  \E e \in off : active' \in Neighbors(e)]_vars

\* Every link has a way back, to the same node or to the one connected there
\* since; no connect leaves a screen one can only walk into (layout.rs:63-68).
EveryLinkHasAWayBack ==
    \A k \in DOMAIN adjacency :
        <<adjacency[k], opposite[k[2]]>> \in DOMAIN adjacency
===============================================================================
