----------------------------- MODULE RouterProofs -----------------------------
(***************************************************************************)
(* Proofs about Router for every set of nodes, every width of the          *)
(* integers, every screen and every delta, and for any number of connects  *)
(* and keys.                                                               *)
(*                                                                         *)
(* The invariants are inductive together. Two facts carry them: a wrapped  *)
(* sum is an integer of the same width and differs from the sum only by a  *)
(* whole turn (WrapFacts), and of all nodes only the one an answer names   *)
(* learns anything from it (ReturnLocal, ReturnRemote, ReturnCrossing).    *)
(***************************************************************************)
EXTENDS Router, SequenceTheorems, TLAPS

\* Wrap is arithmetic modulo the width of i32: on what two integers of that
\* width can sum to, it is the identity in range and one turn off out of range.
LEMMA WrapFacts ==
    ASSUME NEW s \in Int, s >= -2 * Half, s <= 2 * Half - 2
    PROVE  /\ Wrap(s) \in Int32
           /\ s \in Int32 => Wrap(s) = s
           /\ s >= Half => Wrap(s) = s - 2 * Half
           /\ s < -Half => Wrap(s) = s + 2 * Half
<1>1. Half \in Nat \ {0}
    BY RouterAssumption
<1>2. (s + Half) % (2 * Half) \in 0 .. 2 * Half - 1
    BY <1>1
<1>3. s >= -Half /\ s <= Half - 1 => (s + Half) % (2 * Half) = s + Half
    BY <1>1
<1>4. s >= Half => (s + Half) % (2 * Half) = s + Half - 2 * Half
    BY <1>1
<1>5. s < -Half => (s + Half) % (2 * Half) = s + Half + 2 * Half
    BY <1>1
<1> QED BY <1>1, <1>2, <1>3, <1>4, <1>5 DEF Wrap, Int32

\* The local screen and its centre are in the range of i32.
LEMMA ScreenFacts ==
    ASSUME TypeOK
    PROVE  /\ width \in 0 .. Half - 1 /\ height \in 0 .. Half - 1
           /\ width \div 2 \in Int32 /\ height \div 2 \in Int32
           /\ width > 0 => width \div 2 \in 0 .. width - 1
           /\ height > 0 => height \div 2 \in 0 .. height - 1
<1>1. width \in 0 .. Half - 1 /\ height \in 0 .. Half - 1
    BY RouterAssumption DEF TypeOK
<1>2. ASSUME NEW d \in 0 .. Half - 1
      PROVE  d \div 2 \in Int32 /\ (d > 0 => d \div 2 \in 0 .. d - 1)
    BY <1>2, RouterAssumption DEF Int32
<1> QED BY <1>1, <1>2

\* What a call with a local answer tells other nodes: nothing.
LEMMA ReturnLocal ==
    ASSUME TypeOK, NEW event, Return(Local(event))
    PROVE  told' = told
BY DEF Return, Local, TypeOK

\* What a call with one remote answer tells other nodes.
LEMMA ReturnRemote ==
    ASSUME TypeOK, NEW n \in Nodes \ {self}, NEW event, Return(Remote(n, event))
    PROVE  told' = [told EXCEPT ![n] = Learns(n, event)]
<1> DEFINE r == Remote(n, event)
           mine(m) == {i \in DOMAIN r : r[i].remote /\ r[i].target = m}
<1>1. DOMAIN r = {1} /\ r[1] = [target |-> n, remote |-> TRUE, event |-> event]
    BY DEF Remote
<1>2. mine(n) = {1} /\ \A m \in Nodes \ {n} : mine(m) = {}
    BY <1>1
<1>3. \A m \in Nodes : told'[m] = IF mine(m) = {} \/ m = self THEN told[m]
                                  ELSE Learns(m, r[CHOOSE i \in mine(m) : TRUE].event)
    BY DEF Return
<1>4. (CHOOSE i \in mine(n) : TRUE) = 1
    BY <1>2
<1>5. told'[n] = Learns(n, event)
    BY <1>1, <1>2, <1>3, <1>4
<1>6. \A m \in Nodes \ {n} : told'[m] = told[m]
    BY <1>2, <1>3
<1>7. told' = [m \in Nodes |-> told'[m]]
    BY DEF Return
<1> HIDE DEF mine, r
<1> QED BY <1>5, <1>6, <1>7 DEF TypeOK

\* A crossing tells the node it enters the modifiers, and nobody else anything.
LEMMA ReturnCrossing ==
    ASSUME TypeOK, NEW n \in Nodes, Return(Crossing(n))
    PROVE  told' = IF n = self THEN told ELSE [told EXCEPT ![n] = modifiers]
<1> DEFINE r == Crossing(n)
           mine(m) == {i \in DOMAIN r : r[i].remote /\ r[i].target = m}
           first == [target |-> self, remote |-> TRUE, event |-> [kind |-> "leave"]]
           second == [target |-> n, remote |-> TRUE, event |-> Enter]
<1>1. r = <<first, second>>
    <2>1. \A a, b : <<a>> \o <<b>> = <<a, b>>
        <3> TAKE a, b
        <3>1. <<a>> \in Seq({a, b}) /\ <<b>> \in Seq({a, b})
            OBVIOUS
        <3> DEFINE c == <<a>> \o <<b>>
        <3>2. c \in Seq({a, b}) /\ Len(c) = 2
            BY <3>1, ConcatProperties
        <3>3. c[1] = a /\ c[2] = b
            BY <3>1, ConcatProperties
        <3> HIDE DEF c
        <3>4. c = <<a, b>>
            BY <3>2, <3>3
        <3> QED BY <3>4 DEF c
    <2> QED BY <2>1 DEF Crossing, Remote
<1>2. /\ DOMAIN r = {1, 2} /\ r[1] = first /\ r[2] = second
    BY <1>1
<1> HIDE DEF r
<1>3. \A m \in Nodes \ {self} : mine(m) = IF m = n THEN {2} ELSE {}
    BY <1>2
<1>4. \A m \in Nodes : told'[m] = IF mine(m) = {} \/ m = self THEN told[m]
                                  ELSE Learns(m, r[CHOOSE i \in mine(m) : TRUE].event)
    BY DEF Return, r
<1>5. n # self => told'[n] = modifiers
    <2>1. SUFFICES ASSUME n # self PROVE told'[n] = modifiers
        OBVIOUS
    <2>2. mine(n) = {2}
        BY <1>3, <2>1
    <2>3. (CHOOSE i \in mine(n) : TRUE) = 2
        BY <2>2
    <2>4. told'[n] = Learns(n, Enter)
        BY <1>2, <1>4, <2>1, <2>2, <2>3
    <2> QED BY <2>4 DEF Learns, Enter
<1>6. \A m \in Nodes \ {n} : told'[m] = told[m]
    BY <1>3, <1>4
<1>7. n = self => told'[n] = told[n]
    BY <1>4
<1>8. told' = [m \in Nodes |-> told'[m]]
    BY DEF Return
<1> HIDE DEF mine
<1> QED BY <1>5, <1>6, <1>7, <1>8 DEF TypeOK
-------------------------------------------------------------------------------
\* Each edge has an opposite, and is the opposite of that.
LEMMA OppositeFacts ==
    \A e \in Edges : opposite[e] \in Edges /\ opposite[opposite[e]] = e
BY DEF Edges, opposite

\* What a connect leaves in the layout: the two entries of the new link, and
\* those of the earlier ones it has not taken the place of.
LEMMA ConnectFacts ==
    ASSUME TypeOK, NEW from \in Nodes, NEW to \in Nodes, NEW edge \in Edges,
           Connect(from, edge, to),
           NEW back, back = <<to, opposite[edge]>>
    PROVE  /\ DOMAIN adjacency' = DOMAIN adjacency \cup {<<from, edge>>, back}
           /\ DOMAIN adjacency' \subseteq Nodes \X Edges
           /\ Range(adjacency') \subseteq Nodes
           /\ adjacency'[back] = from
           /\ <<from, edge>> # back => adjacency'[<<from, edge>>] = to
           /\ \A k \in DOMAIN adjacency \ {<<from, edge>>, back} :
                 adjacency'[k] = adjacency[k]
<1>1. /\ DOMAIN adjacency' = DOMAIN adjacency \cup {<<from, edge>>, back}
      /\ \A k \in DOMAIN adjacency' :
            adjacency'[k] = CASE k = back -> from
                              [] k # back /\ k = <<from, edge>> -> to
                              [] OTHER -> adjacency[k]
    BY DEF Connect, Linked
<1>2. /\ DOMAIN adjacency \subseteq Nodes \X Edges
      /\ \A k \in DOMAIN adjacency : adjacency[k] \in Nodes
    BY DEF TypeOK, Range
<1>3. DOMAIN adjacency' \subseteq Nodes \X Edges
    BY <1>1, <1>2, OppositeFacts
<1>4. \A k \in DOMAIN adjacency' : adjacency'[k] \in Nodes
    BY <1>1, <1>2
<1>5. Range(adjacency') \subseteq Nodes
    BY <1>4 DEF Range
<1>6. /\ adjacency'[back] = from
      /\ <<from, edge>> # back => adjacency'[<<from, edge>>] = to
      /\ \A k \in DOMAIN adjacency \ {<<from, edge>>, back} :
            adjacency'[k] = adjacency[k]
    BY <1>1
<1> QED BY <1>1, <1>3, <1>5, <1>6

\* A key changes what is down by that key only.
LEMMA ApplyFacts ==
    ASSUME NEW S, NEW k, NEW pressed \in BOOLEAN
    PROVE  /\ (k \in Apply(S, k, pressed)) <=> pressed
           /\ Apply(S, k, pressed) \ {k} = S \ {k}
BY DEF Apply
-------------------------------------------------------------------------------
\* The invariants of Router, which are inductive together.
Inv == TypeOK /\ CursorOnScreen /\ ReceiverKnowsModifiers /\ EveryLinkHasAWayBack

\* A router starts with the cursor in the middle of its screen, no link and
\* no modifier it has heard of (router.rs:46-58).
LEMMA InvInit == Init => Inv
<1> SUFFICES ASSUME Init PROVE Inv
    OBVIOUS
<1>1. <<width, height>> \in Screens
    BY RouterAssumption DEF Init
<1>2. width \in 0 .. Half - 1 /\ height \in 0 .. Half - 1
    BY <1>1, RouterAssumption
<1>3. \A d \in 0 .. Half - 1 :
         d \div 2 \in Int32 /\ (d > 0 => d \div 2 \in 0 .. d - 1)
    BY RouterAssumption DEF Int32
<1>4. DOMAIN adjacency = {} /\ Range(adjacency) = {}
    BY DEF Init, Range
<1>5. TypeOK
    BY <1>1, <1>2, <1>3, <1>4, RouterAssumption DEF Init, TypeOK
<1>6. CursorOnScreen
    BY <1>2, <1>3 DEF Init, CursorOnScreen
<1>7. ReceiverKnowsModifiers
    BY DEF Init, ReceiverKnowsModifiers
<1>8. EveryLinkHasAWayBack
    BY <1>4 DEF EveryLinkHasAWayBack
<1> QED BY <1>5, <1>6, <1>7, <1>8 DEF Inv

\* Connecting two screens (layout.rs:63-68).
LEMMA ConnectInv ==
    ASSUME Inv, NEW from \in Nodes, NEW to \in Nodes, NEW edge \in Edges,
           Connect(from, edge, to)
    PROVE  Inv'
<1> USE DEF Inv
<1> DEFINE back == <<to, opposite[edge]>>
<1>1. /\ connects < MaxConnects /\ connects' = connects + 1
      /\ UNCHANGED <<screen, cursor, typing, out, told>>
    BY DEF Connect
<1>2. /\ DOMAIN adjacency' = DOMAIN adjacency \cup {<<from, edge>>, back}
      /\ DOMAIN adjacency' \subseteq Nodes \X Edges
      /\ Range(adjacency') \subseteq Nodes
      /\ adjacency'[back] = from
      /\ <<from, edge>> # back => adjacency'[<<from, edge>>] = to
      /\ \A k \in DOMAIN adjacency \ {<<from, edge>>, back} :
            adjacency'[k] = adjacency[k]
    BY ConnectFacts
<1>3. TypeOK'
    BY <1>1, <1>2, RouterAssumption DEF TypeOK, screen, cursor, typing
<1>4. CursorOnScreen' /\ ReceiverKnowsModifiers'
    BY <1>1 DEF CursorOnScreen, ReceiverKnowsModifiers, screen, cursor, typing
<1>5. EveryLinkHasAWayBack'
    <2> SUFFICES ASSUME NEW k \in DOMAIN adjacency'
                 PROVE  <<adjacency'[k], opposite[k[2]]>> \in DOMAIN adjacency'
        BY DEF EveryLinkHasAWayBack
    <2>1. CASE k = back
        BY <1>2, <2>1, OppositeFacts
    <2>2. CASE k = <<from, edge>> /\ k # back
        BY <1>2, <2>2
    <2>3. CASE k \in DOMAIN adjacency \ {<<from, edge>>, back}
        BY <1>2, <2>3 DEF EveryLinkHasAWayBack
    <2> QED BY <1>2, <2>1, <2>2, <2>3
<1> QED BY <1>3, <1>4, <1>5

\* The one edge whose comparison a point meets first, if any (router.rs:78-88).
LEMMA EdgeAtFacts ==
    ASSUME NEW p, NEW q, NEW e \in EdgeAt(p, q)
    PROVE  /\ e \in Edges
           /\ e = "Left" => p < 0
           /\ e = "Right" => p >= width
           /\ e = "Top" => q < 0
           /\ e = "Bottom" => q >= height
BY DEF EdgeAt, Edges

\* A node across an edge is a node.
LEMMA NeighborFacts ==
    ASSUME TypeOK, NEW e, NEW n \in Neighbors(e)
    PROVE  n \in Nodes
BY DEF TypeOK, Neighbors, Range

\* A mouse delta (router.rs:60-118): it is forwarded, panics, crosses, or
\* moves the cursor on the local screen.
LEMMA MouseMoveCases ==
    ASSUME NEW dx, NEW dy, MouseMove(dx, dy)
    PROVE  /\ UNCHANGED <<layout, screen, typing>>
           /\ \/ /\ active # self
                 /\ Return(Remote(active, Move))
                 /\ UNCHANGED <<active, x, y, panicked>>
              \/ /\ active = self
                 /\ checked \/ width = 0 \/ height = 0
                 /\ Panic
              \/ /\ active = self
                 /\ checked => {x + dx, y + dy} \subseteq Int32
                 /\ \E e \in EdgeAt(Wrap(x + dx), Wrap(y + dy)) :
                      \E n \in Neighbors(e) : Cross(n)
              \/ /\ active = self /\ width # 0 /\ height # 0
                 /\ x' = Clamped(Wrap(x + dx), width)
                 /\ y' = Clamped(Wrap(y + dy), height)
                 /\ Return(Local(Move))
                 /\ UNCHANGED <<active, panicked>>
<1> DEFINE next == UNION {Neighbors(e) : e \in EdgeAt(Wrap(x + dx), Wrap(y + dy))}
<1>1. CASE active # self
    BY <1>1 DEF MouseMove
<1>2. CASE active = self /\ checked /\ ~({x + dx, y + dy} \subseteq Int32)
    BY <1>2 DEF MouseMove
<1>3. CASE active = self /\ ~(checked /\ ~({x + dx, y + dy} \subseteq Int32))
    <2>1. /\ UNCHANGED <<layout, screen, typing>>
          /\ \/ \E n \in next : Cross(n)
             \/ next = {} /\ Stay(Wrap(x + dx), Wrap(y + dy))
        BY <1>3 DEF MouseMove
    <2>2. CASE \E n \in next : Cross(n)
        BY <1>3, <2>1, <2>2
    <2>3. CASE Stay(Wrap(x + dx), Wrap(y + dy))
        BY <1>3, <2>1, <2>3 DEF Stay
    <2> QED BY <2>1, <2>2, <2>3
<1> QED BY <1>1, <1>2, <1>3

\* A mouse delta keeps the cursor on its screen, and a crossing tells the node
\* it enters what is down (router.rs:60-118).
LEMMA MouseMoveInv ==
    ASSUME Inv, NEW dx \in Deltas, NEW dy \in Deltas, MouseMove(dx, dy)
    PROVE  Inv'
<1> USE DEF Inv
<1>1. UNCHANGED <<adjacency, connects, width, height, checked, modifiers,
                  keyboard, touched, keys>>
    BY MouseMoveCases DEF layout, screen, typing
<1>2. ASSUME /\ active' \in Nodes /\ x' \in Int32 /\ y' \in Int32
             /\ told' \in [Nodes -> (SUBSET Mods) \cup {Unknown}]
      PROVE  TypeOK'
    BY <1>1, <1>2 DEF TypeOK
<1>3. EveryLinkHasAWayBack'
    BY <1>1 DEF EveryLinkHasAWayBack
<1>4. CASE /\ active # self
           /\ Return(Remote(active, Move))
           /\ UNCHANGED <<active, x, y, panicked>>
    <2>1. active \in Nodes \ {self}
        BY <1>4 DEF TypeOK
    <2>2. Learns(active, Move) = told[active]
        BY DEF Learns, Move
    <2>3. told' = told
        BY <1>4, <2>1, <2>2, ReturnRemote DEF TypeOK
    <2>4. TypeOK'
        BY <1>2, <1>4, <2>3 DEF TypeOK
    <2> QED BY <1>1, <1>3, <1>4, <2>3, <2>4 DEF CursorOnScreen, ReceiverKnowsModifiers
<1>5. CASE /\ checked \/ width = 0 \/ height = 0
           /\ Panic
    <2>1. UNCHANGED <<active, x, y, told>> /\ panicked'
        BY <1>5 DEF Panic
    <2>2. TypeOK'
        BY <1>2, <2>1 DEF TypeOK
    <2>3. CursorOnScreen'
        BY <1>1, <1>5, <2>1 DEF CursorOnScreen
    <2> QED BY <1>1, <1>3, <2>1, <2>2, <2>3 DEF ReceiverKnowsModifiers
<1>6. CASE \E e \in EdgeAt(Wrap(x + dx), Wrap(y + dy)) :
             \E n \in Neighbors(e) : Cross(n)
    <2>1. PICK n \in Nodes : Cross(n)
        BY <1>6, NeighborFacts
    <2>2. /\ active' = n /\ panicked' = panicked
          /\ x' = width \div 2 /\ y' = height \div 2
          /\ Return(Crossing(n))
        BY <2>1 DEF Cross
    <2>3. told' = IF n = self THEN told ELSE [told EXCEPT ![n] = modifiers]
        BY <2>2, ReturnCrossing
    <2>4. TypeOK'
        BY <1>2, <2>2, <2>3, ScreenFacts DEF TypeOK
    <2>5. CursorOnScreen'
        BY <1>1, <2>2, ScreenFacts DEF CursorOnScreen
    <2>6. ReceiverKnowsModifiers'
        <3>1. modifiers # Unknown
            BY UnknownAssumption DEF TypeOK
        <3> QED BY <1>1, <2>2, <2>3, <3>1 DEF ReceiverKnowsModifiers, TypeOK
    <2> QED BY <1>3, <2>4, <2>5, <2>6
<1>7. CASE /\ active = self /\ width # 0 /\ height # 0
           /\ x' = Clamped(Wrap(x + dx), width)
           /\ y' = Clamped(Wrap(y + dy), height)
           /\ Return(Local(Move))
           /\ UNCHANGED <<active, panicked>>
    <2>1. told' = told
        BY <1>7, ReturnLocal
    <2>2. /\ width \in 1 .. Half - 1 /\ height \in 1 .. Half - 1
          /\ Half \in Nat \ {0}
        BY <1>7, ScreenFacts, RouterAssumption
    <2>3. Wrap(x + dx) \in Int /\ Wrap(y + dy) \in Int
        <3>1. x \in Int32 /\ y \in Int32 /\ dx \in Int32 /\ dy \in Int32
            BY RouterAssumption DEF TypeOK
        <3>2. \A a, b \in Int32 : a + b \in Int /\ a + b >= -2 * Half
                                  /\ a + b <= 2 * Half - 2
            BY <2>2 DEF Int32
        <3>3. Int32 \subseteq Int
            BY <2>2 DEF Int32
        <3> QED BY <3>1, <3>2, <3>3, WrapFacts
    <2>4. \A p \in Int : \A size \in 1 .. Half - 1 :
             Clamped(p, size) \in 0 .. size - 1 /\ Clamped(p, size) \in Int32
        BY <2>2 DEF Clamped, Int32
    <2>5. x' \in 0 .. width - 1 /\ y' \in 0 .. height - 1
          /\ x' \in Int32 /\ y' \in Int32
        BY <1>7, <2>2, <2>3, <2>4
    <2>6. TypeOK'
        BY <1>2, <1>7, <2>1, <2>5 DEF TypeOK
    <2>7. CursorOnScreen' /\ ReceiverKnowsModifiers'
        BY <1>1, <1>7, <2>1, <2>5 DEF CursorOnScreen, ReceiverKnowsModifiers
    <2> QED BY <1>3, <2>6, <2>7
<1> QED BY <1>4, <1>5, <1>6, <1>7, MouseMoveCases

\* A key updates the modifiers of the router and of the node with the cursor
\* alike (router.rs:120-133, modifier.rs:28-52).
LEMMA OnKeyInv ==
    ASSUME Inv, NEW k \in Mods \cup OtherKeys, NEW pressed \in BOOLEAN,
           OnKey(k, pressed)
    PROVE  Inv'
<1> USE DEF Inv
<1> DEFINE event == KeyEvent(k, pressed)
<1>1. /\ keys < MaxKeys /\ keys' = keys + 1
      /\ keyboard' = Apply(keyboard, k, pressed)
      /\ touched' = touched \cup ({k} \cap Mods)
      /\ modifiers' = Updated(k, pressed)
      /\ Return(IF active = self THEN Local(event) ELSE Remote(active, event))
      /\ UNCHANGED <<adjacency, connects, width, height, checked, active, x, y,
                     panicked>>
    BY DEF OnKey, layout, screen, cursor
<1>2. modifiers' = IF k \in Mods THEN Apply(modifiers, k, pressed) ELSE modifiers
    BY <1>1 DEF Updated
<1>3. active = self => told' = told
    BY <1>1, ReturnLocal
<1>4. active # self =>
         told' = [told EXCEPT ![active] =
                    IF k \in Mods THEN Apply(told[active], k, pressed)
                    ELSE told[active]]
    <2>1. SUFFICES ASSUME active # self
                   PROVE  told' = [told EXCEPT ![active] =
                                    IF k \in Mods THEN Apply(told[active], k, pressed)
                                    ELSE told[active]]
        OBVIOUS
    <2>2. told' = [told EXCEPT ![active] = Learns(active, event)]
        BY <1>1, <2>1, ReturnRemote DEF TypeOK
    <2>3. told[active] # Unknown
        BY <2>1 DEF ReceiverKnowsModifiers
    <2>4. Learns(active, event) = IF k \in Mods THEN Apply(told[active], k, pressed)
                                  ELSE told[active]
        BY <2>3 DEF Learns, KeyEvent
    <2> QED BY <2>2, <2>4
<1>5. k \in Mods => \A S \in SUBSET Mods :
         Apply(S, k, pressed) \in SUBSET Mods /\ Apply(S, k, pressed) # Unknown
    BY UnknownAssumption DEF Apply
<1>6. active # self => told[active] \in SUBSET Mods
    BY DEF TypeOK, ReceiverKnowsModifiers
<1>7. TypeOK'
    <2>1. keyboard' \subseteq Mods \cup OtherKeys /\ modifiers' \subseteq Mods
        BY <1>1, <1>2, <1>5 DEF TypeOK, Apply
    <2>2. told' \in [Nodes -> (SUBSET Mods) \cup {Unknown}]
        BY <1>3, <1>4, <1>5, <1>6 DEF TypeOK
    <2>3. keys' \in 0 .. MaxKeys
        BY <1>1, RouterAssumption DEF TypeOK
    <2> QED BY <1>1, <2>1, <2>2, <2>3 DEF TypeOK
<1>8. CursorOnScreen' /\ EveryLinkHasAWayBack'
    BY <1>1 DEF CursorOnScreen, EveryLinkHasAWayBack
<1>9. ReceiverKnowsModifiers'
    <2>1. ASSUME NEW S, S \cap touched = keyboard \cap touched
          PROVE  (IF k \in Mods THEN Apply(S, k, pressed) ELSE S) \cap touched'
                    = keyboard' \cap touched'
        <3>1. touched \subseteq Mods
            BY DEF TypeOK
        <3> QED BY <1>1, <2>1, <3>1, ApplyFacts DEF Apply
    <2>2. modifiers' \cap touched' = keyboard' \cap touched'
        BY <1>2, <2>1 DEF ReceiverKnowsModifiers
    <2>3. ASSUME active' # self
          PROVE  told'[active'] # Unknown
                 /\ told'[active'] \cap touched' = keyboard' \cap touched'
        <3>1. active' = active /\ active \in Nodes
            BY <1>1 DEF TypeOK
        <3>2. told'[active] = IF k \in Mods THEN Apply(told[active], k, pressed)
                              ELSE told[active]
            BY <1>4, <2>3, <3>1 DEF TypeOK
        <3>3. told[active] # Unknown /\ told[active] \cap touched = keyboard \cap touched
            BY <2>3, <3>1 DEF ReceiverKnowsModifiers
        <3> QED BY <1>5, <1>6, <2>1, <2>3, <3>1, <3>2, <3>3
    <2> QED BY <2>2, <2>3 DEF ReceiverKnowsModifiers
<1> QED BY <1>7, <1>8, <1>9

\* Every step of the router keeps the invariants.
LEMMA InvNext == Inv /\ [Next]_vars => Inv'
<1> SUFFICES ASSUME Inv, [Next]_vars PROVE Inv'
    OBVIOUS
<1>1. ASSUME NEW from \in Nodes, NEW to \in Nodes, NEW edge \in Edges,
             Connect(from, edge, to)
      PROVE  Inv'
    BY <1>1, ConnectInv
<1>2. ASSUME NEW dx \in Deltas, NEW dy \in Deltas, MouseMove(dx, dy)
      PROVE  Inv'
    BY <1>2, MouseMoveInv
<1>3. ASSUME NEW k \in Mods \cup OtherKeys, NEW pressed \in BOOLEAN,
             OnKey(k, pressed)
      PROVE  Inv'
    BY <1>3, OnKeyInv
<1>4. CASE UNCHANGED vars
    BY <1>4 DEF Inv, TypeOK, CursorOnScreen, ReceiverKnowsModifiers,
        EveryLinkHasAWayBack, vars, layout, screen, cursor, typing
<1> QED BY <1>1, <1>2, <1>3, <1>4 DEF Next

\* The router keeps its inductive invariant in every behaviour.
THEOREM InvAlways == Spec => []Inv
<1>1. Init => Inv
    BY InvInit
<1>2. Inv /\ [Next]_vars => Inv'
    BY InvNext
<1> QED BY <1>1, <1>2, PTL DEF Spec

\* A release build with a real screen keeps the cursor on it and does not
\* panic, whatever the deltas (router.rs:60-133).
THEOREM CursorStaysOnScreen == Spec => []RouterInv
<1>1. Inv => RouterInv
    BY DEF Inv, RouterInv
<1> QED BY <1>1, InvAlways, PTL

\* The node with the cursor knows which modifiers are down, however often the
\* cursor and the keys have been elsewhere (router.rs:98-133).
THEOREM ModifiersFollowTheCursor == Spec => []ReceiverKnowsModifiers
<1>1. Inv => ReceiverKnowsModifiers
    BY DEF Inv
<1> QED BY <1>1, InvAlways, PTL

\* No sequence of connects leaves a link without a way back (layout.rs:63-68).
THEOREM LinksLeadBack == Spec => []EveryLinkHasAWayBack
<1>1. Inv => EveryLinkHasAWayBack
    BY DEF Inv
<1> QED BY <1>1, InvAlways, PTL
-------------------------------------------------------------------------------
\* Where a wrapped coordinate says the cursor went: off the low side it is the
\* delta that took it there, or a sum that overflowed; likewise the high side.
LEMMA WrappedSides ==
    ASSUME NEW a \in Int32, NEW b \in Int32, NEW size \in 0 .. Half - 1
    PROVE  /\ Wrap(a + b) < 0 => a + b < 0 \/ a + b >= Half
           /\ Wrap(a + b) >= size => a + b >= size \/ a + b < -Half
<1>1. Half \in Nat \ {0} /\ Int32 = -Half .. Half - 1
    BY RouterAssumption DEF Int32
<1>2. \A s \in {a + b} :
         /\ Wrap(s) < 0 => s < 0 \/ s >= Half
         /\ Wrap(s) >= size => s >= size \/ s < -Half
    <2> TAKE s \in {a + b}
    <2>1. s \in Int /\ s >= -2 * Half /\ s <= 2 * Half - 2
        BY <1>1
    <2>2. s \in Int32 \/ s >= Half \/ s < -Half
        BY <1>1, <2>1
    <2>3. /\ s \in Int32 => Wrap(s) = s
          /\ s >= Half => Wrap(s) = s - 2 * Half
          /\ s < -Half => Wrap(s) = s + 2 * Half
        BY <2>1, WrapFacts
    <2> QED BY <1>1, <2>1, <2>2, <2>3
<1> QED BY <1>2

\* A delta that changes the node takes the cursor off the screen on the side
\* of that node (router.rs:75-90).
LEMMA MouseMoveCrosses ==
    ASSUME TypeOK, NEW dx \in Deltas, NEW dy \in Deltas, MouseMove(dx, dy),
           active' # active
    PROVE  \E e \in Edges :
             /\ CASE e = "Left" -> x + dx < 0 \/ x + dx >= Half
                  [] e = "Right" -> x + dx >= width \/ x + dx < -Half
                  [] e = "Top" -> y + dy < 0 \/ y + dy >= Half
                  [] e = "Bottom" -> y + dy >= height \/ y + dy < -Half
             /\ active' \in Neighbors(e)
<1>1. \E e \in EdgeAt(Wrap(x + dx), Wrap(y + dy)) :
         \E n \in Neighbors(e) : Cross(n)
    BY MouseMoveCases DEF Panic
<1>2. PICK e \in EdgeAt(Wrap(x + dx), Wrap(y + dy)) : active' \in Neighbors(e)
    BY <1>1 DEF Cross
<1>3. /\ e \in Edges
      /\ e = "Left" => Wrap(x + dx) < 0
      /\ e = "Right" => Wrap(x + dx) >= width
      /\ e = "Top" => Wrap(y + dy) < 0
      /\ e = "Bottom" => Wrap(y + dy) >= height
    BY EdgeAtFacts
<1>4. /\ x \in Int32 /\ y \in Int32 /\ dx \in Int32 /\ dy \in Int32
      /\ width \in 0 .. Half - 1 /\ height \in 0 .. Half - 1
    BY ScreenFacts, RouterAssumption DEF TypeOK
<1>5. /\ Wrap(x + dx) < 0 => x + dx < 0 \/ x + dx >= Half
      /\ Wrap(x + dx) >= width => x + dx >= width \/ x + dx < -Half
      /\ Wrap(y + dy) < 0 => y + dy < 0 \/ y + dy >= Half
      /\ Wrap(y + dy) >= height => y + dy >= height \/ y + dy < -Half
    BY <1>4, WrappedSides
<1>6. CASE e = "Left"
    BY <1>2, <1>3, <1>5, <1>6
<1>7. CASE e = "Right"
    BY <1>2, <1>3, <1>5, <1>7
<1>8. CASE e = "Top"
    BY <1>2, <1>3, <1>5, <1>8
<1>9. CASE e = "Bottom"
    BY <1>2, <1>3, <1>5, <1>9
<1> QED BY <1>3, <1>6, <1>7, <1>8, <1>9 DEF Edges

\* The cursor never crosses but to the side the delta took it off the screen,
\* or the other one when the sum overflows (router.rs:75-90).
THEOREM CrossingIsOffTheScreen == Spec => CrossesOffTheScreen
<1> DEFINE Crosses ==
        \A dx, dy \in Deltas : active' # active /\ MouseMove(dx, dy) =>
            LET p == x + dx
                q == y + dy
                off == {e \in Edges : CASE e = "Left" -> p < 0 \/ p >= Half
                                        [] e = "Right" -> p >= width \/ p < -Half
                                        [] e = "Top" -> q < 0 \/ q >= Half
                                        [] e = "Bottom" -> q >= height \/ q < -Half}
            IN  \E e \in off : active' \in Neighbors(e)
<1>1. Inv /\ [Next]_vars => Crosses
    BY MouseMoveCrosses DEF Inv
<1>2. Inv /\ [Next]_vars => [Crosses]_vars
    BY <1>1
<1>3. Spec => [][Crosses]_vars
    BY <1>2, InvAlways, PTL DEF Spec
<1> QED BY <1>3, PTL DEF CrossesOffTheScreen
===============================================================================
