---------------------------- MODULE ClipSyncProofs ----------------------------
(***************************************************************************)
(* Proofs about ClipSync for every set of spokes, every set of desktops,   *)
(* every history limit and every number of copies.                         *)
(*                                                                         *)
(* The clocks: an engine's clock bounds the version of everything the node *)
(* has put on its way (Bounds); snapshots travel only away from their      *)
(* origin (Origins); so a peer whose clock is behind is always about to    *)
(* hear of the difference (HubReaches, SpokeReaches).                      *)
(*                                                                         *)
(* The order: a clock bounds every snapshot of its node wherever a copy is *)
(* held (OriginClocks), and each stage on the way out of an origin holds   *)
(* older snapshots than the stages before it (OrderInv).                   *)
(*                                                                         *)
(* The desktops: a step seen from one node is one of six (SeesStep); every *)
(* text is one that somebody has copied (KnownTexts); what a spoke shows   *)
(* once its reader is done, its watcher's baseline and its newest entry    *)
(* belong together (Shows); and while one text is about, the desktops that *)
(* have announced it bound every clock (EchoInv).                          *)
(*                                                                         *)
(* The refinement: a node owes a peer what its outbox, the link and its    *)
(* readers hold (Owes); only Produce and Receive change that, and the      *)
(* order of the queues makes a debt end once (OwedOnce).                   *)
(*                                                                         *)
(* The winner: under the version of its clock the hub sends its newest     *)
(* snapshot and no other (Leads).                                          *)
(***************************************************************************)
EXTENDS ClipSync, SequenceTheorems, FiniteSetTheorems, TLAPS

\* What the elements of a queue are after an Append.
LEMMA AppendElements ==
    ASSUME NEW S, NEW q \in Seq(S), NEW x \in S
    PROVE  /\ Append(q, x) \in Seq(S)
           /\ ToSet(Append(q, x)) = ToSet(q) \cup {x}
<1>1. /\ Append(q, x) \in Seq(S)
      /\ Len(Append(q, x)) = Len(q) + 1
      /\ \A i \in 1 .. Len(q) : Append(q, x)[i] = q[i]
      /\ Append(q, x)[Len(q) + 1] = x
    OBVIOUS
<1>2. DOMAIN q = 1 .. Len(q) /\ DOMAIN Append(q, x) = 1 .. Len(q) + 1
    BY <1>1
<1>3. Len(q) \in Nat
    OBVIOUS
<1>4. 1 .. Len(q) + 1 = (1 .. Len(q)) \cup {Len(q) + 1}
    BY <1>3
<1> QED BY <1>1, <1>2, <1>4 DEF ToSet

\* What a non-empty queue holds: its head, and what remains after taking it.
LEMMA TailElements ==
    ASSUME NEW S, NEW q \in Seq(S), q # <<>>
    PROVE  /\ Head(q) \in S
           /\ Head(q) \in ToSet(q)
           /\ Tail(q) \in Seq(S)
           /\ ToSet(q) = {Head(q)} \cup ToSet(Tail(q))
<1>1. /\ Head(q) \in S /\ Tail(q) \in Seq(S)
      /\ Len(q) \in Nat \ {0}
      /\ Head(q) = q[1]
      /\ Len(Tail(q)) = Len(q) - 1
      /\ \A i \in 1 .. Len(q) - 1 : Tail(q)[i] = q[i + 1]
    OBVIOUS
<1>2. DOMAIN q = 1 .. Len(q) /\ DOMAIN Tail(q) = 1 .. Len(q) - 1
    BY <1>1
<1>3. Head(q) \in ToSet(q)
    BY <1>1, <1>2 DEF ToSet
<1>4. ToSet(Tail(q)) \subseteq ToSet(q)
    BY <1>1, <1>2 DEF ToSet
<1>5. ASSUME NEW x \in ToSet(q), x # Head(q) PROVE x \in ToSet(Tail(q))
    <2>1. PICK i \in 1 .. Len(q) : x = q[i]
        BY <1>2 DEF ToSet
    <2>2. i # 1
        BY <1>1, <1>5, <2>1
    <2>3. i - 1 \in 1 .. Len(q) - 1 /\ Tail(q)[i - 1] = q[i]
        BY <1>1, <2>1, <2>2
    <2> QED BY <1>2, <2>1, <2>3 DEF ToSet
<1> QED BY <1>1, <1>3, <1>4, <1>5

\* An empty queue holds nothing, and a queue holds members of its type.
LEMMA QueueElements ==
    /\ ToSet(<<>>) = {}
    /\ \A S : \A q \in Seq(S) : \A x \in ToSet(q) : x \in S
BY DEF ToSet

\* The links are those between the hub and a spoke.
LEMMA LinkFacts ==
    /\ \A s \in Spokes : /\ <<Hub, s>> \in Links
                         /\ <<s, Hub>> \in Links
                         /\ s # Hub
    /\ \A n \in Nodes : \A p \in Peers(n) :
          <<n, p>> \in Links /\ <<p, n>> \in Links /\ p \in Nodes /\ p # n
    /\ \A l \in Links : \E s \in Spokes : l = <<Hub, s>> \/ l = <<s, Hub>>
    /\ \A l \in Links : l[1] \in Nodes /\ l[2] \in Nodes /\ l[1] # l[2]
                        /\ l = <<l[1], l[2]>>
BY ClipSyncAssumption DEF Links, Nodes, Peers

\* A history keeps the type of its entries when a snapshot is pushed.
LEMMA PushHistoryType ==
    ASSUME NEW q \in Seq(Snapshot), NEW x \in Snapshot
    PROVE  PushHistory(q, x) \in Seq(Snapshot)
<1>1. CASE Len(q) = HistoryLimit
    <2>1. q # <<>>
        BY <1>1, HistoryLimitAssumption
    <2>2. Tail(q) \in Seq(Snapshot)
        BY <2>1
    <2> QED BY <1>1, <2>2 DEF PushHistory
<1>2. CASE Len(q) # HistoryLimit
    BY <1>2 DEF PushHistory
<1> QED BY <1>1, <1>2
-------------------------------------------------------------------------------
\* What Broadcast does to the queues: typed ones stay typed.
LEMMA BroadcastType ==
    ASSUME chan \in [Links -> Seq(Snapshot)],
           NEW n, NEW snap \in Snapshot, NEW E,
           Broadcast(n, snap, E)
    PROVE  chan' \in [Links -> Seq(Snapshot)]
BY AppendElements DEF Broadcast

\* Every variable keeps its type in every step of every node.
LEMMA TypeOKNext ==
    ASSUME TypeOK, [Next]_vars
    PROVE  TypeOK'
<1> USE DEF TypeOK
<1>1. ASSUME NEW n \in Nodes, UserCopy(n) PROVE TypeOK'
    <2>1. <<n, copies[n] + 1>> \in Text
        BY DEF Text
    <2> QED BY <1>1, <2>1 DEF UserCopy, engineVars, watcherVars
<1>2. ASSUME NEW n \in Nodes, UserRecopy(n) PROVE TypeOK'
    <2>1. \A k \in 1 .. copies[n] : <<n, k>> \in Text
        BY DEF Text
    <2> QED BY <1>2, <2>1 DEF UserRecopy, engineVars, watcherVars
<1>3. ASSUME NEW n \in Nodes, Poll(n) PROVE TypeOK'
    <2>1. clip[n] \in Text
        BY <1>3 DEF Poll, Changed
    <2>2. Append(seen[n], clip[n]) \in Seq(Text)
        BY <2>1
    <2> QED BY <1>3, <2>1, <2>2 DEF Poll, engineVars
<1>4. ASSUME NEW n \in Nodes, Produce(n) PROVE TypeOK'
    <2> DEFINE v == NextVersion(version[n])
               snap == MakeSnapshot(v, n, Head(seen[n]))
    <2>1. Head(seen[n]) \in Text /\ Tail(seen[n]) \in Seq(Text)
        BY <1>4 DEF Produce
    <2>2. v \in Nat
        BY DEF NextVersion
    <2>3. snap \in Snapshot
        BY <2>1, <2>2 DEF MakeSnapshot, Snapshot
    <2>4. /\ PushHistory(history[n], snap) \in Seq(Snapshot)
          /\ Append(outbox[n], snap) \in Seq(Snapshot)
        BY <2>3, PushHistoryType
    <2> HIDE DEF v, snap
    <2>5. /\ version' = [version EXCEPT ![n] = v]
          /\ history' = [history EXCEPT ![n] = PushHistory(@, snap)]
          /\ outbox' = [outbox EXCEPT ![n] = Append(@, snap)]
          /\ seen' = [seen EXCEPT ![n] = Tail(@)]
          /\ UNCHANGED <<clip, last, chan, task, copies>>
        BY <1>4 DEF Produce, v, snap
    <2> QED BY <2>1, <2>2, <2>4, <2>5
<1>5. ASSUME NEW n \in Nodes, Forward(n) PROVE TypeOK'
    <2>1. Head(outbox[n]) \in Snapshot /\ Tail(outbox[n]) \in Seq(Snapshot)
        BY <1>5 DEF Forward
    <2>2. chan' \in [Links -> Seq(Snapshot)]
        BY <1>5, <2>1, BroadcastType DEF Forward
    <2> QED BY <1>5, <2>1, <2>2 DEF Forward, engineVars, watcherVars
<1>6. ASSUME NEW n \in Nodes, NEW p \in Peers(n), Receive(n, p) PROVE TypeOK'
    <2> DEFINE snap == Head(chan[<<p, n>>])
    <2>1. <<n, p>> \in Links /\ <<p, n>> \in Links
        BY LinkFacts
    <2>2. snap \in Snapshot /\ Tail(chan[<<p, n>>]) \in Seq(Snapshot)
        BY <1>6, <2>1 DEF Receive
    <2>3. /\ AdvancedVersion(version[n], snap) \in Nat
          /\ PushHistory(history[n], snap) \in Seq(Snapshot)
          /\ [stage |-> "write", snap |-> snap] \in Task
        BY <2>2, PushHistoryType DEF AdvancedVersion, Snapshot, Task
    <2> HIDE DEF snap
    <2>4. /\ chan' = [chan EXCEPT ![<<p, n>>] = Tail(@)]
          /\ UNCHANGED <<clip, last, seen, outbox, copies>>
          /\ \/ /\ version' = [version EXCEPT
                                  ![n] = AdvancedVersion(version[n], snap)]
                /\ history' = [history EXCEPT ![n] = PushHistory(@, snap)]
                /\ task' = [task EXCEPT
                              ![<<n, p>>] = [stage |-> "write", snap |-> snap]]
             \/ UNCHANGED <<version, history, task>>
        BY <1>6 DEF Receive, snap, engineVars, watcherVars
    <2> QED BY <2>1, <2>2, <2>3, <2>4
<1>7. ASSUME NEW n \in Nodes, NEW p \in Peers(n),
             task[<<n, p>>].stage = "write", AfterWrite(n, p)
      PROVE  task' \in [Links -> Task]
    <2>1. <<n, p>> \in Links
        BY LinkFacts
    <2>2. task[<<n, p>>].snap \in Snapshot
        BY <1>7, <2>1 DEF Task, Idle
    <2> QED BY <1>7, <2>1, <2>2 DEF AfterWrite, Task
<1>8. ASSUME NEW n \in Nodes, NEW p \in Peers(n), Apply(n, p) PROVE TypeOK'
    <2>1. <<n, p>> \in Links
        BY LinkFacts
    <2>2. task[<<n, p>>].snap.text \in Text
        BY <1>8, <2>1 DEF Apply, Task, Idle, Snapshot
    <2>3. task' \in [Links -> Task]
        BY <1>7, <1>8 DEF Apply
    <2> QED BY <1>8, <2>2, <2>3 DEF Apply, OsWrite, engineVars
<1>9. ASSUME NEW n \in Nodes, NEW p \in Peers(n), SkipApply(n, p) PROVE TypeOK'
    <2>1. task' \in [Links -> Task]
        BY <1>7, <1>9 DEF SkipApply
    <2> QED BY <1>9, <2>1 DEF SkipApply, engineVars, watcherVars
<1>10. ASSUME NEW s \in Spokes, Relay(s) PROVE TypeOK'
    <2>1. <<Hub, s>> \in Links
        BY LinkFacts
    <2>2. task[<<Hub, s>>].snap \in Snapshot
        BY <1>10, <2>1 DEF Relay, Task, Idle
    <2>3. chan' \in [Links -> Seq(Snapshot)]
        BY <1>10, <2>2, BroadcastType DEF Relay
    <2> QED BY <1>10, <2>3 DEF Relay, Task, engineVars, watcherVars
<1>11. CASE UNCHANGED vars
    BY <1>11 DEF vars
<1> QED BY <1>1, <1>2, <1>3, <1>4, <1>5, <1>6, <1>8, <1>9, <1>10, <1>11
        DEF Next

LEMMA TypeOKInit == Init => TypeOK
BY DEF Init, TypeOK, Task, InitialVersion

\* Every variable has its type in every reachable state.
THEOREM TypeCorrect == Spec => []TypeOK
<1> QED BY TypeOKInit, TypeOKNext, PTL DEF Spec
-------------------------------------------------------------------------------
(* The effect of each step on what the queues hold.                        *)

\* Steps of a user or of a watcher thread touch no engine and no frame.
LEMMA LocalEffect ==
    ASSUME NEW n \in Nodes, UserCopy(n) \/ UserRecopy(n) \/ Poll(n)
    PROVE  UNCHANGED <<version, history, outbox, chan, task>>
BY DEF UserCopy, UserRecopy, Poll, engineVars, watcherVars

\* Produce stamps one snapshot with the advanced clock and queues it.
Produced(n, snap) ==
    /\ snap.version = version[n] + 1 /\ snap.origin = n
    /\ version' = [version EXCEPT ![n] = version[n] + 1]
    /\ history' = [history EXCEPT ![n] = PushHistory(history[n], snap)]
    /\ ToSet(outbox'[n]) = ToSet(outbox[n]) \cup {snap}
    /\ \A m \in Nodes \ {n} : outbox'[m] = outbox[m]
    /\ UNCHANGED <<chan, task>>

\* Every Produce step has that effect.
LEMMA ProduceEffect ==
    ASSUME TypeOK, NEW n \in Nodes, Produce(n)
    PROVE  \E snap \in Snapshot : Produced(n, snap)
<1> DEFINE snap == MakeSnapshot(NextVersion(version[n]), n, Head(seen[n]))
<1>1. Head(seen[n]) \in Text /\ version[n] \in Nat
    BY DEF Produce, TypeOK
<1>2. snap \in Snapshot /\ snap.version = version[n] + 1 /\ snap.origin = n
    BY <1>1 DEF MakeSnapshot, Snapshot, NextVersion
<1>3. outbox \in [Nodes -> Seq(Snapshot)] /\ history \in [Nodes -> Seq(Snapshot)]
    BY DEF TypeOK
<1>4. /\ version' = [version EXCEPT ![n] = version[n] + 1]
      /\ history' = [history EXCEPT ![n] = PushHistory(history[n], snap)]
      /\ outbox' = [outbox EXCEPT ![n] = Append(outbox[n], snap)]
      /\ UNCHANGED <<chan, task>>
    BY <1>3 DEF Produce, NextVersion, TypeOK
<1> HIDE DEF snap
<1>5. ToSet(outbox'[n]) = ToSet(outbox[n]) \cup {snap}
    BY <1>2, <1>3, <1>4, AppendElements
<1>6. \A m \in Nodes \ {n} : outbox'[m] = outbox[m]
    BY <1>3, <1>4
<1> QED BY <1>2, <1>4, <1>5, <1>6 DEF Produced

\* Forward moves the head of the outbox to every outgoing queue.
Forwarded(n, snap) ==
    /\ ToSet(outbox[n]) = {snap} \cup ToSet(outbox'[n])
    /\ \A m \in Nodes \ {n} : outbox'[m] = outbox[m]
    /\ \A l \in Links :
          IF l[1] = n THEN ToSet(chan'[l]) = ToSet(chan[l]) \cup {snap}
                      ELSE chan'[l] = chan[l]
    /\ UNCHANGED <<version, history, task>>

\* Every Forward step has that effect.
LEMMA ForwardEffect ==
    ASSUME TypeOK, NEW n \in Nodes, Forward(n)
    PROVE  \E snap \in Snapshot : Forwarded(n, snap)
<1> DEFINE snap == Head(outbox[n])
<1>1. outbox \in [Nodes -> Seq(Snapshot)] /\ chan \in [Links -> Seq(Snapshot)]
    BY DEF TypeOK
<1>2. outbox[n] # <<>>
    BY DEF Forward
<1>3. /\ snap \in Snapshot
      /\ ToSet(outbox[n]) = {snap} \cup ToSet(Tail(outbox[n]))
    BY <1>1, <1>2, TailElements
<1> HIDE DEF snap
<1>4. /\ outbox' = [outbox EXCEPT ![n] = Tail(outbox[n])]
      /\ Broadcast(n, snap, {})
      /\ UNCHANGED <<version, history, task>>
    BY <1>1 DEF Forward, snap, engineVars
<1>5. ASSUME NEW l \in Links
      PROVE  IF l[1] = n THEN ToSet(chan'[l]) = ToSet(chan[l]) \cup {snap}
                         ELSE chan'[l] = chan[l]
    BY <1>1, <1>3, <1>4, AppendElements DEF Broadcast
<1> QED BY <1>1, <1>3, <1>4, <1>5 DEF Forwarded

\* Receive takes the head of one queue; the engine accepts it or nothing
\* else changes.
Accepted(n, p, snap) ==
    /\ snap.origin # n /\ snap.version > version[n]
    /\ version' = [version EXCEPT ![n] = snap.version]
    /\ history' = [history EXCEPT ![n] = PushHistory(history[n], snap)]
    /\ task' = [task EXCEPT ![<<n, p>>] = [stage |-> "write", snap |-> snap]]

Ignored(n, p, snap) ==
    /\ ~ (snap.origin # n /\ snap.version > version[n])
    /\ UNCHANGED <<version, history, task>>

Received(n, p, snap) ==
    /\ ToSet(chan[<<p, n>>]) = {snap} \cup ToSet(chan'[<<p, n>>])
    /\ \A l \in Links \ {<<p, n>>} : chan'[l] = chan[l]
    /\ task[<<n, p>>] = Idle
    /\ UNCHANGED outbox
    /\ Accepted(n, p, snap) \/ Ignored(n, p, snap)

\* Every Receive step has that effect, with the head of the queue.
LEMMA ReceiveHead ==
    ASSUME TypeOK, NEW n \in Nodes, NEW p \in Peers(n), Receive(n, p)
    PROVE  /\ chan[<<p, n>>] # <<>>
           /\ chan'[<<p, n>>] = Tail(chan[<<p, n>>])
           /\ Head(chan[<<p, n>>]) \in Snapshot
           /\ Received(n, p, Head(chan[<<p, n>>]))
<1> DEFINE snap == Head(chan[<<p, n>>])
<1>1. <<p, n>> \in Links /\ <<n, p>> \in Links
    BY LinkFacts
<1>2. chan \in [Links -> Seq(Snapshot)] /\ chan[<<p, n>>] # <<>>
    BY DEF TypeOK, Receive
<1>3. /\ snap \in Snapshot
      /\ ToSet(chan[<<p, n>>]) = {snap} \cup ToSet(Tail(chan[<<p, n>>]))
    BY <1>1, <1>2, TailElements
<1>4. task[<<n, p>>] = Idle
    BY <1>1 DEF Receive, TypeOK, Task
<1>5. history \in [Nodes -> Seq(Snapshot)]
    BY DEF TypeOK
<1> HIDE DEF snap
<1>6. /\ chan' = [chan EXCEPT ![<<p, n>>] = Tail(chan[<<p, n>>])]
      /\ UNCHANGED outbox
      /\ Accepted(n, p, snap) \/ Ignored(n, p, snap)
    BY <1>1, <1>2, <1>5
       DEF Receive, snap, Accepts, AdvancedVersion, Accepted, Ignored,
           engineVars, watcherVars
<1>7. /\ ToSet(chan[<<p, n>>]) = {snap} \cup ToSet(chan'[<<p, n>>])
      /\ \A l \in Links \ {<<p, n>>} : chan'[l] = chan[l]
      /\ chan'[<<p, n>>] = Tail(chan[<<p, n>>])
    BY <1>1, <1>2, <1>3, <1>6
<1>8. Received(n, p, snap)
    BY <1>4, <1>6, <1>7 DEF Received
<1> QED BY <1>2, <1>3, <1>7, <1>8 DEF snap

LEMMA ReceiveEffect ==
    ASSUME TypeOK, NEW n \in Nodes, NEW p \in Peers(n), Receive(n, p)
    PROVE  \E snap \in Snapshot : Received(n, p, snap)
BY ReceiveHead

\* After the OS write the hub's task still holds the snapshot, a spoke's
\* holds none.
LEMMA WriteEffect ==
    ASSUME TypeOK, NEW n \in Nodes, NEW p \in Peers(n),
           Apply(n, p) \/ SkipApply(n, p)
    PROVE  /\ UNCHANGED <<version, history, outbox, chan>>
           /\ \A l \in Links \ {<<n, p>>} : task'[l] = task[l]
           /\ task[<<n, p>>] # Idle
           /\ \/ /\ n = Hub /\ task'[<<n, p>>] # Idle
                 /\ task'[<<n, p>>].snap = task[<<n, p>>].snap
              \/ n # Hub /\ task'[<<n, p>>] = Idle
<1>1. /\ UNCHANGED <<version, history, outbox, chan>>
      /\ AfterWrite(n, p)
      /\ task[<<n, p>>].stage = "write"
    BY DEF Apply, SkipApply, engineVars
<1>2. <<n, p>> \in Links /\ task \in [Links -> Task]
    BY LinkFacts DEF TypeOK
<1> QED BY <1>1, <1>2 DEF AfterWrite, Idle

\* Relay moves the task's snapshot to every other spoke's queue.
LEMMA RelayEffect ==
    ASSUME TypeOK, NEW s \in Spokes, Relay(s)
    PROVE  /\ task[<<Hub, s>>].snap \in Snapshot
           /\ task[<<Hub, s>>] # Idle /\ task'[<<Hub, s>>] = Idle
           /\ \A l \in Links \ {<<Hub, s>>} : task'[l] = task[l]
           /\ \A l \in Links :
                 IF l[1] = Hub /\ l[2] # s
                 THEN ToSet(chan'[l]) = ToSet(chan[l]) \cup {task[<<Hub, s>>].snap}
                 ELSE chan'[l] = chan[l]
           /\ UNCHANGED <<version, history, outbox>>
<1>1. <<Hub, s>> \in Links /\ task \in [Links -> Task]
      /\ chan \in [Links -> Seq(Snapshot)]
    BY LinkFacts DEF TypeOK
<1>2. task[<<Hub, s>>].snap \in Snapshot /\ task[<<Hub, s>>] # Idle
    BY <1>1 DEF Relay, Task, Idle
<1>3. /\ Broadcast(Hub, task[<<Hub, s>>].snap, {s})
      /\ task' = [task EXCEPT ![<<Hub, s>>] = Idle]
      /\ UNCHANGED <<version, history, outbox>>
    BY DEF Relay, engineVars
<1>4. ASSUME NEW l \in Links
      PROVE  IF l[1] = Hub /\ l[2] # s
             THEN ToSet(chan'[l]) = ToSet(chan[l]) \cup {task[<<Hub, s>>].snap}
             ELSE chan'[l] = chan[l]
    <2>1. chan'[l] = IF l[1] = Hub /\ l[2] # s
                     THEN Append(chan[l], task[<<Hub, s>>].snap) ELSE chan[l]
        BY <1>3 DEF Broadcast
    <2>2. ToSet(Append(chan[l], task[<<Hub, s>>].snap))
             = ToSet(chan[l]) \cup {task[<<Hub, s>>].snap}
        BY <1>1, <1>2, AppendElements
    <2> QED BY <2>1, <2>2
<1> QED BY <1>1, <1>2, <1>3, <1>4
-------------------------------------------------------------------------------
(* The inductive invariant.                                                *)

\* Who announced what is under way: an outbox and the link to the hub hold
\* the node's own snapshots, the hub's task for s those of s, and the link to
\* s none of them.
Origins ==
    /\ \A n \in Nodes : \A x \in ToSet(outbox[n]) : x.origin = n
    /\ \A s \in Spokes :
          /\ \A x \in ToSet(chan[<<s, Hub>>]) : x.origin = s
          /\ \A x \in ToSet(chan[<<Hub, s>>]) : x.origin # s
          /\ task[<<Hub, s>>] # Idle => task[<<Hub, s>>].snap.origin = s

\* A node's clock bounds every version it has put on its way.
Bounds ==
    /\ \A n \in Nodes : \A x \in ToSet(outbox[n]) : x.version <= version[n]
    /\ \A l \in Links :
          /\ \A x \in ToSet(chan[l]) : x.version <= version[l[1]]
          /\ task[l] # Idle => task[l].snap.version <= version[l[1]]

Carries(q, v) == \E x \in ToSet(q) : x.version = v

\* The hub's clock has reached s, or a snapshot that carries it is on the way.
HubReaches(s) ==
    \/ version[Hub] <= version[s]
    \/ Carries(outbox[Hub], version[Hub])
    \/ Carries(chan[<<Hub, s>>], version[Hub])
    \/ \E p \in Spokes \ {s} : /\ task[<<Hub, p>>] # Idle
                               /\ task[<<Hub, p>>].snap.version = version[Hub]

\* The clock of s has reached the hub, or a snapshot that carries it is on
\* the way.
SpokeReaches(s) ==
    \/ version[s] <= version[Hub]
    \/ Carries(outbox[s], version[s])
    \/ Carries(chan[<<s, Hub>>], version[s])

Reaching == \A s \in Spokes : HubReaches(s) /\ SpokeReaches(s)

ClipInv == TypeOK /\ Origins /\ Bounds /\ Reaching

\* Nothing is under way in the initial state.
LEMMA ClipInvInit == Init => ClipInv
<1> SUFFICES ASSUME Init PROVE ClipInv
    OBVIOUS
<1>1. TypeOK
    BY TypeOKInit
<1>2. Origins /\ Bounds
    BY LinkFacts, QueueElements DEF Init, Origins, Bounds, Nodes
<1>3. Reaching
    BY DEF Init, Reaching, HubReaches, SpokeReaches, Nodes, InitialVersion
<1> QED BY <1>1, <1>2, <1>3 DEF ClipInv

\* Snapshots only travel away from their origin.
LEMMA OriginsNext ==
    ASSUME TypeOK, Origins, [Next]_vars
    PROVE  Origins'
<1> USE DEF Origins
<1>1. Hub \in Nodes /\ \A s \in Spokes : s \in Nodes
    BY DEF Nodes
<1>2. ASSUME NEW n \in Nodes, UserCopy(n) \/ UserRecopy(n) \/ Poll(n)
      PROVE  Origins'
    BY <1>2, LocalEffect
<1>3. ASSUME NEW n \in Nodes, Produce(n) PROVE Origins'
    BY <1>3, ProduceEffect DEF Produced
<1>4. ASSUME NEW n \in Nodes, Forward(n) PROVE Origins'
    <2>1. PICK snap \in Snapshot : Forwarded(n, snap)
        BY <1>4, ForwardEffect
    <2>2. snap.origin = n
        BY <2>1 DEF Forwarded
    <2>3. ASSUME NEW s \in Spokes
          PROVE  /\ \A x \in ToSet(chan'[<<s, Hub>>]) : x.origin = s
                 /\ \A x \in ToSet(chan'[<<Hub, s>>]) : x.origin # s
        BY <2>1, <2>2, LinkFacts DEF Forwarded
    <2> QED BY <2>1, <2>3 DEF Forwarded
<1>5. ASSUME NEW n \in Nodes, NEW p \in Peers(n), Receive(n, p) PROVE Origins'
    <2>1. PICK snap \in Snapshot : Received(n, p, snap)
        BY <1>5, ReceiveEffect
    <2>2. ASSUME NEW l \in Links PROVE ToSet(chan'[l]) \subseteq ToSet(chan[l])
        BY <2>1 DEF Received
    <2>3. ASSUME NEW s \in Spokes, task'[<<Hub, s>>] # Idle
          PROVE  task'[<<Hub, s>>].snap.origin = s
        <3>1. <<Hub, s>> \in Links /\ <<n, p>> \in Links
            BY LinkFacts
        <3>2. CASE n = Hub /\ p = s
            BY <2>1, <2>3, <3>1, <3>2 DEF TypeOK, Received, Accepted, Ignored
        <3>3. CASE ~ (n = Hub /\ p = s)
            <4>1. task'[<<Hub, s>>] = task[<<Hub, s>>]
                BY <2>1, <3>1, <3>3 DEF TypeOK, Received, Accepted, Ignored
            <4> QED BY <2>3, <4>1
        <3> QED BY <3>2, <3>3
    <2> QED BY <2>1, <2>2, <2>3, LinkFacts DEF Received
<1>6. ASSUME NEW n \in Nodes, NEW p \in Peers(n), Apply(n, p) \/ SkipApply(n, p)
      PROVE  Origins'
    <2>1. ASSUME NEW s \in Spokes, task'[<<Hub, s>>] # Idle
          PROVE  task'[<<Hub, s>>].snap.origin = s
        <3>1. <<Hub, s>> \in Links
            BY LinkFacts
        <3>2. CASE <<n, p>> = <<Hub, s>>
            BY <1>6, <2>1, <3>2, WriteEffect
        <3>3. CASE <<n, p>> # <<Hub, s>>
            BY <1>6, <2>1, <3>1, <3>3, WriteEffect
        <3> QED BY <3>2, <3>3
    <2>2. UNCHANGED <<outbox, chan>>
        BY <1>6, WriteEffect
    <2> QED BY <2>1, <2>2
<1>7. ASSUME NEW s \in Spokes, Relay(s) PROVE Origins'
    <2> DEFINE snap == task[<<Hub, s>>].snap
    <2>1. /\ snap.origin = s
          /\ task'[<<Hub, s>>] = Idle
          /\ \A l \in Links \ {<<Hub, s>>} : task'[l] = task[l]
          /\ \A l \in Links : IF l[1] = Hub /\ l[2] # s
                              THEN ToSet(chan'[l]) = ToSet(chan[l]) \cup {snap}
                              ELSE chan'[l] = chan[l]
          /\ UNCHANGED outbox
        BY <1>7, RelayEffect
    <2> HIDE DEF snap
    <2>2. ASSUME NEW r \in Spokes
          PROVE  /\ \A x \in ToSet(chan'[<<r, Hub>>]) : x.origin = r
                 /\ \A x \in ToSet(chan'[<<Hub, r>>]) : x.origin # r
        BY <2>1, LinkFacts
    <2>3. ASSUME NEW r \in Spokes, task'[<<Hub, r>>] # Idle
          PROVE  task'[<<Hub, r>>].snap.origin = r
        BY <2>1, <2>3, LinkFacts
    <2> QED BY <2>1, <2>2, <2>3
<1>8. CASE UNCHANGED vars
    BY <1>8 DEF vars
<1> QED BY <1>2, <1>3, <1>4, <1>5, <1>6, <1>7, <1>8 DEF Next

\* A clock never falls behind what it stamped or passed on.
LEMMA BoundsNext ==
    ASSUME TypeOK, Bounds, [Next]_vars
    PROVE  Bounds'
<1> USE DEF Bounds
<1>1. /\ version \in [Nodes -> Nat]
      /\ task \in [Links -> Task]
      /\ \A l \in Links : l[1] \in Nodes
    BY LinkFacts DEF TypeOK
<1>2. ASSUME NEW n \in Nodes, NEW x \in ToSet(outbox[n]) PROVE x.version \in Nat
    <2>1. outbox[n] \in Seq(Snapshot)
        BY DEF TypeOK
    <2>2. x \in Snapshot
        BY <2>1, QueueElements
    <2> QED BY <2>2 DEF Snapshot
<1>3. ASSUME NEW l \in Links, NEW x \in ToSet(chan[l]) PROVE x.version \in Nat
    <2>1. chan[l] \in Seq(Snapshot)
        BY DEF TypeOK
    <2>2. x \in Snapshot
        BY <2>1, QueueElements
    <2> QED BY <2>2 DEF Snapshot
<1>4. ASSUME NEW l \in Links, task[l] # Idle PROVE task[l].snap.version \in Nat
    BY <1>1, <1>4 DEF Task, Snapshot
<1> DEFINE Grows == \A m \in Nodes : version'[m] \in Nat /\ version[m] <= version'[m]
<1>5. ASSUME Grows, NEW l \in Links, ToSet(chan'[l]) \subseteq ToSet(chan[l]),
             NEW x \in ToSet(chan'[l])
      PROVE  x.version <= version'[l[1]]
    <2>1. x \in ToSet(chan[l]) /\ l[1] \in Nodes
        BY <1>1, <1>5
    <2>2. x.version \in Nat /\ x.version <= version[l[1]]
        BY <1>3, <2>1
    <2> QED BY <1>1, <1>5, <2>1, <2>2
<1>6. ASSUME Grows, NEW l \in Links, task'[l] = task[l], task'[l] # Idle
      PROVE  task'[l].snap.version <= version'[l[1]]
    <2>1. task[l].snap.version \in Nat /\ task[l].snap.version <= version[l[1]]
        BY <1>4, <1>6
    <2> QED BY <1>1, <1>6, <2>1
<1>7. ASSUME Grows, NEW m \in Nodes, ToSet(outbox'[m]) \subseteq ToSet(outbox[m]),
             NEW x \in ToSet(outbox'[m])
      PROVE  x.version <= version'[m]
    <2>1. x.version \in Nat /\ x.version <= version[m]
        BY <1>2, <1>7
    <2> QED BY <1>1, <1>7, <2>1
<1>8. ASSUME UNCHANGED version PROVE Grows
    BY <1>1, <1>8
<1> HIDE DEF Grows
<1>9. ASSUME NEW n \in Nodes, UserCopy(n) \/ UserRecopy(n) \/ Poll(n)
      PROVE  Bounds'
    BY <1>9, LocalEffect
<1>10. ASSUME NEW n \in Nodes, Produce(n) PROVE Bounds'
    <2>1. PICK snap \in Snapshot : Produced(n, snap)
        BY <1>10, ProduceEffect
    <2>2. Grows
        BY <1>1, <2>1 DEF Grows, Produced
    <2>3. ASSUME NEW m \in Nodes, NEW x \in ToSet(outbox'[m])
          PROVE  x.version <= version'[m]
        <3>1. CASE m = n /\ x = snap
            BY <1>1, <2>1, <3>1 DEF Produced
        <3>2. CASE x \in ToSet(outbox[m])
            BY <1>1, <1>2, <2>2, <3>2 DEF Grows
        <3> QED BY <2>1, <2>3, <3>1, <3>2 DEF Produced
    <2> QED BY <1>5, <1>6, <2>1, <2>2, <2>3 DEF Produced
<1>11. ASSUME NEW n \in Nodes, Forward(n) PROVE Bounds'
    <2>1. PICK snap \in Snapshot : Forwarded(n, snap)
        BY <1>11, ForwardEffect
    <2>2. Grows /\ UNCHANGED <<version, task>>
        BY <1>8, <2>1 DEF Forwarded
    <2>3. snap.version <= version[n]
        BY <2>1 DEF Forwarded
    <2>4. ASSUME NEW l \in Links, NEW x \in ToSet(chan'[l])
          PROVE  x.version <= version[l[1]]
        BY <2>1, <2>3, <2>4 DEF Forwarded
    <2>5. \A m \in Nodes : ToSet(outbox'[m]) \subseteq ToSet(outbox[m])
        BY <2>1 DEF Forwarded
    <2> QED BY <1>6, <1>7, <2>2, <2>4, <2>5
<1>12. ASSUME NEW n \in Nodes, NEW p \in Peers(n), Receive(n, p) PROVE Bounds'
    <2>1. PICK snap \in Snapshot : Received(n, p, snap)
        BY <1>12, ReceiveEffect
    <2>2. snap.version \in Nat /\ <<n, p>> \in Links /\ <<p, n>> \in Links
        BY LinkFacts DEF Snapshot
    <2>3. Grows
        BY <1>1, <2>1, <2>2 DEF Grows, Received, Accepted, Ignored
    <2>4. \A l \in Links : ToSet(chan'[l]) \subseteq ToSet(chan[l])
        BY <2>1 DEF Received
    <2>5. UNCHANGED outbox
        BY <2>1 DEF Received
    <2>6. ASSUME NEW l \in Links, task'[l] # Idle
          PROVE  task'[l].snap.version <= version'[l[1]]
        <3>1. CASE l = <<n, p>> /\ Accepted(n, p, snap)
            BY <1>1, <2>2, <3>1 DEF Accepted
        <3>2. CASE task'[l] = task[l]
            BY <1>6, <2>3, <2>6, <3>2
        <3>3. (l = <<n, p>> /\ Accepted(n, p, snap)) \/ task'[l] = task[l]
            BY <1>1, <2>1 DEF Received, Accepted, Ignored
        <3> QED BY <3>1, <3>2, <3>3
    <2> QED BY <1>5, <1>7, <2>3, <2>4, <2>5, <2>6
<1>13. ASSUME NEW n \in Nodes, NEW p \in Peers(n), Apply(n, p) \/ SkipApply(n, p)
      PROVE  Bounds'
    <2>1. ASSUME NEW l \in Links, task'[l] # Idle
          PROVE  task'[l].snap.version <= version[l[1]]
        <3>1. CASE l = <<n, p>>
            BY <1>13, <2>1, <3>1, WriteEffect
        <3>2. CASE l # <<n, p>>
            BY <1>13, <2>1, <3>2, WriteEffect
        <3> QED BY <3>1, <3>2
    <2> QED BY <1>13, <2>1, WriteEffect
<1>14. ASSUME NEW s \in Spokes, Relay(s) PROVE Bounds'
    <2>1. <<Hub, s>> \in Links /\ <<Hub, s>>[1] = Hub
        BY LinkFacts
    <2>2. task[<<Hub, s>>].snap.version <= version[Hub]
        BY <1>14, <2>1, RelayEffect
    <2>3. ASSUME NEW l \in Links, task'[l] # Idle
          PROVE  task'[l].snap.version <= version[l[1]]
        BY <1>14, <2>3, RelayEffect
    <2>4. ASSUME NEW l \in Links, NEW x \in ToSet(chan'[l])
          PROVE  x.version <= version[l[1]]
        BY <1>14, <2>2, <2>4, RelayEffect
    <2> QED BY <1>14, <2>3, <2>4, RelayEffect
<1>15. CASE UNCHANGED vars
    BY <1>15 DEF vars
<1> QED BY <1>9, <1>10, <1>11, <1>12, <1>13, <1>14, <1>15 DEF Next

\* A clock that is ahead of its peer's is always carried by a snapshot that
\* the peer has yet to see.
LEMMA ReachingNext ==
    ASSUME TypeOK, Origins, Bounds, Reaching, [Next]_vars
    PROVE  Reaching'
<1>1. /\ version \in [Nodes -> Nat] /\ task \in [Links -> Task]
      /\ Hub \in Nodes /\ \A s \in Spokes : s \in Nodes
    BY DEF TypeOK, Nodes
<1>2. SUFFICES ASSUME NEW s \in Spokes
               PROVE  HubReaches(s)' /\ SpokeReaches(s)'
    BY DEF Reaching
<1>3. HubReaches(s) /\ SpokeReaches(s)
    BY DEF Reaching
<1>4. s # Hub /\ s \in Nodes /\ <<Hub, s>> \in Links /\ <<s, Hub>> \in Links
    BY LinkFacts DEF Nodes
<1> USE DEF HubReaches, SpokeReaches, Carries
<1>5. ASSUME NEW n \in Nodes, UserCopy(n) \/ UserRecopy(n) \/ Poll(n)
      PROVE  HubReaches(s)' /\ SpokeReaches(s)'
    BY <1>3, <1>5, LocalEffect
<1>6. ASSUME NEW n \in Nodes, Produce(n)
      PROVE  HubReaches(s)' /\ SpokeReaches(s)'
    <2>1. PICK snap \in Snapshot : Produced(n, snap)
        BY <1>6, ProduceEffect
    <2>2. HubReaches(s)'
        <3>1. CASE n = Hub
            BY <1>1, <2>1, <3>1 DEF Produced
        <3>2. CASE n # Hub
            <4>1. /\ version'[Hub] = version[Hub]
                  /\ version[s] \in Nat /\ version[Hub] \in Nat
                  /\ version'[s] \in Nat /\ version[s] <= version'[s]
                  /\ outbox'[Hub] = outbox[Hub]
                  /\ UNCHANGED <<chan, task>>
                BY <1>1, <1>4, <2>1, <3>2 DEF Produced
            <4> QED BY <1>3, <4>1
        <3> QED BY <3>1, <3>2
    <2>3. SpokeReaches(s)'
        <3>1. CASE n = s
            BY <1>1, <1>4, <2>1, <3>1 DEF Produced
        <3>2. CASE n # s
            <4>1. /\ version'[s] = version[s]
                  /\ version'[Hub] \in Nat /\ version[Hub] <= version'[Hub]
                  /\ outbox'[s] = outbox[s]
                  /\ UNCHANGED chan
                BY <1>1, <1>4, <2>1, <3>2 DEF Produced
            <4> QED BY <1>1, <1>3, <1>4, <4>1
        <3> QED BY <3>1, <3>2
    <2> QED BY <2>2, <2>3
<1>7. ASSUME NEW n \in Nodes, Forward(n)
      PROVE  HubReaches(s)' /\ SpokeReaches(s)'
    <2>1. PICK snap \in Snapshot : Forwarded(n, snap)
        BY <1>7, ForwardEffect
    <2>2. ASSUME NEW v, NEW m \in Nodes, NEW l \in Links, l[1] = m,
                 Carries(outbox[m], v) \/ Carries(chan[l], v)
          PROVE  Carries(outbox'[m], v) \/ Carries(chan'[l], v)
        BY <2>1, <2>2 DEF Forwarded
    <2>3. UNCHANGED <<version, task>>
        BY <2>1 DEF Forwarded
    <2>4. \A v : Carries(outbox[Hub], v) \/ Carries(chan[<<Hub, s>>], v)
                  => Carries(outbox'[Hub], v) \/ Carries(chan'[<<Hub, s>>], v)
        BY <1>1, <1>4, <2>2
    <2>5. \A v : Carries(outbox[s], v) \/ Carries(chan[<<s, Hub>>], v)
                  => Carries(outbox'[s], v) \/ Carries(chan'[<<s, Hub>>], v)
        BY <1>1, <1>4, <2>2
    <2> HIDE DEF Carries
    <2> QED BY <1>3, <2>3, <2>4, <2>5
<1>8. ASSUME NEW n \in Nodes, NEW p \in Peers(n), Receive(n, p)
      PROVE  HubReaches(s)' /\ SpokeReaches(s)'
    <2>1. PICK snap \in Snapshot : Received(n, p, snap)
        BY <1>8, ReceiveEffect
    <2>2. /\ snap.version \in Nat
          /\ <<n, p>> \in Links /\ <<p, n>> \in Links /\ n # p
          /\ n = Hub \/ p = Hub
        BY LinkFacts DEF Snapshot, Peers
    <2>3. snap.version <= version[p]
        BY <2>1, <2>2 DEF Received, Bounds
    <2>4. snap.origin # n
        BY <1>4, <2>1, <2>2, LinkFacts DEF Received, Origins, Peers
    <2>5. /\ \/ Accepted(n, p, snap)
             \/ snap.version <= version[n] /\ UNCHANGED <<version, task>>
          /\ UNCHANGED outbox
        BY <1>1, <2>1, <2>2, <2>4 DEF Received, Ignored
    <2>6. /\ version'[n] \in Nat /\ version[n] <= version'[n]
          /\ snap.version <= version'[n]
          /\ \A m \in Nodes \ {n} : version'[m] = version[m]
        BY <1>1, <2>2, <2>5 DEF Accepted
    <2>7. \A v : Carries(chan[<<p, n>>], v)
                  => v = snap.version \/ Carries(chan'[<<p, n>>], v)
        BY <2>1 DEF Received
    <2>8. \A l \in Links \ {<<p, n>>} : chan'[l] = chan[l]
        BY <2>1 DEF Received
    <2>9. ASSUME NEW q \in Spokes, task[<<Hub, q>>] # Idle
          PROVE  task'[<<Hub, q>>] = task[<<Hub, q>>]
        BY <1>1, <2>1, <2>2, <2>9, LinkFacts DEF Received, Accepted, Ignored
    <2> HIDE DEF Carries
    <2>10. HubReaches(s)'
        <3>1. CASE n = Hub /\ p = s /\ Accepted(n, p, snap)
            <4>1. version'[Hub] <= version'[s]
                BY <1>1, <1>4, <2>3, <3>1 DEF Accepted
            <4> QED BY <4>1
        <3>2. CASE n = Hub /\ p # s /\ Accepted(n, p, snap)
            <4>1. p \in Spokes \ {s}
                BY <3>2 DEF Peers
            <4>2. /\ task'[<<Hub, p>>] # Idle
                  /\ task'[<<Hub, p>>].snap.version = version'[Hub]
                BY <1>1, <2>2, <3>2 DEF Accepted, Idle
            <4> QED BY <4>1, <4>2
        <3>3. CASE n = Hub /\ UNCHANGED <<version, task>>
            BY <1>3, <1>4, <2>2, <2>5, <2>8, <3>3
        <3>4. CASE n = s
            <4>1. /\ p = Hub /\ version'[Hub] = version[Hub]
                  /\ version[Hub] \in Nat /\ version[s] \in Nat
                BY <1>1, <1>4, <2>2, <2>6, <3>4
            <4>2. CASE version[Hub] <= version[s]
                BY <2>6, <3>4, <4>1, <4>2
            <4>3. CASE Carries(chan[<<Hub, s>>], version[Hub])
                BY <2>6, <2>7, <3>4, <4>1, <4>3
            <4> QED BY <1>3, <2>5, <2>9, <3>4, <4>1, <4>2, <4>3
        <3>5. CASE n # Hub /\ n # s
            BY <1>1, <1>3, <1>4, <2>2, <2>5, <2>6, <2>8, <2>9, <3>5
        <3> QED BY <2>5, <3>1, <3>2, <3>3, <3>4, <3>5
    <2>11. SpokeReaches(s)'
        <3>1. CASE n = s /\ Accepted(n, p, snap)
            <4>1. version'[s] <= version'[Hub]
                BY <1>1, <1>4, <2>2, <2>3, <3>1 DEF Accepted
            <4> QED BY <4>1
        <3>2. CASE n = s /\ UNCHANGED <<version, task>>
            BY <1>3, <1>4, <2>2, <2>5, <2>8, <3>2
        <3>3. CASE n = Hub /\ p = s
            <4>1. version'[s] = version[s] /\ version[s] \in Nat /\ version[Hub] \in Nat
                BY <1>1, <1>4, <2>6, <3>3
            <4>2. CASE version[s] <= version[Hub]
                BY <2>6, <3>3, <4>1, <4>2
            <4>3. CASE Carries(chan[<<s, Hub>>], version[s])
                BY <2>6, <2>7, <3>3, <4>1, <4>3
            <4> QED BY <1>3, <2>5, <4>1, <4>2, <4>3
        <3>4. CASE n # s /\ <<p, n>> # <<s, Hub>>
            <4>1. /\ version'[s] = version[s] /\ version[s] \in Nat
                  /\ version[Hub] \in Nat /\ version'[Hub] \in Nat
                  /\ version[Hub] <= version'[Hub]
                BY <1>1, <1>4, <2>6, <3>4
            <4> QED BY <1>3, <1>4, <2>5, <2>8, <3>4, <4>1
        <3> QED BY <2>2, <2>5, <3>1, <3>2, <3>3, <3>4
    <2> QED BY <2>10, <2>11
<1>9. ASSUME NEW n \in Nodes, NEW p \in Peers(n), Apply(n, p) \/ SkipApply(n, p)
      PROVE  HubReaches(s)' /\ SpokeReaches(s)'
    <2>1. \A q \in Spokes : task[<<Hub, q>>] # Idle =>
              /\ task'[<<Hub, q>>] # Idle
              /\ task'[<<Hub, q>>].snap = task[<<Hub, q>>].snap
        <3> TAKE q \in Spokes
        <3>1. CASE <<n, p>> = <<Hub, q>>
            BY <1>9, <3>1, WriteEffect
        <3>2. CASE <<n, p>> # <<Hub, q>>
            BY <1>9, <3>2, WriteEffect, LinkFacts
        <3> QED BY <3>1, <3>2
    <2>2. UNCHANGED <<version, outbox, chan>>
        BY <1>9, WriteEffect
    <2> QED BY <1>3, <2>1, <2>2
<1>10. ASSUME NEW r \in Spokes, Relay(r)
       PROVE  HubReaches(s)' /\ SpokeReaches(s)'
    <2>1. UNCHANGED <<version, outbox>> /\ chan'[<<s, Hub>>] = chan[<<s, Hub>>]
        BY <1>4, <1>10, RelayEffect
    <2>2. ToSet(chan[<<Hub, s>>]) \subseteq ToSet(chan'[<<Hub, s>>])
        BY <1>4, <1>10, RelayEffect
    <2>3. ASSUME NEW q \in Spokes \ {s}, task[<<Hub, q>>] # Idle
          PROVE  \/ task'[<<Hub, q>>] = task[<<Hub, q>>]
                 \/ task[<<Hub, q>>].snap \in ToSet(chan'[<<Hub, s>>])
        <3>1. CASE q = r
            BY <1>4, <1>10, <2>3, <3>1, RelayEffect
        <3>2. CASE q # r
            BY <1>10, <2>3, <3>2, RelayEffect, LinkFacts
        <3> QED BY <3>1, <3>2
    <2> QED BY <1>3, <2>1, <2>2, <2>3
<1>11. CASE UNCHANGED vars
    BY <1>3, <1>11 DEF vars
<1> QED BY <1>5, <1>6, <1>7, <1>8, <1>9, <1>10, <1>11 DEF Next

\* The invariant holds in every reachable state.
THEOREM ClipInvariant == Spec => []ClipInv
<1>1. ASSUME ClipInv, [Next]_vars PROVE ClipInv'
    BY <1>1, TypeOKNext, OriginsNext, BoundsNext, ReachingNext DEF ClipInv
<1> QED BY ClipInvInit, <1>1, PTL DEF Spec

\* Once no frame is under way all clocks are equal: whatever the readers of
\* the hub interleave, no node misses the newest version.
THEOREM ClocksAgree == Spec => []ClocksAgreeWhenQuiet
<1>1. ASSUME ClipInv PROVE ClocksAgreeWhenQuiet
    <2>1. SUFFICES ASSUME NetworkQuiet PROVE \A s \in Spokes : version[s] = version[Hub]
        BY DEF ClocksAgreeWhenQuiet, Nodes
    <2>2. TAKE s \in Spokes
    <2>3. version[s] \in Nat /\ version[Hub] \in Nat
        BY <1>1 DEF ClipInv, TypeOK, Nodes
    <2>4. /\ outbox[Hub] = <<>> /\ outbox[s] = <<>>
          /\ chan[<<Hub, s>>] = <<>> /\ chan[<<s, Hub>>] = <<>>
          /\ \A p \in Spokes : task[<<Hub, p>>] = Idle
        BY <2>1, LinkFacts DEF NetworkQuiet, Nodes
    <2>5. version[Hub] <= version[s] /\ version[s] <= version[Hub]
        BY <1>1, <2>4, QueueElements
           DEF ClipInv, Reaching, HubReaches, SpokeReaches, Carries
    <2> QED BY <2>3, <2>5
<1> QED BY <1>1, ClipInvariant, PTL

\* The fan-out never hands a spoke its own snapshot.
THEOREM SpokesNeverHearThemselves == Spec => []NoBounce
<1>1. ASSUME ClipInv PROVE NoBounce
    <2>1. ASSUME NEW S, NEW q \in Seq(S), NEW i \in 1 .. Len(q)
          PROVE  q[i] \in ToSet(q)
        BY DEF ToSet
    <2>2. \A l \in Links : chan[l] \in Seq(Snapshot)
        BY <1>1 DEF ClipInv, TypeOK
    <2> QED BY <1>1, <2>1, <2>2, LinkFacts DEF ClipInv, Origins, NoBounce
<1> QED BY <1>1, ClipInvariant, PTL
-------------------------------------------------------------------------------
(* Snapshots are identified by origin and version.                         *)

\* A clock bounds every version announced under its node's name, wherever a
\* copy of the announcement is held.
OriginClocks ==
    \A x \in Held : /\ x.origin \in Nodes /\ x.version \in Nat
                    /\ x.version <= version[x.origin]

\* Pushing a snapshot adds it and no other.
LEMMA PushHistoryElements ==
    ASSUME NEW q \in Seq(Snapshot), NEW x \in Snapshot
    PROVE  ToSet(PushHistory(q, x)) \subseteq ToSet(q) \cup {x}
<1>1. CASE Len(q) = HistoryLimit
    <2>1. q # <<>>
        BY <1>1, HistoryLimitAssumption
    <2>2. /\ Tail(q) \in Seq(Snapshot)
          /\ ToSet(Tail(q)) \subseteq ToSet(q)
        BY <2>1, TailElements
    <2>3. ASSUME NEW t \in Seq(Snapshot) PROVE ToSet(Append(t, x)) = ToSet(t) \cup {x}
        BY AppendElements
    <2>4. ToSet(Append(Tail(q), x)) = ToSet(Tail(q)) \cup {x}
        BY <2>2, <2>3
    <2> QED BY <1>1, <2>2, <2>4 DEF PushHistory
<1>2. CASE Len(q) # HistoryLimit
    BY <1>2, AppendElements DEF PushHistory
<1> QED BY <1>1, <1>2

\* Where a held snapshot can be.
Places(x) ==
    \/ \E n \in Nodes : x \in ToSet(history[n]) \cup ToSet(outbox[n])
    \/ \E l \in Links : x \in ToSet(chan[l]) \/ (x = task[l].snap /\ x # NoSnap)

\* Held is the union over those places.
LEMMA HeldPlaces == \A x : x \in Held <=> Places(x)
BY DEF Held, Places

\* A step announces at most one new snapshot: Produce makes one, every other
\* step moves, keeps or drops what was there.
LEMMA HeldNext ==
    ASSUME TypeOK, [Next]_vars
    PROVE  \/ Held' \subseteq Held
           \/ \E n \in Nodes : \E snap \in Snapshot :
                 /\ Produce(n) /\ Produced(n, snap)
                 /\ Held' \subseteq Held \cup {snap}
<1>1. \A x : (x \in Held <=> Places(x)) /\ (x \in Held' <=> Places(x)')
    <2>1. \A x : x \in Held' <=> Places(x)'
        BY DEF Held, Places
    <2> QED BY <2>1, HeldPlaces
<1>2. /\ history \in [Nodes -> Seq(Snapshot)] /\ task \in [Links -> Task]
      /\ Idle.snap = NoSnap
    BY DEF TypeOK, Idle
<1> USE DEF Places
<1>3. ASSUME NEW n \in Nodes, UserCopy(n) \/ UserRecopy(n) \/ Poll(n)
      PROVE  Held' \subseteq Held
    BY <1>1, <1>3, LocalEffect
<1>4. ASSUME NEW n \in Nodes, Produce(n)
      PROVE  \E snap \in Snapshot :
                /\ Produce(n) /\ Produced(n, snap)
                /\ Held' \subseteq Held \cup {snap}
    <2>1. PICK snap \in Snapshot : Produced(n, snap)
        BY <1>4, ProduceEffect
    <2>2. \A m \in Nodes : ToSet(history'[m]) \subseteq ToSet(history[m]) \cup {snap}
        BY <1>2, <2>1, PushHistoryElements DEF Produced
    <2>3. \A m \in Nodes : ToSet(outbox'[m]) \subseteq ToSet(outbox[m]) \cup {snap}
        BY <2>1 DEF Produced
    <2>4. UNCHANGED <<chan, task>>
        BY <2>1 DEF Produced
    <2>5. Held' \subseteq Held \cup {snap}
        BY <1>1, <2>2, <2>3, <2>4
    <2> QED BY <1>4, <2>1, <2>5
<1>5. ASSUME NEW n \in Nodes, Forward(n) PROVE Held' \subseteq Held
    <2>1. PICK snap \in Snapshot : Forwarded(n, snap)
        BY <1>5, ForwardEffect
    <2>2. snap \in ToSet(outbox[n])
        BY <2>1 DEF Forwarded
    <2>3. \A l \in Links : ToSet(chan'[l]) \subseteq ToSet(chan[l]) \cup {snap}
        BY <2>1 DEF Forwarded
    <2>4. \A m \in Nodes : ToSet(outbox'[m]) \subseteq ToSet(outbox[m])
        BY <2>1 DEF Forwarded
    <2>5. UNCHANGED <<history, task>>
        BY <2>1 DEF Forwarded
    <2> QED BY <1>1, <2>2, <2>3, <2>4, <2>5
<1>6. ASSUME NEW n \in Nodes, NEW p \in Peers(n), Receive(n, p)
      PROVE  Held' \subseteq Held
    <2>1. PICK snap \in Snapshot : Received(n, p, snap)
        BY <1>6, ReceiveEffect
    <2>2. <<p, n>> \in Links /\ <<n, p>> \in Links
        BY LinkFacts
    <2>3. snap \in ToSet(chan[<<p, n>>])
        BY <2>1 DEF Received
    <2>4. \A l \in Links : ToSet(chan'[l]) \subseteq ToSet(chan[l])
        BY <2>1 DEF Received
    <2>5. \A m \in Nodes : ToSet(history'[m]) \subseteq ToSet(history[m]) \cup {snap}
        <3>1. CASE history' = history
            BY <3>1
        <3>2. CASE history' = [history EXCEPT ![n] = PushHistory(history[n], snap)]
            BY <1>2, <3>2, PushHistoryElements
        <3> QED BY <2>1, <3>1, <3>2 DEF Received, Accepted, Ignored
    <2>6. ASSUME NEW l \in Links PROVE task'[l].snap \in {task[l].snap, snap}
        <3>1. task'[l] = task[l] \/ task'[l] = [stage |-> "write", snap |-> snap]
            BY <1>2, <2>1 DEF Received, Accepted, Ignored
        <3> QED BY <3>1
    <2>7. UNCHANGED outbox
        BY <2>1 DEF Received
    <2> QED BY <1>1, <2>2, <2>3, <2>4, <2>5, <2>6, <2>7
<1>7. ASSUME NEW n \in Nodes, NEW p \in Peers(n), Apply(n, p) \/ SkipApply(n, p)
      PROVE  Held' \subseteq Held
    <2>1. \A l \in Links : task'[l].snap \in {task[l].snap, NoSnap}
        BY <1>2, <1>7, WriteEffect
    <2>2. UNCHANGED <<history, outbox, chan>>
        BY <1>7, WriteEffect
    <2> QED BY <1>1, <2>1, <2>2
<1>8. ASSUME NEW s \in Spokes, Relay(s) PROVE Held' \subseteq Held
    <2> DEFINE snap == task[<<Hub, s>>].snap
    <2>1. <<Hub, s>> \in Links
        BY LinkFacts
    <2>2. \A l \in Links : task'[l].snap \in {task[l].snap, NoSnap}
        BY <1>2, <1>8, RelayEffect
    <2>3. \A l \in Links : ToSet(chan'[l]) \subseteq ToSet(chan[l]) \cup {snap}
        BY <1>8, RelayEffect
    <2>4. UNCHANGED <<history, outbox>>
        BY <1>8, RelayEffect
    <2>5. snap # NoSnap
        BY <1>8, RelayEffect DEF NoSnap, Snapshot
    <2> QED BY <1>1, <2>1, <2>2, <2>3, <2>4, <2>5
<1>9. CASE UNCHANGED vars
    BY <1>1, <1>9 DEF vars
<1> HIDE DEF Places
<1> QED BY <1>3, <1>4, <1>5, <1>6, <1>7, <1>8, <1>9 DEF Next

\* No clock runs backwards.
LEMMA ClocksGrow ==
    ASSUME TypeOK, [Next]_vars
    PROVE  \A m \in Nodes : version'[m] \in Nat /\ version[m] <= version'[m]
<1>1. version \in [Nodes -> Nat]
    BY DEF TypeOK
<1>2. ASSUME NEW n \in Nodes, NEW p \in Peers(n), Receive(n, p)
      PROVE  \A m \in Nodes : version'[m] \in Nat /\ version[m] <= version'[m]
    <2>1. PICK snap \in Snapshot : Received(n, p, snap)
        BY <1>2, ReceiveEffect
    <2> QED BY <1>1, <2>1 DEF Received, Accepted, Ignored, Snapshot
<1>3. ASSUME NEW n \in Nodes, Produce(n)
      PROVE  \A m \in Nodes : version'[m] \in Nat /\ version[m] <= version'[m]
    BY <1>1, <1>3, ProduceEffect DEF Produced
<1>4. ASSUME UNCHANGED version
      PROVE  \A m \in Nodes : version'[m] \in Nat /\ version[m] <= version'[m]
    BY <1>1, <1>4
<1>5. ASSUME NEW n \in Nodes, Forward(n) PROVE UNCHANGED version
    BY <1>5 DEF Forward, engineVars
<1> QED BY <1>2, <1>3, <1>4, <1>5, LocalEffect, WriteEffect, RelayEffect
        DEF Next, vars

\* Two holders of the same origin and version hold the same text: a node
\* never announces two texts under one version, and no step alters one.
THEOREM SnapshotIdentity == Spec => []SnapshotsUnique
<1> DEFINE Inv == TypeOK /\ OriginClocks /\ SnapshotsUnique
<1>1. Init => Inv
    <2>1. Init => Held = {}
        BY DEF Init, Held, Idle, ToSet
    <2> QED BY <2>1, TypeOKInit DEF OriginClocks, SnapshotsUnique
<1>2. ASSUME Inv, [Next]_vars PROVE Inv'
    <2>1. TypeOK'
        BY <1>2, TypeOKNext
    <2>2. \A m \in Nodes : /\ version[m] \in Nat /\ version'[m] \in Nat
                           /\ version[m] <= version'[m]
        BY <1>2, ClocksGrow DEF TypeOK
    <2>3. \A x \in Held : /\ x.origin \in Nodes /\ x.version \in Nat
                          /\ x.version <= version[x.origin]
                          /\ x.version <= version'[x.origin]
        BY <1>2, <2>2 DEF OriginClocks
    <2>4. CASE Held' \subseteq Held
        BY <1>2, <2>1, <2>3, <2>4 DEF OriginClocks, SnapshotsUnique
    <2>5. ASSUME NEW n \in Nodes, NEW snap \in Snapshot,
                 Produced(n, snap), Held' \subseteq Held \cup {snap}
          PROVE  Inv'
        <3>1. /\ snap.origin = n /\ snap.version = version[n] + 1
              /\ version'[n] = version[n] + 1
            BY <1>2, <2>5 DEF Produced, TypeOK
        <3>2. \A x \in Held : x.origin = n => x.version # snap.version
            BY <2>2, <2>3, <3>1
        <3>3. OriginClocks'
            BY <2>2, <2>3, <2>5, <3>1 DEF OriginClocks
        <3>4. SnapshotsUnique'
            BY <1>2, <2>5, <3>1, <3>2 DEF SnapshotsUnique
        <3> QED BY <2>1, <3>3, <3>4
    <2> QED BY <1>2, <2>4, <2>5, HeldNext
<1> QED BY <1>1, <1>2, PTL DEF Spec

-------------------------------------------------------------------------------
(* The history.                                                            *)

\* A history of the given clock: bounded, in order, the clock's entry last.
InOrder(h, v) ==
    /\ Len(h) <= HistoryLimit
    /\ \A i, j \in 1 .. Len(h) : i < j => h[i].version < h[j].version
    /\ h # <<>> => h[Len(h)].version = v

\* A newer snapshot goes to the end, and the oldest gives way to it.
LEMMA PushHistoryInOrder ==
    ASSUME NEW h \in Seq(Snapshot), NEW v \in Nat, InOrder(h, v),
           NEW x \in Snapshot, x.version > v
    PROVE  InOrder(PushHistory(h, x), x.version) /\ PushHistory(h, x) # <<>>
           /\ PushHistory(h, x)[Len(PushHistory(h, x))] = x
<1>1. PICK g : g = IF Len(h) = HistoryLimit THEN Tail(h) ELSE h
    OBVIOUS
<1>2. HistoryLimit \in Nat /\ HistoryLimit >= 1 /\ Len(h) \in Nat /\ x.version \in Nat
    BY HistoryLimitAssumption DEF Snapshot
<1>3. \A i \in 1 .. Len(h) : h[i].version \in Nat /\ h[i].version <= v
    <2> SUFFICES ASSUME NEW i \in 1 .. Len(h) PROVE h[i].version \in Nat /\ h[i].version <= v
        OBVIOUS
    <2>1. h # <<>> /\ Len(h) \in 1 .. Len(h)
        BY <1>2
    <2>2. h[i].version \in Nat
        <3>1. h[i] \in Snapshot
            BY ElementOfSeq
        <3> QED BY <3>1 DEF Snapshot
    <2>3. h[Len(h)].version = v
        BY <2>1 DEF InOrder
    <2>4. i = Len(h) \/ i < Len(h)
        BY <1>2
    <2> QED BY <2>1, <2>2, <2>3, <2>4 DEF InOrder
<1>4. /\ g \in Seq(Snapshot) /\ Len(g) \in Nat /\ Len(g) < HistoryLimit
      /\ \A i, j \in 1 .. Len(g) : i < j => g[i].version < g[j].version
      /\ \A i \in 1 .. Len(g) : g[i].version < x.version
    <2>1. CASE Len(h) = HistoryLimit
        <3>1. h # <<>>
            BY <1>2, <2>1
        <3>2. /\ Tail(h) \in Seq(Snapshot) /\ Len(Tail(h)) = Len(h) - 1
              /\ \A i \in 1 .. Len(h) - 1 : Tail(h)[i] = h[i + 1]
            BY <3>1, HeadTailProperties
        <3>3. \A i \in 1 .. Len(h) - 1 : i + 1 \in 1 .. Len(h)
            BY <1>2
        <3>4. /\ g \in Seq(Snapshot) /\ Len(g) = Len(h) - 1
              /\ \A i \in 1 .. Len(g) : g[i] = h[i + 1] /\ i + 1 \in 1 .. Len(h)
            BY <1>1, <2>1, <3>2, <3>3
        <3>5. \A i, j \in 1 .. Len(g) : i < j => i + 1 < j + 1
            BY <1>2, <3>4
        <3>6. \A i, j \in 1 .. Len(g) : i < j => g[i].version < g[j].version
            BY <3>4, <3>5 DEF InOrder
        <3>7. ASSUME NEW i \in 1 .. Len(g) PROVE g[i].version < x.version
            <4>1. g[i].version \in Nat /\ g[i].version <= v
                BY <1>3, <3>4
            <4> QED BY <1>2, <4>1
        <3> QED BY <1>2, <2>1, <3>4, <3>6, <3>7
    <2>2. CASE Len(h) # HistoryLimit
        BY <1>1, <1>2, <1>3, <2>2 DEF InOrder
    <2> QED BY <2>1, <2>2
<1>5. PICK w : w = Append(g, x)
    OBVIOUS
<1>6. /\ Len(w) = Len(g) + 1 /\ w[Len(g) + 1] = x
      /\ \A i \in 1 .. Len(g) : w[i] = g[i]
    BY <1>4, <1>5, AppendProperties
<1>7. \A i \in 1 .. Len(w) : i \in 1 .. Len(g) \/ i = Len(g) + 1
    BY <1>4, <1>6
<1>8. ASSUME NEW i \in 1 .. Len(w), NEW j \in 1 .. Len(w), i < j
      PROVE  w[i].version < w[j].version
    <2>1. i \in 1 .. Len(g)
        BY <1>4, <1>6, <1>8
    <2> QED BY <1>4, <1>6, <1>7, <1>8, <2>1
<1>9. PushHistory(h, x) = w /\ w # <<>>
    BY <1>1, <1>4, <1>5, <1>6 DEF PushHistory
<1> QED BY <1>2, <1>4, <1>6, <1>8, <1>9 DEF InOrder

\* What a step does to an engine: nothing, or its newest entry is a snapshot
\* with a newer version.
LEMMA EngineNext ==
    ASSUME TypeOK, [Next]_vars, NEW n \in Nodes
    PROVE  \/ version'[n] = version[n] /\ history'[n] = history[n]
           \/ \E x \in Snapshot :
                 /\ x.version > version[n] /\ version'[n] = x.version
                 /\ history'[n] = PushHistory(history[n], x)
<1>1. version \in [Nodes -> Nat] /\ history \in [Nodes -> Seq(Snapshot)]
    BY DEF TypeOK
<1>2. CASE UNCHANGED <<version, history>>
    BY <1>2
<1>3. ASSUME NEW m \in Nodes, Produce(m)
      PROVE  \/ version'[n] = version[n] /\ history'[n] = history[n]
             \/ \E x \in Snapshot :
                   /\ x.version > version[n] /\ version'[n] = x.version
                   /\ history'[n] = PushHistory(history[n], x)
    <2>1. PICK x \in Snapshot : Produced(m, x)
        BY <1>3, ProduceEffect
    <2> QED BY <1>1, <2>1 DEF Produced
<1>4. ASSUME NEW m \in Nodes, NEW p \in Peers(m), Receive(m, p)
      PROVE  \/ version'[n] = version[n] /\ history'[n] = history[n]
             \/ \E x \in Snapshot :
                   /\ x.version > version[n] /\ version'[n] = x.version
                   /\ history'[n] = PushHistory(history[n], x)
    <2>1. PICK x \in Snapshot : Received(m, p, x)
        BY <1>4, ReceiveEffect
    <2> QED BY <1>1, <2>1 DEF Received, Accepted, Ignored
<1>5. ASSUME NEW m \in Nodes,
             UserCopy(m) \/ UserRecopy(m) \/ Poll(m) \/ Forward(m)
      PROVE  UNCHANGED <<version, history>>
    BY <1>5 DEF UserCopy, UserRecopy, Poll, Forward, engineVars
<1>6. ASSUME NEW m \in Nodes, NEW p \in Peers(m), Apply(m, p) \/ SkipApply(m, p)
      PROVE  UNCHANGED <<version, history>>
    BY <1>6 DEF Apply, SkipApply, engineVars
<1>7. ASSUME NEW s \in Spokes, Relay(s) PROVE UNCHANGED <<version, history>>
    BY <1>7 DEF Relay, engineVars
<1>8. CASE UNCHANGED vars
    BY <1>8, <1>2 DEF vars
<1> QED BY <1>2, <1>3, <1>4, <1>5, <1>6, <1>7, <1>8 DEF Next

\* `clip history` is in version order and ends with the engine's clock, however
\* local copies and arrivals alternate (clipboard/src/lib.rs:91-154).
THEOREM HistoriesStayInOrder == Spec => []HistoryInOrder
<1>1. HistoryInOrder <=> \A n \in Nodes : InOrder(history[n], version[n])
    BY DEF HistoryInOrder, InOrder, Last
<1>2. Init => HistoryInOrder
    <2>1. Len(<<>>) = 0 /\ HistoryLimit \in Nat
        BY HistoryLimitAssumption
    <2>2. PICK v : v = <<>>
        OBVIOUS
    <2>3. \A c : InOrder(v, c)
        BY <2>1, <2>2 DEF InOrder
    <2> QED BY <1>1, <2>2, <2>3 DEF Init
<1>3. ASSUME TypeOK, HistoryInOrder, [Next]_vars PROVE HistoryInOrder'
    <2>1. ASSUME NEW n \in Nodes PROVE InOrder(history'[n], version'[n])
        <3>1. InOrder(history[n], version[n]) /\ history[n] \in Seq(Snapshot)
              /\ version[n] \in Nat
            BY <1>1, <1>3 DEF TypeOK
        <3> QED BY <1>3, <3>1, EngineNext, PushHistoryInOrder
    <2> QED BY <2>1 DEF HistoryInOrder, InOrder, Last
<1> QED BY <1>2, <1>3, TypeCorrect, PTL DEF Spec

-------------------------------------------------------------------------------
(* The order of each origin's snapshots.                                   *)

Ordered(q) ==
    \A i, j \in 1 .. Len(q) :
        i < j /\ q[i].origin = q[j].origin => q[i].version < q[j].version

\* Those of A are older than those of B, origin by origin.
Older(A, B) == \A x \in A, y \in B : x.origin = y.origin => x.version < y.version

LEMMA OrderedAppend ==
    ASSUME NEW q \in Seq(Snapshot), NEW x \in Snapshot, Ordered(q), Older(ToSet(q), {x})
    PROVE  Ordered(Append(q, x))
<1>1. PICK w : w = Append(q, x)
    OBVIOUS
<1>2. /\ Len(w) = Len(q) + 1 /\ w[Len(q) + 1] = x /\ Len(q) \in Nat
      /\ \A i \in 1 .. Len(q) : w[i] = q[i] /\ q[i] \in ToSet(q)
    BY <1>1, AppendProperties DEF ToSet
<1>3. \A i \in 1 .. Len(w) : i \in 1 .. Len(q) \/ i = Len(q) + 1
    BY <1>2
<1>4. ASSUME NEW i \in 1 .. Len(w), NEW j \in 1 .. Len(w), i < j, w[i].origin = w[j].origin
      PROVE  w[i].version < w[j].version
    <2>1. i \in 1 .. Len(q)
        BY <1>2, <1>4
    <2>2. CASE j \in 1 .. Len(q)
        BY <1>2, <1>4, <2>1, <2>2 DEF Ordered
    <2>3. CASE j = Len(q) + 1
        BY <1>2, <1>4, <2>1, <2>3 DEF Older
    <2> QED BY <1>3, <2>2, <2>3
<1> QED BY <1>1, <1>4 DEF Ordered

LEMMA OrderedTail ==
    ASSUME NEW q \in Seq(Snapshot), q # <<>>, Ordered(q)
    PROVE  Ordered(Tail(q)) /\ Older({Head(q)}, ToSet(Tail(q)))
<1>1. PICK w, h : w = Tail(q) /\ h = Head(q)
    OBVIOUS
<1>2. /\ Len(q) \in Nat /\ Len(q) >= 1 /\ Len(w) = Len(q) - 1 /\ q[1] = h
      /\ \A i \in 1 .. Len(w) : w[i] = q[i + 1]
    BY <1>1, HeadTailProperties, EmptySeq, LenProperties
<1>3. \A i \in 1 .. Len(w) : i + 1 \in 1 .. Len(q) /\ 1 < i + 1 /\ 1 \in 1 .. Len(q)
    BY <1>2
<1>4. Ordered(w)
    <2>1. \A i, j \in 1 .. Len(w) : i < j => i + 1 < j + 1
        BY <1>2
    <2> QED BY <1>2, <1>3, <2>1 DEF Ordered
<1>5. Older({h}, ToSet(w))
    <2>1. ASSUME NEW y \in ToSet(w), h.origin = y.origin PROVE h.version < y.version
        <3>1. PICK i \in 1 .. Len(w) : y = w[i]
            BY <1>1, HeadTailProperties DEF ToSet
        <3>2. i + 1 \in 1 .. Len(q) /\ 1 < i + 1 /\ 1 \in 1 .. Len(q) /\ q[i + 1] = y
            BY <1>2, <1>3, <3>1
        <3> QED BY <1>2, <2>1, <3>2 DEF Ordered
    <2> QED BY <2>1 DEF Older
<1> QED BY <1>1, <1>4, <1>5

\* What the hub's reader of s has still to pass on, and what it has still to
\* read.
Relayed(s) == IF task[<<Hub, s>>] = Idle THEN {} ELSE {task[<<Hub, s>>].snap}
Behind(s) == ToSet(chan[<<s, Hub>>]) \cup ToSet(outbox[s])

\* A snapshot overtakes none of its origin's: each stage of the way holds older
\* ones than the stages before it.
OrderInv ==
    /\ \A n \in Nodes : Ordered(outbox[n])
    /\ \A l \in Links : Ordered(chan[l])
    /\ \A s \in Spokes :
          /\ Older(ToSet(chan[<<s, Hub>>]), ToSet(outbox[s]))
          /\ Older(Relayed(s), Behind(s))
          /\ Older(ToSet(chan[<<Hub, s>>]), ToSet(outbox[Hub]))
    /\ \A s, t \in Spokes : Older(ToSet(chan[<<Hub, t>>]), Relayed(s) \cup Behind(s))

LEMMA OrderInit == Init => OrderInv
<1>1. Len(<<>>) = 0 /\ ToSet(<<>>) = {}
    BY QueueElements
<1>2. PICK v : v = <<>>
    OBVIOUS
<1>3. Ordered(v) /\ ToSet(v) = {}
    BY <1>1, <1>2 DEF Ordered
<1>4. Init => (\A n \in Nodes : outbox[n] = v) /\ \A l \in Links : chan[l] = v /\ task[l] = Idle
    BY <1>2 DEF Init
<1>5. Init => \A s \in Spokes : Relayed(s) = {} /\ Behind(s) = {}
    BY <1>3, <1>4, LinkFacts DEF Relayed, Behind, Nodes
<1>6. \A B : Older({}, B)
    BY DEF Older
<1>7. Hub \in Nodes
    BY DEF Nodes
<1> QED BY <1>3, <1>4, <1>5, <1>6, <1>7, LinkFacts DEF OrderInv

\* Every snapshot on the way is in Held, so its origin's clock bounds it.
LEMMA OnTheWayIsHeld ==
    ASSUME TypeOK
    PROVE  /\ \A n \in Nodes : ToSet(outbox[n]) \subseteq Held
           /\ \A l \in Links : ToSet(chan[l]) \subseteq Held
           /\ \A s \in Spokes : Relayed(s) \subseteq Held
<1>1. \A s \in Spokes : Relayed(s) \subseteq Held
    <2> SUFFICES ASSUME NEW s \in Spokes, task[<<Hub, s>>] # Idle
                 PROVE  task[<<Hub, s>>].snap \in Held
        BY DEF Relayed
    <2>1. <<Hub, s>> \in Links
        BY LinkFacts
    <2>2. task[<<Hub, s>>].snap \in Snapshot
        BY <2>1 DEF TypeOK, Task
    <2>3. PICK x : x = task[<<Hub, s>>].snap
        OBVIOUS
    <2>4. x # NoSnap
        <3>1. x \in Snapshot
            BY <2>2, <2>3
        <3>2. DOMAIN x = {"version", "origin", "text"}
            BY <3>1 DEF Snapshot
        <3>3. DOMAIN NoSnap = {}
            BY DEF NoSnap
        <3> QED BY <3>2, <3>3
    <2> QED BY <2>1, <2>3, <2>4, HeldPlaces DEF Places
<1> QED BY <1>1, HeldPlaces DEF Places

\* Produce: the new snapshot is newer than all that bear the node's name.
LEMMA OrderProduce ==
    ASSUME TypeOK, OriginClocks, OrderInv, NEW n \in Nodes, Produce(n)
    PROVE  OrderInv'
<1>1. PICK x : x = MakeSnapshot(NextVersion(version[n]), n, Head(seen[n]))
    OBVIOUS
<1>2. x \in Snapshot /\ x.version = version[n] + 1 /\ x.origin = n /\ version[n] \in Nat
    <2>1. Head(seen[n]) \in Text /\ version[n] \in Nat
        BY DEF Produce, TypeOK
    <2> QED BY <1>1, <2>1 DEF MakeSnapshot, Snapshot, NextVersion
<1>3. outbox \in [Nodes -> Seq(Snapshot)]
    BY DEF TypeOK
<1>4. outbox' = [outbox EXCEPT ![n] = Append(outbox[n], x)] /\ UNCHANGED <<chan, task>>
    BY <1>1, <1>3 DEF Produce, NextVersion, TypeOK
<1>5. \A A \in SUBSET Held : Older(A, {x})
    BY <1>2 DEF OriginClocks, Older
<1>6. /\ Ordered(Append(outbox[n], x))
      /\ ToSet(Append(outbox[n], x)) = ToSet(outbox[n]) \cup {x}
    <2>1. Older(ToSet(outbox[n]), {x})
        BY <1>5, OnTheWayIsHeld
    <2>2. outbox[n] \in Seq(Snapshot) /\ Ordered(outbox[n])
        BY <1>3 DEF OrderInv
    <2> QED BY <1>2, <2>1, <2>2, OrderedAppend, AppendElements
<1>7. \A m \in Nodes : /\ Ordered(outbox'[m])
                       /\ ToSet(outbox'[m]) \subseteq ToSet(outbox[m]) \cup {x}
    BY <1>3, <1>4, <1>6 DEF OrderInv
<1>8. /\ Hub \in Nodes
      /\ \A s \in Spokes : /\ s \in Nodes /\ Relayed(s)' = Relayed(s)
                           /\ Behind(s)' \subseteq Behind(s) \cup {x}
    BY <1>4, <1>7 DEF Relayed, Behind, Nodes
<1>9. \A A \in SUBSET Held : \A B, C : Older(A, B) /\ C \subseteq B \cup {x} => Older(A, C)
    BY <1>5 DEF Older
<1>10. \A s \in Spokes :
          /\ Older(ToSet(chan'[<<s, Hub>>]), ToSet(outbox'[s]))
          /\ Older(Relayed(s)', Behind(s)')
          /\ Older(ToSet(chan'[<<Hub, s>>]), ToSet(outbox'[Hub]))
    BY <1>4, <1>7, <1>8, <1>9, OnTheWayIsHeld, LinkFacts DEF OrderInv
<1>11. \A s, t \in Spokes : Older(ToSet(chan'[<<Hub, t>>]), Relayed(s)' \cup Behind(s)')
    <2> SUFFICES ASSUME NEW s \in Spokes, NEW t \in Spokes
                 PROVE  Older(ToSet(chan'[<<Hub, t>>]), Relayed(s)' \cup Behind(s)')
        OBVIOUS
    <2>1. ToSet(chan[<<Hub, t>>]) \in SUBSET Held
        BY OnTheWayIsHeld, LinkFacts
    <2>2. Relayed(s)' \cup Behind(s)' \subseteq (Relayed(s) \cup Behind(s)) \cup {x}
        BY <1>8
    <2>3. Older(ToSet(chan[<<Hub, t>>]), Relayed(s) \cup Behind(s))
        BY DEF OrderInv
    <2>4. Older(ToSet(chan[<<Hub, t>>]), Relayed(s)' \cup Behind(s)')
        BY <1>9, <2>1, <2>2, <2>3
    <2> QED BY <1>4, <2>4
<1>12. \A l \in Links : Ordered(chan'[l])
    BY <1>4 DEF OrderInv
<1> QED BY <1>7, <1>10, <1>11, <1>12 DEF OrderInv

\* Forward: the oldest of the outbox follows what went before.
LEMMA OrderForward ==
    ASSUME TypeOK, Origins, OrderInv, NEW n \in Nodes, Forward(n)
    PROVE  OrderInv'
<1>1. PICK x, w : x = Head(outbox[n]) /\ w = Tail(outbox[n])
    OBVIOUS
<1>2. /\ outbox \in [Nodes -> Seq(Snapshot)] /\ chan \in [Links -> Seq(Snapshot)]
      /\ outbox[n] \in Seq(Snapshot) /\ outbox[n] # <<>>
    BY DEF TypeOK, Forward
<1>3. /\ x \in Snapshot /\ ToSet(outbox[n]) = {x} \cup ToSet(w)
      /\ Ordered(w) /\ Older({x}, ToSet(w))
    BY <1>1, <1>2, TailElements, OrderedTail DEF OrderInv
<1>4. /\ outbox' = [outbox EXCEPT ![n] = w] /\ UNCHANGED task
      /\ \A l \in Links : chan'[l] = IF l[1] = n THEN Append(chan[l], x) ELSE chan[l]
    BY <1>1, <1>2 DEF Forward, Broadcast
<1>5. x.origin = n
    BY <1>3 DEF Origins
<1>6. /\ Hub \in Nodes /\ \A s \in Spokes : s \in Nodes /\ s # Hub /\ <<s, Hub>> \in Links
                                           /\ <<Hub, s>> \in Links
    BY LinkFacts DEF Nodes
<1>7. /\ \A s \in Spokes : /\ \A y \in Relayed(s) \cup Behind(s) : y.origin = s
                           /\ Relayed(s)' = Relayed(s)
      /\ \A y \in ToSet(outbox[Hub]) : y.origin = Hub
    BY <1>4, <1>6 DEF Origins, Relayed, Behind
<1>8. \A m \in Nodes : /\ Ordered(outbox'[m]) /\ (m # n => outbox'[m] = outbox[m])
                       /\ ToSet(outbox'[m]) \subseteq ToSet(outbox[m])
    BY <1>2, <1>3, <1>4 DEF OrderInv
<1>9. ASSUME NEW l \in Links, l[1] = n
      PROVE  /\ Ordered(chan'[l]) /\ ToSet(chan'[l]) = ToSet(chan[l]) \cup {x}
    <2>1. chan[l] \in Seq(Snapshot) /\ Ordered(chan[l]) /\ chan'[l] = Append(chan[l], x)
        BY <1>2, <1>4, <1>9 DEF OrderInv
    <2>2. Older(ToSet(chan[l]), {x})
        <3>1. CASE n = Hub
            <4>1. PICK s \in Spokes : l = <<Hub, s>>
                BY <1>6, <1>9, <3>1, LinkFacts
            <4>2. Older(ToSet(chan[<<Hub, s>>]), ToSet(outbox[Hub]))
                BY DEF OrderInv
            <4> QED BY <1>3, <3>1, <4>1, <4>2 DEF Older
        <3>2. CASE n # Hub
            <4>1. n \in Spokes /\ l = <<n, Hub>>
                BY <1>6, <1>9, <3>2, LinkFacts DEF Nodes
            <4>2. Older(ToSet(chan[<<n, Hub>>]), ToSet(outbox[n]))
                BY <4>1 DEF OrderInv
            <4> QED BY <1>3, <4>1, <4>2 DEF Older
        <3> QED BY <3>1, <3>2
    <2> QED BY <1>3, <2>1, <2>2, OrderedAppend, AppendElements
<1>10. \A l \in Links : Ordered(chan'[l])
    BY <1>4, <1>9 DEF OrderInv
<1>11. \A s \in Spokes : /\ <<s, Hub>>[1] = s /\ <<Hub, s>>[1] = Hub
    OBVIOUS
<1>12. ASSUME NEW s \in Spokes
       PROVE  /\ Behind(s)' = Behind(s)
              /\ Older(ToSet(chan'[<<s, Hub>>]), ToSet(outbox'[s]))
    <2>1. CASE n = s
        <3>1. ToSet(chan'[<<s, Hub>>]) = ToSet(chan[<<s, Hub>>]) \cup {x}
            BY <1>6, <1>9, <1>11, <2>1
        <3>2. outbox'[s] = w
            BY <1>2, <1>4, <2>1
        <3>3. Behind(s)' = Behind(s)
            BY <1>3, <2>1, <3>1, <3>2 DEF Behind
        <3>4. Older(ToSet(chan[<<s, Hub>>]), ToSet(w))
            BY <1>3, <2>1 DEF OrderInv, Older
        <3> QED BY <1>3, <3>1, <3>2, <3>3, <3>4 DEF Older
    <2>2. CASE n # s
        BY <1>4, <1>6, <1>8, <1>11, <2>2 DEF Behind, OrderInv
    <2> QED BY <2>1, <2>2
<1>13. ASSUME NEW t \in Spokes
       PROVE  /\ ToSet(chan'[<<Hub, t>>]) \subseteq ToSet(chan[<<Hub, t>>]) \cup {x}
              /\ n # Hub => ToSet(chan'[<<Hub, t>>]) = ToSet(chan[<<Hub, t>>])
    BY <1>4, <1>6, <1>9, <1>11
<1>14. \A t \in Spokes : Older(ToSet(chan'[<<Hub, t>>]), ToSet(outbox'[Hub]))
    <2> SUFFICES ASSUME NEW t \in Spokes
                 PROVE  Older(ToSet(chan'[<<Hub, t>>]), ToSet(outbox'[Hub]))
        OBVIOUS
    <2>1. Older(ToSet(chan[<<Hub, t>>]), ToSet(outbox[Hub]))
        BY DEF OrderInv
    <2>2. CASE n = Hub
        <3>1. outbox'[Hub] = w /\ ToSet(w) \subseteq ToSet(outbox[Hub])
            BY <1>2, <1>3, <1>4, <2>2
        <3> QED BY <1>3, <1>13, <2>1, <3>1 DEF Older
    <2>3. CASE n # Hub
        BY <1>6, <1>8, <1>13, <2>1, <2>3
    <2> QED BY <2>2, <2>3
<1>15. \A s, t \in Spokes : Older(ToSet(chan'[<<Hub, t>>]), Relayed(s)' \cup Behind(s)')
    <2> SUFFICES ASSUME NEW s \in Spokes, NEW t \in Spokes
                 PROVE  Older(ToSet(chan'[<<Hub, t>>]), Relayed(s)' \cup Behind(s)')
        OBVIOUS
    <2>1. Older(ToSet(chan[<<Hub, t>>]), Relayed(s) \cup Behind(s))
        BY DEF OrderInv
    <2>2. Relayed(s)' \cup Behind(s)' = Relayed(s) \cup Behind(s)
        BY <1>7, <1>12
    <2>3. n = Hub => \A y \in Relayed(s) \cup Behind(s) : y.origin # x.origin
        BY <1>5, <1>6, <1>7
    <2>4. Older(ToSet(chan'[<<Hub, t>>]), Relayed(s) \cup Behind(s))
        BY <1>13, <2>1, <2>3 DEF Older
    <2> QED BY <2>2, <2>4
<1>16. \A s \in Spokes : Older(Relayed(s)', Behind(s)')
    BY <1>7, <1>12 DEF OrderInv
<1> QED BY <1>8, <1>10, <1>12, <1>14, <1>15, <1>16 DEF OrderInv

\* Receive: what the hub's reader takes is the oldest of its link.
LEMMA OrderReceive ==
    ASSUME TypeOK, OrderInv, NEW n \in Nodes, NEW p \in Peers(n), Receive(n, p)
    PROVE  OrderInv'
<1>1. PICK q, x, w : q = chan[<<p, n>>] /\ x = Head(q) /\ w = Tail(q)
    OBVIOUS
<1>2. <<n, p>> \in Links /\ <<p, n>> \in Links /\ p \in Nodes
    BY LinkFacts
<1>3. q \in Seq(Snapshot) /\ q # <<>> /\ chan \in [Links -> Seq(Snapshot)] /\ task \in [Links -> Task]
    BY <1>1, <1>2 DEF TypeOK, Receive
<1>4. /\ x \in Snapshot /\ ToSet(q) = {x} \cup ToSet(w)
      /\ Ordered(w) /\ Older({x}, ToSet(w))
    BY <1>1, <1>2, <1>3, TailElements, OrderedTail DEF OrderInv
<1>5. /\ chan' = [chan EXCEPT ![<<p, n>>] = w] /\ UNCHANGED outbox
      /\ \/ task' = [task EXCEPT ![<<n, p>>] = [stage |-> "write", snap |-> x]]
         \/ UNCHANGED task
    BY <1>1, <1>3 DEF Receive
<1>6. task[<<n, p>>] = Idle
    BY <1>2 DEF Receive, TypeOK, Task
<1>7. \A l \in Links : /\ Ordered(chan'[l])
                       /\ ToSet(chan'[l]) \subseteq ToSet(chan[l])
                       /\ l # <<p, n>> => chan'[l] = chan[l]
    BY <1>1, <1>2, <1>3, <1>4, <1>5 DEF OrderInv
<1>8. \A s \in Spokes : /\ <<s, Hub>> \in Links /\ <<Hub, s>> \in Links /\ s # Hub
                        /\ s \in Nodes
    BY LinkFacts DEF Nodes
<1>9. \A s \in Spokes : Behind(s)' \subseteq Behind(s)
    BY <1>5, <1>7, <1>8 DEF Behind
<1>10. ASSUME NEW s \in Spokes
       PROVE  \/ Relayed(s)' = Relayed(s)
              \/ /\ n = Hub /\ p = s /\ Relayed(s)' = {x}
                 /\ x \in Behind(s) /\ Older({x}, Behind(s)')
    <2>1. CASE <<Hub, s>> # <<n, p>> \/ UNCHANGED task
        <3>1. task'[<<Hub, s>>] = task[<<Hub, s>>]
            BY <1>3, <1>5, <1>8, <2>1
        <3> QED BY <3>1 DEF Relayed
    <2>2. CASE /\ <<Hub, s>> = <<n, p>>
               /\ task' = [task EXCEPT ![<<n, p>>] = [stage |-> "write", snap |-> x]]
        <3>1. n = Hub /\ p = s
            BY <2>2
        <3>2. task'[<<Hub, s>>] = [stage |-> "write", snap |-> x]
            BY <1>2, <1>3, <2>2
        <3>3. Relayed(s)' = {x}
            BY <3>2 DEF Relayed, Idle
        <3>4. Behind(s) = {x} \cup ToSet(w) \cup ToSet(outbox[s])
            BY <1>1, <1>4, <3>1 DEF Behind
        <3>5. Behind(s)' = ToSet(w) \cup ToSet(outbox[s])
            BY <1>3, <1>5, <1>8, <3>1 DEF Behind
        <3>6. Older({x}, ToSet(outbox[s]))
            <4>1. Older(ToSet(q), ToSet(outbox[s]))
                BY <1>1, <3>1 DEF OrderInv
            <4> QED BY <1>4, <4>1 DEF Older
        <3> QED BY <1>4, <3>1, <3>3, <3>4, <3>5, <3>6 DEF Older
    <2> QED BY <1>5, <2>1, <2>2
<1>11. \A s \in Spokes :
          /\ Older(ToSet(chan'[<<s, Hub>>]), ToSet(outbox'[s]))
          /\ Older(ToSet(chan'[<<Hub, s>>]), ToSet(outbox'[Hub]))
    BY <1>5, <1>7, <1>8 DEF OrderInv, Older
<1>12. \A s \in Spokes : Older(Relayed(s)', Behind(s)')
    <2> SUFFICES ASSUME NEW s \in Spokes PROVE Older(Relayed(s)', Behind(s)')
        OBVIOUS
    <2>1. Older(Relayed(s), Behind(s)')
        BY <1>9 DEF OrderInv, Older
    <2> QED BY <1>10, <2>1
<1>13. \A s, t \in Spokes : Older(ToSet(chan'[<<Hub, t>>]), Relayed(s)' \cup Behind(s)')
    <2> SUFFICES ASSUME NEW s \in Spokes, NEW t \in Spokes
                 PROVE  Older(ToSet(chan'[<<Hub, t>>]), Relayed(s)' \cup Behind(s)')
        OBVIOUS
    <2>1. Older(ToSet(chan[<<Hub, t>>]), Relayed(s) \cup Behind(s))
        BY DEF OrderInv
    <2>2. Relayed(s)' \cup Behind(s)' \subseteq Relayed(s) \cup Behind(s)
        BY <1>9, <1>10
    <2>3. ToSet(chan'[<<Hub, t>>]) \subseteq ToSet(chan[<<Hub, t>>])
        BY <1>7, <1>8
    <2> QED BY <2>1, <2>2, <2>3 DEF Older
<1>14. \A m \in Nodes : Ordered(outbox'[m])
    BY <1>5 DEF OrderInv
<1> QED BY <1>7, <1>11, <1>12, <1>13, <1>14 DEF OrderInv

\* The OS write leaves the hub's reader with what it has to relay.
LEMMA WriteKeepsRelayed ==
    ASSUME TypeOK, NEW n \in Nodes, NEW p \in Peers(n),
           Apply(n, p) \/ SkipApply(n, p)
    PROVE  \A s \in Spokes : Relayed(s)' = Relayed(s)
<1> SUFFICES ASSUME NEW s \in Spokes PROVE Relayed(s)' = Relayed(s)
    OBVIOUS
<1>1. /\ \A l \in Links \ {<<n, p>>} : task'[l] = task[l]
      /\ task[<<n, p>>] # Idle
      /\ \/ /\ n = Hub /\ task'[<<n, p>>] # Idle
            /\ task'[<<n, p>>].snap = task[<<n, p>>].snap
         \/ n # Hub /\ task'[<<n, p>>] = Idle
    BY WriteEffect
<1>2. <<Hub, s>> \in Links
    BY LinkFacts
<1>3. CASE n = Hub /\ p = s
    BY <1>1, <1>3 DEF Relayed
<1>4. CASE ~ (n = Hub /\ p = s)
    <2>1. <<Hub, s>> # <<n, p>>
        BY <1>4
    <2> QED BY <1>1, <1>2, <2>1 DEF Relayed
<1> QED BY <1>3, <1>4

\* The OS write: a spoke's reader is done, the hub's keeps what it relays.
LEMMA OrderWrite ==
    ASSUME TypeOK, OrderInv, NEW n \in Nodes, NEW p \in Peers(n),
           Apply(n, p) \/ SkipApply(n, p)
    PROVE  OrderInv'
<1>1. /\ UNCHANGED <<outbox, chan>>
      /\ \A l \in Links \ {<<n, p>>} : task'[l] = task[l]
      /\ task[<<n, p>>] # Idle
      /\ \/ /\ n = Hub /\ task'[<<n, p>>] # Idle
            /\ task'[<<n, p>>].snap = task[<<n, p>>].snap
         \/ n # Hub /\ task'[<<n, p>>] = Idle
    BY WriteEffect
<1>2. \A s \in Spokes : Relayed(s)' = Relayed(s) /\ Behind(s)' = Behind(s)
    BY <1>1, WriteKeepsRelayed DEF Behind
<1> QED BY <1>1, <1>2 DEF OrderInv

\* Relay: the snapshot is newer than all of its origin on the links out and
\* older than those behind it.
LEMMA OrderRelay ==
    ASSUME TypeOK, Origins, OrderInv, NEW s \in Spokes, Relay(s)
    PROVE  OrderInv'
<1>1. PICK x : x = task[<<Hub, s>>].snap
    OBVIOUS
<1>2. /\ x \in Snapshot /\ task[<<Hub, s>>] # Idle /\ task'[<<Hub, s>>] = Idle
      /\ \A l \in Links \ {<<Hub, s>>} : task'[l] = task[l]
      /\ UNCHANGED outbox
    BY <1>1, RelayEffect
<1>3. \A l \in Links :
          chan'[l] = IF l[1] = Hub /\ l[2] # s THEN Append(chan[l], x) ELSE chan[l]
    BY <1>1 DEF Relay, Broadcast
<1>4. \A t \in Spokes : /\ <<t, Hub>> \in Links /\ <<Hub, t>> \in Links /\ t # Hub
                        /\ <<t, Hub>>[1] = t /\ <<Hub, t>>[1] = Hub /\ t \in Nodes
    BY LinkFacts DEF Nodes
<1>5. Relayed(s) = {x} /\ x.origin = s
    BY <1>1, <1>2 DEF Relayed, Origins
<1>6. \A t \in Spokes : /\ Behind(t)' = Behind(t) /\ Relayed(t)' \subseteq Relayed(t)
                        /\ chan'[<<t, Hub>>] = chan[<<t, Hub>>]
                        /\ Relayed(s)' = {}
    <2> SUFFICES ASSUME NEW t \in Spokes
                 PROVE  /\ Behind(t)' = Behind(t) /\ Relayed(t)' \subseteq Relayed(t)
                        /\ chan'[<<t, Hub>>] = chan[<<t, Hub>>]
                        /\ Relayed(s)' = {}
        OBVIOUS
    <2>1. chan'[<<t, Hub>>] = chan[<<t, Hub>>]
        BY <1>3, <1>4
    <2>2. Relayed(s)' = {}
        BY <1>2 DEF Relayed
    <2>3. t # s => <<Hub, t>> # <<Hub, s>>
        OBVIOUS
    <2>4. t # s => Relayed(t)' = Relayed(t)
        BY <1>2, <1>4, <2>3 DEF Relayed
    <2> QED BY <1>2, <2>1, <2>2, <2>4 DEF Behind
<1>7. ASSUME NEW l \in Links
      PROVE  /\ Ordered(chan'[l]) /\ ToSet(chan'[l]) \subseteq ToSet(chan[l]) \cup {x}
    <2>1. chan[l] \in Seq(Snapshot) /\ Ordered(chan[l])
        BY DEF TypeOK, OrderInv
    <2>2. CASE l[1] = Hub /\ l[2] # s
        <3>1. PICK t \in Spokes : l = <<Hub, t>>
            BY <1>4, <2>2, LinkFacts
        <3>2. Older(ToSet(chan[<<Hub, t>>]), Relayed(s) \cup Behind(s))
            BY DEF OrderInv
        <3>3. Older(ToSet(chan[l]), {x})
            BY <1>5, <3>1, <3>2 DEF Older
        <3>4. chan'[l] = Append(chan[l], x)
            BY <1>3, <2>2
        <3> QED BY <1>2, <2>1, <3>3, <3>4, OrderedAppend, AppendElements
    <2>3. CASE ~ (l[1] = Hub /\ l[2] # s)
        BY <1>3, <2>1, <2>3
    <2> QED BY <2>2, <2>3
<1>8. \A u \in Spokes : \A y \in Behind(u) : y.origin = u
    BY <1>4 DEF Origins, Behind
<1>9. \A u \in Spokes : \A y \in Relayed(u) : y.origin = u
    BY DEF Origins, Relayed
<1>10. \A t \in Spokes : Older(ToSet(chan'[<<Hub, t>>]), ToSet(outbox'[Hub]))
    <2> SUFFICES ASSUME NEW t \in Spokes
                 PROVE  Older(ToSet(chan'[<<Hub, t>>]), ToSet(outbox'[Hub]))
        OBVIOUS
    <2>1. Hub \in Nodes /\ \A y \in ToSet(outbox[Hub]) : y.origin # x.origin
        BY <1>4, <1>5 DEF Origins, Nodes
    <2>2. Older(ToSet(chan[<<Hub, t>>]), ToSet(outbox[Hub]))
        BY DEF OrderInv
    <2>3. Older(ToSet(chan'[<<Hub, t>>]), ToSet(outbox[Hub]))
        BY <1>4, <1>7, <2>1, <2>2 DEF Older
    <2> QED BY <1>2, <2>3
<1>11. \A u, t \in Spokes : Older(ToSet(chan'[<<Hub, t>>]), Relayed(u)' \cup Behind(u)')
    <2> SUFFICES ASSUME NEW u \in Spokes, NEW t \in Spokes
                 PROVE  Older(ToSet(chan'[<<Hub, t>>]), Relayed(u)' \cup Behind(u)')
        OBVIOUS
    <2>1. Older(ToSet(chan[<<Hub, t>>]), Relayed(u) \cup Behind(u))
        BY DEF OrderInv
    <2>2. Older({x}, Relayed(u)' \cup Behind(u)')
        <3>1. CASE u = s
            <4>1. Older({x}, Behind(s))
                BY <1>5 DEF OrderInv
            <4>2. Relayed(u)' \cup Behind(u)' = Behind(s)
                BY <1>6, <3>1
            <4> QED BY <4>1, <4>2
        <3>2. CASE u # s
            <4>1. Relayed(u)' \cup Behind(u)' \subseteq Relayed(u) \cup Behind(u)
                BY <1>6
            <4>2. \A y \in Relayed(u) \cup Behind(u) : y.origin = u
                BY <1>8, <1>9
            <4> QED BY <1>5, <3>2, <4>1, <4>2 DEF Older
        <3> QED BY <3>1, <3>2
    <2>3. Relayed(u)' \cup Behind(u)' \subseteq Relayed(u) \cup Behind(u)
        BY <1>6
    <2>4. ToSet(chan'[<<Hub, t>>]) \subseteq ToSet(chan[<<Hub, t>>]) \cup {x}
        BY <1>4, <1>7
    <2> QED BY <2>1, <2>2, <2>3, <2>4 DEF Older
<1>12. \A t \in Spokes : /\ Older(ToSet(chan'[<<t, Hub>>]), ToSet(outbox'[t]))
                         /\ Older(Relayed(t)', Behind(t)')
    BY <1>2, <1>6 DEF OrderInv, Older
<1>13. \A m \in Nodes : Ordered(outbox'[m])
    BY <1>2 DEF OrderInv
<1> QED BY <1>7, <1>10, <1>11, <1>12, <1>13 DEF OrderInv

LEMMA OrderNext ==
    ASSUME TypeOK, Origins, OriginClocks, OrderInv, [Next]_vars
    PROVE  OrderInv'
<1>1. CASE UNCHANGED <<outbox, chan, task>>
    BY <1>1 DEF OrderInv, Relayed, Behind
<1>2. ASSUME NEW n \in Nodes, UserCopy(n) \/ UserRecopy(n) \/ Poll(n)
      PROVE  UNCHANGED <<outbox, chan, task>>
    BY <1>2, LocalEffect
<1>3. CASE UNCHANGED vars
    BY <1>1, <1>3 DEF vars
<1> QED BY <1>1, <1>2, <1>3, OrderProduce, OrderForward, OrderReceive, OrderWrite,
        OrderRelay DEF Next

\* The clocks that bound what is held, with the types: SnapshotIdentity's
\* invariant without its conclusion.
LEMMA OriginClocksNext ==
    ASSUME TypeOK, OriginClocks, [Next]_vars
    PROVE  OriginClocks'
<1>1. \A m \in Nodes : /\ version[m] \in Nat /\ version'[m] \in Nat
                       /\ version[m] <= version'[m]
    BY ClocksGrow DEF TypeOK
<1>2. \A x \in Held : /\ x.origin \in Nodes /\ x.version \in Nat
                      /\ x.version <= version'[x.origin]
    BY <1>1 DEF OriginClocks
<1>3. CASE Held' \subseteq Held
    BY <1>2, <1>3 DEF OriginClocks
<1>4. ASSUME NEW n \in Nodes, NEW snap \in Snapshot,
             Produced(n, snap), Held' \subseteq Held \cup {snap}
      PROVE  OriginClocks'
    <2>1. snap.origin = n /\ snap.version = version[n] + 1 /\ version'[n] = version[n] + 1
        BY <1>4 DEF Produced, TypeOK
    <2> QED BY <1>1, <1>2, <1>4, <2>1 DEF OriginClocks
<1> QED BY <1>3, <1>4, HeldNext

LEMMA LinkOrderAlways == Spec => [](OriginClocks /\ OrderInv)
<1> DEFINE Inv == OriginClocks /\ OrderInv
<1>1. Init => Inv
    <2>1. Init => Held = {}
        BY DEF Init, Held, Idle, ToSet
    <2> QED BY <2>1, OrderInit DEF OriginClocks
<1>2. ASSUME ClipInv, Inv, [Next]_vars PROVE Inv'
    BY <1>2, OrderNext, OriginClocksNext DEF ClipInv
<1> QED BY <1>1, <1>2, ClipInvariant, PTL DEF Spec

\* On every link the snapshots of one origin arrive with growing versions,
\* whichever readers of the hub they went through (server.rs:294-304).
THEOREM LinksKeepOrder == Spec => []PerOriginOrder
<1>1. OrderInv => PerOriginOrder
    BY DEF OrderInv, Ordered, PerOriginOrder
<1> QED BY <1>1, LinkOrderAlways, PTL

-------------------------------------------------------------------------------
(* What a step does to one node as its user sees it: the clipboard, the     *)
(* watcher and the texts that its readers are about to write.               *)

\* What n's reader of p is about to write to the OS clipboard.
Writes(n, p) == IF task[<<n, p>>].stage = "write" THEN {task[<<n, p>>].snap} ELSE {}

EngineAsIs(n) == version'[n] = version[n] /\ history'[n] = history[n]
WatcherAsIs(n) == last'[n] = last[n] /\ seen'[n] = seen[n]
WritesAsIs(n) == \A p \in Peers(n) : Writes(n, p)' = Writes(n, p)

\* The user copies a new text, or an earlier one again.
SeesCopy(n) ==
    /\ n \in Desktop
    /\ \/ copies'[n] = copies[n] + 1 /\ clip'[n] = <<n, copies[n] + 1>>
       \/ /\ n \in Recopiers /\ copies'[n] = copies[n]
          /\ \E k \in 1 .. copies[n] : clip'[n] = <<n, k>>
    /\ EngineAsIs(n) /\ WatcherAsIs(n) /\ WritesAsIs(n)

\* The watcher reports what is on the clipboard.
SeesPoll(n) ==
    /\ n \in Desktop /\ Changed(n)
    /\ last'[n] = clip[n] /\ seen'[n] = Append(seen[n], clip[n])
    /\ clip'[n] = clip[n] /\ copies'[n] = copies[n]
    /\ EngineAsIs(n) /\ WritesAsIs(n)

\* The engine announces the text that was reported first.
SeesProduce(n) ==
    /\ seen[n] # <<>> /\ seen'[n] = Tail(seen[n])
    /\ version'[n] = version[n] + 1
    /\ \E x \in Snapshot : /\ x.text = Head(seen[n])
                           /\ history'[n] = PushHistory(history[n], x)
    /\ clip'[n] = clip[n] /\ last'[n] = last[n] /\ copies'[n] = copies[n]
    /\ WritesAsIs(n)

\* The engine takes a snapshot, and p's reader is about to write it.
SeesAccept(n) ==
    /\ \E p \in Peers(n), x \in Snapshot :
          /\ x \in Held /\ Writes(n, p) = {} /\ Writes(n, p)' = {x}
          /\ \A r \in Peers(n) \ {p} : Writes(n, r)' = Writes(n, r)
          /\ x.version > version[n] /\ version'[n] = x.version
          /\ history'[n] = PushHistory(history[n], x)
    /\ clip'[n] = clip[n] /\ copies'[n] = copies[n]
    /\ WatcherAsIs(n)

\* A reader is done with its write, which the OS may have refused.
SeesWrite(n) ==
    /\ \E p \in Peers(n), x \in Snapshot :
          /\ Writes(n, p) = {x} /\ Writes(n, p)' = {}
          /\ \A r \in Peers(n) \ {p} : Writes(n, r)' = Writes(n, r)
          /\ \/ n \in Desktop /\ clip'[n] = x.text
             \/ (n \notin Desktop \/ n \in Flaky) /\ clip'[n] = clip[n]
    /\ copies'[n] = copies[n]
    /\ EngineAsIs(n) /\ WatcherAsIs(n)

SeesNothing(n) ==
    /\ clip'[n] = clip[n] /\ copies'[n] = copies[n]
    /\ EngineAsIs(n) /\ WatcherAsIs(n) /\ WritesAsIs(n)

SeesStep(n) ==
    \/ SeesCopy(n) \/ SeesPoll(n) \/ SeesProduce(n) \/ SeesAccept(n)
    \/ SeesWrite(n) \/ SeesNothing(n)

\* A text leaves the watcher's queue as the text of the snapshot announced.
LEMMA ProducedText ==
    ASSUME TypeOK, NEW n \in Nodes, Produce(n), NEW x \in Snapshot, Produced(n, x)
    PROVE  seen[n] # <<>> /\ Head(seen[n]) \in ToSet(seen[n]) /\ x.text = Head(seen[n])
<1>1. PICK y, h : /\ y = MakeSnapshot(NextVersion(version[n]), n, Head(seen[n]))
                  /\ h = history[n]
    OBVIOUS
<1>2. seen[n] # <<>> /\ seen[n] \in Seq(Text) /\ h \in Seq(Snapshot)
      /\ version[n] \in Nat /\ history \in [Nodes -> Seq(Snapshot)]
    BY <1>1 DEF Produce, TypeOK
<1>3. Head(seen[n]) \in Text /\ Head(seen[n]) \in ToSet(seen[n])
    BY <1>2, TailElements
<1>4. y \in Snapshot /\ y.text = Head(seen[n])
    BY <1>1, <1>2, <1>3 DEF MakeSnapshot, NextVersion, Snapshot
<1>5. history'[n] = PushHistory(h, y) /\ history'[n] = PushHistory(h, x)
    BY <1>1, <1>2 DEF Produce, Produced
<1>6. PushHistory(h, y) = PushHistory(h, x) => y = x
    <2>1. PICK g : g = (IF Len(h) = HistoryLimit THEN Tail(h) ELSE h)
        OBVIOUS
    <2>2. g \in Seq(Snapshot)
        <3>1. Len(h) = HistoryLimit => h # <<>>
            BY HistoryLimitAssumption
        <3> QED BY <1>2, <2>1, <3>1, TailElements
    <2>3. /\ Append(g, x)[Len(g) + 1] = x
          /\ Append(g, y)[Len(g) + 1] = y
        BY <2>2, <1>4, AppendProperties
    <2> QED BY <2>1, <2>3 DEF PushHistory
<1> QED BY <1>2, <1>3, <1>4, <1>5, <1>6

\* A step is one of these for every node.
LEMMA SeesNext ==
    ASSUME TypeOK, [Next]_vars, NEW n \in Nodes
    PROVE  SeesStep(n)
<1>1. /\ clip \in [Nodes -> Text \cup {NoText}] /\ last \in [Nodes -> Text \cup {NoText}]
      /\ seen \in [Nodes -> Seq(Text)] /\ copies \in [Nodes -> Nat]
      /\ version \in [Nodes -> Nat] /\ history \in [Nodes -> Seq(Snapshot)]
      /\ task \in [Links -> Task]
    BY DEF TypeOK
<1>2. \A p \in Peers(n) : <<n, p>> \in Links
    BY LinkFacts
<1>3. ASSUME UNCHANGED task PROVE WritesAsIs(n)
    BY <1>3 DEF WritesAsIs, Writes
<1>4. ASSUME NEW m \in Nodes, UserCopy(m) \/ UserRecopy(m) PROVE SeesStep(n)
    <2>1. UNCHANGED <<version, history, last, seen, task>>
        BY <1>4 DEF UserCopy, UserRecopy, engineVars, watcherVars
    <2>2. CASE m = n
        <3>1. SeesCopy(n)
            BY <1>1, <1>3, <1>4, <2>1, <2>2
               DEF SeesCopy, EngineAsIs, WatcherAsIs, UserCopy, UserRecopy
        <3> QED BY <3>1 DEF SeesStep
    <2>3. CASE m # n
        <3>1. SeesNothing(n)
            BY <1>1, <1>3, <1>4, <2>1, <2>3
               DEF SeesNothing, EngineAsIs, WatcherAsIs, UserCopy, UserRecopy
        <3> QED BY <3>1 DEF SeesStep
    <2> QED BY <2>2, <2>3
<1>5. ASSUME NEW m \in Nodes, Poll(m) PROVE SeesStep(n)
    <2>1. UNCHANGED <<version, history, clip, copies, task>>
        BY <1>5 DEF Poll, engineVars
    <2>2. CASE m = n
        <3>1. SeesPoll(n)
            BY <1>1, <1>3, <1>5, <2>1, <2>2 DEF SeesPoll, EngineAsIs, Poll
        <3> QED BY <3>1 DEF SeesStep
    <2>3. CASE m # n
        <3>1. SeesNothing(n)
            BY <1>1, <1>3, <1>5, <2>1, <2>3 DEF SeesNothing, EngineAsIs, WatcherAsIs, Poll
        <3> QED BY <3>1 DEF SeesStep
    <2> QED BY <2>2, <2>3
<1>6. ASSUME NEW m \in Nodes, Produce(m) PROVE SeesStep(n)
    <2>1. UNCHANGED <<clip, last, copies, task>> /\ seen[m] # <<>>
          /\ seen' = [seen EXCEPT ![m] = Tail(seen[m])]
        BY <1>1, <1>6 DEF Produce
    <2>2. PICK x \in Snapshot : Produced(m, x)
        BY <1>6, ProduceEffect
    <2>3. x.text = Head(seen[m])
        BY <1>6, <2>2, ProducedText
    <2>4. CASE m = n
        <3>1. SeesProduce(n)
            BY <1>1, <1>3, <2>1, <2>2, <2>3, <2>4 DEF SeesProduce, Produced
        <3> QED BY <3>1 DEF SeesStep
    <2>5. CASE m # n
        <3>1. SeesNothing(n)
            BY <1>1, <1>3, <2>1, <2>2, <2>5
               DEF SeesNothing, EngineAsIs, WatcherAsIs, Produced
        <3> QED BY <3>1 DEF SeesStep
    <2> QED BY <2>4, <2>5
<1>7. ASSUME UNCHANGED <<version, history, clip, last, seen, copies>>, WritesAsIs(n)
      PROVE  SeesStep(n)
    BY <1>7 DEF SeesStep, SeesNothing, EngineAsIs, WatcherAsIs
<1>8. ASSUME NEW m \in Nodes, Forward(m) PROVE SeesStep(n)
    <2>1. UNCHANGED <<version, history, clip, last, seen, copies, task>>
        BY <1>8 DEF Forward, engineVars, watcherVars
    <2> QED BY <1>3, <1>7, <2>1
<1>9. ASSUME NEW m \in Nodes, NEW p \in Peers(m), Receive(m, p) PROVE SeesStep(n)
    <2>1. PICK x \in Snapshot : Received(m, p, x)
        BY <1>9, ReceiveEffect
    <2>2. UNCHANGED <<clip, last, seen, copies>>
        BY <1>9 DEF Receive, watcherVars
    <2>3. <<m, p>> \in Links
        BY LinkFacts
    <2>4. CASE Ignored(m, p, x)
        BY <1>3, <1>7, <2>2, <2>4 DEF Ignored
    <2>5. CASE Accepted(m, p, x)
        <3>1. \A q \in Peers(n) : <<n, q>> # <<m, p>> => Writes(n, q)' = Writes(n, q)
            BY <1>1, <1>2, <2>3, <2>5 DEF Accepted, Writes
        <3>2. CASE m = n
            <4>1. Writes(n, p) = {} /\ Writes(n, p)' = {x}
                BY <1>1, <2>1, <2>3, <2>5, <3>2 DEF Received, Accepted, Writes, Idle
            <4>2. x \in Held
                <5>1. <<p, m>> \in Links /\ x \in ToSet(chan[<<p, m>>])
                    BY <2>1, LinkFacts DEF Received
                <5>2. Places(x)
                    BY <5>1 DEF Places
                <5> QED BY <5>2, HeldPlaces
            <4>3. SeesAccept(n)
                BY <4>2, <1>1, <2>1, <2>2, <2>5, <3>1, <3>2, <4>1
                   DEF SeesAccept, WatcherAsIs, Accepted
            <4> QED BY <4>3 DEF SeesStep
        <3>3. CASE m # n
            <4>1. SeesNothing(n)
                BY <1>1, <2>2, <2>5, <3>1, <3>3
                   DEF SeesNothing, EngineAsIs, WatcherAsIs, WritesAsIs, Accepted
            <4> QED BY <4>1 DEF SeesStep
        <3> QED BY <3>2, <3>3
    <2> QED BY <2>1, <2>4, <2>5 DEF Received
<1>10. ASSUME NEW m \in Nodes, NEW p \in Peers(m), Apply(m, p) \/ SkipApply(m, p)
       PROVE  SeesStep(n)
    <2>1. /\ UNCHANGED <<version, history, last, seen, copies>>
          /\ task[<<m, p>>].stage = "write" /\ AfterWrite(m, p)
          /\ \/ /\ m \in Desktop
                /\ clip' = [clip EXCEPT ![m] = task[<<m, p>>].snap.text]
             \/ (m \notin Desktop \/ m \in Flaky) /\ clip' = clip
        BY <1>10 DEF Apply, SkipApply, OsWrite, engineVars, watcherVars
    <2>2. <<m, p>> \in Links
        BY LinkFacts
    <2>3. task' = [task EXCEPT ![<<m, p>>] =
                     IF m = Hub THEN [stage |-> "relay", snap |-> @.snap] ELSE Idle]
        BY <2>1 DEF AfterWrite
    <2>4. task[<<m, p>>].snap \in Snapshot
        BY <1>1, <2>1, <2>2 DEF Task, Idle
    <2>5. PICK x \in Snapshot : x = task[<<m, p>>].snap
        BY <2>4
    <2>6. \A q \in Peers(n) : <<n, q>> # <<m, p>> => Writes(n, q)' = Writes(n, q)
        BY <1>1, <1>2, <2>2, <2>3 DEF Writes
    <2>7. CASE m = n
        <3>1. Writes(n, p) = {x}
            BY <2>1, <2>5, <2>7 DEF Writes
        <3>2. Writes(n, p)' = {}
            BY <1>1, <2>2, <2>3, <2>7 DEF Writes, Idle
        <3>3. SeesWrite(n)
            BY <1>1, <2>1, <2>5, <2>6, <2>7, <3>1, <3>2
               DEF SeesWrite, EngineAsIs, WatcherAsIs
        <3> QED BY <3>3 DEF SeesStep
    <2>8. CASE m # n
        <3>1. SeesNothing(n)
            BY <1>1, <2>1, <2>6, <2>8
               DEF SeesNothing, EngineAsIs, WatcherAsIs, WritesAsIs
        <3> QED BY <3>1 DEF SeesStep
    <2> QED BY <2>7, <2>8
<1>11. ASSUME NEW s \in Spokes, Relay(s) PROVE SeesStep(n)
    <2>1. /\ UNCHANGED <<version, history, clip, last, seen, copies>>
          /\ task[<<Hub, s>>].stage = "relay" /\ task' = [task EXCEPT ![<<Hub, s>>] = Idle]
        BY <1>11 DEF Relay, engineVars, watcherVars
    <2>2. WritesAsIs(n)
        BY <1>1, <1>2, <2>1 DEF WritesAsIs, Writes, Idle
    <2> QED BY <1>7, <2>1, <2>2
<1>12. CASE UNCHANGED vars
    BY <1>3, <1>7, <1>12 DEF vars
<1> QED BY <1>4, <1>5, <1>6, <1>8, <1>9, <1>10, <1>11, <1>12 DEF Next

-------------------------------------------------------------------------------
(* Every text is one that some user has copied.                            *)

\* t is no text, or one of the texts that users with counts c have copied.
CopiedBy(t, c) == t = NoText \/ (t[1] \in Nodes /\ t[2] \in Nat /\ t[2] <= c[t[1]])

KnownTexts ==
    /\ \A n \in Nodes : CopiedBy(clip[n], copies) /\ CopiedBy(last[n], copies)
    /\ \A n \in Nodes : \A t \in ToSet(seen[n]) : CopiedBy(t, copies)
    /\ \A x \in Held : CopiedBy(x.text, copies)

\* The counts of copies only grow.
LEMMA CopiesGrow ==
    ASSUME TypeOK, [Next]_vars
    PROVE  /\ \A n \in Nodes : copies[n] \in Nat /\ copies'[n] \in Nat
                               /\ copies[n] <= copies'[n]
           /\ \A t : CopiedBy(t, copies) => CopiedBy(t, copies')
<1>1. ASSUME NEW n \in Nodes
      PROVE  copies[n] \in Nat /\ copies'[n] \in Nat /\ copies[n] <= copies'[n]
    <2>1. copies[n] \in Nat
        BY DEF TypeOK
    <2>2. SeesStep(n)
        BY SeesNext
    <2>3. copies'[n] = copies[n] \/ copies'[n] = copies[n] + 1
        BY <2>2 DEF SeesStep, SeesCopy, SeesPoll, SeesProduce, SeesAccept, SeesWrite,
                    SeesNothing
    <2> QED BY <2>1, <2>3
<1> QED BY <1>1 DEF CopiedBy

\* What a reader is about to write is held.
LEMMA WritesAreHeld ==
    ASSUME TypeOK, NEW n \in Nodes, NEW p \in Peers(n), NEW x \in Writes(n, p)
    PROVE  x \in Snapshot /\ x \in Held
<1>1. <<n, p>> \in Links
    BY LinkFacts
<1>2. x = task[<<n, p>>].snap /\ task[<<n, p>>].stage = "write"
    BY DEF Writes
<1>3. x \in Snapshot
    BY <1>1, <1>2 DEF TypeOK, Task, Idle
<1>4. x # NoSnap
    <2>1. DOMAIN x = {"version", "origin", "text"}
        BY <1>3 DEF Snapshot
    <2>2. DOMAIN NoSnap = {}
        BY DEF NoSnap
    <2> QED BY <2>1, <2>2
<1>5. Places(x)
    BY <1>1, <1>2, <1>4 DEF Places
<1> QED BY <1>3, <1>5, HeldPlaces

\* A text is not the empty clipboard.
LEMMA TextsAreTexts == \A t \in Text : t # NoText
<1> SUFFICES ASSUME NEW t \in Text PROVE t # <<>>
    BY DEF NoText
<1>1. PICK n, k : t = <<n, k>>
    BY DEF Text
<1>2. Len(<<n, k>>) = 2 /\ Len(<<>>) = 0
    OBVIOUS
<1> QED BY <1>1, <1>2

LEMMA KnownInit == Init => KnownTexts
<1>1. Init => Held = {}
    BY DEF Init, Held, Idle, ToSet
<1> QED BY <1>1, QueueElements DEF Init, KnownTexts, CopiedBy

LEMMA KnownNext ==
    ASSUME TypeOK, KnownTexts, [Next]_vars
    PROVE  KnownTexts'
<1>1. \A t : CopiedBy(t, copies) => CopiedBy(t, copies')
    BY CopiesGrow
<1>2. \A x \in Held' : CopiedBy(x.text, copies')
    <2>1. CASE Held' \subseteq Held
        BY <1>1, <2>1 DEF KnownTexts
    <2>2. ASSUME NEW n \in Nodes, NEW x \in Snapshot,
                 Produce(n), Produced(n, x), Held' \subseteq Held \cup {x}
          PROVE  \A y \in Held' : CopiedBy(y.text, copies')
        <3>1. x.text \in ToSet(seen[n])
            BY <2>2, ProducedText
        <3> QED BY <1>1, <2>2, <3>1 DEF KnownTexts
    <2> QED BY <2>1, <2>2, HeldNext
<1>3. ASSUME NEW n \in Nodes
      PROVE  /\ CopiedBy(clip'[n], copies') /\ CopiedBy(last'[n], copies')
             /\ \A t \in ToSet(seen'[n]) : CopiedBy(t, copies')
    <2>1. /\ CopiedBy(clip[n], copies') /\ CopiedBy(last[n], copies')
          /\ \A t \in ToSet(seen[n]) : CopiedBy(t, copies')
          /\ \A y \in Held : CopiedBy(y.text, copies')
        BY <1>1 DEF KnownTexts
    <2>2. copies[n] \in Nat /\ copies'[n] \in Nat /\ copies[n] <= copies'[n]
        BY CopiesGrow
    <2>3. seen[n] \in Seq(Text)
        BY DEF TypeOK
    <2>4. CASE SeesCopy(n)
        <3>1. CopiedBy(clip'[n], copies')
            <4>1. \E k \in Nat : clip'[n] = <<n, k>> /\ k <= copies'[n]
                <5>1. CASE copies'[n] = copies[n] + 1 /\ clip'[n] = <<n, copies[n] + 1>>
                    BY <2>2, <5>1
                <5>2. ASSUME NEW k \in 1 .. copies[n], clip'[n] = <<n, k>>
                      PROVE  \E j \in Nat : clip'[n] = <<n, j>> /\ j <= copies'[n]
                    <6>1. k \in Nat /\ k <= copies'[n]
                        BY <2>2
                    <6> QED BY <5>2, <6>1
                <5> QED BY <2>4, <5>1, <5>2 DEF SeesCopy
            <4>2. PICK k \in Nat : clip'[n] = <<n, k>> /\ k <= copies'[n]
                BY <4>1
            <4> QED BY <4>2 DEF CopiedBy
        <3> QED BY <2>1, <2>4, <3>1 DEF SeesCopy, WatcherAsIs
    <2>5. CASE SeesPoll(n)
        <3>1. clip[n] \in Text
            BY <2>5 DEF SeesPoll, Changed, TypeOK
        <3>2. ToSet(seen'[n]) = ToSet(seen[n]) \cup {clip[n]}
            BY <2>3, <2>5, <3>1, AppendElements DEF SeesPoll
        <3> QED BY <2>1, <2>5, <3>2 DEF SeesPoll
    <2>6. CASE SeesProduce(n)
        <3>1. ToSet(seen'[n]) \subseteq ToSet(seen[n])
            BY <2>3, <2>6, TailElements DEF SeesProduce
        <3> QED BY <2>1, <2>6, <3>1 DEF SeesProduce
    <2>7. CASE SeesAccept(n)
        BY <2>1, <2>7 DEF SeesAccept, WatcherAsIs
    <2>8. CASE SeesWrite(n)
        <3>1. PICK p \in Peers(n), x \in Snapshot :
                  Writes(n, p) = {x} /\ (clip'[n] = x.text \/ clip'[n] = clip[n])
            BY <2>8 DEF SeesWrite
        <3>2. x \in Held
            BY <3>1, WritesAreHeld
        <3> QED BY <2>1, <2>8, <3>1, <3>2 DEF SeesWrite, WatcherAsIs
    <2>9. CASE SeesNothing(n)
        BY <2>1, <2>9 DEF SeesNothing, WatcherAsIs
    <2> QED BY <2>4, <2>5, <2>6, <2>7, <2>8, <2>9, SeesNext DEF SeesStep
<1> QED BY <1>2, <1>3 DEF KnownTexts

\* No text is invented: what a clipboard, a queue or a frame holds, some
\* user has copied.
LEMMA TextsAreKnown == Spec => []KnownTexts
<1> QED BY KnownInit, KnownNext, TypeCorrect, PTL DEF Spec
-------------------------------------------------------------------------------
(* A spoke at rest shows the newest snapshot it has taken.                 *)

Quiescent(s) == s \in (Spokes \cap Desktop) \ (Flaky \cup Recopiers)

\* What the clipboard of s will hold when its reader is done.
Target(s) ==
    IF task[<<s, Hub>>].stage = "write" THEN task[<<s, Hub>>].snap.text ELSE clip[s]

\* The watcher's baseline is the last text it reported; a clipboard that ends at
\* the baseline, everything reported being announced, shows the newest entry.
Shows(s) ==
    /\ seen[s] # <<>> => Last(seen[s]) = last[s]
    /\ seen[s] # <<>> \/ history[s] # <<>> => Target(s) # NoText
    /\ seen[s] = <<>> /\ history[s] # <<>> /\ Target(s) = last[s]
           => Last(history[s]).text = last[s]

\* The newest entry of a history is the one pushed last.
LEMMA PushHistoryLast ==
    ASSUME NEW q \in Seq(Snapshot), NEW x \in Snapshot
    PROVE  PushHistory(q, x) # <<>> /\ Last(PushHistory(q, x)) = x
<1>1. PICK g : g = (IF Len(q) = HistoryLimit THEN Tail(q) ELSE q)
    OBVIOUS
<1>2. g \in Seq(Snapshot)
    <2>1. Len(q) = HistoryLimit => q # <<>>
        BY HistoryLimitAssumption
    <2> QED BY <1>1, <2>1, TailElements
<1>3. /\ Append(g, x)[Len(g) + 1] = x /\ Len(Append(g, x)) = Len(g) + 1
      /\ Append(g, x) # <<>>
    BY <1>2, AppendProperties
<1> QED BY <1>1, <1>3 DEF PushHistory, Last

\* The last of what remains is the last of the queue.
LEMMA TailLast ==
    ASSUME NEW S, NEW q \in Seq(S), q # <<>>
    PROVE  IF Tail(q) = <<>> THEN Head(q) = Last(q) ELSE Last(Tail(q)) = Last(q)
<1>1. PICK w : w = Tail(q)
    OBVIOUS
<1>2. /\ w \in Seq(S) /\ Len(q) \in Nat /\ Len(q) >= 1 /\ Len(w) = Len(q) - 1
      /\ Head(q) = q[1] /\ \A i \in 1 .. Len(w) : w[i] = q[i + 1]
    BY <1>1, HeadTailProperties, EmptySeq, LenProperties
<1>3. CASE w = <<>>
    <2>1. Len(w) = 0
        BY <1>3
    <2>2. Len(q) = 1
        BY <1>2, <2>1
    <2> QED BY <1>1, <1>2, <1>3, <2>2 DEF Last
<1>4. CASE w # <<>>
    <2>1. Len(w) \in 1 .. Len(w)
        BY <1>2, <1>4, EmptySeq, LenProperties
    <2>2. w[Len(w)] = q[Len(w) + 1] /\ Len(w) + 1 = Len(q)
        BY <1>2, <2>1
    <2> QED BY <1>1, <1>4, <2>2 DEF Last
<1> QED BY <1>3, <1>4

LEMMA AppendLast ==
    ASSUME NEW S, NEW q \in Seq(S), NEW x \in S
    PROVE  Append(q, x) # <<>> /\ Last(Append(q, x)) = x
<1>1. /\ Append(q, x)[Len(q) + 1] = x /\ Len(Append(q, x)) = Len(q) + 1
      /\ Append(q, x) # <<>>
    BY AppendProperties
<1> QED BY <1>1 DEF Last

LEMMA ShowsNext ==
    ASSUME TypeOK, KnownTexts, [Next]_vars, NEW s, Quiescent(s), Shows(s)
    PROVE  Shows(s)'
<1>1. /\ s \in Nodes /\ s \in Desktop /\ s \notin Flaky /\ s \notin Recopiers
      /\ s \in Spokes
    BY DEF Quiescent, Nodes
<1>2. Peers(s) = {Hub}
    BY <1>1, ClipSyncAssumption DEF Peers
<1>3. /\ clip[s] \in Text \cup {NoText} /\ last[s] \in Text \cup {NoText}
      /\ seen[s] \in Seq(Text) /\ history[s] \in Seq(Snapshot) /\ copies[s] \in Nat
    BY <1>1 DEF TypeOK
<1>4. /\ Writes(s, Hub) = {} => Target(s) = clip[s]
      /\ \A x : Writes(s, Hub) = {x} => Target(s) = x.text
      /\ Writes(s, Hub)' = {} => Target(s)' = clip'[s]
      /\ \A x : Writes(s, Hub)' = {x} => Target(s)' = x.text
    BY DEF Writes, Target
<1>5. Writes(s, Hub)' = Writes(s, Hub) /\ clip'[s] = clip[s] => Target(s)' = Target(s)
    BY DEF Writes, Target
<1>6. Writes(s, Hub) = {} \/ \E x \in Snapshot : Writes(s, Hub) = {x}
    <2>1. \A x \in Writes(s, Hub) : x \in Snapshot
        BY <1>1, <1>2, WritesAreHeld
    <2> QED BY <2>1 DEF Writes
<1>7. \A t \in Text : t # NoText
    BY TextsAreTexts
<1>8. CASE SeesCopy(s)
    <2>1. /\ clip'[s] = <<s, copies[s] + 1>>
          /\ EngineAsIs(s) /\ WatcherAsIs(s) /\ WritesAsIs(s)
        BY <1>1, <1>8 DEF SeesCopy
    <2>2. Writes(s, Hub)' = Writes(s, Hub)
        BY <1>2, <2>1 DEF WritesAsIs
    <2>3. clip'[s] # NoText /\ clip'[s] # last[s]
        <3>1. CopiedBy(last[s], copies)
            BY <1>1 DEF KnownTexts
        <3>2. <<s, copies[s] + 1>> \in Text
            BY <1>1, <1>3 DEF Text
        <3>3. PICK t : t = clip'[s]
            OBVIOUS
        <3>4. t[1] = s /\ t[2] = copies[s] + 1 /\ t # NoText
            BY <2>1, <3>2, <3>3, TextsAreTexts
        <3>5. t # last[s]
            BY <1>3, <3>1, <3>4 DEF CopiedBy
        <3> QED BY <3>3, <3>4, <3>5
    <2>4. \/ Target(s)' = Target(s)
          \/ Target(s)' = clip'[s]
        BY <1>4, <1>6, <2>2
    <2> QED BY <2>1, <2>3, <2>4 DEF Shows, EngineAsIs, WatcherAsIs
<1>9. CASE SeesPoll(s)
    <2>1. /\ clip[s] \in Text /\ last'[s] = clip[s]
          /\ seen'[s] = Append(seen[s], clip[s])
          /\ clip'[s] = clip[s] /\ WritesAsIs(s)
        BY <1>3, <1>9 DEF SeesPoll, Changed
    <2>2. seen'[s] # <<>> /\ Last(seen'[s]) = last'[s]
        BY <1>3, <2>1, AppendLast
    <2>3. Target(s)' = Target(s)
        BY <1>2, <1>5, <2>1 DEF WritesAsIs
    <2>4. Target(s) # NoText
        <3>1. CASE Writes(s, Hub) = {}
            BY <1>4, <1>7, <2>1, <3>1
        <3>2. ASSUME NEW x \in Snapshot, Writes(s, Hub) = {x} PROVE Target(s) # NoText
            BY <1>4, <1>7, <3>2 DEF Snapshot
        <3> QED BY <1>6, <3>1, <3>2
    <2> QED BY <2>2, <2>3, <2>4 DEF Shows
<1>10. CASE SeesProduce(s)
    <2>1. /\ seen[s] # <<>> /\ seen'[s] = Tail(seen[s]) /\ last'[s] = last[s]
          /\ clip'[s] = clip[s] /\ WritesAsIs(s)
        BY <1>10 DEF SeesProduce
    <2>2. PICK x \in Snapshot : /\ x.text = Head(seen[s])
                                /\ history'[s] = PushHistory(history[s], x)
        BY <1>10 DEF SeesProduce
    <2>3. Last(history'[s]) = x
        BY <1>3, <2>2, PushHistoryLast
    <2>4. Target(s)' = Target(s)
        BY <1>2, <1>5, <2>1 DEF WritesAsIs
    <2>5. Target(s) # NoText /\ Last(seen[s]) = last[s]
        BY <2>1 DEF Shows
    <2>6. IF seen'[s] = <<>> THEN Head(seen[s]) = last[s] ELSE Last(seen'[s]) = last[s]
        BY <1>3, <2>1, <2>5, TailLast
    <2> QED BY <2>1, <2>2, <2>3, <2>4, <2>5, <2>6 DEF Shows
<1>11. CASE SeesAccept(s)
    <2>1. PICK x \in Snapshot : /\ Writes(s, Hub)' = {x}
                                /\ history'[s] = PushHistory(history[s], x)
        BY <1>2, <1>11 DEF SeesAccept
    <2>2. Last(history'[s]) = x
        BY <1>3, <2>1, PushHistoryLast
    <2>3. Target(s)' = x.text /\ x.text # NoText
        BY <1>4, <1>7, <2>1 DEF Snapshot
    <2>4. WatcherAsIs(s)
        BY <1>11 DEF SeesAccept
    <2> QED BY <2>2, <2>3, <2>4 DEF Shows, WatcherAsIs
<1>12. CASE SeesWrite(s)
    <2>1. PICK x \in Snapshot : /\ Writes(s, Hub) = {x} /\ Writes(s, Hub)' = {}
                                /\ clip'[s] = x.text
        BY <1>1, <1>2, <1>12 DEF SeesWrite
    <2>2. Target(s)' = Target(s)
        BY <1>4, <2>1
    <2> QED BY <1>12, <2>2 DEF SeesWrite, Shows, EngineAsIs, WatcherAsIs
<1>13. CASE SeesNothing(s)
    <2>1. Target(s)' = Target(s)
        BY <1>2, <1>5, <1>13 DEF SeesNothing, WritesAsIs
    <2> QED BY <1>13, <2>1 DEF SeesNothing, Shows, EngineAsIs, WatcherAsIs
<1> QED BY <1>1, <1>8, <1>9, <1>10, <1>11, <1>12, <1>13, SeesNext DEF SeesStep

\* At rest a spoke shows the text its engine took last: its watcher, its engine
\* and its OS writes interleave as they like (pal-x11/src/imp.rs:56-80, common.rs:52-96).
THEOREM SpokesShowTheNewest == Spec => []SpokeShowsNewest
<1> DEFINE Inv == \A s : Quiescent(s) => Shows(s)
<1>1. Init => Inv
    <2> SUFFICES ASSUME Init, NEW s, Quiescent(s) PROVE Shows(s)
        OBVIOUS
    <2>1. s \in Nodes
        BY DEF Quiescent, Nodes
    <2> QED BY <2>1 DEF Init, Shows
<1>2. ASSUME TypeOK, KnownTexts, Inv, [Next]_vars PROVE Inv'
    BY <1>2, ShowsNext DEF Quiescent
<1>3. ASSUME Inv PROVE SpokeShowsNewest
    <2> SUFFICES ASSUME NEW s, Quiescent(s), Quiet, history[s] # <<>>
                 PROVE  clip[s] = Last(history[s]).text
        BY DEF SpokeShowsNewest, Quiescent
    <2>1. s \in Spokes /\ s \in Nodes /\ s \in Desktop /\ <<s, Hub>> \in Links
        BY LinkFacts DEF Quiescent, Nodes
    <2>2. /\ task[<<s, Hub>>] = Idle /\ seen[s] = <<>> /\ clip[s] \in {NoText, last[s]}
        BY <2>1 DEF Quiet, NetworkQuiet
    <2>3. Target(s) = clip[s]
        BY <2>2 DEF Target, Idle
    <2> QED BY <1>3, <2>2, <2>3 DEF Shows
<1> QED BY <1>1, <1>2, <1>3, TypeCorrect, TextsAreKnown, PTL DEF Spec

-------------------------------------------------------------------------------
(* One copy: how far it gets, and when its echo ends.                      *)

\* What every node keeps: a watcher has only reported what a desktop shows, an
\* engine whose watcher has nothing left to report has announced, and a desktop
\* whose engine has heard of anything shows a text or is about to.
NodeInv(n) ==
    /\ seen[n] # <<>> => last[n] # NoText
    /\ last[n] # NoText => n \in Desktop /\ clip[n] # NoText
    /\ copies[n] # 0 => n \in Desktop /\ clip[n] # NoText
    /\ last[n] # NoText /\ seen[n] = <<>> => version[n] >= 1
    /\ n \in Desktop \ Flaky /\ version[n] >= 1
           => clip[n] # NoText \/ \E p \in Peers(n) : Writes(n, p) # {}

LEMMA NodeInvNext ==
    ASSUME TypeOK, [Next]_vars, NEW n \in Nodes, NodeInv(n)
    PROVE  NodeInv(n)'
<1>1. /\ clip[n] \in Text \cup {NoText} /\ last[n] \in Text \cup {NoText}
      /\ seen[n] \in Seq(Text) /\ version[n] \in Nat /\ copies[n] \in Nat
      /\ copies'[n] \in Nat /\ version'[n] \in Nat /\ version[n] <= version'[n]
    BY ClocksGrow, CopiesGrow DEF TypeOK
<1>2. \A t \in Text : t # NoText
    BY TextsAreTexts
<1>3. ASSUME WritesAsIs(n)
      PROVE  (\E p \in Peers(n) : Writes(n, p)' # {}) <=> \E p \in Peers(n) : Writes(n, p) # {}
    BY <1>3 DEF WritesAsIs
<1>4. CASE SeesCopy(n)
    <2>1. clip'[n] # NoText
        <3>1. \A k \in Nat \ {0} : <<n, k>> # NoText
            BY <1>2 DEF Text
        <3>2. copies[n] + 1 \in Nat \ {0} /\ \A k \in 1 .. copies[n] : k \in Nat \ {0}
            BY <1>1
        <3> QED BY <1>4, <3>1, <3>2 DEF SeesCopy
    <2> QED BY <1>4, <2>1 DEF NodeInv, SeesCopy, EngineAsIs, WatcherAsIs
<1>5. CASE SeesPoll(n)
    <2>1. seen'[n] # <<>> /\ clip[n] # NoText
        BY <1>1, <1>5, AppendLast DEF SeesPoll, Changed
    <2> QED BY <1>5, <2>1 DEF NodeInv, SeesPoll, EngineAsIs
<1>6. CASE SeesProduce(n)
    <2>1. clip'[n] # NoText /\ last'[n] # NoText /\ n \in Desktop /\ version'[n] >= 1
        BY <1>1, <1>6 DEF NodeInv, SeesProduce
    <2> QED BY <1>6, <2>1 DEF NodeInv
<1>7. CASE SeesAccept(n)
    <2>1. \E p \in Peers(n) : Writes(n, p)' # {}
        BY <1>7 DEF SeesAccept
    <2> QED BY <1>1, <1>7, <2>1 DEF NodeInv, SeesAccept, WatcherAsIs
<1>8. CASE SeesWrite(n)
    <2>1. PICK x \in Snapshot :
              \/ clip'[n] = x.text
              \/ (n \notin Desktop \/ n \in Flaky) /\ clip'[n] = clip[n]
        BY <1>8 DEF SeesWrite
    <2>2. x.text # NoText
        BY <1>2 DEF Snapshot
    <2>3. clip'[n] # NoText \/ (clip'[n] = clip[n] /\ n \notin Desktop \ Flaky)
        BY <2>1, <2>2
    <2> QED BY <1>8, <2>3 DEF NodeInv, SeesWrite, EngineAsIs, WatcherAsIs
<1>9. CASE SeesNothing(n)
    BY <1>3, <1>9 DEF NodeInv, SeesNothing, EngineAsIs, WatcherAsIs
<1> QED BY <1>4, <1>5, <1>6, <1>7, <1>8, <1>9, SeesNext DEF SeesStep

NodesInv == \A n \in Nodes : NodeInv(n)

\* What every node keeps, always.
LEMMA NodesAlways == Spec => []NodesInv
<1>1. Init => NodesInv
    BY DEF Init, NodesInv, NodeInv, InitialVersion
<1>2. ASSUME TypeOK, NodesInv, [Next]_vars PROVE NodesInv'
    BY <1>2, NodeInvNext DEF NodesInv
<1> QED BY <1>1, <1>2, TypeCorrect, PTL DEF Spec

\* At most one text has been copied.
OneUser == \E u \in Nodes : copies[u] <= 1 /\ \A m \in Nodes \ {u} : copies[m] = 0

LEMMA OneText ==
    ASSUME TypeOK, OneUser,
           NEW t \in Text, CopiedBy(t, copies), NEW w \in Text, CopiedBy(w, copies)
    PROVE  t = w
<1>1. PICK u \in Nodes : copies[u] <= 1 /\ \A m \in Nodes \ {u} : copies[m] = 0
    BY DEF OneUser
<1>2. ASSUME NEW v \in Text, CopiedBy(v, copies) PROVE v = <<u, 1>>
    <2>1. PICK n \in Nodes, k \in Nat \ {0} : v = <<n, k>>
        BY DEF Text
    <2>2. v # NoText
        BY TextsAreTexts
    <2>3. k <= copies[n] /\ copies[n] \in Nat /\ copies[u] \in Nat
        BY <1>2, <2>1, <2>2 DEF CopiedBy, TypeOK
    <2>4. n = u
        BY <1>1, <2>1, <2>3
    <2>5. k = 1
        BY <1>1, <2>1, <2>3, <2>4
    <2> QED BY <2>1, <2>4, <2>5
<1> QED BY <1>2

\* A single copy reaches every desktop whose writes succeed, directly or through
\* the relay (server.rs:294-304).
THEOREM OneCopyArrives == Spec => []OneCopyReachesAll
<1>1. ASSUME TypeOK, KnownTexts, NodesInv, ClocksAgreeWhenQuiet PROVE OneCopyReachesAll
    <2> SUFFICES ASSUME Quiet, OneCopy, NEW m \in Desktop \ Flaky, NEW n \in Desktop \ Flaky
                 PROVE  clip[m] = clip[n]
        BY DEF OneCopyReachesAll
    <2>1. PICK u \in Nodes : copies = [k \in Nodes |-> IF k = u THEN 1 ELSE 0]
        BY DEF OneCopy
    <2>2. OneUser /\ copies[u] # 0
        BY <2>1 DEF OneUser
    <2>3. u \in Desktop /\ clip[u] # NoText
        BY <1>1, <2>2 DEF NodesInv, NodeInv
    <2>4. version[u] >= 1
        <3>1. last[u] = clip[u] /\ seen[u] = <<>>
            BY <2>3 DEF Quiet
        <3> QED BY <1>1, <2>3, <3>1 DEF NodesInv, NodeInv
    <2>5. ASSUME NEW d \in Desktop \ Flaky
          PROVE  clip[d] \in Text /\ CopiedBy(clip[d], copies)
        <3>1. d \in Nodes
            BY ClipSyncAssumption
        <3>2. version[d] >= 1
            BY <1>1, <2>4, <3>1 DEF ClocksAgreeWhenQuiet, Quiet
        <3>3. ASSUME NEW p \in Peers(d) PROVE Writes(d, p) = {}
            <4>1. <<d, p>> \in Links
                BY <3>1, LinkFacts
            <4>2. task[<<d, p>>] = Idle
                BY <4>1 DEF Quiet, NetworkQuiet
            <4> QED BY <4>2 DEF Writes, Idle
        <3> QED BY <1>1, <3>1, <3>2, <3>3 DEF NodesInv, NodeInv, TypeOK, KnownTexts
    <2> QED BY <1>1, <2>2, <2>5, OneText
<1> QED BY <1>1, TypeCorrect, TextsAreKnown, NodesAlways, ClocksAgree, PTL

\* The desktops whose watcher has had its only text announced.
Announced == {n \in Desktop : last[n] # NoText /\ seen[n] = <<>>}

\* Announcements so far: no clock has run ahead of their number.
EchoInv ==
    /\ \A n \in Nodes : Len(seen[n]) <= 1
    /\ \A n \in Nodes : version[n] <= Cardinality(Announced)
    /\ \A x \in Held : x.version <= Cardinality(Announced)

LEMMA DesktopFinite == IsFiniteSet(Desktop)
<1>1. IsFiniteSet(Spokes \cup {Hub})
    BY ClipSyncAssumption, FS_AddElement
<1>2. Desktop \in SUBSET (Spokes \cup {Hub})
    BY ClipSyncAssumption DEF Nodes
<1> QED BY <1>1, <1>2, FS_Subset

LEMMA OneUserBefore ==
    ASSUME TypeOK, [Next]_vars, OneUser' PROVE OneUser
<1>1. PICK u \in Nodes : copies'[u] <= 1 /\ \A m \in Nodes \ {u} : copies'[m] = 0
    BY DEF OneUser
<1>2. \A m \in Nodes : copies[m] \in Nat /\ copies'[m] \in Nat /\ copies[m] <= copies'[m]
    BY CopiesGrow
<1>3. copies[u] <= 1 /\ \A m \in Nodes \ {u} : copies[m] = 0
    BY <1>1, <1>2
<1> QED BY <1>3 DEF OneUser

\* With one text about, a watcher that has reported it reports nothing more.
LEMMA WatcherNext ==
    ASSUME TypeOK, KnownTexts, NodesInv, OneUser, [Next]_vars, NEW n \in Nodes,
           Len(seen[n]) <= 1
    PROVE  /\ Len(seen'[n]) <= 1
           /\ n \in Announced => n \in Announced'
<1>1. /\ clip[n] \in Text \cup {NoText} /\ last[n] \in Text \cup {NoText}
      /\ seen[n] \in Seq(Text) /\ CopiedBy(clip[n], copies) /\ CopiedBy(last[n], copies)
      /\ Len(<<>>) = 0
    BY DEF TypeOK, KnownTexts
<1>2. CASE SeesPoll(n)
    <2>1. clip[n] \in Text /\ last[n] = NoText
        BY <1>1, <1>2, OneText DEF SeesPoll, Changed
    <2>2. seen[n] = <<>>
        BY <2>1 DEF NodesInv, NodeInv
    <2>3. seen'[n] = Append(seen[n], clip[n])
        BY <1>2 DEF SeesPoll
    <2>4. Len(seen'[n]) = Len(seen[n]) + 1
        BY <1>1, <2>1, <2>3, AppendProperties
    <2> QED BY <1>1, <2>1, <2>2, <2>4 DEF Announced
<1>3. CASE SeesProduce(n)
    <2>1. seen[n] # <<>> /\ seen'[n] = Tail(seen[n])
        BY <1>3 DEF SeesProduce
    <2>2. Len(seen'[n]) = Len(seen[n]) - 1 /\ Len(seen[n]) \in Nat
        BY <1>1, <2>1, HeadTailProperties, LenProperties
    <2> QED BY <2>1, <2>2 DEF Announced
<1>4. CASE SeesCopy(n) \/ SeesAccept(n) \/ SeesWrite(n) \/ SeesNothing(n)
    <2>1. last'[n] = last[n] /\ seen'[n] = seen[n]
        BY <1>4 DEF SeesCopy, SeesAccept, SeesWrite, SeesNothing, WatcherAsIs
    <2> QED BY <2>1 DEF Announced
<1> QED BY <1>2, <1>3, <1>4, SeesNext DEF SeesStep

\* An announcement counts.
LEMMA Counted ==
    ASSUME TypeOK, NodesInv, NEW n \in Nodes, Len(seen[n]) <= 1,
           seen[n] # <<>>, seen'[n] = Tail(seen[n]), last'[n] = last[n]
    PROVE  n \in Announced' /\ n \notin Announced
<1>1. n \in Desktop /\ last[n] # NoText
    BY DEF NodesInv, NodeInv
<1>2. PICK w : w = Tail(seen[n])
    OBVIOUS
<1>3. w \in Seq(Text) /\ Len(w) = 0
    <2>1. seen[n] \in Seq(Text)
        BY DEF TypeOK
    <2>2. Len(seen[n]) \in Nat /\ Len(seen[n]) # 0
        BY <2>1, EmptySeq, LenProperties
    <2>3. w \in Seq(Text) /\ Len(w) = Len(seen[n]) - 1
        BY <1>2, <2>1, HeadTailProperties
    <2>4. PICK k : k = Len(seen[n])
        OBVIOUS
    <2>5. k \in Nat /\ k # 0 /\ k <= 1 /\ Len(w) = k - 1
        BY <2>2, <2>3, <2>4
    <2>6. k = 1
        BY <2>5
    <2> QED BY <2>3, <2>5, <2>6
<1>4. w = <<>>
    BY <1>3, EmptySeq
<1> QED BY <1>1, <1>2, <1>4 DEF Announced

LEMMA EchoNext ==
    ASSUME TypeOK, OriginClocks, KnownTexts, NodesInv, OneUser, EchoInv, [Next]_vars
    PROVE  EchoInv'
<1>1. \A n \in Nodes : Len(seen'[n]) <= 1 /\ (n \in Announced => n \in Announced')
    BY WatcherNext DEF EchoInv
<1>2. PICK A, B : A = Announced /\ B = Announced'
    OBVIOUS
<1>3. /\ A \subseteq B /\ IsFiniteSet(A) /\ IsFiniteSet(B)
      /\ Cardinality(A) \in Nat /\ Cardinality(B) \in Nat
      /\ Cardinality(A) <= Cardinality(B)
    <2>1. A \in SUBSET Desktop /\ B \in SUBSET Desktop /\ Desktop \subseteq Nodes
        BY <1>2, ClipSyncAssumption DEF Announced
    <2>2. IsFiniteSet(A) /\ IsFiniteSet(B)
        BY <2>1, DesktopFinite, FS_Subset
    <2>3. A \in SUBSET B
        BY <1>1, <1>2, <2>1
    <2> QED BY <2>2, <2>3, FS_Subset, FS_CardinalityType
<1>4. ASSUME NEW n \in B, n \notin A PROVE Cardinality(A) + 1 <= Cardinality(B)
    <2>1. IsFiniteSet(A \cup {n}) /\ Cardinality(A \cup {n}) = Cardinality(A) + 1
        BY <1>3, <1>4, FS_AddElement
    <2>2. (A \cup {n}) \in SUBSET B
        BY <1>3
    <2> QED BY <1>3, <2>1, <2>2, FS_Subset
<1>5. /\ \A n \in Nodes : version[n] \in Nat /\ version[n] <= Cardinality(A)
      /\ \A x \in Held : x.version \in Nat /\ x.version <= Cardinality(A)
    BY <1>2 DEF EchoInv, TypeOK, OriginClocks
<1>6. ASSUME NEW n \in Nodes PROVE version'[n] <= Cardinality(B)
    <2>1. CASE SeesProduce(n)
        <3>1. n \in B /\ n \notin A
            BY <1>2, <2>1, Counted DEF EchoInv, SeesProduce
        <3>2. version'[n] = version[n] + 1
            BY <2>1 DEF SeesProduce
        <3> QED BY <1>3, <1>4, <1>5, <3>1, <3>2
    <2>2. CASE SeesAccept(n)
        <3>1. PICK x \in Held : version'[n] = x.version
            BY <2>2 DEF SeesAccept
        <3> QED BY <1>3, <1>5, <3>1
    <2>3. CASE SeesCopy(n) \/ SeesPoll(n) \/ SeesWrite(n) \/ SeesNothing(n)
        <3>1. version'[n] = version[n]
            BY <2>3 DEF SeesCopy, SeesPoll, SeesWrite, SeesNothing, EngineAsIs
        <3> QED BY <1>3, <1>5, <3>1
    <2> QED BY <2>1, <2>2, <2>3, SeesNext DEF SeesStep
<1>7. \A x \in Held' : x.version <= Cardinality(B)
    <2>1. CASE Held' \subseteq Held
        BY <1>3, <1>5, <2>1
    <2>2. ASSUME NEW n \in Nodes, NEW x \in Snapshot,
                 Produce(n), Produced(n, x), Held' \subseteq Held \cup {x}
          PROVE  \A y \in Held' : y.version <= Cardinality(B)
        <3>1. seen[n] # <<>> /\ seen'[n] = Tail(seen[n]) /\ last'[n] = last[n]
            BY <2>2 DEF Produce, TypeOK
        <3>2. n \in B /\ n \notin A
            BY <1>2, <3>1, Counted DEF EchoInv
        <3>3. x.version = version[n] + 1
            BY <2>2 DEF Produced
        <3>4. x.version <= Cardinality(B)
            BY <1>3, <1>4, <1>5, <3>2, <3>3
        <3> QED BY <1>3, <1>5, <2>2, <3>4
    <2> QED BY <2>1, <2>2, HeldNext
<1> QED BY <1>1, <1>2, <1>6, <1>7 DEF EchoInv

\* The echo of a single copy dies out: every desktop announces it at most once,
\* although no watcher can tell the runtime's own writes from a user's copy
\* (pal-x11/src/imp.rs:56-80).
THEOREM EchoesEnd == Spec => []OneCopyEchoBounded
<1> DEFINE Inv == OriginClocks /\ (OneUser => EchoInv)
<1>1. Init => Inv
    <2> SUFFICES ASSUME Init PROVE OriginClocks /\ EchoInv
        OBVIOUS
    <2>1. Held = {}
        BY DEF Init, Held, Idle, ToSet
    <2>2. Announced = {}
        BY ClipSyncAssumption DEF Init, Announced
    <2>3. Len(<<>>) = 0
        OBVIOUS
    <2>4. \A n \in Nodes : version[n] = 0 /\ Len(seen[n]) = 0
        BY <2>3 DEF Init, InitialVersion
    <2> QED BY <2>1, <2>2, <2>4, FS_EmptySet DEF OriginClocks, EchoInv
<1>2. ASSUME TypeOK, KnownTexts, NodesInv, Inv, [Next]_vars PROVE Inv'
    <2>1. OriginClocks'
        BY <1>2, OriginClocksNext
    <2>2. ASSUME OneUser' PROVE EchoInv'
        BY <1>2, <2>2, OneUserBefore, EchoNext
    <2> QED BY <2>1, <2>2
<1>3. ASSUME TypeOK, Inv PROVE OneCopyEchoBounded
    <2> SUFFICES ASSUME OneCopy, NEW n \in Nodes PROVE version[n] <= Cardinality(Desktop)
        BY DEF OneCopyEchoBounded
    <2>1. OneUser
        BY DEF OneCopy, OneUser
    <2>2. PICK A : A = Announced
        OBVIOUS
    <2>3. A \in SUBSET Desktop
        BY <2>2 DEF Announced
    <2>4. /\ Cardinality(A) <= Cardinality(Desktop) /\ IsFiniteSet(A)
          /\ Cardinality(A) \in Nat /\ Cardinality(Desktop) \in Nat
        BY <2>3, DesktopFinite, FS_Subset, FS_CardinalityType
    <2>5. version[n] <= Cardinality(A) /\ version[n] \in Nat
        BY <1>3, <2>1, <2>2 DEF EchoInv, TypeOK
    <2> QED BY <2>4, <2>5
<1> QED BY <1>1, <1>2, <1>3, TypeCorrect, TextsAreKnown, NodesAlways, PTL DEF Spec
-------------------------------------------------------------------------------
(* The pipeline gossips.                                                    *)

\* A clock that has not moved belongs to a node that has heard of nothing.
FreshClocks == \A n \in Nodes : history[n] = <<>> => version[n] = 0

LEMMA FreshClocksInit == Init => FreshClocks
BY DEF Init, FreshClocks, InitialVersion

LEMMA FreshClocksNext ==
    ASSUME TypeOK, FreshClocks, [Next]_vars
    PROVE  FreshClocks'
<1> SUFFICES ASSUME NEW n \in Nodes, history'[n] = <<>> PROVE version'[n] = 0
    BY DEF FreshClocks
<1>1. \A x \in Snapshot : history'[n] # PushHistory(history[n], x)
    BY PushHistoryLast DEF TypeOK
<1>2. version'[n] = version[n] /\ history'[n] = history[n]
    BY <1>1, EngineNext
<1> QED BY <1>2 DEF FreshClocks

\* A snapshot is never the empty sequence that stands for none.
LEMMA SnapshotsAreSnapshots == \A x \in Snapshot : x # NoSnap
<1> SUFFICES ASSUME NEW x \in Snapshot PROVE x # NoSnap
    OBVIOUS
<1>1. DOMAIN x = {"version", "origin", "text"}
    BY DEF Snapshot
<1>2. DOMAIN NoSnap = {}
    BY DEF NoSnap
<1> QED BY <1>1, <1>2

\* The clock that Gossip reads off the newest snapshot is the engine's.
LEMMA ClockIsVersion ==
    ASSUME TypeOK, HistoryInOrder, FreshClocks, NEW n \in Nodes
    PROVE  G!Clock(n) = version[n]
<1>1. CASE history[n] = <<>>
    <2>1. Newest[n] = NoSnap
        BY <1>1 DEF Newest
    <2> QED BY <1>1, <2>1 DEF G!Clock, FreshClocks
<1>2. CASE history[n] # <<>>
    <2>1. Newest[n] = Last(history[n])
        BY <1>2 DEF Newest
    <2>2. history[n] \in Seq(Snapshot)
        BY DEF TypeOK
    <2>3. Len(history[n]) \in 1 .. Len(history[n])
        BY <1>2, <2>2, EmptySeq, LenProperties
    <2>4. Last(history[n]) \in Snapshot
        BY <2>2, <2>3, ElementOfSeq DEF Last
    <2>5. Last(history[n]) # NoSnap
        BY <2>4, SnapshotsAreSnapshots
    <2>6. Last(history[n]).version = version[n]
        BY <1>2 DEF HistoryInOrder
    <2> QED BY <2>1, <2>5, <2>6 DEF G!Clock
<1> QED BY <1>1, <1>2

\* What a node owes over a link: in its outbox, on the link, or with one of
\* its readers.
Owes(l, x) ==
    \/ x \in ToSet(outbox[l[1]])
    \/ x \in ToSet(chan[l])
    \/ l[1] = Hub /\ \E s \in Spokes \ {l[2]} : x \in Relayed(s)

DueIsOwed == \A l \in Links : \A x : x \in Due[l] <=> Owes(l, x)

LEMMA DueOwes == TypeOK => DueIsOwed
<1> SUFFICES ASSUME TypeOK, NEW l \in Links, NEW x PROVE x \in Due[l] <=> Owes(l, x)
    BY DEF DueIsOwed
<1>1. Due[l] = ToSet(outbox[l[1]]) \cup ToSet(chan[l]) \cup InReaders(l[1], l[2])
    BY DEF Due
<1>2. x \in InReaders(l[1], l[2])
         <=> l[1] = Hub /\ \E s \in Spokes \ {l[2]} : x \in Relayed(s)
    <2>1. CASE l[1] = Hub
        <3>1. Peers(l[1]) = Spokes
            BY <2>1 DEF Peers
        <3>2. ASSUME NEW s \in Spokes
              PROVE  x \in Relayed(s) <=> (x = task[<<Hub, s>>].snap /\ x # NoSnap)
            <4>1. <<Hub, s>> \in Links
                BY LinkFacts
            <4>2. task[<<Hub, s>>] = Idle \/ task[<<Hub, s>>].snap \in Snapshot
                BY <4>1 DEF TypeOK, Task
            <4>3. Idle.snap = NoSnap
                BY DEF Idle
            <4>4. CASE task[<<Hub, s>>] = Idle
                BY <4>3, <4>4 DEF Relayed
            <4>5. CASE task[<<Hub, s>>] # Idle
                <5>1. task[<<Hub, s>>].snap # NoSnap
                    BY <4>2, <4>5, SnapshotsAreSnapshots
                <5> QED BY <4>5, <5>1 DEF Relayed
            <4> QED BY <4>4, <4>5
        <3> QED BY <2>1, <3>1, <3>2 DEF InReaders
    <2>2. CASE l[1] # Hub
        <3>1. Peers(l[1]) = {Hub} /\ l[2] = Hub
            BY <2>2, LinkFacts DEF Peers, Links
        <3> QED BY <2>2, <3>1 DEF InReaders
    <2> QED BY <2>1, <2>2
<1> QED BY <1>1, <1>2 DEF Owes

\* Two functions on the links with the same members on each are the same.
LEMMA SameDue ==
    ASSUME NEW f, NEW g, f = [l \in Links |-> f[l]], g = [l \in Links |-> g[l]],
           \A l \in Links : \A x : x \in f[l] <=> x \in g[l]
    PROVE  f = g
<1>1. \A l \in Links : f[l] = g[l]
    OBVIOUS
<1> QED BY <1>1

LEMMA DueFunctions ==
    /\ Due = [l \in Links |-> Due[l]] /\ Due' = [l \in Links |-> Due'[l]]
    /\ Newest = [n \in Nodes |-> Newest[n]] /\ Newest' = [n \in Nodes |-> Newest'[n]]
BY DEF Due, Newest

\* A step that moves a snapshot along the way to a peer is none of Gossip.
LEMMA MovesAreStutters ==
    ASSUME TypeOK, TypeOK', UNCHANGED history,
           \A l \in Links : \A x : Owes(l, x)' <=> Owes(l, x)
    PROVE  UNCHANGED <<Newest, Due>>
<1>1. Newest' = Newest
    BY DEF Newest
<1>2. DueIsOwed /\ DueIsOwed'
    BY DueOwes, PTL
<1>3. \A l \in Links : \A x : x \in Due'[l] <=> x \in Due[l]
    BY <1>2 DEF DueIsOwed
<1>4. Due' = Due
    BY <1>3, DueFunctions, SameDue
<1> QED BY <1>1, <1>4

\* Forward takes the snapshot from the outbox to the links.
LEMMA ForwardOwes ==
    ASSUME TypeOK, NEW n \in Nodes, Forward(n)
    PROVE  UNCHANGED history /\ \A l \in Links : \A x : Owes(l, x)' <=> Owes(l, x)
<1>1. PICK snap \in Snapshot : Forwarded(n, snap)
    BY ForwardEffect
<1>2. UNCHANGED history /\ \A s \in Spokes : Relayed(s)' = Relayed(s)
    BY <1>1 DEF Forwarded, Relayed
<1>3. ASSUME NEW l \in Links, NEW x PROVE Owes(l, x)' <=> Owes(l, x)
    <2>1. l[1] \in Nodes
        BY LinkFacts
    <2>2. CASE l[1] = n
        <3>1. /\ ToSet(chan'[l]) = ToSet(chan[l]) \cup {snap}
              /\ ToSet(outbox[l[1]]) = {snap} \cup ToSet(outbox'[l[1]])
            BY <1>1, <2>2 DEF Forwarded
        <3> QED BY <1>2, <3>1 DEF Owes
    <2>3. CASE l[1] # n
        <3>1. chan'[l] = chan[l] /\ outbox'[l[1]] = outbox[l[1]]
            BY <1>1, <2>1, <2>3 DEF Forwarded
        <3> QED BY <1>2, <3>1 DEF Owes
    <2> QED BY <2>2, <2>3
<1> QED BY <1>2, <1>3

\* Relay takes it from the hub's reader to the links of the other spokes.
LEMMA RelayOwes ==
    ASSUME TypeOK, NEW s \in Spokes, Relay(s)
    PROVE  UNCHANGED history /\ \A l \in Links : \A x : Owes(l, x)' <=> Owes(l, x)
<1>1. PICK snap : snap = task[<<Hub, s>>].snap
    OBVIOUS
<1>2. /\ task[<<Hub, s>>] # Idle /\ task'[<<Hub, s>>] = Idle
      /\ \A l \in Links \ {<<Hub, s>>} : task'[l] = task[l]
      /\ \A l \in Links : IF l[1] = Hub /\ l[2] # s
                          THEN ToSet(chan'[l]) = ToSet(chan[l]) \cup {snap}
                          ELSE chan'[l] = chan[l]
      /\ UNCHANGED <<history, outbox>>
    BY <1>1, RelayEffect
<1>3. Relayed(s) = {snap} /\ Relayed(s)' = {}
    BY <1>1, <1>2 DEF Relayed
<1>4. ASSUME NEW t \in Spokes, t # s PROVE Relayed(t)' = Relayed(t)
    <2>1. <<Hub, t>> \in Links /\ <<Hub, t>> # <<Hub, s>>
        BY <1>4, LinkFacts
    <2> QED BY <1>2, <2>1 DEF Relayed
<1>5. ASSUME NEW l \in Links, NEW x PROVE Owes(l, x)' <=> Owes(l, x)
    <2>1. CASE l[1] = Hub /\ l[2] # s
        <3>1. ToSet(chan'[l]) = ToSet(chan[l]) \cup {snap}
            BY <1>2, <2>1
        <3> QED BY <1>2, <1>3, <1>4, <2>1, <3>1 DEF Owes
    <2>2. CASE ~ (l[1] = Hub /\ l[2] # s)
        <3>1. chan'[l] = chan[l]
            BY <1>2, <2>2
        <3> QED BY <1>2, <1>3, <1>4, <2>2, <3>1 DEF Owes
    <2> QED BY <2>1, <2>2
<1> QED BY <1>2, <1>5

\* The OS write happens on the way.
LEMMA WriteOwes ==
    ASSUME TypeOK, NEW n \in Nodes, NEW p \in Peers(n), Apply(n, p) \/ SkipApply(n, p)
    PROVE  UNCHANGED history /\ \A l \in Links : \A x : Owes(l, x)' <=> Owes(l, x)
<1>1. UNCHANGED <<history, outbox, chan>>
    BY WriteEffect
<1>2. \A s \in Spokes : Relayed(s)' = Relayed(s)
    BY WriteKeepsRelayed
<1> QED BY <1>1, <1>2 DEF Owes

\* Produce owes the new snapshot over every link of its node.
LEMMA ProducePublishes ==
    ASSUME TypeOK, TypeOK', HistoryInOrder, FreshClocks, NEW n \in Nodes, Produce(n)
    PROVE  G!Publish(n)
<1>1. PICK x \in Snapshot : Produced(n, x)
    BY ProduceEffect
<1>2. /\ x.version = G!Clock(n) + 1 /\ x.origin = n /\ x.text \in Text /\ x # NoSnap
      /\ x = [version |-> x.version, origin |-> x.origin, text |-> x.text]
    BY <1>1, ClockIsVersion, SnapshotsAreSnapshots DEF Produced, Snapshot
<1>3. /\ history \in [Nodes -> Seq(Snapshot)]
      /\ history' = [history EXCEPT ![n] = PushHistory(history[n], x)]
    BY <1>1 DEF Produced, TypeOK
<1>4. history'[n] # <<>> /\ Last(history'[n]) = x
    BY <1>3, PushHistoryLast
<1>5. Newest'[n] = x /\ \A m \in Nodes \ {n} : Newest'[m] = Newest[m]
    BY <1>3, <1>4 DEF Newest
<1>6. Newest' = [Newest EXCEPT ![n] = x]
    BY <1>5 DEF Newest
<1>7. \A l \in Links : \A y : Owes(l, y)' <=> Owes(l, y) \/ (l[1] = n /\ y = x)
    <2> SUFFICES ASSUME NEW l \in Links, NEW y
                 PROVE  Owes(l, y)' <=> Owes(l, y) \/ (l[1] = n /\ y = x)
        OBVIOUS
    <2>1. \A s \in Spokes : Relayed(s)' = Relayed(s)
        BY <1>1 DEF Produced, Relayed
    <2>2. l[1] \in Nodes /\ chan'[l] = chan[l]
        BY <1>1, LinkFacts DEF Produced
    <2>3. y \in ToSet(outbox'[l[1]]) <=> y \in ToSet(outbox[l[1]]) \/ (l[1] = n /\ y = x)
        BY <1>1, <2>2 DEF Produced
    <2> QED BY <2>1, <2>2, <2>3 DEF Owes
<1>8. PICK d : d = [l \in Links |-> IF l[1] = n THEN Due[l] \cup {x} ELSE Due[l]]
    OBVIOUS
<1>9. DueIsOwed /\ DueIsOwed'
    BY DueOwes, PTL
<1>10. \A l \in Links : \A y : y \in Due'[l] <=> y \in d[l]
    BY <1>7, <1>8, <1>9 DEF DueIsOwed
<1>11. Due' = d
    BY <1>8, <1>10, DueFunctions, SameDue
<1>12. Newest'[n].text \in Text /\ Newest'[n] # NoSnap
    BY <1>2, <1>5
<1>13. Newest'[n] = [version |-> G!Clock(n) + 1, origin |-> n, text |-> Newest'[n].text]
    BY <1>2, <1>5
<1> QED BY <1>5, <1>6, <1>8, <1>11, <1>12, <1>13 DEF G!Publish

\* A snapshot is owed once: what n's reader takes off the link from p is
\* nowhere else on its way from p to n.
LEMMA OwedOnce ==
    ASSUME TypeOK, OrderInv, NEW n \in Nodes, NEW p \in Peers(n), Receive(n, p),
           NEW x, x = Head(chan[<<p, n>>])
    PROVE  Owes(<<p, n>>, x) /\ ~ Owes(<<p, n>>, x)'
<1>1. PICK q, w : q = chan[<<p, n>>] /\ w = Tail(q)
    OBVIOUS
<1>2. /\ q # <<>> /\ chan'[<<p, n>>] = w /\ x \in Snapshot /\ Received(n, p, x)
    BY <1>1, ReceiveHead
<1>3. <<p, n>> \in Links /\ <<n, p>> \in Links /\ p \in Nodes /\ p # n
    BY LinkFacts
<1>4. q \in Seq(Snapshot) /\ Ordered(q)
    BY <1>1, <1>3 DEF TypeOK, OrderInv
<1>5. x \in ToSet(q) /\ Older({x}, ToSet(w))
    BY <1>1, <1>2, <1>4, TailElements, OrderedTail
<1>6. \A B : Older({x}, B) => x \notin B
    BY <1>2 DEF Older, Snapshot
<1>7. x \notin ToSet(chan'[<<p, n>>])
    BY <1>2, <1>5, <1>6
<1>8. UNCHANGED outbox
    BY <1>2 DEF Received
<1>9. CASE p # Hub
    <2>1. p \in Spokes /\ n = Hub
        BY <1>3, <1>9 DEF Peers, Nodes
    <2>2. Older(ToSet(q), ToSet(outbox[p]))
        BY <1>1, <2>1 DEF OrderInv
    <2>3. x \notin ToSet(outbox[p])
        BY <1>5, <1>6, <2>2 DEF Older
    <2> QED BY <1>1, <1>5, <1>7, <1>8, <1>9, <2>3 DEF Owes
<1>10. CASE p = Hub
    <2>1. n \in Spokes /\ n # Hub
        BY <1>3, <1>10 DEF Peers, Nodes
    <2>2. Older(ToSet(q), ToSet(outbox[Hub]))
        BY <1>1, <1>10, <2>1 DEF OrderInv
    <2>3. x \notin ToSet(outbox[p])
        BY <1>5, <1>6, <1>10, <2>2 DEF Older
    <2>4. ASSUME NEW s \in Spokes PROVE x \notin Relayed(s)'
        <3>1. Older(ToSet(q), Relayed(s) \cup Behind(s))
            BY <1>1, <1>10, <2>1 DEF OrderInv
        <3>2. x \notin Relayed(s)
            BY <1>5, <1>6, <3>1 DEF Older
        <3>3. <<Hub, s>> \in Links /\ <<Hub, s>> # <<n, p>> /\ task \in [Links -> Task]
            BY <2>1, LinkFacts DEF TypeOK
        <3>4. task'[<<Hub, s>>] = task[<<Hub, s>>]
            BY <1>2, <1>3, <3>3 DEF Received, Accepted, Ignored
        <3> QED BY <3>2, <3>4 DEF Relayed
    <2> QED BY <1>1, <1>5, <1>7, <1>8, <2>3, <2>4 DEF Owes
<1> QED BY <1>9, <1>10

\* What a Receive step does to the debts: the link loses the snapshot, and an
\* accepted one is owed to the other peers.
LEMMA ReceiveOwes ==
    ASSUME TypeOK, OrderInv, NEW n \in Nodes, NEW p \in Peers(n), NEW x,
           x = Head(chan[<<p, n>>]), Receive(n, p),
           NEW l \in Links, NEW y
    PROVE  Owes(l, y)' <=>
              IF l = <<p, n>> THEN Owes(l, y) /\ y # x
              ELSE Owes(l, y) \/ (Accepted(n, p, x) /\ l[1] = n /\ l[2] # p /\ y = x)
<1>1. /\ Received(n, p, x) /\ x \in Snapshot
    BY ReceiveHead
<1>2. <<p, n>> \in Links /\ <<n, p>> \in Links /\ p \in Nodes /\ p # n
    BY LinkFacts
<1>3. UNCHANGED outbox /\ task[<<n, p>>] = Idle /\ task \in [Links -> Task]
    BY <1>1 DEF Received, TypeOK
<1>4. \/ Accepted(n, p, x) /\ task' = [task EXCEPT ![<<n, p>>] = [stage |-> "write", snap |-> x]]
      \/ ~ Accepted(n, p, x) /\ UNCHANGED task
    BY <1>1 DEF Received, Accepted, Ignored
<1>5. ASSUME NEW s \in Spokes
      PROVE  \A z : z \in Relayed(s)' <=>
                z \in Relayed(s) \/ (Accepted(n, p, x) /\ n = Hub /\ p = s /\ z = x)
    <2>1. <<Hub, s>> \in Links /\ (<<Hub, s>> = <<n, p>> <=> n = Hub /\ p = s)
        BY LinkFacts
    <2>2. CASE n = Hub /\ p = s /\ Accepted(n, p, x)
        <3>1. task'[<<Hub, s>>] = [stage |-> "write", snap |-> x]
            BY <1>3, <1>4, <2>1, <2>2
        <3>2. Relayed(s)' = {x} /\ Relayed(s) = {}
            BY <1>3, <2>2, <3>1 DEF Relayed, Idle
        <3> QED BY <2>2, <3>2
    <2>3. CASE ~ (n = Hub /\ p = s /\ Accepted(n, p, x))
        <3>1. task'[<<Hub, s>>] = task[<<Hub, s>>]
            BY <1>3, <1>4, <2>1, <2>3
        <3> QED BY <2>3, <3>1 DEF Relayed
    <2> QED BY <2>2, <2>3
<1>6. CASE l = <<p, n>>
    <2>1. Owes(l, x) /\ ~ Owes(l, x)'
        BY <1>6, OwedOnce
    <2>2. ToSet(chan[l]) = {x} \cup ToSet(chan'[l])
        BY <1>1, <1>6 DEF Received
    <2>3. \A s \in Spokes \ {l[2]} : l[1] = Hub => \A z : z \in Relayed(s)' <=> z \in Relayed(s)
        BY <1>2, <1>5, <1>6
    <2>4. y # x => (Owes(l, y)' <=> Owes(l, y))
        BY <1>3, <2>2, <2>3 DEF Owes
    <2> QED BY <1>6, <2>1, <2>4
<1>7. CASE l # <<p, n>>
    <2>1. chan'[l] = chan[l]
        BY <1>1, <1>7 DEF Received
    <2>2. l[1] = n => l[2] \in Peers(n)
        BY DEF Links
    <2>3. (\E s \in Spokes \ {l[2]} : y \in Relayed(s)') <=>
              \/ \E s \in Spokes \ {l[2]} : y \in Relayed(s)
              \/ Accepted(n, p, x) /\ n = Hub /\ l[2] # p /\ y = x
        <3>1. n = Hub => p \in Spokes
            BY DEF Peers
        <3> QED BY <1>5, <3>1
    <2>4. l[1] = n /\ n # Hub => l[2] = p
        BY <2>2 DEF Peers
    <2> QED BY <1>3, <1>7, <2>1, <2>3, <2>4 DEF Owes
<1> QED BY <1>6, <1>7

\* Receive hears one snapshot.
LEMMA ReceiveHears ==
    ASSUME TypeOK, TypeOK', HistoryInOrder, FreshClocks, OrderInv,
           NEW n \in Nodes, NEW p \in Peers(n), Receive(n, p)
    PROVE  G!Hear(n, p)
<1>1. PICK x : x = Head(chan[<<p, n>>])
    OBVIOUS
<1>2. Received(n, p, x) /\ x \in Snapshot
    BY <1>1, ReceiveHead
<1>3. <<p, n>> \in Links /\ <<n, p>> \in Links /\ p \in Nodes /\ p # n
    BY LinkFacts
<1>4. DueIsOwed /\ DueIsOwed'
    BY DueOwes, PTL
<1>5. x \in Due[<<p, n>>] /\ x \notin Due'[<<p, n>>]
    BY <1>1, <1>3, <1>4, OwedOnce DEF DueIsOwed
<1>6. x \in G!Settled(p, n)
    BY <1>5 DEF G!Settled
<1>7. \A l \in Links : \A y : y \in Due'[l] <=>
              IF l = <<p, n>> THEN y \in Due[l] /\ y # x
              ELSE y \in Due[l] \/ (Accepted(n, p, x) /\ l[1] = n /\ l[2] # p /\ y = x)
    BY <1>1, <1>4, ReceiveOwes DEF DueIsOwed
<1>8. G!Clock(n) = version[n]
    BY ClockIsVersion
<1>9. CASE Accepted(n, p, x)
    <2>1. x.origin # n /\ x.version > G!Clock(n)
        BY <1>8, <1>9 DEF Accepted
    <2>2. /\ history \in [Nodes -> Seq(Snapshot)]
          /\ history' = [history EXCEPT ![n] = PushHistory(history[n], x)]
        BY <1>9 DEF Accepted, TypeOK
    <2>3. history'[n] # <<>> /\ Last(history'[n]) = x
        BY <1>2, <2>2, PushHistoryLast
    <2>4. Newest'[n] = x /\ \A m \in Nodes \ {n} : Newest'[m] = Newest[m]
        BY <2>2, <2>3 DEF Newest
    <2>5. Newest' = [Newest EXCEPT ![n] = x]
        BY <2>4 DEF Newest
    <2>6. PICK d : d = [l \in Links |->
                          IF l = <<p, n>> THEN Due[l] \ {x}
                          ELSE IF l[1] = n /\ l[2] # p THEN Due[l] \cup {x}
                          ELSE Due[l]]
        OBVIOUS
    <2>7. \A l \in Links : \A y : y \in Due'[l] <=> y \in d[l]
        BY <1>7, <1>9, <2>6
    <2>8. Due' = d
        BY <2>6, <2>7, DueFunctions, SameDue
    <2> QED BY <1>6, <2>1, <2>5, <2>6, <2>8 DEF G!Hear
<1>10. CASE ~ Accepted(n, p, x)
    <2>1. Ignored(n, p, x)
        BY <1>2, <1>10 DEF Received
    <2>2. ~ (x.origin # n /\ x.version > G!Clock(n)) /\ UNCHANGED history
        BY <1>8, <2>1 DEF Ignored
    <2>3. UNCHANGED Newest
        BY <2>2 DEF Newest
    <2>4. PICK d : d = [Due EXCEPT ![<<p, n>>] = Due[<<p, n>>] \ {x}]
        OBVIOUS
    <2>5. d = [l \in Links |-> IF l = <<p, n>> THEN Due[l] \ {x} ELSE Due[l]]
        BY <2>4 DEF Due
    <2>6. \A l \in Links : \A y : y \in Due'[l] <=> y \in d[l]
        BY <1>7, <1>10, <2>5
    <2>7. Due' = d
        BY <2>5, <2>6, DueFunctions, SameDue
    <2>8. Due' = [Due EXCEPT ![<<p, n>>] = @ \ {x}]
        BY <2>4, <2>7
    <2> QED BY <1>6, <2>2, <2>3, <2>8 DEF G!Hear
<1> QED BY <1>9, <1>10

\* With its queues, its tasks and the relay the star behaves as nodes that
\* gossip (common.rs:64-122, server.rs:113-118 and 289-304).
THEOREM ClipSyncImplementsGossip == Spec => ImplementsGossip
<1> DEFINE Inv == TypeOK /\ HistoryInOrder /\ FreshClocks /\ OrderInv
<1>1. Init => G!Init
    <2> SUFFICES ASSUME Init PROVE G!Init
        OBVIOUS
    <2>1. TypeOK /\ DueIsOwed
        BY TypeOKInit, DueOwes
    <2>2. \A n \in Nodes : history[n] = <<>> /\ ToSet(outbox[n]) = {}
        BY QueueElements DEF Init
    <2>3. \A l \in Links : ToSet(chan[l]) = {} /\ l[1] \in Nodes
        BY LinkFacts, QueueElements DEF Init
    <2>4. \A s \in Spokes : Relayed(s) = {}
        BY LinkFacts DEF Init, Relayed
    <2>5. \A l \in Links : Due[l] = {}
        BY <2>1, <2>2, <2>3, <2>4 DEF DueIsOwed, Owes
    <2>6. Due = [l \in Links |-> {}]
        BY <2>5, DueFunctions
    <2>7. Newest = [n \in Nodes |-> NoSnap]
        BY <2>2 DEF Newest
    <2> QED BY <2>6, <2>7 DEF G!Init
<1>2. ASSUME Inv, TypeOK', [Next]_vars PROVE [G!Next]_G!vars
    <2>1. ASSUME UNCHANGED <<Newest, Due>> PROVE [G!Next]_G!vars
        BY <2>1 DEF G!vars
    <2>2. ASSUME NEW n \in Nodes, UserCopy(n) \/ UserRecopy(n) \/ Poll(n)
          PROVE  UNCHANGED <<Newest, Due>>
        <3>1. UNCHANGED <<history, outbox, chan, task>>
            BY <2>2, LocalEffect
        <3> QED BY <3>1 DEF Newest, Due, InReaders
    <2>3. ASSUME NEW n \in Nodes, Produce(n) PROVE G!Next
        BY <1>2, <2>3, ProducePublishes DEF G!Next
    <2>4. ASSUME NEW n \in Nodes, Forward(n) PROVE UNCHANGED <<Newest, Due>>
        BY <1>2, <2>4, ForwardOwes, MovesAreStutters
    <2>5. ASSUME NEW n \in Nodes, NEW p \in Peers(n), Receive(n, p) PROVE G!Next
        <3>1. G!Hear(n, p)
            BY <1>2, <2>5, ReceiveHears
        <3>2. <<p, n>> \in Links /\ <<p, n>>[1] = p /\ <<p, n>>[2] = n
            BY LinkFacts
        <3> QED BY <3>1, <3>2 DEF G!Next
    <2>6. ASSUME NEW n \in Nodes, NEW p \in Peers(n), Apply(n, p) \/ SkipApply(n, p)
          PROVE  UNCHANGED <<Newest, Due>>
        BY <1>2, <2>6, WriteOwes, MovesAreStutters
    <2>7. ASSUME NEW s \in Spokes, Relay(s) PROVE UNCHANGED <<Newest, Due>>
        BY <1>2, <2>7, RelayOwes, MovesAreStutters
    <2>8. CASE UNCHANGED vars
        <3>1. UNCHANGED <<history, outbox, chan, task>>
            BY <2>8 DEF vars
        <3>2. UNCHANGED <<Newest, Due>>
            BY <3>1 DEF Newest, Due, InReaders
        <3> QED BY <2>1, <3>2
    <2> QED BY <1>2, <2>1, <2>2, <2>3, <2>4, <2>5, <2>6, <2>7, <2>8 DEF Next
<1>4. Spec => []FreshClocks
    BY FreshClocksInit, FreshClocksNext, TypeCorrect, PTL DEF Spec
<1> QED BY <1>1, <1>2, <1>4, TypeCorrect, HistoriesStayInOrder, LinkOrderAlways, PTL
        DEF Spec, ImplementsGossip, G!Spec
-------------------------------------------------------------------------------
(* Which text wins.                                                        *)

\* A hub that holds a snapshot has moved its clock.
HubStarted == Newest[Hub] # NoSnap => version[Hub] > 0

\* What the hub has still to send: its own announcements, frames on its links
\* and what its readers relay.
HubSends(x) ==
    \/ x \in ToSet(outbox[Hub])
    \/ \E s \in Spokes : x \in ToSet(chan[<<Hub, s>>]) \cup Relayed(s)

\* Under the version of the hub's clock, its newest snapshot and no other.
Leads(x) ==
    /\ x.version <= version[Hub]
    /\ x.version = version[Hub] => x = Newest[Hub]

LeadsSends == \A x : HubSends(x) => x \in Snapshot /\ Leads(x)

\* A spoke's newest snapshot is its own, or one the hub has sent.
LeadsSpoke(s) ==
    LET x == Newest[s]
    IN  x = NoSnap \/ (x \in Snapshot /\ (x.origin = s \/ Leads(x)))

\* A snapshot that the hub's engine has just taken.
JustTaken(x) ==
    x \in Snapshot /\ version'[Hub] = x.version /\ Newest'[Hub] = x

\* The newest snapshot of an engine after a push is the one pushed.
LEMMA NewestPushed ==
    ASSUME TypeOK, TypeOK', NEW n \in Nodes, NEW x \in Snapshot,
           history'[n] = PushHistory(history[n], x)
    PROVE  Newest'[n] = x
<1>1. history[n] \in Seq(Snapshot)
    BY DEF TypeOK
<1>2. history'[n] # <<>> /\ Last(history'[n]) = x
    BY <1>1, PushHistoryLast
<1> QED BY <1>2 DEF Newest

\* A step of the hub's engine leaves the older snapshots behind its newest.
LEMMA LeadsKept ==
    ASSUME TypeOK, TypeOK', [Next]_vars, NEW y \in Snapshot, Leads(y)
    PROVE  Leads(y)'
<1>1. Hub \in Nodes /\ version[Hub] \in Nat /\ y.version \in Nat
    BY DEF TypeOK, Nodes, Snapshot
<1>2. CASE version'[Hub] = version[Hub] /\ history'[Hub] = history[Hub]
    <2>1. Newest'[Hub] = Newest[Hub]
        BY <1>1, <1>2 DEF Newest
    <2> QED BY <1>2, <2>1 DEF Leads
<1>3. ASSUME NEW x \in Snapshot, x.version > version[Hub], version'[Hub] = x.version
      PROVE  Leads(y)'
    <2>1. y.version < version'[Hub]
        BY <1>1, <1>3 DEF Leads, Snapshot
    <2>2. version'[Hub] \in Nat
        BY <1>3 DEF Snapshot
    <2> QED BY <1>1, <2>1, <2>2 DEF Leads
<1> QED BY <1>1, <1>2, <1>3, EngineNext

\* What the hub sends after a step it sent before, or has just taken.
LEMMA SendsNext ==
    ASSUME TypeOK, TypeOK', [Next]_vars, NEW x, HubSends(x)'
    PROVE  HubSends(x) \/ JustTaken(x)
<1>1. /\ HubSends(x) <=> \/ x \in ToSet(outbox[Hub])
                         \/ \E s \in Spokes : x \in ToSet(chan[<<Hub, s>>]) \cup Relayed(s)
      /\ \/ x \in ToSet(outbox'[Hub])
         \/ \E s \in Spokes : x \in ToSet(chan'[<<Hub, s>>]) \cup Relayed(s)'
    BY DEF HubSends
<1>2. /\ Hub \in Nodes
      /\ \A s \in Spokes : /\ <<Hub, s>> \in Links /\ s \in Nodes /\ s # Hub
                           /\ <<Hub, s>>[1] = Hub /\ <<Hub, s>>[2] = s
    BY LinkFacts DEF Nodes
<1>3. ASSUME UNCHANGED <<outbox, chan, task>> PROVE HubSends(x)
    <2>1. \A s \in Spokes : Relayed(s)' = Relayed(s)
        BY <1>3 DEF Relayed
    <2> QED BY <1>1, <1>3, <2>1
<1>4. ASSUME NEW n \in Nodes, Produce(n) PROVE HubSends(x) \/ JustTaken(x)
    <2>1. PICK snap \in Snapshot : Produced(n, snap)
        BY <1>4, ProduceEffect
    <2>2. UNCHANGED <<chan, task>>
        BY <2>1 DEF Produced
    <2>3. \A s \in Spokes : Relayed(s)' = Relayed(s)
        BY <2>2 DEF Relayed
    <2>4. CASE n # Hub
        <3>1. outbox'[Hub] = outbox[Hub]
            BY <1>2, <2>1, <2>4 DEF Produced
        <3> QED BY <1>1, <2>2, <2>3, <3>1
    <2>5. CASE n = Hub
        <3>1. /\ ToSet(outbox'[Hub]) = ToSet(outbox[Hub]) \cup {snap}
              /\ version'[Hub] = snap.version
              /\ history'[Hub] = PushHistory(history[Hub], snap)
            BY <1>2, <2>1, <2>5 DEF Produced, TypeOK
        <3>2. JustTaken(snap)
            BY <1>2, <3>1, NewestPushed DEF JustTaken
        <3> QED BY <1>1, <2>2, <2>3, <3>1, <3>2
    <2> QED BY <2>4, <2>5
<1>5. ASSUME NEW n \in Nodes, Forward(n) PROVE HubSends(x)
    <2>1. PICK snap \in Snapshot : Forwarded(n, snap)
        BY <1>5, ForwardEffect
    <2>2. \A s \in Spokes : Relayed(s)' = Relayed(s)
        BY <2>1 DEF Forwarded, Relayed
    <2>3. CASE n # Hub
        <3>1. outbox'[Hub] = outbox[Hub]
            BY <1>2, <2>1, <2>3 DEF Forwarded
        <3>2. \A s \in Spokes : chan'[<<Hub, s>>] = chan[<<Hub, s>>]
            BY <1>2, <2>1, <2>3 DEF Forwarded
        <3> QED BY <1>1, <2>2, <3>1, <3>2
    <2>4. CASE n = Hub
        <3>1. ToSet(outbox[Hub]) = {snap} \cup ToSet(outbox'[Hub])
            BY <2>1, <2>4 DEF Forwarded
        <3>2. \A s \in Spokes : ToSet(chan'[<<Hub, s>>]) = ToSet(chan[<<Hub, s>>]) \cup {snap}
            BY <1>2, <2>1, <2>4 DEF Forwarded
        <3> QED BY <1>1, <2>2, <3>1, <3>2
    <2> QED BY <2>3, <2>4
<1>6. ASSUME NEW n \in Nodes, NEW p \in Peers(n), Receive(n, p)
      PROVE  HubSends(x) \/ JustTaken(x)
    <2>1. PICK snap \in Snapshot : Received(n, p, snap)
        BY <1>6, ReceiveEffect
    <2>2. outbox' = outbox /\ \A l \in Links : ToSet(chan'[l]) \subseteq ToSet(chan[l])
        BY <2>1 DEF Received
    <2>3. task \in [Links -> Task] /\ version \in [Nodes -> Nat]
          /\ history \in [Nodes -> Seq(Snapshot)]
        BY DEF TypeOK
    <2>4. ASSUME NEW s \in Spokes, task'[<<Hub, s>>] # task[<<Hub, s>>]
          PROVE  Relayed(s)' = {snap} /\ JustTaken(snap)
        <3>1. Accepted(n, p, snap) /\ <<n, p>> = <<Hub, s>>
            BY <1>2, <2>1, <2>3, <2>4 DEF Received, Accepted, Ignored
        <3>2. n = Hub
            BY <3>1
        <3>3. /\ task'[<<Hub, s>>] = [stage |-> "write", snap |-> snap]
              /\ version'[Hub] = snap.version
              /\ history'[Hub] = PushHistory(history[Hub], snap)
            BY <1>2, <2>3, <3>1, <3>2 DEF Accepted
        <3>4. JustTaken(snap)
            BY <1>2, <3>3, NewestPushed DEF JustTaken
        <3>5. task'[<<Hub, s>>].stage = "write" /\ task'[<<Hub, s>>].snap = snap
              /\ Idle.stage = "recv"
            BY <3>3 DEF Idle
        <3> QED BY <3>4, <3>5 DEF Relayed
    <2>5. \A s \in Spokes : Relayed(s)' = Relayed(s)
                            \/ (Relayed(s)' = {snap} /\ JustTaken(snap))
        BY <2>4 DEF Relayed
    <2>6. \A s \in Spokes : ToSet(chan'[<<Hub, s>>]) \subseteq ToSet(chan[<<Hub, s>>])
        BY <1>2, <2>2
    <2>7. CASE x \in ToSet(outbox'[Hub])
        BY <1>1, <2>2, <2>7
    <2>8. ASSUME NEW s \in Spokes, x \in ToSet(chan'[<<Hub, s>>]) \cup Relayed(s)'
          PROVE  HubSends(x) \/ JustTaken(x)
        <3>1. Relayed(s)' = {snap} /\ x \in Relayed(s)' => x = snap
            OBVIOUS
        <3> QED BY <1>1, <2>5, <2>6, <2>8, <3>1
    <2> QED BY <1>1, <2>7, <2>8
<1>7. ASSUME NEW n \in Nodes, NEW p \in Peers(n), Apply(n, p) \/ SkipApply(n, p)
      PROVE  HubSends(x)
    BY <1>1, <1>7, WriteEffect, WriteKeepsRelayed
<1>8. ASSUME NEW r \in Spokes, Relay(r) PROVE HubSends(x)
    <2>1. PICK snap : snap = task[<<Hub, r>>].snap
        OBVIOUS
    <2>2. outbox' = outbox /\ Relayed(r) = {snap}
        BY <1>8, <2>1, RelayEffect DEF Relayed
    <2>3. \A s \in Spokes : ToSet(chan'[<<Hub, s>>]) \subseteq ToSet(chan[<<Hub, s>>]) \cup {snap}
        BY <1>2, <1>8, <2>1, RelayEffect
    <2>4. \A s \in Spokes : Relayed(s)' \subseteq Relayed(s)
        <3>1. ASSUME NEW s \in Spokes PROVE task'[<<Hub, s>>] \in {task[<<Hub, s>>], Idle}
            BY <1>2, <1>8, RelayEffect
        <3> QED BY <3>1 DEF Relayed
    <2> QED BY <1>1, <2>2, <2>3, <2>4
<1>9. ASSUME NEW n \in Nodes, UserCopy(n) \/ UserRecopy(n) \/ Poll(n) PROVE HubSends(x)
    BY <1>3, <1>9, LocalEffect
<1>10. CASE UNCHANGED vars
    BY <1>3, <1>10 DEF vars
<1> QED BY <1>4, <1>5, <1>6, <1>7, <1>8, <1>9, <1>10 DEF Next

\* What a step does to a spoke's newest snapshot: nothing, or the spoke has
\* announced it, or the hub has sent it.
LEMMA SpokeNewestNext ==
    ASSUME TypeOK, TypeOK', [Next]_vars, NEW s \in Spokes
    PROVE  \/ Newest'[s] = Newest[s]
           \/ /\ Newest'[s] \in Snapshot
              /\ Newest'[s].origin = s \/ HubSends(Newest'[s])
<1>1. s \in Nodes /\ s # Hub /\ Peers(s) = {Hub} /\ history \in [Nodes -> Seq(Snapshot)]
    BY ClipSyncAssumption DEF Nodes, Peers, TypeOK
<1>2. ASSUME history'[s] = history[s] PROVE Newest'[s] = Newest[s]
    BY <1>1, <1>2 DEF Newest
<1>3. ASSUME NEW n \in Nodes, Produce(n)
      PROVE  \/ history'[s] = history[s]
             \/ Newest'[s] \in Snapshot /\ Newest'[s].origin = s
    <2>1. PICK x \in Snapshot : Produced(n, x)
        BY <1>3, ProduceEffect
    <2>2. CASE n = s
        <3>1. history'[s] = PushHistory(history[s], x) /\ x.origin = s
            BY <1>1, <2>1, <2>2 DEF Produced
        <3> QED BY <1>1, <3>1, NewestPushed
    <2>3. CASE n # s
        BY <1>1, <2>1, <2>3 DEF Produced
    <2> QED BY <2>2, <2>3
<1>4. ASSUME NEW n \in Nodes, NEW p \in Peers(n), Receive(n, p)
      PROVE  \/ history'[s] = history[s]
             \/ Newest'[s] \in Snapshot /\ HubSends(Newest'[s])
    <2>1. PICK x \in Snapshot : Received(n, p, x)
        BY <1>4, ReceiveEffect
    <2>2. CASE n = s /\ Accepted(n, p, x)
        <3>1. history'[s] = PushHistory(history[s], x) /\ p = Hub
            BY <1>1, <2>2 DEF Accepted
        <3>2. x \in ToSet(chan[<<Hub, s>>])
            BY <2>1, <2>2, <3>1 DEF Received
        <3>3. Newest'[s] = x
            BY <1>1, <3>1, NewestPushed
        <3> QED BY <3>2, <3>3 DEF HubSends
    <2>3. CASE ~ (n = s /\ Accepted(n, p, x))
        BY <1>1, <2>1, <2>3 DEF Received, Accepted, Ignored
    <2> QED BY <2>2, <2>3
<1>5. ASSUME NEW n \in Nodes,
             UserCopy(n) \/ UserRecopy(n) \/ Poll(n) \/ Forward(n)
      PROVE  history'[s] = history[s]
    BY <1>5 DEF UserCopy, UserRecopy, Poll, Forward, engineVars
<1>6. ASSUME NEW n \in Nodes, NEW p \in Peers(n), Apply(n, p) \/ SkipApply(n, p)
      PROVE  history'[s] = history[s]
    BY <1>6 DEF Apply, SkipApply, engineVars
<1>7. ASSUME NEW r \in Spokes, Relay(r) PROVE history'[s] = history[s]
    BY <1>7 DEF Relay, engineVars
<1>8. ASSUME UNCHANGED vars PROVE history'[s] = history[s]
    BY <1>8 DEF vars
<1> QED BY <1>2, <1>3, <1>4, <1>5, <1>6, <1>7, <1>8 DEF Next

\* Everything the hub sends under its clock's version is its newest snapshot,
\* so that is what a spoke has, or its own.
LEMMA LeadsNext ==
    ASSUME TypeOK, TypeOK', [Next]_vars, LeadsSends, \A s \in Spokes : LeadsSpoke(s)
    PROVE  LeadsSends' /\ \A s \in Spokes : LeadsSpoke(s)'
<1>1. ASSUME NEW x, HubSends(x)' PROVE x \in Snapshot /\ Leads(x)'
    <2>1. CASE HubSends(x)
        <3>1. x \in Snapshot /\ Leads(x)
            BY <2>1 DEF LeadsSends
        <3> QED BY <3>1, LeadsKept
    <2>2. CASE JustTaken(x)
        <3>1. x \in Snapshot /\ version'[Hub] = x.version /\ Newest'[Hub] = x
            BY <2>2 DEF JustTaken
        <3>2. x.version \in Nat
            BY <3>1 DEF Snapshot
        <3> QED BY <3>1, <3>2 DEF Leads
    <2> QED BY <1>1, <2>1, <2>2, SendsNext
<1>2. ASSUME NEW s \in Spokes PROVE LeadsSpoke(s)'
    <2>1. PICK x : x = Newest[s]
        OBVIOUS
    <2>2. PICK y : y = Newest'[s]
        OBVIOUS
    <2>3. y = x \/ (y \in Snapshot /\ (y.origin = s \/ HubSends(y)))
        BY <2>1, <2>2, SpokeNewestNext
    <2>4. x = NoSnap \/ (x \in Snapshot /\ (x.origin = s \/ Leads(x)))
        BY <2>1 DEF LeadsSpoke
    <2>5. HubSends(y) => Leads(y)
        BY DEF LeadsSends
    <2>6. y = NoSnap \/ (y \in Snapshot /\ (y.origin = s \/ Leads(y)))
        BY <2>3, <2>4, <2>5
    <2>7. y = NoSnap \/ (y \in Snapshot /\ (y.origin = s \/ Leads(y)'))
        BY <2>6, LeadsKept
    <2> QED BY <2>2, <2>7 DEF LeadsSpoke
<1> QED BY <1>1, <1>2 DEF LeadsSends

\* Once no frame is under way every spoke has the hub's clock, and the hub's
\* newest snapshot or its own announcement of the same version: the hub passes
\* on the first it takes of those that carry one version, and whoever has
\* announced another keeps it (clipboard/src/lib.rs:120-139).
THEOREM TheHubsTextWins == Spec => []HubsTextWins
<1> DEFINE Leading == LeadsSends /\ \A s \in Spokes : LeadsSpoke(s)
<1>1. Init => Leading
    <2> SUFFICES ASSUME Init PROVE Leading
        OBVIOUS
    <2>1. \A n \in Nodes : history[n] = <<>> /\ ToSet(outbox[n]) = {}
        BY QueueElements DEF Init
    <2>2. \A s \in Spokes : /\ ToSet(chan[<<Hub, s>>]) = {} /\ Relayed(s) = {}
                            /\ Hub \in Nodes /\ s \in Nodes
        BY LinkFacts, QueueElements DEF Init, Relayed, Nodes
    <2>3. LeadsSends
        BY <2>1, <2>2 DEF LeadsSends, HubSends, Nodes
    <2>4. \A s \in Spokes : Newest[s] = NoSnap
        BY <2>1, <2>2 DEF Newest
    <2> QED BY <2>3, <2>4 DEF LeadsSpoke
<1>2. ASSUME Leading, TypeOK, TypeOK', [Next]_vars PROVE Leading'
    BY <1>2, LeadsNext
<1>3. Spec => []Leading
    BY <1>1, <1>2, TypeCorrect, PTL DEF Spec
<1>4. ASSUME TypeOK, HistoryInOrder, FreshClocks, HubStarted, Leading,
             ClocksAgreeWhenQuiet
      PROVE  HubsTextWins
    <2> SUFFICES ASSUME NetworkQuiet, NEW s \in Spokes
                 PROVE  /\ version[s] = version[Hub]
                        /\ Newest[s] = Newest[Hub] \/ Newest[s].origin = s
        BY DEF HubsTextWins
    <2>1. s \in Nodes /\ Hub \in Nodes
        BY DEF Nodes
    <2>2. version[s] = version[Hub]
        BY <1>4, <2>1 DEF ClocksAgreeWhenQuiet
    <2>3. ASSUME NEW n \in Nodes, Newest[n] = NoSnap PROVE version[n] = 0
        BY <1>4, <2>3, ClockIsVersion DEF G!Clock
    <2>4. ASSUME NEW n \in Nodes, Newest[n] # NoSnap PROVE Newest[n].version = version[n]
        BY <1>4, <2>4, ClockIsVersion DEF G!Clock
    <2>5. CASE Newest[s] = NoSnap
        <3>1. version[Hub] = 0
            BY <2>1, <2>2, <2>3, <2>5
        <3> QED BY <1>4, <2>2, <2>5, <3>1 DEF HubStarted
    <2>6. CASE Newest[s] # NoSnap
        <3>1. Newest[s].version = version[Hub]
            BY <2>1, <2>2, <2>4, <2>6
        <3>2. Newest[s].origin = s \/ Leads(Newest[s])
            BY <1>4, <2>6 DEF LeadsSpoke
        <3> QED BY <2>2, <3>1, <3>2 DEF Leads
    <2> QED BY <2>5, <2>6
<1>5. Spec => []FreshClocks
    BY FreshClocksInit, FreshClocksNext, TypeCorrect, PTL DEF Spec
<1>6. Init => HubStarted
    <2>1. Init => Newest[Hub] = NoSnap
        BY DEF Init, Newest, Nodes
    <2> QED BY <2>1 DEF HubStarted
<1>7. ASSUME HubStarted, TypeOK, [Next]_vars PROVE HubStarted'
    <2>1. Hub \in Nodes /\ version[Hub] \in Nat
        BY <1>7 DEF Nodes, TypeOK
    <2>2. CASE version'[Hub] = version[Hub] /\ history'[Hub] = history[Hub]
        BY <1>7, <2>1, <2>2 DEF HubStarted, Newest
    <2>3. ASSUME NEW x \in Snapshot, x.version > version[Hub], version'[Hub] = x.version
          PROVE  HubStarted'
        BY <2>1, <2>3 DEF HubStarted, Snapshot
    <2> QED BY <1>7, <2>1, <2>2, <2>3, EngineNext
<1>8. Spec => []HubStarted
    BY <1>6, <1>7, TypeCorrect, PTL DEF Spec
<1> QED BY <1>3, <1>4, <1>5, <1>8, TypeCorrect, HistoriesStayInOrder, ClocksAgree, PTL
===============================================================================
