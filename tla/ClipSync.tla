------------------------------- MODULE ClipSync -------------------------------
(***************************************************************************)
(* Clipboard synchronisation between a hub and its spokes while every      *)
(* session is up: the OS clipboards, the 4 Hz polling watchers, the        *)
(* engines, the queues between the tasks and the relay in the hub.         *)
(*                                                                         *)
(* The pipeline of one node n (crates/cli/src/runtime):                    *)
(*                                                                         *)
(*   clip[n] --Poll--> seen[n] --Produce--> outbox[n] --Forward--> chan    *)
(*   chan --Receive--> task[<<n, p>>] --Apply--> clip[n]                   *)
(*                                    --Relay--> chan (hub only)           *)
(*                                                                         *)
(* Each arrow is a task or a thread of its own, so every pair of steps may *)
(* interleave; in particular the engine's decision (Receive) and the OS    *)
(* write it asks for (Apply) are two steps, and the hub runs one reader    *)
(* task per spoke.                                                         *)
(***************************************************************************)
EXTENDS ClipEngine, SequencesExt

CONSTANTS
    Hub,             \* the hub node
    Spokes,          \* the connected spokes
    Desktop,         \* the nodes open_local_clipboard finds a backend on
    MaxCopies,       \* bound: copies a user makes at one node
    MaxTexts,        \* bound: copies all users make
    MaxVersion,      \* bound: the Lamport version at which Poll and Produce stop
    Flaky,           \* the nodes whose OS clipboard writes may fail
    Recopiers        \* the nodes whose users may copy an earlier text again

Nodes == {Hub} \cup Spokes

ASSUME ClipSyncAssumption ==
    /\ Hub \notin Spokes /\ IsFiniteSet(Spokes)
    /\ Desktop \subseteq Nodes
    /\ MaxCopies \in Nat /\ MaxTexts \in Nat
    /\ MaxVersion \in Nat
    /\ Flaky \subseteq Nodes
    /\ Recopiers \subseteq Nodes

\* The star: the hub talks to every spoke, a spoke to the hub alone.
Peers(n) == IF n = Hub THEN Spokes ELSE {Hub}

Links == {l \in Nodes \X Nodes : l[2] \in Peers(l[1])}

\* The k-th distinct text that the user of node n copied.
Text == Nodes \X (Nat \ {0})

NoText == <<>>             \* the clipboard holds no text

Snapshot == [version : Nat, origin : Nodes, text : Text]

NoSnap == <<>>             \* a reader task that is waiting for a frame

VARIABLES
    version,     \* version[n]: Inner.local_version
    history,     \* history[n]: Inner.history
    clip,        \* clip[n]: the text on the OS clipboard
    last,        \* last[n]: the watcher thread's last text
    seen,        \* seen[n]: texts from the watcher thread to the engine task
    outbox,      \* outbox[n]: frames from the engine task to the forwarder
    chan,        \* chan[<<a, b>>]: frames under way from a to b
    task,        \* task[<<n, p>>]: what n's reader of peer p works on
    copies       \* copies[n]: distinct texts the user of n has copied

engineVars == <<version, history>>
watcherVars == <<last, seen>>
vars == <<version, history, clip, last, seen, outbox, chan, task, copies>>

Idle == [stage |-> "recv", snap |-> NoSnap]

Task == {Idle} \cup [stage : {"write", "relay"}, snap : Snapshot]

TypeOK ==
    /\ version \in [Nodes -> Nat]
    /\ history \in [Nodes -> Seq(Snapshot)]
    /\ clip \in [Nodes -> Text \cup {NoText}]
    /\ last \in [Nodes -> Text \cup {NoText}]
    /\ seen \in [Nodes -> Seq(Text)]
    /\ outbox \in [Nodes -> Seq(Snapshot)]
    /\ chan \in [Links -> Seq(Snapshot)]
    /\ task \in [Links -> Task]
    /\ copies \in [Nodes -> Nat]

\* Engines are new, the watchers took the empty clipboard as their baseline,
\* and every spoke has a session.
Init ==
    /\ version = [n \in Nodes |-> InitialVersion]
    /\ history = [n \in Nodes |-> <<>>]
    /\ clip = [n \in Nodes |-> NoText]
    /\ last = [n \in Nodes |-> NoText]
    /\ seen = [n \in Nodes |-> <<>>]
    /\ outbox = [n \in Nodes |-> <<>>]
    /\ chan = [l \in Links |-> <<>>]
    /\ task = [l \in Links |-> Idle]
    /\ copies = [n \in Nodes |-> 0]
-------------------------------------------------------------------------------
\* The texts copied so far.
TotalCopies == FoldFunction(+, 0, copies)

\* The user of n copies a text that no one has copied before.
UserCopy(n) ==
    /\ n \in Desktop
    /\ copies[n] < MaxCopies /\ TotalCopies < MaxTexts
    /\ copies' = [copies EXCEPT ![n] = @ + 1]
    /\ clip' = [clip EXCEPT ![n] = <<n, copies[n] + 1>>]
    /\ UNCHANGED <<engineVars, watcherVars, outbox, chan, task>>

\* The user of n copies one of the earlier texts again.
UserRecopy(n) ==
    /\ n \in Desktop \cap Recopiers
    /\ \E k \in 1 .. copies[n] : clip' = [clip EXCEPT ![n] = <<n, k>>]
    /\ UNCHANGED <<engineVars, watcherVars, outbox, chan, task, copies>>

\* Mutant of Changed: the watcher reports whatever it reads.
ChangedAlways(n) == clip[n] # NoText

\* The watcher compares what it reads with the last text it reported; it
\* cannot tell a user's copy from the runtime's own write.
Changed(n) == clip[n] # NoText /\ clip[n] # last[n]

\* The watcher thread wakes up and finds a new text.
Poll(n) ==
    /\ n \in Desktop
    /\ Changed(n)
    /\ version[n] + Len(seen[n]) < MaxVersion
    /\ last' = [last EXCEPT ![n] = clip[n]]
    /\ seen' = [seen EXCEPT ![n] = Append(@, clip[n])]
    /\ UNCHANGED <<engineVars, clip, outbox, chan, task, copies>>

\* spawn_local_clipboard_watcher: the next text becomes a snapshot.
Produce(n) ==
    /\ seen[n] # <<>>
    /\ version[n] < MaxVersion
    /\ LET v == NextVersion(version[n])
           snap == MakeSnapshot(v, n, Head(seen[n]))
       IN  /\ version' = [version EXCEPT ![n] = v]
           /\ history' = [history EXCEPT ![n] = PushHistory(@, snap)]
           /\ outbox' = [outbox EXCEPT ![n] = Append(@, snap)]
    /\ seen' = [seen EXCEPT ![n] = Tail(@)]
    /\ UNCHANGED <<clip, last, chan, task, copies>>

\* A frame is appended to the queue of every peer of n outside exclude.
Broadcast(n, snap, exclude) ==
    chan' = [l \in Links |->
               IF l[1] = n /\ l[2] \notin exclude THEN Append(chan[l], snap)
                                                  ELSE chan[l]]

\* The forwarding task ships the next local change to every peer.
Forward(n) ==
    /\ outbox[n] # <<>>
    /\ Broadcast(n, Head(outbox[n]), {})
    /\ outbox' = [outbox EXCEPT ![n] = Tail(@)]
    /\ UNCHANGED <<engineVars, clip, watcherVars, task, copies>>

\* n's reader of p takes a frame and asks the engine.  An accepted snapshot
\* moves the clock at once; its OS write is still to come.
Receive(n, p) ==
    LET in == <<p, n>>
        snap == Head(chan[in])
    IN  /\ task[<<n, p>>].stage = "recv"
        /\ chan[in] # <<>>
        /\ chan' = [chan EXCEPT ![in] = Tail(@)]
        /\ \/ /\ Accepts(n, version[n], snap)
              /\ version' = [version EXCEPT
                               ![n] = AdvancedVersion(version[n], snap)]
              /\ history' = [history EXCEPT ![n] = PushHistory(@, snap)]
              /\ task' = [task EXCEPT
                            ![<<n, p>>] = [stage |-> "write", snap |-> snap]]
           \/ /\ ~ Accepts(n, version[n], snap)
              /\ UNCHANGED <<engineVars, task>>
        /\ UNCHANGED <<clip, watcherVars, outbox, copies>>

\* Mutant of AfterWrite: the hub relays what the write left of the snapshot.
AfterWriteMoved(n, p) ==
    task' = [task EXCEPT ![<<n, p>>] =
               IF n = Hub THEN [stage |-> "relay", snap |-> NoSnap] ELSE Idle]

\* The step of a reader task after its OS write: the hub relays, a spoke
\* waits for the next frame.
AfterWrite(n, p) ==
    task' = [task EXCEPT ![<<n, p>>] =
               IF n = Hub THEN [stage |-> "relay", snap |-> @.snap] ELSE Idle]

\* Mutant of OsWrite: the watcher is told to skip the runtime's own write.
OsWriteSilent(n, t) ==
    /\ clip' = [clip EXCEPT ![n] = t]
    /\ last' = [last EXCEPT ![n] = t]

\* X11Clipboard::write.  It notes the text in a last_seen of its own, which
\* no watcher reads.
OsWrite(n, t) ==
    /\ clip' = [clip EXCEPT ![n] = t]
    /\ UNCHANGED last

\* handle_remote_clipboard writes the OS clipboard.
Apply(n, p) ==
    /\ task[<<n, p>>].stage = "write"
    /\ n \in Desktop
    /\ OsWrite(n, task[<<n, p>>].snap.text)
    /\ AfterWrite(n, p)
    /\ UNCHANGED <<engineVars, seen, outbox, chan, copies>>

\* No backend, or an error that is only logged: the snapshot counts as
\* applied and the task goes on.
SkipApply(n, p) ==
    /\ task[<<n, p>>].stage = "write"
    /\ n \notin Desktop \/ n \in Flaky
    /\ AfterWrite(n, p)
    /\ UNCHANGED <<engineVars, clip, watcherVars, outbox, chan, copies>>

\* Mutant of Relay: the spoke the snapshot came from gets it back.
RelayToAll(s) ==
    /\ task[<<Hub, s>>].stage = "relay"
    /\ Broadcast(Hub, task[<<Hub, s>>].snap, {})
    /\ task' = [task EXCEPT ![<<Hub, s>>] = Idle]
    /\ UNCHANGED <<engineVars, clip, watcherVars, outbox, copies>>

\* The hub hands an applied snapshot to every spoke but the one it came from.
Relay(s) ==
    /\ task[<<Hub, s>>].stage = "relay"
    /\ Broadcast(Hub, task[<<Hub, s>>].snap, {s})
    /\ task' = [task EXCEPT ![<<Hub, s>>] = Idle]
    /\ UNCHANGED <<engineVars, clip, watcherVars, outbox, copies>>

Next ==
    \/ \E n \in Nodes :
          \/ UserCopy(n) \/ UserRecopy(n)
          \/ Poll(n) \/ Produce(n) \/ Forward(n)
          \/ \E p \in Peers(n) :
                Receive(n, p) \/ Apply(n, p) \/ SkipApply(n, p)
    \/ \E s \in Spokes : Relay(s)

Spec == Init /\ [][Next]_vars
-------------------------------------------------------------------------------
\* Nothing is under way between two engines.
NetworkQuiet ==
    /\ \A n \in Nodes : outbox[n] = <<>>
    /\ \A l \in Links : chan[l] = <<>> /\ task[l] = Idle

\* ... and no watcher has anything left to report.
Quiet ==
    /\ NetworkQuiet
    /\ \A n \in Nodes : seen[n] = <<>>
    /\ \A n \in Desktop : clip[n] \in {NoText, last[n]}

\* Every snapshot that some part of the system holds.
Held ==
    (UNION { ToSet(history[n]) \cup ToSet(outbox[n]) : n \in Nodes })
    \cup
    (UNION { ToSet(chan[l]) \cup ({task[l].snap} \ {NoSnap}) : l \in Links })

\* A node's newest snapshot is the last entry of its history.
Newest == [n \in Nodes |-> IF history[n] = <<>> THEN NoSnap ELSE Last(history[n])]

OneCopy == \E n \in Nodes : copies = [m \in Nodes |-> IF m = n THEN 1 ELSE 0]

\* Origin and version identify a snapshot: two holders of the same pair hold
\* the same text (ClipboardSnapshot's "strictly monotonic per-origin").
SnapshotsUnique ==
    \A x, y \in Held :
        x.origin = y.origin /\ x.version = y.version => x = y

\* Relaying keeps each origin's order: on every link the snapshots of one
\* origin arrive with growing versions, whichever readers of the hub they
\* went through.
PerOriginOrder ==
    \A l \in Links : \A i, j \in 1 .. Len(chan[l]) :
        i < j /\ chan[l][i].origin = chan[l][j].origin
            => chan[l][i].version < chan[l][j].version

\* The fan-out never hands a spoke its own snapshot.
NoBounce ==
    \A s \in Spokes :
        /\ \A i \in 1 .. Len(chan[<<Hub, s>>]) : chan[<<Hub, s>>][i].origin # s
        /\ \A i \in 1 .. Len(chan[<<s, Hub>>]) : chan[<<s, Hub>>][i].origin = s

\* `clip history` lists snapshots in version order, newest last, and ends
\* with the engine's own clock.
HistoryInOrder ==
    \A n \in Nodes :
        /\ Len(history[n]) <= HistoryLimit
        /\ \A i, j \in 1 .. Len(history[n]) :
              i < j => history[n][i].version < history[n][j].version
        /\ history[n] # <<>> => Last(history[n]).version = version[n]

\* Nobody misses the newest version: once no frame is under way, all clocks
\* are equal.
ClocksAgreeWhenQuiet ==
    NetworkQuiet => \A m, n \in Nodes : version[m] = version[n]

\* Which text wins when several nodes announce one version: once no frame is
\* under way a spoke has the clock and the newest snapshot of the hub, which
\* passes on one of them only; or it keeps the one it announced itself under
\* that version (lib.rs:120-139).
HubsTextWins ==
    NetworkQuiet => \A s \in Spokes :
        /\ version[s] = version[Hub]
        /\ Newest[s] = Newest[Hub] \/ Newest[s].origin = s

\* A single copy reaches every desktop whose writes succeed, directly or
\* through the relay, whoever else's writes fail.
OneCopyReachesAll ==
    Quiet /\ OneCopy => \A m, n \in Desktop \ Flaky : clip[m] = clip[n]

\* The echo of a single copy dies out: each desktop announces it at most once.
OneCopyEchoBounded ==
    OneCopy => \A n \in Nodes : version[n] <= Cardinality(Desktop)

\* At rest, a spoke shows the text its engine took last: no interleaving of
\* its watcher, its engine and its OS writes leaves the two apart.  Its user
\* can: a text copied again before the watcher saw what replaced it is not
\* announced (imp.rs:70-71).
SpokeShowsNewest ==
    \A s \in (Spokes \cap Desktop) \ (Flaky \cup Recopiers) :
        Quiet /\ history[s] # <<>>
            => clip[s] = Last(history[s]).text
-------------------------------------------------------------------------------
(* The promise of the pipeline: Gossip.                                    *)

\* What a node's readers of the peers other than p have yet to pass on to p.
InReaders(n, p) ==
    {task[<<n, q>>].snap : q \in Peers(n) \ {p}} \ {NoSnap}

\* A snapshot is owed to a peer in the outbox, on the link or by a reader.
Due == [l \in Links |-> ToSet(outbox[l[1]]) \cup ToSet(chan[l])
                        \cup InReaders(l[1], l[2])]

G == INSTANCE Gossip WITH newest <- Newest, due <- Due

\* With its queues, tasks and relay the star behaves as nodes that gossip: an
\* announcement is owed to every peer from the step that stamps it, none is
\* lost, repeated or sent back where it came from, and a node passes on all it
\* takes (common.rs:64-122, server.rs:113-118 and 289-304).
ImplementsGossip == G!Spec
-------------------------------------------------------------------------------
(* What the repository says of the program and a run refutes.              *)

\* The engine's rules put an end to the echo loop (docs/architecture.md:43,
\* crates/clipboard/src/lib.rs:6-9): every text copied is announced at most
\* once by each desktop.
EchoDiesOut ==
    \A n \in Nodes : version[n] <= TotalCopies * Cardinality(Desktop)
===============================================================================
