# A verification development for borderless

borderless shares one keyboard, one mouse and the clipboards of several machines
on a LAN.  One machine is the *hub* (`borderless serve`), the others are *spokes*
(`borderless connect`); every spoke has one TLS connection to the hub, and the hub
relays between them.  This directory holds TLA+ models of that program, the TLC
configurations that check them on small instances, and proofs checked by TLAPS.
Paths such as `server.rs:334` are files of `src/crates` at the commit the models
were written from.

1. [The system](#1-the-system)
2. [The models](#2-the-models)
3. [The runs](#3-the-runs)
4. [The proofs](#4-the-proofs)
5. [What the code does against its own words](#5-what-the-code-does-against-its-own-words)
6. [What is not modelled](#6-what-is-not-modelled)
7. [Plan](#7-plan)
8. [How to run it](#8-how-to-run-it)

## 1. The system

```
  user --> OS clipboard --> watcher thread --> engine task --> forwarder --+
               ^                                                           |
               |                                                           v
             apply <-- engine <-- reader task <== connection <== writer task
                                                                (per session)
  hub's keyboard --> capture thread --> input forwarder --> writer tasks
                                             ==> spoke's reader --> XTest
```

### Clipboard engine (`clipboard/src/lib.rs`)

*State*: a Lamport version, the node's name, a ring of the last snapshots.
*Operations*: `produce_text` and `produce_image_snapshot` stamp a local change with
the next version; `observe_remote` drops a node's own snapshots and those that do
not move the clock forward, and takes the version of the others.
*Correct when*: origin and version identify a snapshot; clocks never run backwards
and agree at rest; the ring is bounded and in version order.
*Hard*: two nodes that stamp the same version before they hear of each other.

### Clipboard pipeline (`cli/src/runtime/{common,server,client}.rs`, `imp.rs` of the three platforms)

*State*: the OS clipboard, the watcher's last text, the channels between watcher
thread, engine task and forwarder, and the snapshot a reader task is working on.
*Operations*: the watcher polls at 4 Hz; its texts become snapshots and are
broadcast; a reader asks the engine, writes the OS clipboard after the engine's lock
is released, and on the hub hands the snapshot to every other spoke.
*Correct when*: a spoke never hears itself; one copy reaches all; snapshots of an
origin do not overtake each other; a node at rest shows what its engine took last.
*Hard*: the watcher cannot tell the runtime's own write from a user's copy; decision
and write are two steps; the hub runs one reader per spoke.

### Connection (`transport/src/connection.rs`)

*State*: one TLS stream behind one fair lock, used by a reader and a writer task.
*Operations*: `send_frame` and `recv_frame` (each holds the lock for a whole frame,
length and payload), `close`.
*Correct when*: each direction is a FIFO of whole frames; no wakeup of the lock is
lost; a broken stream ends the session.
*Hard*: the reader holds the lock while it waits for the peer; `write_all` may block;
frames that are too large fail before the lock is asked for.

### Hub sessions (`cli/src/runtime/server.rs`)

*State*: the map from a spoke to the channel of its session, and two tasks per session.
*Operations*: accept and register, broadcast (with one spoke left out), relay, answer
a fetch in chunks, remove the entry when a reader ends.
*Correct when*: a registered session gets every broadcast since it joined, once and in
order; replies arrive whole; the map and the tasks do not leak.
*Hard*: a spoke comes back before the hub has missed it, so that two sessions of one
spoke exist and one's cleanup meets the other's entry.

### Lazy payload store (`clipboard/src/lazy.rs`, `server.rs:214-239`)

*State*: payloads by hash, the order of their insertion, the sum of their bytes.
*Operations*: `insert` with FIFO eviction, `get`, `remove`; the chunks of a reply.
*Correct when*: the three agree, the cap holds, a reply can be put together again.
*Hard*: zero bytes, exact multiples of the chunk, payloads over the cap.

### Handshake, pairing, identity (`transport/src/{connector,listener,connection,identity,peer_store}.rs`)

*State*: `identity.key` and `known_peers.toml` on disk, their copies in memory.
*Operations*: dial, accept, the two signed hellos, the check of pin and trust, trust
on first use, `flush`.
*Correct when*: machines that were paired recognise each other in later runs; a
machine has one identity for good; a pin is judged before anybody is trusted.
*Hard*: file writes that fail or are cut short; the hub answers before it judges; one
handshake at a time and no timeout.

### Spoke runtime (`cli/src/runtime/client.rs`)

*State*: the addresses left in this attempt, the role, pin and address that were saved.
*Operations*: dial the addresses in order, run a session, start over.
*Correct when*: a spoke that lost its hub dials again; a pin outlives restarts.
*Hard*: the end of a session waits for a task that waits for something else.

### CLI, configuration, doctor (`cli/src/{main,config,doctor}.rs`, `identity.rs`)

*State*: `config.toml` (role, pin, address, listening address) and `identity.key`, and
what each running command has read of them.
*Operations*: `serve`, `connect`, `status` and `doctor`, each a sequence of reads and of
writes that truncate a file and then fill it.
*Correct when*: what runs is what a restart would run; a machine is one node; a spoke
has an address.
*Hard*: several saves under different conditions; `status` and `doctor` write as well;
commands overlap, and are killed anywhere.

### Input (`capture.rs`, `emit.rs` and `keymap.rs` of the three platforms, `core/src/hid.rs`, `server.rs:120-139`)

*State*: the capture's modifier mask; what is held down in the system of each spoke,
which outlives sessions; for each platform one table to read keys and one to type them.
*Operations*: translate raw events, broadcast, emit through XTest, `SendInput` or
`CGEvent`.
*Correct when*: a spoke holds down what the hub holds of what it has been told; a key
is sent as the key that was pressed.
*Hard*: keys already down when the capture starts, keys one side cannot name, buttons
one side takes for others, sessions that begin or end between a press and its release.

### Input router (`input-router/src/{router,layout,modifier}.rs`)

*State*: the adjacency of the screens, the cursor on the local screen and the node that
has it, the modifiers that are down.  *Operations*: `connect`, `on_mouse_move`, `on_key`.
*Correct when*: the cursor stays on its screen and leaves it on the side it moved to;
the node it enters knows the modifiers.  *Hard*: sums that overflow, screens without
pixels, a `connect` that replaces an earlier one.  No binary links the crate yet.

`PROJECT.json` lists these and the remaining components, and every hazard at its line
with the properties that are aimed at it.

## 2. The models

| module | models | state ↔ code |
|---|---|---|
| `ClipEngine` | engine, as pure operators | `Accepts`, `NextVersion`, `PushHistory` ↔ `observe_remote`, `produce_text`, `push_history` |
| `Gossip` | what the clipboard pipeline promises (abstract) | `newest` ↔ the last entry of a node's history; `due` ↔ what a node has yet to get to a peer, wherever it waits |
| `ClipSync` | clipboard pipeline on the star, of any platform | `version`, `history` ↔ `Inner`; `clip` ↔ OS clipboard; `last` ↔ the watcher's `last`; `seen`, `outbox` ↔ the two channels; `task` ↔ a reader between decision, write and relay |
| `Duplex` | what a connection promises (abstract) | |
| `Conn` | one connection, both ends | `holder`, `waiters` ↔ tokio `Mutex`; `pc`, `cur` ↔ the four tasks; `wire` ↔ TLS stream, two tokens a frame; `queue` ↔ mpsc channel |
| `FanOut` | what the hub promises its spokes (abstract) | `given` ↔ what a session's writer has sent and what waits in its channel; `live` ↔ the writers that run; `answered` ↔ the fetches that no reader holds any longer |
| `HubSessions` | the hub's sessions | `writers` ↔ the map; `rx` ↔ channels; `reader`, `writer` ↔ tasks; `log`, `joined` record what was broadcast and when a session joined |
| `LazyStore` | payload store and chunking | `stored`, `order`, `total` ↔ `by_hash`, `order`, `total_bytes` |
| `Pairing` | identity, stores, handshake, dial and accept loops, crashes | `idFile`, `peerFile`, `config` ↔ the three files; `key`, `known`, `pin`, `tofu` ↔ process memory; `link` ↔ where both ends of a connection are; `told`, `paired`, `lost` record the past |
| `KeyMaps` | HID usages and the key tables | functions from usages to native codes and back, one per table |
| `Input` | input from the capture to the spokes' systems | `hub`, `os` ↔ the platforms; `mask` ↔ the capture's `modifiers`; `captured`, `frames` ↔ channels; `held` ↔ the system of the spoke; `seen` records the keys and buttons whose last event in this session a spoke emitted |
| `Router` | layout, cursor and modifiers of `input-router` | `adjacency` ↔ `Layout`; `active`, `x`, `y`, `modifiers` ↔ `Router`; `checked` ↔ whether the build panics on overflow; `told`, `touched` record what nodes were sent |
| `Cli` | the commands on one configuration directory | `config`, `identity` ↔ the files; `pc`, `then`, `mem`, `key` ↔ a process between two steps; `report` ↔ what `doctor` prints; `alone`, `latest` record who overlapped whom |

`ClipSyncProofs`, `ConnProofs`, `HubSessionsProofs`, `LazyStoreProofs`, `PairingProofs`,
`InputProofs`, `RouterProofs` and `CliProofs` hold the theorems about the module they are
named after; each extends that module and changes nothing in it.  Every `MC…` module only gives TLC values for constants.  Definitions marked *Mutant
of …* are faulty variants of the definition that follows them; nothing uses them, they
document which mistake each property would catch (`PROJECT.json`, "mutants").

**One action per step of a task.**  A step ends where the code awaits, releases a lock
or hands over to another thread.  Three examples: `Receive` and `Apply` are two actions
because `common.rs` releases the engine before the OS write; `SendLen` and `SendBody`
are two because they are two `write_all`s; `Insert` is one because the store's mutex is
held throughout.

**How the modules fit together.**  `ClipSync` implements `Gossip`, a specification of
forty lines in which nodes announce, owe and hear snapshots and nothing else exists: an
announcement is owed to every peer in the step that stamps it, a peer settles a debt in
one step and, if it takes the snapshot, owes it in the same step to all its other peers.
Outboxes, links, reader tasks and the relay are where a debt waits.  `ClipSync` takes the
sessions as given and its channels as FIFO, and hands a frame to all links it is for in
one step.  Both are shown one level down: that one connection is a pair of FIFO channels
is the refinement `Conn ⇒ Duplex`; that a frame reaches all sessions it is for at once,
and what that means when sessions end and replace each other, is the refinement
`HubSessions ⇒ FanOut`.  The levels meet in these promises, not in a module that contains
them all: its states would be the product of theirs.  What the clipboard model does not
have, sessions that end, is what `HubSessions`, `Conn` and `Pairing` are about.  `Input` has sessions that come and
go, but takes their frames as FIFO as well; it extends `KeyMaps`.  `Cli` and `Pairing`
share the saved configuration from two sides: in `Cli` a start-up is a sequence of file
operations that other commands interleave with, in `Pairing` it is one step and what
matters is what the nodes do with the pin and the keys afterwards.  `Router` stands
alone, as the crate does.

**Abstractions.**  Texts and payloads are values with an identity and, in `LazyStore`, a
size; `created_unix_ms`, names and fingerprints are left out.  Signatures are left out
of `Pairing`: all machines are honest, so they verify.  `Input` leaves out pointer
motion and the size of a wheel's turn: nothing is held down by them.  A key table is a
function written row by row, each row the codes of consecutive usages; the two tables of
a platform are two transcriptions, neither computed from the other.  `Router` leaves
out `set_screen`, which fills a map that nothing reads, and `ModifierState::clear`,
which nothing calls.  Time is left out everywhere: polls, backoff delays and retries
happen at any moment.  A file write that is cut short leaves a prefix (`fs::write`
truncates first); a prefix of TOML parses as a subset or not at all.  `run_session` only
ever returns `Err`, so the index of the backoff is never reset; without time that makes
no difference.  Connections in `Pairing` are recycled when both ends are gone.

## 3. The runs

Sizes are distinct states; times are for two workers.

| run | bounds | states |
|---|---|---|
| `clip_star` | hub and 2 spokes with clipboards, a copy by any two of the three users, one spoke's possibly repeated, the hub's writes may fail, versions ≤ 4, history 2 | 223 k |
| `clip_echo` | hub and 1 spoke, 1 copy each, versions ≤ 8 | violation |
| `conn` | 2 frames a writer, one oversize, one request, 2 tokens on the wire, link may break | 40 k |
| `conn_queued` | 1 frame a writer, link never breaks | violation |
| `hub_sessions` | 2 spokes, 2 connections, 1 local frame, 1 snapshot, 1 fetch of 2 chunks | 135 k |
| `hub_remove` | 1 spoke, 2 connections | violation |
| `lazy_store` | payloads of 0 to 5 bytes, cap 4, chunk 2, inline 1 | 217 |
| `pairing` | 1 hub, 2 spokes, 1 address, 3 starts, 2 connections, 1 file fault, fair | 314 k |
| `spoke_redial` | the same, a host name with two addresses, no fault | violation |
| `input` | 4 setups of a hub and 2 spokes, one with an emitter that may return errors, 3 keys, a button and a wheel, 4 events | 1.5 M |
| `router` | 4-bit integers, screens of 4×2 and 0×2 pixels, 4 deltas, 2 connects, 2 key events | 160 k |
| `cli` | 2 shells, 2 addresses, 2 pins of which 1 does not parse, 2 listening addresses, 3 commands | 2.4 M |

**Clipboard** (`clip_star`).  Three nodes are the smallest star in which
the hub relays, and copies at any two of them (`MaxTexts`) give the concurrent copies,
equal versions and echoes that the rules are about; a third adds states and no new case:
the run with `MaxTexts = 3` passes as well, with 1.8 M states in under five
minutes.  A fourth version is one more than an echo of a single
copy can reach, so `OneCopyEchoBounded` could fail within the bound.  The node whose
writes may fail is the hub (`Flaky`), since it has to relay what it could not write;
`OneCopyReachesAll` then speaks of the two spokes.  One spoke's user may copy the same
text again (`Recopiers`); one is enough, as the spokes are alike.  A ring of two entries is the shortest that can be out
of order, and histories of more than two fill it.  Shown:
`SnapshotsUnique`; `PerOriginOrder` (the way through the forwarder and the way through
the relay never swap two snapshots of an origin); `HubsTextWins`;
`OneCopyReachesAll`; `OneCopyEchoBounded`; `HistoryInOrder`; and `SpokeShowsNewest`,
which holds on spokes because they have one reader.  On the hub, two readers can write
the OS clipboard in the opposite order of their decisions; the property is not claimed
there.  `HubsTextWins` is about copies that cross: nodes that do not know of each other
stamp one version, and once no frame is under way a spoke has the hub's clock and either
the hub's newest snapshot or its own of the same version.  So the clocks agree
(`ClocksAgreeWhenQuiet`), and of the texts of one version those that the hub did not
take first are left only with the nodes that announced them.  `ImplementsGossip` is the
refinement: no snapshot is lost, repeated or sent back
where it came from on any way through the hub.  `Poll` and `Produce` stop at `MaxVersion`; `Quiet` therefore asks for nothing left
to see or to produce, so that a state cut off by the bound does not count as one at rest.

**Connection** (`conn`).  Two frames make a writer come back for the lock behind a
waiting reader; a capacity of two tokens is one frame, so both ends can block in
`write_all`.  Shown: the connection implements `Duplex` (two FIFO channels of whole
frames, each frame at most once, numbered in the order a task sends them);
`LockAccounted` (checked with the types as `ConnInv`); `FramesWhole`, although the
spoke's reader sends replies between the writer's frames; `InboundFrameFreesWriter`, the
reason why the single lock works at all (a fair lock puts the reader behind the writer
after each frame); and `BrokenStreamEndsReader`.

**Hub sessions** (`hub_sessions`).  Two connections are what a replaced session needs:
two of one spoke, or one each of two spokes, which are what a relay needs.  Shown:
`RegisteredGetsAll` (every broadcast but its spoke's own), `RepliesInOrder` (a reply may
go to the session that replaced the one that asked, whole and in order),
`EntriesHaveReaders` (with the types, `HubInv`), `NoWriterLeak` (the writer of a session
that is over ends, be it that its reader has ended or that another session of its spoke
has taken the sender and its channel is empty or its connection broken), and
`ImplementsFanOut`:
whatever the order in which tasks run, sessions replace each other and entries go, the
hub behaves as one that gives a frame to all it is for in one step.  The defect of
section 5 is within that promise and visible in it: `Forget` names the spoke, not the
session, since the code forgets whichever session the spoke has by then.

**Store** (`lazy_store`).  Any sequence of operations; the sizes include nothing, the
inline threshold and one more, one chunk, two chunks, one chunk and a bit, the cap, and
over the cap.  Shown: `Accounted` and `WithinCap` (with the types, `StoreInv`),
`EvictsOldestOnly`, `ReplyReassembles`.

**Pairing** (`pairing`).  Three starts are a hub, a spoke and one
restart of either, or two spokes; two connections let one wait while the hub is busy
with the other; one fault can fall into any of the three files.  One address is enough
here, since a second one of the same hub is dialled like the first; `spoke_redial` has
two, so that a spoke could go on to the next.  Shown:
`PairedIsRecognised`, `IdentityIsStable`, `PinOutlivesRestarts` (all three with the
fault's own victim excepted: it is lost, but nothing else is), `PinnedLearnsItsPinOnly`;
and, with fairness, `DialIsAnswered` and `HeadlessSpokeRedials`.

**Input** (`input`).  The setups pair a hub of each platform with spokes of each kind,
one without an emitter included.  Four events are a press and a release of two keys in any
order, across sessions that come and go.  The three keys are a modifier every platform
has, one the X11 spoke has no key code for, and one that no capture reads; button 2 is
one that macOS confuses with others, and button 4 a wheel, which X11 reports as a button
and Windows does not.  In the first state Shift and the middle button may be down
already.  The emitter of one spoke may return an error (`Flaky`), which the reader logs
and drops (`client.rs:241-243`): `EmitFails` leaves the spoke as it was, or, on X11, where
the request is queued before the flush fails, possibly as the event wanted it.  Shown: `SpokesInStep` and `MaskIsWhatTheSpokeHolds`, each for the keys and
buttons whose last event in this session the spoke has emitted (without that restriction
both are false, see section 5); and of the tables, which are complete whatever keys the run presses,
`KeyTablesAgree`: what a capture reads is what its emitter would type, but for the
second Enter key of Windows, and no two usages share a native key.  That is a fact about
data; it is here because two tables of a hundred rows for each of three platforms are
written by hand, and no test compares them.

**Router** (`router`).  Integers of four bits hold every case of the comparisons that
32 bits have: sums that fit, that leave the screen by either side, and that overflow,
in a build that panics and in one that wraps.  A screen without pixels makes `clamp`
panic.  Two connects are one that replaces both ends of another.  Shown:
`CursorOnScreen` (with the types, `RouterInv`); `CrossesOffTheScreen` (an action property);
`ReceiverKnowsModifiers`, over the events that the router returns; `EveryLinkHasAWayBack`.
The way back need not lead to where one came from: a later `connect` takes one end of a
link and leaves the other.  That is the property that holds.

**Commands** (`cli`).  Two processes overlap at every step, and each may be killed at
any (`End`), so a file may be seen missing, empty, or half a start-up old.  Three
commands are a node that runs, stops and starts again while another command runs
beside it.  The two shells are interchangeable and so are the two addresses, which the
symmetry uses; no property of the run is a liveness property.  Shown: `SavedIsWhatRuns` and
`OneIdentity` for start-ups that nothing overlapped, `SpokeHasAddress` (with the types,
`CliInv`) for all.  The two exceptions are real: see section 5.

**Fairness.**  `Conn`: weak fairness of the four tasks, which tokio schedules when they
can run.  None for `Submit` (nobody owes a frame) or `Fail`.  `HubSessions`: weak
fairness of each step of a task but `Ship`, since a send on a connection that is up may
hang (that is what `conn_queued` shows), and none for frames from spokes or for
`Break`.  `Pairing`: weak fairness of the dial and accept loops and of both ends'
handshake steps; none for users, stops or file faults.  `DialIsAnswered` also rests on
machines that stop rather than hang, since neither side has a timeout.

`ClipSync`, `Input`, `Router` and `Cli` state safety only.

**Deadlock.**  `CHECK_DEADLOCK FALSE` wherever the bounds use up what users and links may
do; a program at rest is no deadlock.  `lazy_store` checks it.

## 4. The proofs

Every safety property that a passing run checks, the three refinements included, is a theorem
for every value of the constants.  The assumptions are those the modules declare, and TLC
evaluates each of them: bounds are naturals, sets are sets of the right things, and what
stands for "no value" (`NoSpoke`, `Unknown`, `Missing`, `Empty`, …) is not a value.
`ClipSync` asks for finitely many spokes, `LazyStore` for chunks of at least one byte,
`Router` for a half-width `Half` of the
integers that is a positive natural (8 in the run, 2^31 in the program).

| module | theorem | property |
|---|---|---|
| `ClipSyncProofs` | `TypeCorrect` | `TypeOK` |
| | `ClipInvariant` | `ClipInv` |
| | `ClocksAgree` | `ClocksAgreeWhenQuiet`, which `HubsTextWins` contains |
| | `TheHubsTextWins` | `HubsTextWins` |
| | `SpokesNeverHearThemselves` | `NoBounce`, which no run checks: the refinement says more |
| | `SnapshotIdentity` | `SnapshotsUnique` |
| | `HistoriesStayInOrder` | `HistoryInOrder` |
| | `LinksKeepOrder` | `PerOriginOrder` |
| | `SpokesShowTheNewest` | `SpokeShowsNewest` |
| | `OneCopyArrives` | `OneCopyReachesAll` |
| | `EchoesEnd` | `OneCopyEchoBounded` |
| | `ClipSyncImplementsGossip` | `ImplementsGossip` |
| `ConnProofs` | `LockAndTasksAgree` | `ConnInv` |
| | `FramesStayWhole` | `FramesWhole` |
| | `ConnectionImplementsDuplex` | `ImplementsDuplex` |
| `HubSessionsProofs` | `HubInvariant` | `HubInv` |
| | `BroadcastsArrive` | `RegisteredGetsAll` |
| | `RepliesArriveWhole` | `RepliesInOrder` |
| | `HubImplementsFanOut` | `ImplementsFanOut` |
| `LazyStoreProofs` | `StoreAccounts` | `StoreInv` |
| | `EvictionIsFifo` | `EvictsOldestOnly` |
| | `RepliesAddUp` | `ReplyReassembles` |
| `PairingProofs` | `Typed` | `TypeOK` |
| | `PairsAreRecognised` | `PairedIsRecognised` |
| | `OneIdentityForGood` | `IdentityIsStable` |
| | `PinsOutliveRestarts` | `PinOutlivesRestarts` |
| | `PinnedRunsLearnTheirPin` | `PinnedLearnsItsPinOnly` |
| `InputProofs` | `FramesAreWellFormed` | `TypeOK` |
| | `SpokesFollow` | `SpokesInStep` |
| | `MasksAreHeld` | `MaskIsWhatTheSpokeHolds` |
| | `KeysAgree` | `KeyTablesAgree` |
| `RouterProofs` | `CursorStaysOnScreen` | `RouterInv` |
| | `ModifiersFollowTheCursor` | `ReceiverKnowsModifiers` |
| | `LinksLeadBack` | `EveryLinkHasAWayBack` |
| | `CrossingIsOffTheScreen` | `CrossesOffTheScreen` |
| `CliProofs` | `SpokesHaveAddresses` | `CliInv` |
| | `OneNode` | `OneIdentity` |
| | `RestartsComeBackTheSame` | `SavedIsWhatRuns` |

### The clipboard (`ClipSyncProofs`)

`ClocksAgreeWhenQuiet` says nothing about a state with a frame under way, so it is far
from inductive.  `ClipInv` is `TypeOK` and three parts:

- `Origins`: an outbox and the link to the hub hold a node's own snapshots, the hub's
  task for `s` those of `s`, the link to `s` none of them.  This is `NoBounce` with the
  places the snapshots come from; it makes the engine's origin filter irrelevant to
  what arrives, so that a snapshot that is refused is refused because it is not newer.
- `Bounds`: what a node has put on its way does not exceed its clock.
- `Reaching`: for each spoke, either the hub's clock is no ahead of the spoke's, or a
  snapshot with exactly that version is in the hub's outbox, on the link, or in the hands
  of the reader of *another* spoke that will relay it; and likewise from spoke to hub.

The step that matters is `Receive` of a spoke: the snapshot that carries the hub's
version leaves the link, and either it is accepted and the spoke catches up, or it is
refused, and since it is not the spoke's own, the spoke already was as far.  When the hub
receives from `s`, its new version is in the hands of the reader of `s`, which covers
every spoke but `s`, and `s` is covered because it sent it (`Bounds`).  With nothing under
way only the first disjunct of each part is left, in both directions.

`TheHubsTextWins` adds the texts.  What the hub has still to send, from its outbox, its
links and its readers, is in version no ahead of its clock, and under the version of its
clock it is the hub's newest snapshot (`Leads`, for all of `HubSends`).  That is kept
because what the hub sends next is what its engine has just taken, and because a clock
that moves leaves everything else behind.  A spoke's newest snapshot is its own or one it
received from the hub (`LeadsSpoke`); at rest its version is the hub's, so if it is not
its own it is the hub's newest.

`SnapshotIdentity` needs another strengthening, `OriginClocks`: wherever a snapshot is
held, its version is at most its *origin's* clock.  A new snapshot is stamped above it,
so it differs from every snapshot of the same origin.  `HeldNext` reduces each step to
"creates at most one snapshot".  `LinksKeepOrder` adds `OrderInv`: a snapshot of an
origin passes through stages (outbox, link to the hub, task of its reader, the hub's
outbox or the links onward), and whatever is at a later stage is older than what is at an
earlier one; a link is fed by the last stage only, so what is appended is newer than
what is there.

What the desktops show is proved per node.  `SeesStep` says that a step, seen from one
node, is one of six (its user copies, its watcher polls, its engine produces, accepts or
refuses, its reader writes, or nothing), whatever the other nodes do; the rest of the
argument looks at these six only.  `Shows` relates what a spoke's reader is about to
write, what is on the clipboard, what the watcher saw last and the newest history entry;
it needs that a spoke has one reader, and it is why the property is claimed of spokes
only.  For `OneCopyArrives`, `KnownTexts` adds that every text that is anywhere was
copied by somebody, so with a single copy all of them are the same.  `EchoesEnd` counts:
`EchoInv` says that no clock exceeds the number of desktops that have announced the one
text, and a desktop that has announced it has it as its watcher's baseline for good.

`ClipSyncImplementsGossip` maps a node's `newest` to the last entry of its history and
`due` to what the outbox, the link and the other readers hold (`Owes`).  `Produce` is
`Publish` and `Receive` is `Hear`; every other step must leave both alone, which is
plain for the desktop and a fact about moving for the rest (`MovesAreStutters`): the
forwarder moves a snapshot from the outbox to *all* links of its node, the relay from a
reader to the links of all peers but one, and a write leaves it with the reader as long
as there is a relay to come (`WriteOwes`).  `Receive` is the hard one, since `due` is a
set: taking a frame from the link ends the debt only if no second copy of the snapshot is
in the outbox, on the link or in another reader.  That is `OwedOnce`, and it follows from
the order of the stages (`OrderInv`): what waits behind is newer, so it is not the same.
`ClockIsVersion` is the other link: the abstract clock is the version of the newest
snapshot, the engine's is a counter, and `HistoryInOrder` ends the ring with it.

The effect of each action on the sets of snapshots in the queues is a lemma of its own
(`ProduceEffect`, `ForwardEffect`, `ReceiveEffect`, `WriteEffect`, `RelayEffect`), so
that the invariants are proved from effects and not from `Append` and `Tail`.

### The connection (`ConnProofs`)

`FramesWhole` speaks of a reader that has read a length.  The invariant says of the lock
that who is in the middle of a frame holds it (`LockOK`), and of the stream that lengths
and payloads take turns and that a length without its payload is the last token and
belongs to that holder (`WireOK`).  `ConnectionImplementsDuplex` maps the stream to the
abstract channel: a frame counts as sent once its length is written, as received once
its payload is read.  `OrderOK` is what the abstract specification's numbering needs:
along the stream, the frames of one task grow with their numbers, because they do so
along its channel, or, for replies, because they follow the requests in their order.
The theorem is about `Duplex!Spec`, which states safety; the two liveness properties of
the run are not part of it.

### The hub's sessions (`HubSessionsProofs`)

`RegisteredGetsAll` compares what a session was given with the log.  Stated by places of
the log it is inductive once broadcasts are numbered apart (`LogOK`): a frame then stands
for one place, the next one comes at the end of the log and of the channel alike, and a
session that missed one (its receiver is gone) is given no later one.  `FetchOK` says
that a request is in the hands of one reader at most, and that its reply has not been put
into any channel yet; a reply is put there in one piece, which is why it arrives whole.

`HubImplementsFanOut` maps what a session was given to what its writer has sent, then
what is in its channel (`Inbox`), the published frames to those of the log, and a request
to answered once no reader holds it (`Answered`).  `Broadcast` is `Publish`: the frame is
new by `LogOK`, and those whose send succeeds are the sessions that listen, an entry in
the map being one of the entry's own spoke (`Listening`).  `AnswerFetch` is `Answer`, where
`FetchOK` makes the request one that nobody has answered.  A writer that ends is `End`:
what was still in its channel is lost and nothing before it.  `Cleanup` is `Forget`, or a
stutter when the spoke has no entry any more; sending moves a frame within `Inbox`.

### The payload store (`LazyStoreProofs`)

`StoreInv` is inductive as it stands; the work is in the data.  The bytes of a queue and
what `retain` leaves of it are recursive functions, and the library's induction theorems
take operators no prover here can instantiate.  `LeastNumber` gets round that: a set of
naturals that is not empty has a least element, from the library's `WFMin`, which speaks
of sets.  `UpTo` turns it into induction for sets of numbers, `Recursion` shows with it
that a function defined by recursion up to `n` exists, and `SumIs` and `RetainedExists`
that the model's `SumTo` and `Retained` are such functions.  The rest is about queues:
cut off what is evicted and the bytes split (`BytesCut`), filter an entry that is there
once and exactly its bytes go (`RetainedFacts`), so that no subtraction saturates.
`InsertEvicts` uses that the number of evictions is the least that makes room: with one
less the entry did not fit.  `ChunkCountFacts` is what the rounded-up division gives, for
every payload and chunk size.

### Pairing (`PairingProofs`)

The properties speak of what a later run sees, the steps only of files and memory.
`MachineOK` bridges them: an identity file changes only while nobody knows a key of that
machine, so every key that travels, is trusted or is stored is `Genuine`, the key its
machine has for good; and while a machine runs, its store in memory is the one on disk
unless a write of that store went wrong.  `Sound` says of each end of a connection what
it has judged already, so that `paired` is only set when both ends have stored the other.
A fault's victim (`lost`) is excepted throughout, and nothing else is.

### Input (`InputProofs`)

`SpokesInStep` speaks of the moment when nothing is under way.  `Pipe(s)` is everything
that is: the frames on the way to `s` followed by what the hub has captured and not yet
forwarded.  `InputsOK(s)` says of every native key or button which one input alone moves:
if frames of the pipe touch it, the last of them says what the hub holds; if none does
and the spoke has emitted it, the spoke holds what the hub holds.  Capturing appends to
the pipe, forwarding moves a frame within it, emitting takes the first frame and does to
the key what the frame says, so that `Follows` is kept at either end (`FollowsAppend`,
`FollowsEmit`); an emission that fails takes the frame and the key's place in the record
(`TakenStep` covers both); a session that joins has an empty record of what was emitted.
`MasksOK(s)` is the same frame by frame: the mask a frame carries is what the frames
before it leave.  It needs that no two usages share a native key, or one would release
the other (`KeysAreTold`).

That, and all of `KeyTablesAgree`, is proved of the tables themselves.  A table is a chain
of rows joined with `++`, the arms of a `match`.  That the codes of one row differ, and
from those of the rows before it (`OneToOne`, `Apart`), the solver finds by going through
them; `ArmsOneToOne` and `ArmsApart` put the rows together, so that no obligation has
more than a row against the rows before it.  A table that reads need not be searched: a
row of it that stands in the table that types (`Part`) reads back right wherever the
other table is one-to-one (`RowReadsBack`), and `ArmsReadBack` joins the rows whatever
their order.  Of Windows all this holds but for the keypad's Enter, which `S` excepts.

### The router (`RouterProofs`)

Arithmetic is in `WrapFacts`: on what two integers of the width can sum to, the wrapped
sum is in range and at most one turn off.  The rest is about who learns what from an
answer: only the node it names.

### The commands (`CliProofs`)

The exceptions of `SavedIsWhatRuns` and `OneIdentity` are start-ups that overlapped
another.  For the others, `Fits` says step by step what file and memory agree in, and
`Settled` that this survives whoever starts afterwards: once a node runs, both files are
written, so that `status` and `doctor` no longer save.  `KeysCounted` bounds the keys by
the starts, so that two generated keys differ.  Looking for this invariant showed that
an earlier version of the model let a process end after its first save; the run passed
all the same, because a process that has ended satisfies everything.

### Only model-checked

- **Liveness** (`InboundFrameFreesWriter`, `BrokenStreamEndsReader`, `NoWriterLeak`,
  `DialIsAnswered`, `HeadlessSpokeRedials`): fairness and `ENABLED` are beyond the proof
  system.
- What **recursive functions** compute is proved where a theorem rests on it, by the
  detour described under `LazyStoreProofs`.

## 5. What the code does against its own words

Four runs expect a violation.  Each checks one sentence of the repository.

- **`clip_echo`**: the docs say that dropping stale snapshots ends the A→B→A echo
  (`clipboard/src/lib.rs:8-9`, `docs/architecture.md:43`).  The watcher announces every
  text the runtime itself wrote (`pal-x11/src/imp.rs:48` and `67-76` keep two unrelated
  "last" texts), with a higher version.  After one copy the echo stops, because the
  texts are equal (`OneCopyEchoBounded`); after two concurrent ones the nodes exchange
  the two texts for ever.
- **`conn_queued`**: "readers and writers are split … implicit in the lock"
  (`connection.rs:57-58`).  There is one lock and the reader holds it while it waits
  (`connection.rs:106`); between two silent peers a queued frame is not sent.
- **`hub_remove`**: "Remove from writers map if our entry is still the one we installed"
  (`server.rs:332-333`).  The entry is removed whoever installed it; a spoke that came
  back early is connected and hears nothing.
- **`spoke_redial`**: "On failure, retry with exponential backoff" (`client.rs:5-6`).  At
  the end of a session `run_session` waits for the writer task, whose channel the
  clipboard forwarder keeps open while it waits for a local copy (`client.rs:185-217`).
  A spoke with a clipboard dials again only after its user copies something.

Seen while reading, no run was spent on them:

- A new local snapshot can have a version another node has used already
  (`clipboard/src/lib.rs:262-264`), and of two such snapshots each node keeps the one it
  took first; with a hub without clipboard two spokes may differ at rest (`README.md:5-6`).
- The clock takes the remote version, where `core/src/clipboard.rs:10-12` says it
  takes the maximum plus one.
- On the hub, an older snapshot may be written over a newer one
  (`common.rs:83-89`; `core/src/clipboard.rs:8-10`).
- A change that is undone between two polls is not announced (`server.rs:99-100`,
  `imp.rs:70`): a spoke whose user copies the earlier text again before the watcher saw
  the one the runtime wrote keeps a text its engine does not have.  `SpokeShowsNewest`
  therefore excepts `Recopiers`.
- The local version is incremented without a check after it was taken from the wire
  (`clipboard/src/lib.rs:85`).
- Two ends that write to full streams both hold their locks, and neither reads
  (`connection.rs:97-100`); `close` waits for a reader that waits for its peer
  (`connection.rs:83-87`).
- A replaced session does not end by itself: its reader keeps the connection
  (`server.rs:266-268`).  What ends is its writer, once its channel is empty, and that one
  leaves the connection open.
- One payload over the cap is stored all the same (`lazy.rs:12`, `82-92`).
- The hub answers a hello before it judges it (`connection.rs:156-165`): a spoke that pairs
  stores a hub that refuses it and opens a session with it, and keeps the hub in its
  store when the session has ended (`connection.rs:190-203`).

Of the commands (`Cli`):

- The address of a `connect <host>` is saved only if the role changes or there is a pin
  (`main.rs:231-254`); the README has the next bare `connect` use it (`config.rs:108`,
  `README.md:71`).  `SavedIsWhatRuns` says so much of the address and no more.  A one-off
  `--bind` is saved when the role changes.
- The role is saved before the runtime has started, where `config.rs:55-56` says "first
  successful run".
- A pin is described as a truncated hash (`config.rs:110`) but must be the whole key
  (`client.rs:126-134`); one that does not parse is saved before it is parsed, and every
  later start fails over it (`main.rs:249-252`, `client.rs:74-77`).
- `doctor` reports a hub's listening address as taken, a failure, while that hub runs
  (`doctor.rs:104-140`).
- `status` or `doctor` beside the first `serve` or `connect` may write the default
  configuration over what that one has saved (`config.rs:173-182`), and two first
  starts may each generate an identity of which only the second is kept
  (`identity.rs:33-52`).

Of input (`Input`, `KeyMaps`):

- The emitters ignore the mask that travels with a key and `Enter` (`emit.rs:147`;
  architecture notes): a spoke that joins while Shift is down types unshifted, and what
  is down when a session ends stays down.
- An emitter's error is logged at debug level and dropped (`client.rs:241-243`): the key
  of a release that was not emitted stays down until its next event.
- A wheel's release on X11 is sent as the release of an unknown button
  (`pal-x11/src/capture.rs:314`), which a macOS spoke takes for the middle one and
  releases it (`pal-macos/src/emit.rs:110-111`).  The buttons of the side are middle
  buttons there, too; Windows drops buttons it has no name for.
- On Windows the keypad's Enter is read as the main one.
- X11 does not read F13 to F24, Print Screen, Scroll Lock, Pause, Application and the
  keypad but for Num Lock; Windows not the keypad, Application and F13 on.  macOS cannot type
  Print Screen, Scroll Lock, Pause, Application, the keypad and F13 on.  The keys of
  non-US keyboards and the consumer page are named in `hid.rs` and typed nowhere.
- A turn of less than a notch is lost on Windows (`pal-windows/src/capture.rs:201-205`),
  and horizontal wheels are not read.  `fp3232_to_i32` floors where its comment says it
  rounds toward zero (`pal-x11/src/capture.rs:323-326`).

Of the router (`Router`):

- Once the cursor is remote, all moves are forwarded: nothing brings it back, although
  its position is kept "so the next return-cross works" (`router.rs:111-112`).
- A `connect` over an earlier one leaves the other half of it: from there the cursor
  would walk to a screen whose own edge leads elsewhere.
- Of a move past a corner only the horizontal edge is looked at.

## 6. What is not modelled

| part | why |
|---|---|
| A scroll on X11 that fails between the press and the release of its click (`pal-x11/src/emit.rs:174-186`) | the request is queued, so it fails only with the connection to the X server, and with it every later one |
| Pointer motion, the size of a wheel's turn | relative, leave no state a later step could contradict |
| Capture threads and hooks | started once, stopped by nothing; their channel is in `Input` |
| macOS capture | a scaffold that sends nothing (`Input` has it as such) |
| `clip set`, `clip get`, `clip history` | touch the OS clipboard once, or print a fixed text |
| `doctor`'s checks of the environment | display, permissions, firewall: nothing of borderless |
| Short authentication string | a hash that nothing displays; its one property is symmetry |
| Wire codec, node ids | serialisation; the frames are the models' messages |
| Platform traits | no behaviour |
| `Router::set_screen`, `ModifierState::clear` | nothing reads what they write, or calls them |
| TLS, Ed25519, certificates | taken to do their job |
| Backoff delays, the accept loop's pause, name resolution that fails | no time in the models |
| A machine that hangs rather than stops | the code has no timeout: nothing can be promised |
| Overflow of versions, unbounded channels | only out of reach of an honest run, or nothing to state |

## 7. Plan

Written, in order of importance: `ClipEngine`, `ClipSync` with its proofs, `Gossip`;
`Duplex`, `Conn`; `FanOut`, `HubSessions`; `LazyStore`; `Pairing`; `KeyMaps`, `Input`;
`Router`; `Cli`.  Every part of the program that keeps state of its own is in one of them,
and every safety property that a run checks is proved.

Left to do: sessions that end in `Gossip`, so that `FanOut` could be its lower level in a
proof and not only in the text; and a promise of the input path, abstract like `FanOut`,
of which `SpokesInStep` would be a consequence.

## 8. How to run it

```
tlasany ClipSync.tla
tlc -workers 2 -config ClipSyncStar.cfg MCClipSync.tla
tlapm ClipSyncProofs.tla     # and likewise ConnProofs, HubSessionsProofs, LazyStoreProofs,
                             # PairingProofs, InputProofs, RouterProofs, CliProofs
```

`PROJECT.json` names the module and configuration of each run, the mutants of each
property, and the lines of source behind each definition.
