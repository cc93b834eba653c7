----------------------------- MODULE HubSessions ------------------------------
(***************************************************************************)
(* The hub's sessions (crates/cli/src/runtime/server.rs:97-169, 241-336):  *)
(* the writers map from a spoke to the channel of its current session, the *)
(* reader and writer task of each session, spokes that come back while the *)
(* hub still holds their previous session, and connections that break at   *)
(* any moment.                                                             *)
(*                                                                         *)
(* A session's sender half lives in the map only, so it is gone exactly    *)
(* when the map entry of its spoke is not the session's own.               *)
(***************************************************************************)
EXTENDS Naturals, SequencesExt

CONSTANTS
    Spokes,
    MaxSessions,    \* bound: connections accepted in a run
    MaxLocal,       \* bound: frames the hub itself broadcasts
    MaxClips,       \* bound: clipboard frames read from spokes
    MaxFetches,     \* bound: fetch requests read from spokes
    Chunks          \* frames of a fetch reply that hits the store

ASSUME HubSessionsAssumption ==
    /\ {MaxSessions, MaxLocal, MaxClips, MaxFetches} \subseteq Nat
    /\ Chunks \in Nat \ {0}

Sessions == 1 .. MaxSessions
NoSession == 0
NoSpoke == <<>>

ASSUME SpokesAssumption == NoSpoke \notin Spokes

\* What travels to a spoke: a local change of the hub or an input event, a
\* snapshot relayed for another spoke, a chunk of a fetch reply.
Frames == [kind : {"local"}, num : 1 .. MaxLocal]
            \cup [kind : {"relay"}, from : Spokes, num : 1 .. MaxClips]
            \cup [kind : {"reply"}, to : Sessions, req : 1 .. MaxFetches,
                  num : 0 .. Chunks]

VARIABLES
    owner,      \* owner[i]: the spoke session i belongs to
    conn,       \* conn[i]: the state of its connection
    writers,    \* writers[s]: the session whose sender the map holds for s
    rx,         \* rx[i]: frames in the channel of session i
    reader,     \* reader[i]: where its reader task is
    writer,     \* writer[i]: where its writer task is
    shipped,    \* shipped[i]: frames its writer has sent
    locals,     \* frames the hub has broadcast itself
    clips,      \* clipboard frames read and accepted
    fetches,    \* fetch requests read
    log,        \* every broadcast so far, with the spoke it left out
    joined      \* joined[i]: length of log when session i was registered

taskVars == <<reader, writer, shipped>>
countVars == <<locals, clips, fetches>>
vars == <<owner, conn, writers, rx, taskVars, countVars, log, joined>>

Idle == [at |-> "none"]
ReaderStates ==
    [at : {"none", "read", "cleanup", "done"}]
        \cup [at : {"relay"}, num : 1 .. MaxClips]
        \cup [at : {"reply"}, req : 1 .. MaxFetches]
WriterStates == {"none", "recv", "done"}

TypeOK ==
    /\ owner \in [Sessions -> Spokes \cup {NoSpoke}]
    /\ conn \in [Sessions -> {"none", "up", "broken", "closed"}]
    /\ writers \in [Spokes -> Sessions \cup {NoSession}]
    /\ rx \in [Sessions -> Seq(Frames)]
    /\ reader \in [Sessions -> ReaderStates]
    /\ writer \in [Sessions -> WriterStates]
    /\ shipped \in [Sessions -> Seq(Frames)]
    /\ locals \in 0 .. MaxLocal /\ clips \in 0 .. MaxClips
    /\ fetches \in 0 .. MaxFetches
    /\ log \in Seq([frame : Frames, exclude : Spokes \cup {NoSpoke}])
    /\ joined \in [Sessions -> Nat]
    /\ \A s \in Spokes : writers[s] # NoSession => owner[writers[s]] = s

Init ==
    /\ owner = [i \in Sessions |-> NoSpoke]
    /\ conn = [i \in Sessions |-> "none"]
    /\ writers = [s \in Spokes |-> NoSession]
    /\ rx = [i \in Sessions |-> <<>>]
    /\ reader = [i \in Sessions |-> Idle]
    /\ writer = [i \in Sessions |-> "none"]
    /\ shipped = [i \in Sessions |-> <<>>]
    /\ locals = 0 /\ clips = 0 /\ fetches = 0
    /\ log = <<>>
    /\ joined = [i \in Sessions |-> 0]
-------------------------------------------------------------------------------
Opened(i) == owner[i] # NoSpoke

\* The sender half of session i is in the map.
HasSender(i) == Opened(i) /\ writers[owner[i]] = i

\* The receiver half of session i still exists.
HasReceiver(i) == writer[i] = "recv"

\* Mutant of Sendable: the first send that fails ends the broadcast.
SendableUntilError(i, exclude) ==
    /\ HasSender(i) /\ owner[i] # exclude
    /\ \A j \in Sessions :
          (HasSender(j) /\ owner[j] # exclude) => HasReceiver(j)

\* A broadcast reaches the sessions in the map, but for one spoke's; a send
\* to a session whose writer is gone fails and is only logged.
Sendable(i, exclude) ==
    HasSender(i) /\ HasReceiver(i) /\ owner[i] # exclude

\* broadcast_to_all, under the lock of the map.
Broadcast(frame, exclude) ==
    /\ rx' = [i \in Sessions |->
                IF Sendable(i, exclude) THEN Append(rx[i], frame) ELSE rx[i]]
    /\ log' = Append(log, [frame |-> frame, exclude |-> exclude])

\* The clipboard forwarder or the input forwarder has a local frame.
LocalFrame ==
    /\ locals < MaxLocal
    /\ locals' = locals + 1
    /\ Broadcast([kind |-> "local", num |-> locals + 1], NoSpoke)
    /\ UNCHANGED <<owner, conn, writers, taskVars, clips, fetches, joined>>

\* Mutant of Register: the key is the id the peer claims, not the one its
\* connection proved.
RegisterClaimed(s, i) ==
    \E claimed \in Spokes : writers' = [writers EXCEPT ![claimed] = i]

\* map.insert: the new sender replaces, and drops, the one that was there.
Register(s, i) == writers' = [writers EXCEPT ![s] = i]

\* The accept loop hands over a connection of spoke s: it is registered and
\* its two tasks are spawned.  The spoke's previous session may still be here.
Accept(s) ==
    \E i \in Sessions :
        /\ ~ Opened(i) /\ \A j \in 1 .. i - 1 : Opened(j)
        /\ owner' = [owner EXCEPT ![i] = s]
        /\ conn' = [conn EXCEPT ![i] = "up"]
        /\ Register(s, i)
        /\ reader' = [reader EXCEPT ![i] = [at |-> "read"]]
        /\ writer' = [writer EXCEPT ![i] = "recv"]
        /\ joined' = [joined EXCEPT ![i] = Len(log)]
        /\ UNCHANGED <<rx, shipped, countVars, log>>

\* The writer task sends the next frame of its channel.
Ship(i) ==
    /\ writer[i] = "recv" /\ conn[i] = "up"
    /\ rx[i] # <<>>
    /\ shipped' = [shipped EXCEPT ![i] = Append(@, Head(rx[i]))]
    /\ rx' = [rx EXCEPT ![i] = Tail(@)]
    /\ UNCHANGED <<owner, conn, writers, reader, writer, countVars, log, joined>>

\* A send fails: the writer closes the connection and ends; what its channel
\* still holds is lost with the receiver.
ShipFails(i) ==
    /\ writer[i] = "recv" /\ conn[i] \in {"broken", "closed"}
    /\ rx[i] # <<>>
    /\ rx' = [rx EXCEPT ![i] = <<>>]
    /\ conn' = [conn EXCEPT ![i] = "closed"]
    /\ writer' = [writer EXCEPT ![i] = "done"]
    /\ UNCHANGED <<owner, writers, reader, shipped, countVars, log, joined>>

\* rx.recv() returns None: the sender is gone and the channel is empty.  The
\* writer ends and leaves the connection alone.
WriterDrained(i) ==
    /\ writer[i] = "recv" /\ ~ HasSender(i)
    /\ rx[i] = <<>>
    /\ writer' = [writer EXCEPT ![i] = "done"]
    /\ UNCHANGED <<owner, conn, writers, rx, reader, shipped, countVars, log, joined>>

\* The reader takes a clipboard frame that the engine accepts; the fan-out
\* follows once the OS clipboard is written.  Frames that are ignored or
\* dropped (stale snapshots, input, control) change nothing here.
ReadClip(i) ==
    /\ reader[i].at = "read" /\ conn[i] = "up"
    /\ clips < MaxClips
    /\ clips' = clips + 1
    /\ reader' = [reader EXCEPT ![i] = [at |-> "relay", num |-> clips + 1]]
    /\ UNCHANGED <<owner, conn, writers, rx, writer, shipped, locals, fetches,
                   log, joined>>

Relay(i) ==
    /\ reader[i].at = "relay"
    /\ Broadcast([kind |-> "relay", from |-> owner[i], num |-> reader[i].num],
                 owner[i])
    /\ reader' = [reader EXCEPT ![i] = [at |-> "read"]]
    /\ UNCHANGED <<owner, conn, writers, writer, shipped, countVars, joined>>

\* The reader takes a fetch request.
ReadFetch(i) ==
    /\ reader[i].at = "read" /\ conn[i] = "up"
    /\ fetches < MaxFetches
    /\ fetches' = fetches + 1
    /\ reader' = [reader EXCEPT ![i] = [at |-> "reply", req |-> fetches + 1]]
    /\ UNCHANGED <<owner, conn, writers, rx, writer, shipped, locals, clips,
                   log, joined>>

ReplyFrame(i, k) ==
    [kind |-> "reply", to |-> i, req |-> reader[i].req, num |-> k]

\* The chunks of a hit, numbered from 1, or the one frame of a miss.
Reply(i, hit) ==
    IF hit THEN [k \in 1 .. Chunks |-> ReplyFrame(i, k)] ELSE << ReplyFrame(i, 0) >>

\* Mutant of SendReply: the chunks are sent in the order of a stack.
SendReplyReversed(i, hit) ==
    LET j == writers[owner[i]] IN
    rx' = [k \in Sessions |->
             IF k = j /\ HasReceiver(j) THEN rx[k] \o Reverse(Reply(i, hit))
                                        ELSE rx[k]]

\* The reply goes to whichever session the map holds for the spoke by now.
SendReply(i, hit) ==
    LET j == writers[owner[i]] IN
    rx' = [k \in Sessions |->
             IF k = j /\ HasReceiver(j) THEN rx[k] \o Reply(i, hit) ELSE rx[k]]

AnswerFetch(i) ==
    /\ reader[i].at = "reply"
    /\ \E hit \in BOOLEAN : SendReply(i, hit)
    /\ reader' = [reader EXCEPT ![i] = [at |-> "read"]]
    /\ UNCHANGED <<owner, conn, writers, writer, shipped, countVars, log, joined>>

\* recv_frame returns an error and the loop ends ...
ReaderFails(i) ==
    /\ reader[i].at = "read" /\ conn[i] \in {"broken", "closed"}
    /\ reader' = [reader EXCEPT ![i] = [at |-> "cleanup"]]
    /\ UNCHANGED <<owner, conn, writers, rx, writer, shipped, countVars, log, joined>>

\* Mutant of Unregister: the map keeps the entry.
UnregisterNever(i) == UNCHANGED writers

\* writers.remove(&peer_id), whichever session the entry belongs to.
Unregister(i) == writers' = [writers EXCEPT ![owner[i]] = NoSession]

\* ... and the task cleans up.
Cleanup(i) ==
    /\ reader[i].at = "cleanup"
    /\ Unregister(i)
    /\ reader' = [reader EXCEPT ![i] = [at |-> "done"]]
    /\ UNCHANGED <<owner, conn, rx, writer, shipped, countVars, log, joined>>

\* The hub's end of connection i is told that the connection is gone.
Break(i) ==
    /\ conn[i] = "up"
    /\ conn' = [conn EXCEPT ![i] = "broken"]
    /\ UNCHANGED <<owner, writers, rx, taskVars, countVars, log, joined>>

TaskStep(i) ==
    \/ Ship(i) \/ ShipFails(i) \/ WriterDrained(i)
    \/ ReadClip(i) \/ Relay(i) \/ ReadFetch(i) \/ AnswerFetch(i)
    \/ ReaderFails(i) \/ Cleanup(i)

Next ==
    \/ LocalFrame
    \/ \E s \in Spokes : Accept(s)
    \/ \E i \in Sessions : TaskStep(i) \/ Break(i)

Spec == Init /\ [][Next]_vars

\* Tasks that can run do run.  A send on a connection that is up may hang
\* (see Conn), so Ship has no fairness; a spoke owes no frame.
Fairness ==
    \A i \in Sessions :
        /\ WF_vars(ShipFails(i)) /\ WF_vars(WriterDrained(i))
        /\ WF_vars(Relay(i)) /\ WF_vars(AnswerFetch(i))
        /\ WF_vars(ReaderFails(i)) /\ WF_vars(Cleanup(i))

FairSpec == Spec /\ Fairness
-------------------------------------------------------------------------------
IsReply(f) == f.kind = "reply"

\* What session i has been given.
Outgoing(i) == shipped[i] \o rx[i]

\* The places of its broadcasts in there, and of the broadcasts since it joined
\* that are not kept from its spoke in the log.
Given(i) == {k \in 1 .. Len(Outgoing(i)) : ~ IsReply(Outgoing(i)[k])}
Due(i) == {q \in joined[i] + 1 .. Len(log) : log[q].exclude # owner[i]}

Matches(i, k, q) == Outgoing(i)[k] = log[q].frame
Reached(i, q) == \E k \in Given(i) : Matches(i, k, q)

\* A session is given the broadcasts since it joined, in order, once each and
\* without a gap, but never its spoke's own snapshots; all of them as long as
\* it is registered and its writer lives.  Neither a spoke that comes back nor
\* the readers of other spokes make a frame vanish from the middle, repeat it
\* or swap two.
RegisteredGetsAll ==
    \A i \in Sessions : Opened(i) =>
        /\ \A k \in Given(i) : \E q \in Due(i) : Matches(i, k, q)
        /\ \A k, l \in Given(i), p, q \in Due(i) :
              k < l /\ Matches(i, k, p) /\ Matches(i, l, q) => p < q
        /\ \A p, q \in Due(i) : p < q /\ Reached(i, q) => Reached(i, p)
        /\ HasSender(i) /\ HasReceiver(i) => \A q \in Due(i) : Reached(i, q)

Replies(i) == {k \in 1 .. Len(Outgoing(i)) : IsReply(Outgoing(i)[k])}

\* Chunk k of session i follows the one before it and is followed by the next;
\* only a writer that ended may have cut a reply short.
NothingBetween(i, k) ==
    LET out == Outgoing(i) f == out[k] IN
    /\ f.num > 1 => k > 1 /\ out[k - 1] = [f EXCEPT !.num = @ - 1]
    /\ f.num \in 1 .. Chunks - 1 =>
          IF k < Len(out) THEN out[k + 1] = [f EXCEPT !.num = @ + 1]
                          ELSE writer[i] = "done"

\* No other session has a part of the same reply, and this one has it once.
OneReply(i, k) ==
    \A j \in Sessions : \A l \in Replies(j) :
        LET f == Outgoing(i)[k] g == Outgoing(j)[l] IN
        g.req = f.req => /\ j = i /\ g.to = f.to
                         /\ g.num = f.num \/ g.num = 0 => l = k

\* A fetch reply goes to one session of the spoke that asked, whole, in order
\* and with nothing in between, however readers and broadcasts interleave.
RepliesInOrder ==
    \A i \in Sessions : \A k \in Replies(i) :
        /\ NothingBetween(i, k) /\ OneReply(i, k)
        /\ owner[Outgoing(i)[k].to] = owner[i]

\* The map never grows stale: an entry belongs to a session whose reader is
\* still there to remove it.
EntriesHaveReaders ==
    \A s \in Spokes : writers[s] # NoSession => reader[writers[s]].at # "done"

\* A session is over for its writer when its reader has ended, or when a new
\* session of its spoke has taken the sender and no frame is left that a live
\* connection may still take.
Over(i) ==
    \/ reader[i].at = "done"
    \/ Opened(i) /\ ~ HasSender(i) /\ (rx[i] = <<>> \/ conn[i] # "up")

\* The writer task of a session that is over ends: neither an entry that stays
\* in the map, nor the reader that goes on after its session was replaced, nor
\* a channel with frames in it keeps it (server.rs:264-269, 277-283, 334).
NoWriterLeak == \A i \in Sessions : Over(i) ~> writer[i] = "done"

\* Every reachable state of the map, the channels and the tasks is well formed.
HubInv == TypeOK /\ EntriesHaveReaders
-------------------------------------------------------------------------------
(* The promise of the hub to its spokes: FanOut.                           *)

Live == {i \in Sessions : HasReceiver(i)}
Inbox == [i \in Sessions |-> Outgoing(i)]
Published == {log[q].frame : q \in DOMAIN log}

\* The requests that no reader has still to answer.
Pending == {reader[i].req : i \in {j \in Sessions : reader[j].at = "reply"}}
Answered == (1 .. fetches) \ Pending

FO == INSTANCE FanOut WITH
        Local <- {f \in Frames : f.kind = "local"},
        Relayed <- {f \in Frames : f.kind = "relay"},
        Requests <- 1 .. MaxFetches,
        current <- writers, live <- Live, given <- Inbox,
        published <- Published, answered <- Answered

\* With its map, its channels and two tasks a session the hub behaves as one
\* that gives every frame at once to all it is for: a broadcast to the current
\* sessions but its author's, a reply whole to the current session of the spoke
\* that asked, nothing to a session that has ended (server.rs:241-336).
ImplementsFanOut == FO!Spec
-------------------------------------------------------------------------------
(* What the repository says of the program and a run refutes.              *)

\* "Remove from writers map if our entry is still the one we installed"
\* (server.rs:332-333): a session's end leaves another session registered.
RemovesOwnEntryOnly ==
    [][\A i \in Sessions : Cleanup(i) =>
          writers[owner[i]] \in {i, NoSession} \/ UNCHANGED writers]_vars
===============================================================================
