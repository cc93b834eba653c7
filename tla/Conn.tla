--------------------------------- MODULE Conn ---------------------------------
(***************************************************************************)
(* One authenticated session: crates/transport/src/connection.rs, used by  *)
(* the reader and the writer task of the hub (server.rs:273-335) and of    *)
(* the spoke (client.rs:197-258).                                          *)
(*                                                                         *)
(* Each end has one TLS stream behind one tokio Mutex, a fair lock that is *)
(* handed to its waiters first come, first served.  read_framed holds the  *)
(* lock from before the first byte of a frame is there until its last one  *)
(* is read; write_framed holds it while it pushes length and payload into  *)
(* a stream of bounded capacity.  A frame is two tokens on the wire, its   *)
(* length and its payload.                                                 *)
(***************************************************************************)
EXTENDS Naturals, SequencesExt

CONSTANTS
    HubEnd, SpokeEnd,
    MaxFrames,     \* bound: frames queued for the writer of one end
    Capacity,      \* tokens a stream takes before write_all blocks
    Oversize,      \* <<e, k>>: the k-th frame of e exceeds MAX_FRAME
    Requests,      \* k: the hub's k-th frame asks for a reply (FetchRequest)
    LinkMayFail    \* the operating system may report the stream broken

Ends == {HubEnd, SpokeEnd}
Peer(e) == IF e = HubEnd THEN SpokeEnd ELSE HubEnd

Nums == 1 .. MaxFrames

ASSUME ConnAssumption ==
    /\ HubEnd # SpokeEnd
    /\ MaxFrames \in Nat /\ Capacity \in Nat \ {0}
    /\ Oversize \subseteq Ends \X Nums
    /\ Requests \subseteq Nums
    /\ LinkMayFail \in BOOLEAN

TaskNames == {"reader", "writer"}
Tasks == Ends \X TaskNames
Nobody == "nobody"

Frames == [from : Ends, task : TaskNames, num : Nums]
NoFrame == <<>>
Tokens == {"len", "body"} \X Frames

VARIABLES
    queue,      \* queue[e]: the mpsc channel into the writer task
    queued,     \* queued[e]: frames put into that channel so far
    pc,         \* pc[t]: where task t is
    cur,        \* cur[t]: the frame task t reads or writes
    holder,     \* holder[e]: the task that owns the stream's lock
    waiters,    \* waiters[e]: tasks queued for the lock
    wire,       \* wire[e]: tokens from e that its peer has not read
    shut,       \* shut[e]: e has shut its stream down
    dead,       \* dead[e]: the operating system reports e's stream broken
    got         \* got[e]: frames from e that the peer's reader returned

vars == <<queue, queued, pc, cur, holder, waiters, wire, shut, dead, got>>

ReaderStates ==
    {"start", "readLen", "readBody", "handle", "sendLen", "sendBody", "ended"}
WriterStates == {"recv", "sendLen", "sendBody", "close", "ended"}

TypeOK ==
    /\ queue \in [Ends -> Seq(Frames)]
    /\ queued \in [Ends -> 0 .. MaxFrames]
    /\ pc \in [Tasks -> ReaderStates \cup WriterStates]
    /\ cur \in [Tasks -> Frames \cup {NoFrame}]
    /\ holder \in [Ends -> TaskNames \cup {Nobody}]
    /\ waiters \in [Ends -> Seq(TaskNames)]
    /\ wire \in [Ends -> Seq(Tokens)]
    /\ shut \in [Ends -> BOOLEAN] /\ dead \in [Ends -> BOOLEAN]
    /\ got \in [Ends -> Seq(Frames)]
    /\ \A e \in Ends : /\ pc[<<e, "reader">>] \in ReaderStates
                       /\ pc[<<e, "writer">>] \in WriterStates

Init ==
    /\ queue = [e \in Ends |-> <<>>]
    /\ queued = [e \in Ends |-> 0]
    /\ pc = [t \in Tasks |-> IF t[2] = "reader" THEN "start" ELSE "recv"]
    /\ cur = [t \in Tasks |-> NoFrame]
    /\ holder = [e \in Ends |-> Nobody]
    /\ waiters = [e \in Ends |-> <<>>]
    /\ wire = [e \in Ends |-> <<>>]
    /\ shut = [e \in Ends |-> FALSE]
    /\ dead = [e \in Ends |-> FALSE]
    /\ got = [e \in Ends |-> <<>>]
-------------------------------------------------------------------------------
\* Task n of e asks for the lock: it has it at once, or it queues up.
Lock(e, n) ==
    IF holder[e] = Nobody
    THEN holder' = [holder EXCEPT ![e] = n] /\ UNCHANGED waiters
    ELSE waiters' = [waiters EXCEPT ![e] = Append(@, n)] /\ UNCHANGED holder

\* Mutant of Unlock: the lock is let go and nobody is woken.
UnlockSilent(e) == holder' = [holder EXCEPT ![e] = Nobody] /\ UNCHANGED waiters

\* The guard is dropped: the first waiter has the lock.
Unlock(e) ==
    IF waiters[e] = <<>>
    THEN holder' = [holder EXCEPT ![e] = Nobody] /\ UNCHANGED waiters
    ELSE /\ holder' = [holder EXCEPT ![e] = Head(waiters[e])]
         /\ waiters' = [waiters EXCEPT ![e] = Tail(@)]

\* Mutant of Relock: close() is called while the sender's guard is alive.
RelockHeld(e, n) ==
    UNCHANGED holder /\ waiters' = [waiters EXCEPT ![e] = Append(@, n)]

\* The guard is dropped and the same task asks for the lock again, behind the
\* tasks that wait already.
Relock(e, n) ==
    IF waiters[e] = <<>>
    THEN UNCHANGED <<holder, waiters>>
    ELSE /\ holder' = [holder EXCEPT ![e] = Head(waiters[e])]
         /\ waiters' = [waiters EXCEPT ![e] = Append(Tail(@), n)]

Goto(t, s) == pc' = [pc EXCEPT ![t] = s]
Owns(e, n) == holder[e] = n

\* Someone puts a frame into the writer's channel.
Submit(e) ==
    /\ queued[e] < MaxFrames
    /\ queued' = [queued EXCEPT ![e] = @ + 1]
    /\ queue' = [queue EXCEPT ![e] =
                   Append(@, [from |-> e, task |-> "writer", num |-> queued[e] + 1])]
    /\ UNCHANGED <<pc, cur, holder, waiters, wire, shut, dead, got>>

\* recv_frame: the reader asks for the lock before any byte is there.
StartRead(e) ==
    /\ pc[<<e, "reader">>] = "start"
    /\ Goto(<<e, "reader">>, "readLen")
    /\ Lock(e, "reader")
    /\ UNCHANGED <<queue, queued, cur, wire, shut, dead, got>>

\* The first read_exact returns: a length is there.
ReadLen(e) ==
    LET r == <<e, "reader">> in == wire[Peer(e)] IN
    /\ pc[r] = "readLen" /\ Owns(e, "reader")
    /\ in # <<>>
    /\ cur' = [cur EXCEPT ![r] = Head(in)[2]]
    /\ wire' = [wire EXCEPT ![Peer(e)] = Tail(@)]
    /\ Goto(r, "readBody")
    /\ UNCHANGED <<queue, queued, holder, waiters, shut, dead, got>>

\* The second read_exact returns: the frame is decoded and the guard dropped.
ReadBody(e) ==
    LET r == <<e, "reader">> in == wire[Peer(e)] IN
    /\ pc[r] = "readBody" /\ Owns(e, "reader")
    /\ in # <<>>
    /\ got' = [got EXCEPT ![Peer(e)] = Append(@, Head(in)[2])]
    /\ wire' = [wire EXCEPT ![Peer(e)] = Tail(@)]
    /\ Goto(r, "handle")
    /\ Unlock(e)
    /\ UNCHANGED <<queue, queued, cur, shut, dead>>

\* A read fails: the stream is broken, or the peer has shut it down.
ReadError(e) ==
    LET r == <<e, "reader">> IN
    /\ pc[r] \in {"readLen", "readBody"} /\ Owns(e, "reader")
    /\ dead[e] \/ (shut[Peer(e)] /\ wire[Peer(e)] = <<>>)
    /\ Goto(r, "ended")
    /\ Unlock(e)
    /\ UNCHANGED <<queue, queued, cur, wire, shut, dead, got>>

IsRequest(e, f) == e = SpokeEnd /\ f.task = "writer" /\ f.num \in Requests

\* The reader acts on the frame; on a FetchRequest the spoke's reader sends
\* the reply itself (client.rs:246-249).
Handle(e) ==
    LET r == <<e, "reader">> IN
    /\ pc[r] = "handle"
    /\ \/ /\ ~ IsRequest(e, cur[r])
          /\ Goto(r, "start")
          /\ cur' = [cur EXCEPT ![r] = NoFrame]
          /\ UNCHANGED <<holder, waiters>>
       \/ /\ IsRequest(e, cur[r])
          /\ Goto(r, "sendLen")
          /\ cur' = [cur EXCEPT
                       ![r] = [from |-> e, task |-> "reader", num |-> @.num]]
          /\ Lock(e, "reader")
    /\ UNCHANGED <<queue, queued, wire, shut, dead, got>>

\* Mutant of NextFrame: the newest frame instead of the oldest.
NextFrameNewest(e) == Last(queue[e])

\* rx.recv() returns the oldest frame of the channel.
NextFrame(e) == Head(queue[e])

\* The writer takes a frame.  One that is too large fails before the lock is
\* asked for, and the writer goes on to close the connection.
Take(e) ==
    LET w == <<e, "writer">> f == NextFrame(e) IN
    /\ pc[w] = "recv"
    /\ queue[e] # <<>>
    /\ queue' = [queue EXCEPT ![e] = Tail(@)]
    /\ cur' = [cur EXCEPT ![w] = f]
    /\ Goto(w, IF <<e, f.num>> \in Oversize THEN "close" ELSE "sendLen")
    /\ Lock(e, "writer")
    /\ UNCHANGED <<queued, wire, shut, dead, got>>

CanWrite(e) == ~ dead[e] /\ ~ shut[e] /\ Len(wire[e]) < Capacity

\* Mutant of SendLen: the guard covers one write_all, not the whole frame.
SendLenUnguarded(e, n) ==
    LET t == <<e, n>> IN
    /\ pc[t] = "sendLen" /\ Owns(e, n) /\ CanWrite(e)
    /\ wire' = [wire EXCEPT ![e] = Append(@, <<"len", cur[t]>>)]
    /\ Goto(t, "sendBody")
    /\ Relock(e, n)
    /\ UNCHANGED <<queue, queued, cur, shut, dead, got>>

\* write_framed pushes the length ...
SendLen(e, n) ==
    LET t == <<e, n>> IN
    /\ pc[t] = "sendLen" /\ Owns(e, n) /\ CanWrite(e)
    /\ wire' = [wire EXCEPT ![e] = Append(@, <<"len", cur[t]>>)]
    /\ Goto(t, "sendBody")
    /\ UNCHANGED <<queue, queued, cur, holder, waiters, shut, dead, got>>

\* Where a task is once its frame is sent.
AfterSend(n) == IF n = "writer" THEN "recv" ELSE "start"

\* ... and the payload, flushes, and drops the guard.
SendBody(e, n) ==
    LET t == <<e, n>> IN
    /\ pc[t] = "sendBody" /\ Owns(e, n) /\ CanWrite(e)
    /\ wire' = [wire EXCEPT ![e] = Append(@, <<"body", cur[t]>>)]
    /\ cur' = [cur EXCEPT ![t] = NoFrame]
    /\ Goto(t, AfterSend(n))
    /\ Unlock(e)
    /\ UNCHANGED <<queue, queued, shut, dead, got>>

\* A write fails.  The writer closes the connection, the spoke's reader goes
\* on reading.
SendError(e, n) ==
    LET t == <<e, n>> IN
    /\ pc[t] \in {"sendLen", "sendBody"} /\ Owns(e, n)
    /\ dead[e] \/ shut[e]
    /\ cur' = [cur EXCEPT ![t] = NoFrame]
    /\ \/ n = "writer" /\ Goto(t, "close") /\ Relock(e, n)
       \/ n = "reader" /\ Goto(t, "start") /\ Unlock(e)
    /\ UNCHANGED <<queue, queued, wire, shut, dead, got>>

\* close() has the lock: the stream is shut down and the writer task ends.
Close(e) ==
    LET w == <<e, "writer">> IN
    /\ pc[w] = "close" /\ Owns(e, "writer")
    /\ shut' = [shut EXCEPT ![e] = TRUE]
    /\ cur' = [cur EXCEPT ![w] = NoFrame]
    /\ Goto(w, "ended")
    /\ Unlock(e)
    /\ UNCHANGED <<queue, queued, wire, dead, got>>

\* The stream of e breaks; the other end may or may not be told.
Fail(e) ==
    /\ LinkMayFail /\ ~ dead[e]
    /\ dead' = [dead EXCEPT ![e] = TRUE]
    /\ UNCHANGED <<queue, queued, pc, cur, holder, waiters, wire, shut, got>>

TaskStep(e) ==
    \/ StartRead(e) \/ ReadLen(e) \/ ReadBody(e) \/ ReadError(e) \/ Handle(e)
    \/ Take(e) \/ Close(e)
    \/ \E n \in TaskNames : SendLen(e, n) \/ SendBody(e, n) \/ SendError(e, n)

Next == \E e \in Ends : Submit(e) \/ TaskStep(e) \/ Fail(e)

Spec == Init /\ [][Next]_vars

\* The runtime schedules every task that can run; nobody owes a frame, and a
\* broken stream need not be reported.
Fairness ==
    \A e \in Ends :
        /\ WF_vars(StartRead(e) \/ ReadLen(e) \/ ReadBody(e) \/ ReadError(e)
                   \/ Handle(e) \/ SendLen(e, "reader") \/ SendBody(e, "reader")
                   \/ SendError(e, "reader"))
        /\ WF_vars(Take(e) \/ Close(e) \/ SendLen(e, "writer")
                   \/ SendBody(e, "writer") \/ SendError(e, "writer"))

FairSpec == Spec /\ Fairness
-------------------------------------------------------------------------------
\* The payload a stream begins with, if its length has been read already.
Headless(tokens) == IF tokens # <<>> /\ tokens[1][1] = "body" THEN 1 ELSE 0

\* The frames whose length is in a token sequence, in order.  Length and
\* payload alternate (FramesWhole).
Announced(tokens) ==
    [i \in 1 .. (Len(tokens) - Headless(tokens) + 1) \div 2 |->
        tokens[2 * i - 1 + Headless(tokens)][2]]

ReaderEnded(e) == pc[<<e, "reader">>] = "ended"

\* Frames of e that are on their way: the one its peer is reading, then
\* those on the wire.
Pending(e) ==
    LET r == <<Peer(e), "reader">>
    IN  IF pc[r] = "ended" THEN <<>>
        ELSE (IF pc[r] = "readBody" THEN <<cur[r]>> ELSE <<>>) \o Announced(wire[e])

D == INSTANCE Duplex WITH
        pending <- [e \in Ends |-> Pending(e)],
        delivered <- got,
        down <- [e \in Ends |-> ReaderEnded(Peer(e))]

\* Both directions are FIFO channels that deliver whole frames at most once.
ImplementsDuplex == D!Spec

\* A task between lock() and the end of its guard owns the lock or waits for
\* it once, and a free lock has no waiters: no wakeup is lost.
NeedsLock(e) ==
    {n \in TaskNames : pc[<<e, n>>] \in
        {"readLen", "readBody", "sendLen", "sendBody", "close"}}

LockAccounted ==
    \A e \in Ends :
        /\ NeedsLock(e) = ({holder[e]} \ {Nobody}) \cup ToSet(waiters[e])
        /\ holder[e] \notin ToSet(waiters[e])
        /\ IsInjective(waiters[e])
        /\ holder[e] = Nobody => waiters[e] = <<>>

\* Lock and tasks together, with the types (connection.rs:83-108).
ConnInv == TypeOK /\ LockAccounted

\* On the wire every length is followed by the payload of the same frame, and
\* what a reader finds after a length is that frame's payload: the two tasks
\* of an end never mix their frames.
FramesWhole ==
    \A e \in Ends :
        LET w == wire[e] r == <<Peer(e), "reader">> IN
        /\ \A i \in 1 .. Len(w) - 1 :
              w[i][1] = "len" => w[i + 1] = <<"body", w[i][2]>>
        /\ w # <<>> => IF pc[r] = "readBody" THEN w[1] = <<"body", cur[r]>>
                       ELSE ReaderEnded(Peer(e)) \/ w[1][1] = "len"

\* A frame that arrives lets a waiting writer send: the reader's next lock()
\* queues up behind the writer's.
InboundFrameFreesWriter ==
    \A e \in Ends :
        ( /\ pc[<<e, "reader">>] = "readLen" /\ Owns(e, "reader")
          /\ Contains(waiters[e], "writer")
          /\ Len(wire[Peer(e)]) >= 2 )
        ~> Owns(e, "writer")

\* A broken stream ends the session's reader, whatever its writer was doing.
BrokenStreamEndsReader ==
    \A e \in Ends : dead[e] ~> ReaderEnded(e)
-------------------------------------------------------------------------------
(* What the repository says of the program and a run refutes.              *)

\* "readers and writers are split via the inner tokio::io::split semantics
\* implicit in the lock" (connection.rs:55-58): a queued frame is sent whether
\* or not the peer has something to say.
QueuedFrameIsSent ==
    \A e \in Ends : queued[e] > 0 ~> Len(got[e]) > 0 \/ wire[e] # <<>>
===============================================================================
