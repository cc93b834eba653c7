-------------------------------- MODULE FanOut ---------------------------------
(***************************************************************************)
(* What the hub promises its spokes.  A session of a spoke is given, one   *)
(* after the other and each at once to all it is for, the frames that are  *)
(* broadcast while it is the spoke's current session, but for those of     *)
(* its own spoke, and whole replies to what its spoke has asked.  When it  *)
(* ends, the last of what it was given may be lost.  Tasks, channels and   *)
(* connections do not appear.                                              *)
(***************************************************************************)
EXTENDS Naturals, Sequences

CONSTANTS
    Spokes,
    NoSpoke,     \* the owner of a session that was never opened
    Sessions,    \* numbered in the order they are opened
    NoSession,   \* the current session of a spoke that has none
    Local,       \* the hub's own broadcasts
    Relayed,     \* the spokes' broadcasts, each with its author in "from"
    Requests,    \* the fetches that are asked of the hub
    Chunks       \* frames of a reply that has what was asked for

VARIABLES
    owner,       \* owner[i]: the spoke session i belongs to
    current,     \* current[s]: the session of s that is given anything
    live,        \* the sessions that have not ended
    given,       \* given[i]: what session i has been given
    published,   \* the frames broadcast so far
    answered     \* the requests answered so far

vars == <<owner, current, live, given, published, answered>>

Init ==
    /\ owner = [i \in Sessions |-> NoSpoke]
    /\ current = [s \in Spokes |-> NoSession]
    /\ live = {} /\ published = {} /\ answered = {}
    /\ given = [i \in Sessions |-> <<>>]

Listens(i) == i \in live /\ current[owner[i]] = i

\* s has a new session, which replaces the one before it.
Open(s) ==
    \E i \in Sessions :
        /\ owner[i] = NoSpoke /\ \A j \in Sessions : j < i => owner[j] # NoSpoke
        /\ owner' = [owner EXCEPT ![i] = s]
        /\ current' = [current EXCEPT ![s] = i]
        /\ live' = live \cup {i}
        /\ UNCHANGED <<given, published, answered>>

\* A new frame is given to every session that listens, but for its author's.
Publish(frame, author) ==
    /\ frame \notin published
    /\ published' = published \cup {frame}
    /\ given' = [i \in Sessions |->
                   IF Listens(i) /\ owner[i] # author THEN Append(given[i], frame)
                                                      ELSE given[i]]
    /\ UNCHANGED <<owner, current, live, answered>>

\* The reply to request q of session i: a miss, or all chunks in their order.
Piece(i, q, k) == [kind |-> "reply", to |-> i, req |-> q, num |-> k]
Reply(i, q) == {<<Piece(i, q, 0)>>, [k \in 1 .. Chunks |-> Piece(i, q, k)]}

\* Session i has asked, and its spoke's current session is given the reply.
Answer(i, q) ==
    /\ owner[i] # NoSpoke /\ q \notin answered
    /\ answered' = answered \cup {q}
    /\ \E reply \in Reply(i, q) :
          given' = [j \in Sessions |->
                      IF Listens(j) /\ owner[j] = owner[i] THEN given[j] \o reply
                                                           ELSE given[j]]
    /\ UNCHANGED <<owner, current, live, published>>

\* A session ends.
End(i) ==
    /\ i \in live
    /\ live' = live \ {i}
    /\ \E n \in 0 .. Len(given[i]) :
          given' = [given EXCEPT ![i] = SubSeq(@, 1, n)]
    /\ UNCHANGED <<owner, current, published, answered>>

\* Nothing is given any longer to a spoke of which a session has ended.
Forget(s) ==
    /\ current[s] # NoSession
    /\ current' = [current EXCEPT ![s] = NoSession]
    /\ UNCHANGED <<owner, live, given, published, answered>>

Next ==
    \/ \E s \in Spokes : Open(s) \/ Forget(s)
    \/ \E frame \in Local : Publish(frame, NoSpoke)
    \/ \E frame \in Relayed : Publish(frame, frame.from)
    \/ \E i \in Sessions : End(i) \/ \E q \in Requests : Answer(i, q)

Spec == Init /\ [][Next]_vars
===============================================================================
