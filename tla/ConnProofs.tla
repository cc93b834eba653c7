------------------------------- MODULE ConnProofs -------------------------------
(***************************************************************************)
(* Proofs about Conn for every number of frames, every capacity of a       *)
(* stream, and any choice of requests and oversize frames: lock and tasks  *)
(* agree, frames are whole on the wire, and a Connection implements        *)
(* Duplex.                                                                 *)
(*                                                                         *)
(* The argument: only the owner of a lock is in the middle of a frame      *)
(* (LockOK), so a length without its payload is always the last token of a *)
(* stream, and belongs to that owner (WireOK).  With that, what Duplex     *)
(* calls pending is read off the wire, and each step of a task is one of   *)
(* its steps or none.  The numbers of the frames of a task grow along the  *)
(* stream because they grow along its channel; those of replies because    *)
(* they follow the requests (OrderOK).                                     *)
(***************************************************************************)
EXTENDS Conn, SequenceTheorems, TLAPS

\* Free, owned, or owned with the other task in the queue.
LockOK(e) ==
    /\ \/ holder[e] = Nobody /\ waiters[e] = <<>> /\ NeedsLock(e) = {}
       \/ holder[e] \in TaskNames /\ waiters[e] = <<>> /\ NeedsLock(e) = {holder[e]}
       \/ \E n \in TaskNames \ {holder[e]} :
             /\ holder[e] \in TaskNames /\ waiters[e] = <<n>>
             /\ NeedsLock(e) = {holder[e], n}
    /\ \A n \in TaskNames : pc[<<e, n>>] \in {"readBody", "sendBody"} => holder[e] = n

\* The frame a task has in hand.
CurOK(e) ==
    \A n \in TaskNames :
        /\ pc[<<e, n>>] \in {"readBody", "handle"} => cur[<<e, n>>] \in Frames
        /\ pc[<<e, n>>] \in {"sendLen", "sendBody"} =>
              /\ cur[<<e, n>>] \in Frames
              /\ cur[<<e, n>>].from = e /\ cur[<<e, n>>].task = n

\* Lengths and payloads take turns, and each payload is of the frame announced.
Whole(w) ==
    /\ \A i \in 1 .. Len(w) : w[i][1] = "len" <=> (i + Headless(w)) % 2 = 1
    /\ \A i \in 1 .. Len(w) - 1 : w[i][1] = "len" => w[i + 1] = <<"body", w[i][2]>>

\* The last thing on the stream is a length.
Halfway(w) == w # <<>> /\ w[Len(w)][1] = "len"

Reading(e) == pc[<<Peer(e), "reader">>] = "readBody"
InHand(e) == cur[<<Peer(e), "reader">>]

WireOK(e) ==
    /\ Whole(wire[e])
    /\ wire[e] # <<>> =>
         IF Reading(e) THEN wire[e][1] = <<"body", InHand(e)>>
                       ELSE ReaderEnded(Peer(e)) \/ wire[e][1][1] = "len"
    /\ \A n \in TaskNames : pc[<<e, n>>] = "sendBody" =>
         IF wire[e] # <<>> THEN wire[e][Len(wire[e])] = <<"len", cur[<<e, n>>]>>
         ELSE ReaderEnded(Peer(e)) \/ (Reading(e) /\ InHand(e) = cur[<<e, n>>])
    /\ Halfway(wire[e]) \/ (wire[e] = <<>> /\ Reading(e)) =>
         dead[e] \/ shut[e] \/ \E n \in TaskNames : pc[<<e, n>>] = "sendBody"

\* What e has sent and its peer has or can still get, in order.
Stream(e) == got[e] \o Pending(e)

\* The channel of the writer, and the frame it has in hand.
QueueOK(e) ==
    /\ \A i \in 1 .. Len(queue[e]) :
          /\ queue[e][i].from = e /\ queue[e][i].task = "writer"
          /\ queue[e][i].num <= queued[e]
    /\ \A i, j \in 1 .. Len(queue[e]) : i < j => queue[e][i].num < queue[e][j].num
    /\ pc[<<e, "writer">>] = "sendLen" =>
         /\ cur[<<e, "writer">>].num <= queued[e]
         /\ \A i \in 1 .. Len(queue[e]) : cur[<<e, "writer">>].num < queue[e][i].num

\* Each task's frames are numbered in the order of the stream S, and what its
\* writer has still to send comes after them.
Ascending(S) ==
    \A i, j \in 1 .. Len(S) : i < j /\ S[i].task = S[j].task => S[i].num < S[j].num

AfterStream(e, S) ==
    \A i \in 1 .. Len(S) : S[i].task = "writer" =>
        /\ S[i].num <= queued[e]
        /\ \A k \in 1 .. Len(queue[e]) : S[i].num < queue[e][k].num
        /\ pc[<<e, "writer">>] = "sendLen" => S[i].num < cur[<<e, "writer">>].num

\* A reply has the number of a request that was delivered; the request being
\* answered comes after those answered already.
Asked(p, k) == \E i \in 1 .. Len(got[p]) : got[p][i].task = "writer" /\ k <= got[p][i].num

RepliesOK(e, S) ==
    LET r == <<e, "reader">> IN
    /\ \A i \in 1 .. Len(S) : S[i].task = "reader" => Asked(Peer(e), S[i].num)
    /\ (pc[r] = "handle" /\ cur[r].task = "writer") \/ pc[r] = "sendLen" =>
         /\ Asked(Peer(e), cur[r].num)
         /\ \A i \in 1 .. Len(S) : S[i].task = "reader" => S[i].num < cur[r].num

OrderOK(e) ==
    QueueOK(e) /\ Ascending(Stream(e)) /\ AfterStream(e, Stream(e))
        /\ RepliesOK(e, Stream(e))

\* The inductive invariant.
Inv ==
    /\ TypeOK
    /\ \A e \in Ends : LockOK(e)
    /\ \A e \in Ends : CurOK(e)
    /\ \A e \in Ends : WireOK(e)
    /\ \A e \in Ends : OrderOK(e)

-------------------------------------------------------------------------------
LEMMA PeerFacts ==
    /\ \A e \in Ends : Peer(e) \in Ends /\ Peer(e) # e /\ Peer(Peer(e)) = e
    /\ \A e, d \in Ends : d = e \/ d = Peer(e)
    /\ \A e \in Ends, n \in TaskNames : <<e, n>> \in Tasks
    /\ Nobody \notin TaskNames
BY ConnAssumption DEF Peer, Ends, Tasks, TaskNames, Nobody

\* Halves of natural numbers.
LEMMA Halves ==
    \A n \in Nat : /\ n \div 2 \in Nat
                   /\ 2 * (n \div 2) <= n /\ n <= 2 * (n \div 2) + 1
                   /\ (n + 2) \div 2 = (n \div 2) + 1
                   /\ n % 2 = 1 => (n + 1) \div 2 = (n \div 2) + 1 /\ n = 2 * (n \div 2) + 1
                   /\ n % 2 = 0 => (n + 1) \div 2 = n \div 2 /\ n = 2 * (n \div 2)
OBVIOUS

LEMMA Parity ==
    \A n \in Nat : /\ n % 2 \in {0, 1}
                   /\ (n + 1) % 2 = 1 - (n % 2) /\ (n + 2) % 2 = n % 2
                   /\ (2 * n) % 2 = 0 /\ (2 * n + 1) % 2 = 1
OBVIOUS

\* A stream of tokens read as a sequence of frames.
LEMMA AnnouncedFacts ==
    ASSUME NEW w \in Seq(Tokens)
    PROVE  /\ Headless(w) \in {0, 1} /\ Len(w) \in Nat /\ Headless(w) <= Len(w)
           /\ Announced(w) \in Seq(Frames)
           /\ Len(Announced(w)) = (Len(w) - Headless(w) + 1) \div 2
           /\ \A i \in 1 .. Len(Announced(w)) :
                /\ 2 * i - 1 + Headless(w) \in 1 .. Len(w)
                /\ Announced(w)[i] = w[2 * i - 1 + Headless(w)][2]
<1> DEFINE h == Headless(w)
           n == (Len(w) - h + 1) \div 2
<1>1. h \in {0, 1} /\ Len(w) \in Nat /\ h <= Len(w)
    <2>1. Len(w) \in Nat /\ (w # <<>> => Len(w) > 0)
        OBVIOUS
    <2> QED BY <2>1 DEF Headless
<1>2. n \in Nat /\ 2 * n <= Len(w) - h + 1
    BY <1>1, Halves
<1>3. \A i \in 1 .. n : 2 * i - 1 + h \in 1 .. Len(w)
    BY <1>1, <1>2
<1>4. \A t \in Tokens : t[2] \in Frames
    BY DEF Tokens
<1>5. \A i \in 1 .. n : w[2 * i - 1 + h][2] \in Frames
    BY <1>3, <1>4
<1>6. Announced(w) = [i \in 1 .. n |-> w[2 * i - 1 + h][2]]
    BY DEF Announced
<1>7. Announced(w) \in [1 .. n -> Frames]
    BY <1>5, <1>6
<1>8. Announced(w) \in Seq(Frames) /\ Len(Announced(w)) = n
    BY <1>2, <1>7, IsASeq
<1> QED BY <1>1, <1>3, <1>6, <1>8

\* What the last token says of the length of the stream.
LEMMA LastToken ==
    ASSUME NEW w \in Seq(Tokens), Whole(w)
    PROVE  /\ Halfway(w) => (Len(w) - Headless(w)) % 2 = 1
           /\ ~ Halfway(w) => (Len(w) - Headless(w)) % 2 = 0
<1>1. Headless(w) \in {0, 1} /\ Len(w) \in Nat /\ Headless(w) <= Len(w)
    BY AnnouncedFacts
<1>2. CASE w = <<>>
    <2>1. Len(w) = 0
        BY <1>2
    <2> QED BY <1>1, <1>2, <2>1 DEF Halfway
<1>3. CASE w # <<>>
    <2>1. Len(w) \in 1 .. Len(w)
        BY <1>3
    <2>2. w[Len(w)][1] = "len" <=> (Len(w) + Headless(w)) % 2 = 1
        BY <2>1 DEF Whole
    <2>3. (Len(w) + Headless(w)) % 2 = (Len(w) - Headless(w)) % 2
        BY <1>1
    <2>4. (Len(w) - Headless(w)) % 2 \in {0, 1}
        BY <1>1
    <2> QED BY <1>3, <2>2, <2>3, <2>4 DEF Halfway
<1> QED BY <1>2, <1>3

\* The tokens of a longer stream.
LEMMA AppendToken ==
    ASSUME NEW w \in Seq(Tokens), NEW t \in Tokens
    PROVE  /\ Append(w, t) \in Seq(Tokens) /\ Append(w, t) # <<>>
           /\ Len(Append(w, t)) = Len(w) + 1 /\ Len(w) \in Nat
           /\ \A i \in 1 .. Len(w) : Append(w, t)[i] = w[i]
           /\ Append(w, t)[Len(w) + 1] = t
           /\ w # <<>> => Headless(Append(w, t)) = Headless(w)
           /\ w = <<>> => Headless(Append(w, t)) = IF t[1] = "body" THEN 1 ELSE 0
<1>1. /\ Append(w, t) \in Seq(Tokens) /\ Append(w, t) # <<>>
      /\ Len(Append(w, t)) = Len(w) + 1 /\ Len(w) \in Nat
      /\ \A i \in 1 .. Len(w) : Append(w, t)[i] = w[i]
      /\ Append(w, t)[Len(w) + 1] = t
    BY AppendProperties
<1>2. w # <<>> => 1 \in 1 .. Len(w)
    OBVIOUS
<1>3. w = <<>> => Append(w, t)[1] = t
    BY <1>1
<1> QED BY <1>1, <1>2, <1>3 DEF Headless

\* A length on a stream of whole frames announces one more; the payload after
\* its length changes nothing.
LEMMA AppendLength ==
    ASSUME NEW w \in Seq(Tokens), Whole(w), ~ Halfway(w), NEW f \in Frames
    PROVE  /\ Whole(Append(w, <<"len", f>>))
           /\ Announced(Append(w, <<"len", f>>)) = Append(Announced(w), f)
<1> DEFINE v == Append(w, <<"len", f>>)
           h == Headless(w)
<1>1. <<"len", f>> \in Tokens
    BY DEF Tokens
<1>2. /\ v \in Seq(Tokens) /\ v # <<>> /\ Len(v) = Len(w) + 1 /\ Len(w) \in Nat
      /\ \A i \in 1 .. Len(w) : v[i] = w[i]
      /\ v[Len(w) + 1] = <<"len", f>>
      /\ Headless(v) = h
    BY <1>1, AppendToken DEF Headless
<1>3. h \in {0, 1} /\ h <= Len(w)
    BY AnnouncedFacts
<1>4. (Len(w) - h) % 2 = 0
    BY LastToken
<1>5. (Len(w) + 1 + h) % 2 = 1
    BY <1>2, <1>3, <1>4
<1>6. Whole(v)
    <2>1. ASSUME NEW i \in 1 .. Len(v) PROVE v[i][1] = "len" <=> (i + h) % 2 = 1
        <3>1. i \in 1 .. Len(w) \/ i = Len(w) + 1
            BY <1>2
        <3> QED BY <1>2, <1>5, <3>1 DEF Whole
    <2>2. ASSUME NEW i \in 1 .. Len(v) - 1, v[i][1] = "len" PROVE v[i + 1] = <<"body", v[i][2]>>
        <3>1. i \in 1 .. Len(w) /\ v[i] = w[i]
            BY <1>2
        <3>2. CASE i = Len(w)
            BY <1>2, <2>2, <3>1, <3>2 DEF Halfway
        <3>3. CASE i # Len(w)
            <4>1. i \in 1 .. Len(w) - 1 /\ i + 1 \in 1 .. Len(w)
                BY <1>2, <3>1, <3>3
            <4> QED BY <1>2, <2>2, <3>1, <4>1 DEF Whole
        <3> QED BY <3>2, <3>3
    <2> QED BY <1>2, <2>1, <2>2 DEF Whole
<1>7. Announced(v) = Append(Announced(w), f)
    <2>1. /\ Announced(v) \in Seq(Frames)
          /\ Len(Announced(v)) = (Len(v) - Headless(v) + 1) \div 2
          /\ \A i \in 1 .. Len(Announced(v)) :
                Announced(v)[i] = v[2 * i - 1 + Headless(v)][2]
        BY <1>2, AnnouncedFacts
    <2>2. /\ Announced(w) \in Seq(Frames)
          /\ Len(Announced(w)) = (Len(w) - h + 1) \div 2
          /\ \A i \in 1 .. Len(Announced(w)) :
                /\ 2 * i - 1 + h \in 1 .. Len(w)
                /\ Announced(w)[i] = w[2 * i - 1 + h][2]
        BY AnnouncedFacts
    <2> DEFINE m == Len(w) - h
               n == m \div 2
    <2>3. m = Len(w) - h /\ m \in Nat /\ Len(v) - Headless(v) + 1 = m + 2 /\ Len(w) - h + 1 = m + 1
        BY <1>2, <1>3
    <2>4. n \in Nat /\ m = 2 * n /\ (m + 2) \div 2 = n + 1 /\ (m + 1) \div 2 = n
        BY <1>4, <2>3, Halves
    <2> HIDE DEF n, m
    <2>5. Len(Announced(w)) = n /\ Len(Announced(v)) = n + 1
        BY <2>1, <2>2, <2>3, <2>4
    <2>6. Announced(v)[n + 1] = f
        <3>1. 2 * (n + 1) - 1 + Headless(v) = Len(w) + 1 /\ n + 1 \in 1 .. n + 1
            BY <1>2, <1>3, <2>3, <2>4
        <3>2. Announced(v)[n + 1] = v[Len(w) + 1][2]
            BY <2>1, <2>4, <2>5, <3>1
        <3> QED BY <1>2, <3>2
    <2>7. ASSUME NEW i \in 1 .. n PROVE Announced(v)[i] = Announced(w)[i]
        <3>1. i \in 1 .. Len(Announced(v)) /\ i \in 1 .. Len(Announced(w))
            BY <2>4, <2>5
        <3>2. v[2 * i - 1 + h] = w[2 * i - 1 + h]
            BY <1>2, <2>2, <3>1
        <3> QED BY <1>2, <2>1, <2>2, <3>1, <3>2
    <2>8. /\ Append(Announced(w), f) \in Seq(Frames)
          /\ Len(Append(Announced(w), f)) = n + 1
          /\ \A i \in 1 .. n : Append(Announced(w), f)[i] = Announced(w)[i]
          /\ Append(Announced(w), f)[n + 1] = f
        BY <2>2, <2>5, AppendProperties
    <2>9. \A i \in 1 .. n + 1 : Announced(v)[i] = Append(Announced(w), f)[i]
        BY <2>4, <2>6, <2>7, <2>8
    <2> QED BY <2>1, <2>5, <2>8, <2>9, SeqEqual
<1> QED BY <1>6, <1>7

LEMMA AppendPayload ==
    ASSUME NEW w \in Seq(Tokens), Whole(w), NEW f \in Frames,
           w = <<>> \/ w[Len(w)] = <<"len", f>>
    PROVE  /\ Whole(Append(w, <<"body", f>>))
           /\ Announced(Append(w, <<"body", f>>)) = Announced(w)
<1> DEFINE v == Append(w, <<"body", f>>)
           h == Headless(w)
<1>1. <<"body", f>> \in Tokens
    BY DEF Tokens
<1>2. /\ v \in Seq(Tokens) /\ v # <<>> /\ Len(v) = Len(w) + 1 /\ Len(w) \in Nat
      /\ \A i \in 1 .. Len(w) : v[i] = w[i]
      /\ v[Len(w) + 1] = <<"body", f>>
      /\ w # <<>> => Headless(v) = h
      /\ w = <<>> => Headless(v) = 1
    BY <1>1, AppendToken
<1>3. CASE w = <<>>
    <2>1. Len(w) = 0 /\ Len(v) = 1 /\ v[1] = <<"body", f>> /\ Headless(w) = 0
        BY <1>2, <1>3 DEF Headless
    <2>2. Whole(v)
        BY <1>2, <1>3, <2>1 DEF Whole
    <2>3. /\ Announced(v) \in Seq(Frames) /\ Announced(w) \in Seq(Frames)
          /\ Len(Announced(v)) = 0 /\ Len(Announced(w)) = 0
        <3>1. (1 - 1 + 1) \div 2 = 0 /\ (0 - 0 + 1) \div 2 = 0
            OBVIOUS
        <3> QED BY <1>2, <1>3, <2>1, <3>1, AnnouncedFacts
    <2> QED BY <2>2, <2>3, SeqEqual
<1>4. CASE w # <<>>
    <2>1. h \in {0, 1} /\ h <= Len(w) /\ Headless(v) = h /\ w[Len(w)] = <<"len", f>> /\ Halfway(w)
        BY <1>2, <1>4, AnnouncedFacts DEF Halfway
    <2>2. (Len(w) - h) % 2 = 1
        BY <2>1, LastToken
    <2>3. (Len(w) + 1 + h) % 2 = 0
        BY <1>2, <2>1, <2>2
    <2>4. Whole(v)
        <3>1. ASSUME NEW i \in 1 .. Len(v) PROVE v[i][1] = "len" <=> (i + h) % 2 = 1
            <4>1. i \in 1 .. Len(w) \/ i = Len(w) + 1
                BY <1>2
            <4> QED BY <1>2, <2>3, <4>1 DEF Whole
        <3>2. ASSUME NEW i \in 1 .. Len(v) - 1, v[i][1] = "len"
              PROVE  v[i + 1] = <<"body", v[i][2]>>
            <4>1. i \in 1 .. Len(w) /\ v[i] = w[i]
                BY <1>2
            <4>2. CASE i = Len(w)
                BY <1>2, <2>1, <4>1, <4>2
            <4>3. CASE i # Len(w)
                <5>1. i \in 1 .. Len(w) - 1 /\ i + 1 \in 1 .. Len(w)
                    BY <1>2, <4>1, <4>3
                <5> QED BY <1>2, <3>2, <4>1, <5>1 DEF Whole
            <4> QED BY <4>2, <4>3
        <3> QED BY <1>2, <2>1, <3>1, <3>2 DEF Whole
    <2>5. Announced(v) = Announced(w)
        <3>1. /\ Announced(v) \in Seq(Frames)
              /\ Len(Announced(v)) = (Len(v) - Headless(v) + 1) \div 2
              /\ \A i \in 1 .. Len(Announced(v)) :
                    Announced(v)[i] = v[2 * i - 1 + Headless(v)][2]
            BY <1>2, AnnouncedFacts
        <3>2. /\ Announced(w) \in Seq(Frames)
              /\ Len(Announced(w)) = (Len(w) - h + 1) \div 2
              /\ \A i \in 1 .. Len(Announced(w)) :
                    /\ 2 * i - 1 + h \in 1 .. Len(w)
                    /\ Announced(w)[i] = w[2 * i - 1 + h][2]
            BY AnnouncedFacts
        <3> DEFINE m == Len(w) - h
                   n == m \div 2
        <3>3. m = Len(w) - h /\ m \in Nat /\ Len(v) - Headless(v) + 1 = m + 2 /\ Len(w) - h + 1 = m + 1
            BY <1>2, <2>1
        <3>4. n \in Nat /\ m = 2 * n + 1 /\ (m + 2) \div 2 = n + 1 /\ (m + 1) \div 2 = n + 1
            BY <2>2, <3>3, Halves
        <3> HIDE DEF n, m
        <3>5. Len(Announced(w)) = n + 1 /\ Len(Announced(v)) = n + 1
            BY <3>1, <3>2, <3>3, <3>4
        <3>6. ASSUME NEW i \in 1 .. n + 1 PROVE Announced(v)[i] = Announced(w)[i]
            <4>1. i \in 1 .. Len(Announced(v)) /\ i \in 1 .. Len(Announced(w))
                BY <3>4, <3>5
            <4>2. v[2 * i - 1 + h] = w[2 * i - 1 + h]
                BY <1>2, <3>2, <4>1
            <4> QED BY <2>1, <3>1, <3>2, <4>1, <4>2
        <3> QED BY <3>1, <3>2, <3>5, <3>6, SeqEqual
    <2> QED BY <2>4, <2>5
<1> QED BY <1>3, <1>4

\* What is left when the first token is read: whole frames, announced in the
\* same order, but for the frame whose length was read.
LEMMA ReadToken ==
    ASSUME NEW w \in Seq(Tokens), w # <<>>, Whole(w)
    PROVE  /\ Tail(w) \in Seq(Tokens) /\ Whole(Tail(w))
           /\ w[1] \in Tokens /\ w[1] = Head(w)
           /\ Halfway(Tail(w)) => Halfway(w)
           /\ Tail(w) # <<>> => /\ Tail(w)[Len(Tail(w))] = w[Len(w)]
                                /\ w[1][1] = "len" => Tail(w)[1] = <<"body", w[1][2]>>
                                /\ w[1][1] = "body" => Tail(w)[1][1] = "len"
           /\ w[1][1] = "body" => Announced(Tail(w)) = Announced(w)
           /\ w[1][1] = "len" => /\ Announced(w) # <<>> /\ Head(Announced(w)) = w[1][2]
                                 /\ Tail(Announced(w)) = Announced(Tail(w))
<1> DEFINE v == Tail(w)
           h == Headless(w)
<1>1. /\ v \in Seq(Tokens) /\ Len(v) = Len(w) - 1 /\ Len(w) \in Nat \ {0}
      /\ \A i \in 1 .. Len(w) - 1 : v[i] = w[i + 1]
      /\ w[1] = Head(w) /\ w[1] \in Tokens
    BY HeadTailProperties
<1> HIDE DEF v
<1>v. v = <<>> => Len(v) = 0 /\ Headless(v) = 0 /\ Len(w) = 1
    <2>1. Len(<<>>) = 0 /\ Headless(<<>>) = 0
        BY DEF Headless
    <2>2. v = <<>> => Len(v) = 0 /\ Headless(v) = 0
        BY <2>1
    <2> QED BY <1>1, <2>2
<1>2. w[1][1] \in {"len", "body"} /\ h = IF w[1][1] = "body" THEN 1 ELSE 0
    BY <1>1 DEF Headless, Tokens
<1>3. \A t \in Tokens : t[1] \in {"len", "body"} /\ t = <<t[1], t[2]>>
    BY DEF Tokens
<1>4. v # <<>> => /\ Len(w) > 1 /\ v[Len(v)] = w[Len(w)] /\ v[1] = w[2]
                  /\ w[2][1] = "len" <=> (2 + h) % 2 = 1
    BY <1>1 DEF Whole
<1>5. v # <<>> => Headless(v) = 1 - h /\ (w[1][1] = "body" => v[1][1] = "len")
    <2> SUFFICES ASSUME v # <<>>
                 PROVE  Headless(v) = 1 - h /\ (w[1][1] = "body" => v[1][1] = "len")
        OBVIOUS
    <2>1. w[2] \in Tokens /\ v[1] = w[2]
        BY <1>1, <1>4
    <2>2. (2 + h) % 2 = 1 <=> h = 1
        <3>1. (2 + 0) % 2 = 0 /\ (2 + 1) % 2 = 1
            OBVIOUS
        <3> QED BY <1>2, <3>1
    <2>3. w[2][1] = "len" <=> h = 1
        BY <1>4, <2>2
    <2>4. w[2][1] \in {"len", "body"}
        BY <1>3, <2>1
    <2>5. Headless(v) = IF w[2][1] = "body" THEN 1 ELSE 0
        BY <2>1 DEF Headless
    <2> QED BY <1>2, <2>1, <2>3, <2>4, <2>5
<1>6. v # <<>> => (w[1][1] = "len" => v[1] = <<"body", w[1][2]>>)
    BY <1>1, <1>4 DEF Whole
<1>7. Whole(v)
    <2>1. ASSUME NEW i \in 1 .. Len(v) PROVE v[i][1] = "len" <=> (i + Headless(v)) % 2 = 1
        <3>1. v # <<>> /\ i + 1 \in 1 .. Len(w) /\ v[i] = w[i + 1]
            BY <1>1, <1>v
        <3>2. w[i + 1][1] = "len" <=> (i + 1 + h) % 2 = 1
            BY <3>1 DEF Whole
        <3>3. (i + 1 + h) % 2 = (i + (1 - h)) % 2
            BY <1>2
        <3> QED BY <1>5, <3>1, <3>2, <3>3
    <2>2. ASSUME NEW i \in 1 .. Len(v) - 1, v[i][1] = "len"
          PROVE  v[i + 1] = <<"body", v[i][2]>>
        <3>1. i + 1 \in 1 .. Len(w) - 1 /\ v[i] = w[i + 1] /\ v[i + 1] = w[i + 1 + 1]
            BY <1>1
        <3> QED BY <2>2, <3>1 DEF Whole
    <2> QED BY <2>1, <2>2 DEF Whole
<1>8. Halfway(v) => Halfway(w)
    BY <1>4 DEF Halfway
<1>9. /\ Announced(v) \in Seq(Frames) /\ Announced(w) \in Seq(Frames)
      /\ Len(Announced(v)) = (Len(v) - Headless(v) + 1) \div 2
      /\ Len(Announced(w)) = (Len(w) - h + 1) \div 2
    BY <1>1, AnnouncedFacts
<1>10. /\ \A i \in 1 .. Len(Announced(v)) :
             /\ 2 * i - 1 + Headless(v) \in 1 .. Len(v)
             /\ Announced(v)[i] = v[2 * i - 1 + Headless(v)][2]
       /\ \A i \in 1 .. Len(Announced(w)) : Announced(w)[i] = w[2 * i - 1 + h][2]
    BY <1>1, AnnouncedFacts
<1>11. CASE w[1][1] = "body"
    <2>1. Len(Announced(v)) = Len(Announced(w))
        <3>1. v # <<>> => Len(v) - Headless(v) + 1 = Len(w) - h + 1
            BY <1>1, <1>2, <1>5, <1>11
        <3>2. v = <<>> => Len(v) = 0 /\ Headless(v) = 0 /\ Len(w) = 1 /\ h = 1
            BY <1>v, <1>2, <1>11
        <3>3. (0 - 0 + 1) \div 2 = (1 - 1 + 1) \div 2
            OBVIOUS
        <3> QED BY <1>9, <3>1, <3>2, <3>3
    <2>2. ASSUME NEW i \in 1 .. Len(Announced(v)) PROVE Announced(v)[i] = Announced(w)[i]
        <3>1. 2 * i - 1 + Headless(v) \in 1 .. Len(v) /\ v # <<>>
            BY <1>1, <1>10, <1>v
        <3>2. Headless(v) = 0 /\ h = 1
            BY <1>2, <1>5, <1>11, <3>1
        <3>3. /\ 2 * i - 1 + Headless(v) = 2 * i - 1 /\ 2 * i - 1 + h = 2 * i - 1 + 1
              /\ v[2 * i - 1] = w[2 * i - 1 + 1]
            BY <1>1, <3>1, <3>2
        <3>4. i \in 1 .. Len(Announced(w))
            BY <2>1
        <3>5. Announced(w)[i] = w[2 * i - 1 + 1][2]
            BY <1>10, <3>3, <3>4
        <3>6. Announced(v)[i] = v[2 * i - 1][2]
            BY <1>10, <3>3
        <3> QED BY <3>3, <3>5, <3>6
    <2>3. Announced(v) = Announced(w)
        BY <1>9, <2>1, <2>2, SeqEqual
    <2> QED BY <1>1, <1>4, <1>5, <1>7, <1>8, <1>11, <2>3 DEF v
<1>12. CASE w[1][1] = "len"
    <2> DEFINE n == Len(Announced(v))
    <2>1. n \in Nat /\ Len(Announced(w)) = n + 1
        <3>1. h = 0
            BY <1>2, <1>12
        <3>2. v # <<>> => Len(v) - Headless(v) + 1 = Len(w) - 1 /\ Len(w) \in Nat \ {0, 1}
            BY <1>1, <1>4, <1>5, <3>1
        <3>3. v # <<>> => Len(w) - h + 1 = (Len(w) - 1) + 2
            BY <1>1, <3>1
        <3>4. CASE v = <<>>
            <4>1. Len(v) - Headless(v) + 1 = 1 /\ Len(w) - h + 1 = 2
                <5>1. Len(v) = 0 /\ Headless(v) = 0 /\ Len(w) = 1
                    BY <1>v, <3>4
                <5> QED BY <3>1, <5>1
            <4>2. 1 \div 2 = 0 /\ 2 \div 2 = 1
                OBVIOUS
            <4>3. Len(Announced(v)) = 0 /\ Len(Announced(w)) = 1
                BY <1>9, <4>1, <4>2
            <4> QED BY <4>3
        <3>5. CASE v # <<>>
            <4>1. /\ (Len(w) - 1) + 2 = Len(w) - h + 1 /\ Len(w) - 1 \in Nat
                  /\ Len(v) - Headless(v) + 1 = Len(w) - 1
                BY <3>1, <3>2, <3>3, <3>5
            <4>2. /\ ((Len(w) - 1) + 2) \div 2 = ((Len(w) - 1) \div 2) + 1
                  /\ (Len(w) - 1) \div 2 \in Nat
                BY <4>1, Halves
            <4>3. Len(Announced(v)) = (Len(w) - 1) \div 2
                BY <1>9, <4>1
            <4>4. Len(Announced(w)) = ((Len(w) - 1) + 2) \div 2
                BY <1>9, <4>1
            <4> QED BY <4>2, <4>3, <4>4
        <3> QED BY <3>4, <3>5
    <2>2. Announced(w) # <<>> /\ Head(Announced(w)) = w[1][2]
        <3>1. Announced(w)[1] = w[1][2]
            <4>1. 1 \in 1 .. Len(Announced(w)) /\ h = 0 /\ 2 * 1 - 1 + 0 = 1
                BY <1>2, <1>12, <2>1
            <4> QED BY <1>10, <4>1
        <3> QED BY <1>9, <2>1, <3>1
    <2>3. /\ Tail(Announced(w)) \in Seq(Frames) /\ Len(Tail(Announced(w))) = n
          /\ \A i \in 1 .. n : Tail(Announced(w))[i] = Announced(w)[i + 1]
        BY <1>9, <2>1, <2>2, HeadTailProperties
    <2>4. ASSUME NEW i \in 1 .. n PROVE Tail(Announced(w))[i] = Announced(v)[i]
        <3>1. 2 * i - 1 + Headless(v) \in 1 .. Len(v) /\ v # <<>>
            BY <1>1, <1>10, <1>v
        <3>2. Headless(v) = 1 /\ h = 0
            BY <1>2, <1>5, <1>12, <3>1
        <3>3. v[2 * i] = w[2 * i + 1] /\ 2 * i - 1 + 1 = 2 * i /\ 2 * (i + 1) - 1 + 0 = 2 * i + 1
            BY <1>1, <3>1, <3>2
        <3>4. i + 1 \in 1 .. Len(Announced(w))
            BY <2>1
        <3>5. Announced(w)[i + 1] = w[2 * i + 1][2]
            BY <1>10, <3>2, <3>3, <3>4
        <3>6. Announced(v)[i] = v[2 * i][2]
            BY <1>10, <3>2, <3>3
        <3> QED BY <2>3, <3>3, <3>5, <3>6
    <2>5. Tail(Announced(w)) = Announced(v)
        BY <1>9, <2>3, <2>4, SeqEqual
    <2> QED BY <1>1, <1>4, <1>6, <1>7, <1>8, <1>12, <2>2, <2>5 DEF v
<1> QED BY <1>2, <1>11, <1>12

-------------------------------------------------------------------------------
\* The states in which a task has the lock or waits for it, and those in which
\* it must have it.
Needing == {"readLen", "readBody", "sendLen", "sendBody", "close"}
Midway == {"readBody", "sendBody"}

\* Where the tasks are after one of them has moved.
LEMMA Moved ==
    ASSUME TypeOK, NEW e \in Ends, NEW n \in TaskNames, NEW s, Goto(<<e, n>>, s)
    PROVE  /\ pc'[<<e, n>>] = s
           /\ \A d \in Ends, m \in TaskNames : d # e \/ m # n => pc'[<<d, m>>] = pc[<<d, m>>]
           /\ NeedsLock(e)' = IF s \in Needing THEN NeedsLock(e) \cup {n}
                                               ELSE NeedsLock(e) \ {n}
           /\ \A d \in Ends \ {e} : NeedsLock(d)' = NeedsLock(d)
<1>1. pc \in [Tasks -> ReaderStates \cup WriterStates] /\ <<e, n>> \in Tasks
    BY PeerFacts DEF TypeOK
<1>2. pc' = [pc EXCEPT ![<<e, n>>] = s]
    BY DEF Goto
<1>3. /\ pc'[<<e, n>>] = s
      /\ \A d \in Ends, m \in TaskNames : d # e \/ m # n => pc'[<<d, m>>] = pc[<<d, m>>]
    BY <1>1, <1>2, PeerFacts
<1>4. \A d \in Ends : /\ NeedsLock(d)' = {m \in TaskNames : pc'[<<d, m>>] \in Needing}
                      /\ NeedsLock(d) = {m \in TaskNames : pc[<<d, m>>] \in Needing}
    BY DEF NeedsLock, Needing
<1>5. NeedsLock(e)' = IF s \in Needing THEN NeedsLock(e) \cup {n} ELSE NeedsLock(e) \ {n}
    <2>1. CASE s \in Needing
        <3>1. {m \in TaskNames : pc'[<<e, m>>] \in Needing}
                = {m \in TaskNames : pc[<<e, m>>] \in Needing} \cup {n}
            BY <1>3, <2>1
        <3> QED BY <1>4, <2>1, <3>1
    <2>2. CASE s \notin Needing
        <3>1. {m \in TaskNames : pc'[<<e, m>>] \in Needing}
                = {m \in TaskNames : pc[<<e, m>>] \in Needing} \ {n}
            BY <1>3, <2>2
        <3> QED BY <1>4, <2>2, <3>1
    <2> QED BY <2>1, <2>2
<1>6. \A d \in Ends \ {e} : NeedsLock(d)' = NeedsLock(d)
    <2> SUFFICES ASSUME NEW d \in Ends \ {e} PROVE NeedsLock(d)' = NeedsLock(d)
        OBVIOUS
    <2>1. {m \in TaskNames : pc'[<<d, m>>] \in Needing}
            = {m \in TaskNames : pc[<<d, m>>] \in Needing}
        BY <1>3
    <2> QED BY <1>4, <2>1
<1> QED BY <1>3, <1>5, <1>6

\* The two locks, each with its own tasks.
LEMMA OtherLock ==
    ASSUME Inv, NEW e \in Ends, NEW n \in TaskNames, NEW s, Goto(<<e, n>>, s),
           \A d \in Ends \ {e} : holder'[d] = holder[d] /\ waiters'[d] = waiters[d],
           LockOK(e)'
    PROVE  \A d \in Ends : LockOK(d)'
<1>1. /\ \A d \in Ends \ {e} : NeedsLock(d)' = NeedsLock(d)
      /\ \A d \in Ends \ {e}, m \in TaskNames : pc'[<<d, m>>] = pc[<<d, m>>]
    BY Moved DEF Inv
<1> QED BY <1>1 DEF Inv, LockOK

LEMMA LockTaken ==
    ASSUME Inv, NEW e \in Ends, NEW n \in TaskNames, n \notin NeedsLock(e),
           NEW s \in Needing \ Midway, Goto(<<e, n>>, s), Lock(e, n)
    PROVE  /\ \A d \in Ends : LockOK(d)'
           /\ holder' \in [Ends -> TaskNames \cup {Nobody}]
           /\ waiters' \in [Ends -> Seq(TaskNames)]
<1>1. TypeOK /\ LockOK(e)
    BY DEF Inv
<1>2. /\ NeedsLock(e)' = NeedsLock(e) \cup {n} /\ pc'[<<e, n>>] = s
      /\ \A m \in TaskNames \ {n} : pc'[<<e, m>>] = pc[<<e, m>>]
    BY <1>1, Moved
<1>3. CASE holder[e] = Nobody
    <2>1. holder' = [holder EXCEPT ![e] = n] /\ waiters' = waiters
        BY <1>3 DEF Lock
    <2>2. waiters[e] = <<>> /\ NeedsLock(e) = {}
        BY <1>1, <1>3, PeerFacts DEF LockOK
    <2>3. /\ holder' \in [Ends -> TaskNames \cup {Nobody}] /\ holder'[e] = n
          /\ \A d \in Ends \ {e} : holder'[d] = holder[d]
        BY <1>1, <2>1 DEF TypeOK
    <2>4. \A m \in TaskNames : pc'[<<e, m>>] \notin Midway
        BY <1>1, <1>2, <1>3, PeerFacts DEF LockOK, Midway
    <2>5. LockOK(e)'
        BY <1>2, <2>1, <2>2, <2>3, <2>4 DEF LockOK, Midway
    <2> QED BY <1>1, <2>1, <2>3, <2>5, OtherLock DEF TypeOK
<1>4. CASE holder[e] # Nobody
    <2>1. waiters' = [waiters EXCEPT ![e] = Append(waiters[e], n)] /\ holder' = holder
        BY <1>4 DEF Lock
    <2>2. /\ waiters[e] = <<>> /\ NeedsLock(e) = {holder[e]} /\ holder[e] \in TaskNames
          /\ holder[e] # n
        BY <1>1, <1>4, PeerFacts DEF LockOK, TaskNames
    <2>3. Append(waiters[e], n) = <<n>> /\ <<n>> \in Seq(TaskNames)
        BY <2>2
    <2>4. /\ waiters' \in [Ends -> Seq(TaskNames)] /\ waiters'[e] = <<n>>
          /\ \A d \in Ends \ {e} : waiters'[d] = waiters[d]
        BY <1>1, <2>1, <2>3 DEF TypeOK
    <2>5. \A m \in TaskNames : pc'[<<e, m>>] \in Midway => holder'[e] = m
        BY <1>1, <1>2, <2>1 DEF LockOK, Midway
    <2>6. LockOK(e)'
        BY <1>2, <2>1, <2>2, <2>4, <2>5 DEF LockOK, Midway
    <2> QED BY <1>1, <2>1, <2>4, <2>6, OtherLock DEF TypeOK
<1> QED BY <1>3, <1>4

LEMMA LockReleased ==
    ASSUME Inv, NEW e \in Ends, NEW n \in TaskNames, holder[e] = n, NEW s,
           s \notin Needing, Goto(<<e, n>>, s), Unlock(e)
    PROVE  /\ \A d \in Ends : LockOK(d)'
           /\ holder' \in [Ends -> TaskNames \cup {Nobody}]
           /\ waiters' \in [Ends -> Seq(TaskNames)]
<1>1. TypeOK /\ LockOK(e) /\ n # Nobody
    BY PeerFacts DEF Inv
<1>2. /\ NeedsLock(e)' = NeedsLock(e) \ {n} /\ pc'[<<e, n>>] = s
      /\ \A m \in TaskNames \ {n} : pc'[<<e, m>>] = pc[<<e, m>>]
    BY <1>1, Moved
<1>3. \A m \in TaskNames : pc'[<<e, m>>] \notin Midway
    BY <1>1, <1>2 DEF LockOK, Midway, Needing
<1>4. CASE waiters[e] = <<>>
    <2>1. holder' = [holder EXCEPT ![e] = Nobody] /\ waiters' = waiters
        BY <1>4 DEF Unlock
    <2>2. NeedsLock(e) = {n}
        <3>1. \A m : <<m>> # <<>>
            OBVIOUS
        <3> QED BY <1>1, <1>4, <3>1 DEF LockOK
    <2>3. /\ holder' \in [Ends -> TaskNames \cup {Nobody}] /\ holder'[e] = Nobody
          /\ \A d \in Ends \ {e} : holder'[d] = holder[d]
        BY <1>1, <2>1 DEF TypeOK
    <2>4. LockOK(e)'
        BY <1>2, <1>3, <1>4, <2>1, <2>2, <2>3 DEF LockOK, Midway
    <2> QED BY <1>1, <2>1, <2>3, <2>4, OtherLock DEF TypeOK
<1>5. CASE waiters[e] # <<>>
    <2>1. PICK m \in TaskNames : m # n /\ waiters[e] = <<m>> /\ NeedsLock(e) = {n, m}
        BY <1>1, <1>5 DEF LockOK
    <2>2. /\ holder' = [holder EXCEPT ![e] = Head(waiters[e])]
          /\ waiters' = [waiters EXCEPT ![e] = Tail(waiters[e])]
        BY <1>5 DEF Unlock
    <2>3. Head(waiters[e]) = m /\ Tail(waiters[e]) = <<>> /\ <<>> \in Seq(TaskNames)
        BY <2>1
    <2>4. /\ holder' \in [Ends -> TaskNames \cup {Nobody}] /\ holder'[e] = m
          /\ waiters' \in [Ends -> Seq(TaskNames)] /\ waiters'[e] = <<>>
          /\ \A d \in Ends \ {e} : holder'[d] = holder[d] /\ waiters'[d] = waiters[d]
        BY <1>1, <2>1, <2>2, <2>3 DEF TypeOK
    <2>5. LockOK(e)'
        BY <1>2, <1>3, <2>1, <2>4 DEF LockOK, Midway
    <2> QED BY <2>4, <2>5, OtherLock
<1> QED BY <1>4, <1>5

LEMMA LockRequeued ==
    ASSUME Inv, NEW e \in Ends, NEW n \in TaskNames, holder[e] = n,
           NEW s \in Needing \ Midway, Goto(<<e, n>>, s), Relock(e, n)
    PROVE  /\ \A d \in Ends : LockOK(d)'
           /\ holder' \in [Ends -> TaskNames \cup {Nobody}]
           /\ waiters' \in [Ends -> Seq(TaskNames)]
<1>1. TypeOK /\ LockOK(e) /\ n # Nobody
    BY PeerFacts DEF Inv
<1>2. /\ NeedsLock(e)' = NeedsLock(e) \cup {n} /\ pc'[<<e, n>>] = s
      /\ \A m \in TaskNames \ {n} : pc'[<<e, m>>] = pc[<<e, m>>]
    BY <1>1, Moved
<1>3. \A m \in TaskNames : pc'[<<e, m>>] \notin Midway
    BY <1>1, <1>2 DEF LockOK, Midway
<1>4. CASE waiters[e] = <<>>
    <2>1. holder' = holder /\ waiters' = waiters
        BY <1>4 DEF Relock
    <2>2. NeedsLock(e) = {n}
        <3>1. \A m : <<m>> # <<>>
            OBVIOUS
        <3> QED BY <1>1, <1>4, <3>1 DEF LockOK
    <2>3. LockOK(e)'
        BY <1>2, <1>3, <1>4, <2>1, <2>2 DEF LockOK, Midway
    <2> QED BY <1>1, <2>1, <2>3, OtherLock DEF TypeOK
<1>5. CASE waiters[e] # <<>>
    <2>1. PICK m \in TaskNames : m # n /\ waiters[e] = <<m>> /\ NeedsLock(e) = {n, m}
        BY <1>1, <1>5 DEF LockOK
    <2>2. /\ holder' = [holder EXCEPT ![e] = Head(waiters[e])]
          /\ waiters' = [waiters EXCEPT ![e] = Append(Tail(waiters[e]), n)]
        BY <1>5 DEF Relock
    <2>3. Head(waiters[e]) = m /\ Append(Tail(waiters[e]), n) = <<n>> /\ <<n>> \in Seq(TaskNames)
        BY <2>1
    <2>4. /\ holder' \in [Ends -> TaskNames \cup {Nobody}] /\ holder'[e] = m
          /\ waiters' \in [Ends -> Seq(TaskNames)] /\ waiters'[e] = <<n>>
          /\ \A d \in Ends \ {e} : holder'[d] = holder[d] /\ waiters'[d] = waiters[d]
        BY <1>1, <2>1, <2>2, <2>3 DEF TypeOK
    <2>5. LockOK(e)'
        BY <1>2, <1>3, <2>1, <2>4 DEF LockOK, Midway
    <2> QED BY <2>4, <2>5, OtherLock
<1> QED BY <1>4, <1>5

\* A task goes on in the middle of its frame, or does without the lock.
LEMMA LockKept ==
    ASSUME Inv, NEW e \in Ends, NEW n \in TaskNames, NEW s, Goto(<<e, n>>, s),
           UNCHANGED <<holder, waiters>>,
           \/ holder[e] = n /\ s \in Needing
           \/ n \notin NeedsLock(e) /\ s \notin Needing
    PROVE  /\ \A d \in Ends : LockOK(d)'
           /\ holder' \in [Ends -> TaskNames \cup {Nobody}]
           /\ waiters' \in [Ends -> Seq(TaskNames)]
<1>1. TypeOK /\ LockOK(e) /\ n # Nobody
    BY PeerFacts DEF Inv
<1>2. /\ pc'[<<e, n>>] = s
      /\ NeedsLock(e)' = IF s \in Needing THEN NeedsLock(e) \cup {n} ELSE NeedsLock(e) \ {n}
      /\ \A m \in TaskNames \ {n} : pc'[<<e, m>>] = pc[<<e, m>>]
    BY <1>1, Moved
<1>3. holder[e] = n => n \in NeedsLock(e)
    BY <1>1 DEF LockOK
<1>4. NeedsLock(e)' = NeedsLock(e)
    BY <1>2, <1>3
<1>5. \A m \in TaskNames : pc'[<<e, m>>] \in Midway => holder'[e] = m
    BY <1>1, <1>2 DEF LockOK, Midway, Needing
<1>6. LockOK(e)'
    BY <1>1, <1>4, <1>5 DEF LockOK, Midway
<1> QED BY <1>1, <1>6, OtherLock DEF TypeOK

-------------------------------------------------------------------------------
\* What a step leaves alone, and what follows of the invariant.
OnlyCur(e, n) ==
    \A d \in Ends, m \in TaskNames : d # e \/ m # n => cur'[<<d, m>>] = cur[<<d, m>>]

LEMMA CurKept ==
    ASSUME Inv, NEW e \in Ends, NEW n \in TaskNames, NEW s, Goto(<<e, n>>, s), OnlyCur(e, n),
           s \in {"readBody", "handle"} => cur'[<<e, n>>] \in Frames,
           s \in {"sendLen", "sendBody"} =>
              /\ cur'[<<e, n>>] \in Frames
              /\ cur'[<<e, n>>].from = e /\ cur'[<<e, n>>].task = n
    PROVE  \A d \in Ends : CurOK(d)'
<1>1. /\ pc'[<<e, n>>] = s
      /\ \A d \in Ends, m \in TaskNames : d # e \/ m # n => pc'[<<d, m>>] = pc[<<d, m>>]
    BY Moved DEF Inv
<1>2. ASSUME NEW d \in Ends, NEW m \in TaskNames
      PROVE  /\ pc'[<<d, m>>] \in {"readBody", "handle"} => cur'[<<d, m>>] \in Frames
             /\ pc'[<<d, m>>] \in {"sendLen", "sendBody"} =>
                   /\ cur'[<<d, m>>] \in Frames
                   /\ cur'[<<d, m>>].from = d /\ cur'[<<d, m>>].task = m
    <2>1. CASE d = e /\ m = n
        BY <1>1, <2>1
    <2>2. CASE d # e \/ m # n
        <3>1. pc'[<<d, m>>] = pc[<<d, m>>] /\ cur'[<<d, m>>] = cur[<<d, m>>]
            BY <1>1, <2>2 DEF OnlyCur
        <3>2. CurOK(d)
            BY DEF Inv
        <3> QED BY <3>1, <3>2 DEF CurOK
    <2> QED BY <2>1, <2>2
<1> QED BY <1>2 DEF CurOK

\* A program counter of the right kind.
LEMMA PcTyped ==
    ASSUME Inv, NEW e \in Ends, NEW n \in TaskNames, NEW s, Goto(<<e, n>>, s),
           s \in IF n = "reader" THEN ReaderStates ELSE WriterStates
    PROVE  /\ pc' \in [Tasks -> ReaderStates \cup WriterStates]
           /\ \A d \in Ends : /\ pc'[<<d, "reader">>] \in ReaderStates
                              /\ pc'[<<d, "writer">>] \in WriterStates
<1>1. /\ pc'[<<e, n>>] = s
      /\ \A d \in Ends, m \in TaskNames : d # e \/ m # n => pc'[<<d, m>>] = pc[<<d, m>>]
    BY Moved DEF Inv
<1>2. pc' = [pc EXCEPT ![<<e, n>>] = s] /\ TypeOK
    BY DEF Goto, Inv
<1>3. pc' \in [Tasks -> ReaderStates \cup WriterStates]
    BY <1>2 DEF TypeOK
<1> QED BY <1>1, <1>2, <1>3 DEF TypeOK, TaskNames

\* Nothing moves from e to its peer.
Unmoved(e) ==
    /\ wire'[e] = wire[e]
    /\ Reading(e)' <=> Reading(e)
    /\ Reading(e) => InHand(e)' = InHand(e)
    /\ ReaderEnded(Peer(e))' <=> ReaderEnded(Peer(e))

\* The tasks of e that are halfway through a frame go on, or cannot.
SendersKept(e) ==
    /\ dead[e] \/ shut[e] => dead'[e] \/ shut'[e]
    /\ \A n \in TaskNames : pc'[<<e, n>>] = "sendBody" =>
          pc[<<e, n>>] = "sendBody" /\ cur'[<<e, n>>] = cur[<<e, n>>]
    /\ \A n \in TaskNames : pc[<<e, n>>] = "sendBody" =>
          pc'[<<e, n>>] = "sendBody" \/ dead'[e] \/ shut'[e]

LEMMA WireKept ==
    ASSUME NEW e \in Ends, WireOK(e), Unmoved(e), SendersKept(e)
    PROVE  WireOK(e)'
<1>1. /\ wire'[e] = wire[e] /\ (Reading(e)' <=> Reading(e))
      /\ Reading(e) => InHand(e)' = InHand(e)
      /\ ReaderEnded(Peer(e))' <=> ReaderEnded(Peer(e))
    BY DEF Unmoved
<1>2. Whole(wire'[e])
    BY <1>1 DEF WireOK
<1>3. wire'[e] # <<>> =>
         IF Reading(e)' THEN wire'[e][1] = <<"body", InHand(e)'>>
                        ELSE ReaderEnded(Peer(e))' \/ wire'[e][1][1] = "len"
    BY <1>1 DEF WireOK
<1>4. \A n \in TaskNames : pc'[<<e, n>>] = "sendBody" =>
         IF wire'[e] # <<>> THEN wire'[e][Len(wire'[e])] = <<"len", cur'[<<e, n>>]>>
         ELSE ReaderEnded(Peer(e))' \/ (Reading(e)' /\ InHand(e)' = cur'[<<e, n>>])
    BY <1>1 DEF WireOK, SendersKept
<1>5. Halfway(wire'[e]) \/ (wire'[e] = <<>> /\ Reading(e)') =>
         dead'[e] \/ shut'[e] \/ \E n \in TaskNames : pc'[<<e, n>>] = "sendBody"
    BY <1>1 DEF WireOK, SendersKept
<1> QED BY <1>2, <1>3, <1>4, <1>5 DEF WireOK

LEMMA PendingKept ==
    ASSUME NEW e \in Ends, Unmoved(e)
    PROVE  Pending(e)' = Pending(e)
BY DEF Unmoved, Pending, Reading, InHand, ReaderEnded

\* Stream, channel and hands of e are as they were, or the frame in hand is let
\* go, or its request turns into the reply.
Steady(e) ==
    LET r == <<e, "reader">> w == <<e, "writer">> IN
    /\ Stream(e)' = Stream(e)
    /\ \A k : Asked(Peer(e), k) => Asked(Peer(e), k)'
    /\ queue'[e] = queue[e] /\ queued'[e] = queued[e]
    /\ pc'[w] = "sendLen" => pc[w] = "sendLen" /\ cur'[w] = cur[w]
    /\ (pc'[r] = "handle" /\ cur'[r].task = "writer") \/ pc'[r] = "sendLen" =>
         /\ (pc[r] = "handle" /\ cur[r].task = "writer") \/ pc[r] = "sendLen"
         /\ cur'[r].num = cur[r].num

LEMMA OrderKept ==
    ASSUME NEW e \in Ends, OrderOK(e), Steady(e)
    PROVE  OrderOK(e)'
<1>1. QueueOK(e)'
    BY DEF OrderOK, Steady, QueueOK
<1>2. Ascending(Stream(e))'
    BY DEF OrderOK, Steady, Ascending
<1>3. AfterStream(e, Stream(e))'
    BY DEF OrderOK, Steady, AfterStream
<1>4. RepliesOK(e, Stream(e))'
    BY DEF OrderOK, Steady, RepliesOK
<1> QED BY <1>1, <1>2, <1>3, <1>4 DEF OrderOK

\* Neither end can tell.
Silent ==
    /\ got' = got
    /\ \A e \in Ends : Pending(e)' = Pending(e) /\ ReaderEnded(e)' = ReaderEnded(e)

\* A token moves on the stream of e, but no frame.
Through(e) ==
    WireOK(e)' /\ Pending(e)' = Pending(e) /\ (ReaderEnded(Peer(e))' <=> ReaderEnded(Peer(e)))

\* A step that moves no frame.
LEMMA SilentStep ==
    ASSUME Inv, TypeOK', \A e \in Ends : LockOK(e)', \A e \in Ends : CurOK(e)', got' = got,
           \A e \in Ends : (Unmoved(e) /\ SendersKept(e)) \/ Through(e),
           \A e \in Ends : Steady(e) \/ OrderOK(e)'
    PROVE  Inv' /\ Silent
<1>1. \A e \in Ends : Through(e)
    <2> SUFFICES ASSUME NEW e \in Ends, Unmoved(e), SendersKept(e) PROVE Through(e)
        OBVIOUS
    <2>1. WireOK(e)'
        BY WireKept DEF Inv
    <2> QED BY <2>1, PendingKept DEF Through, Unmoved
<1>2. \A e \in Ends : OrderOK(e)'
    BY OrderKept DEF Inv
<1>3. \A e \in Ends : ReaderEnded(e)' <=> ReaderEnded(e)
    BY <1>1, PeerFacts DEF Through
<1>4. \A e \in Ends : ReaderEnded(e)' = ReaderEnded(e)
    BY <1>3 DEF ReaderEnded
<1> QED BY <1>1, <1>2, <1>4 DEF Inv, Silent, Through

\* One task of e goes from pc to s: what the stream of d can tell of it.
LEMMA TaskAlone ==
    ASSUME Inv, NEW e \in Ends, NEW n \in TaskNames, NEW s, Goto(<<e, n>>, s), OnlyCur(e, n),
           NEW d \in Ends, wire'[d] = wire[d],
           dead[d] => dead'[d], shut[d] => shut'[d],
           d # e /\ n = "reader" => /\ pc[<<e, n>>] \notin {"readBody", "ended"}
                                    /\ s \notin {"readBody", "ended"},
           d = e => s # "sendBody",
           d = e /\ pc[<<e, n>>] = "sendBody" => dead[e] \/ shut[e]
    PROVE  Unmoved(d) /\ SendersKept(d)
<1>1. /\ pc'[<<e, n>>] = s
      /\ \A c \in Ends, m \in TaskNames : c # e \/ m # n => pc'[<<c, m>>] = pc[<<c, m>>]
    BY Moved DEF Inv
<1>2. \A c \in Ends, m \in TaskNames : c # e \/ m # n => cur'[<<c, m>>] = cur[<<c, m>>]
    BY DEF OnlyCur
<1>3. Unmoved(d)
    <2>1. Peer(d) \in Ends /\ "reader" \in TaskNames /\ Peer(d) # d
        BY PeerFacts DEF TaskNames
    <2>2. CASE Peer(d) # e \/ n # "reader"
        <3>1. /\ pc'[<<Peer(d), "reader">>] = pc[<<Peer(d), "reader">>]
              /\ cur'[<<Peer(d), "reader">>] = cur[<<Peer(d), "reader">>]
            BY <1>1, <1>2, <2>1, <2>2
        <3> QED BY <3>1 DEF Unmoved, Reading, InHand, ReaderEnded
    <2>3. CASE Peer(d) = e /\ n = "reader"
        <3>1. /\ pc[<<Peer(d), "reader">>] \notin {"readBody", "ended"}
              /\ pc'[<<Peer(d), "reader">>] \notin {"readBody", "ended"}
            BY <1>1, <2>1, <2>3
        <3> QED BY <3>1 DEF Unmoved, Reading, InHand, ReaderEnded
    <2> QED BY <2>2, <2>3
<1>4. SendersKept(d)
    <2>1. ASSUME NEW m \in TaskNames, pc'[<<d, m>>] = "sendBody"
          PROVE  pc[<<d, m>>] = "sendBody" /\ cur'[<<d, m>>] = cur[<<d, m>>]
        <3>1. d # e \/ m # n
            BY <1>1, <2>1
        <3> QED BY <1>1, <1>2, <2>1, <3>1
    <2>2. ASSUME NEW m \in TaskNames, pc[<<d, m>>] = "sendBody"
          PROVE  pc'[<<d, m>>] = "sendBody" \/ dead'[d] \/ shut'[d]
        <3>1. CASE d # e \/ m # n
            BY <1>1, <2>2, <3>1
        <3>2. CASE d = e /\ m = n
            BY <2>2, <3>2
        <3> QED BY <3>1, <3>2
    <2>3. dead[d] \/ shut[d] => dead'[d] \/ shut'[d]
        OBVIOUS
    <2> QED BY <2>1, <2>2, <2>3 DEF SendersKept
<1> QED BY <1>3, <1>4

\* A task of e is none of d's.
LEMMA ElsewhereSteady ==
    ASSUME Inv, NEW e \in Ends, NEW n \in TaskNames, NEW s, Goto(<<e, n>>, s), OnlyCur(e, n),
           NEW d \in Ends, d # e, queue'[d] = queue[d], queued'[d] = queued[d],
           Stream(d)' = Stream(d), \A k : Asked(Peer(d), k) => Asked(Peer(d), k)'
    PROVE  Steady(d)
<1>1. /\ \A m \in TaskNames : pc'[<<d, m>>] = pc[<<d, m>>]
      /\ "reader" \in TaskNames /\ "writer" \in TaskNames
    BY Moved DEF Inv, TaskNames
<1>2. \A m \in TaskNames : cur'[<<d, m>>] = cur[<<d, m>>]
    BY DEF OnlyCur
<1> QED BY <1>1, <1>2 DEF Steady

\* The same task does not come to have another frame to send or to answer.
LEMMA TaskSteady ==
    ASSUME Inv, NEW e \in Ends, NEW n \in TaskNames, NEW s, Goto(<<e, n>>, s), OnlyCur(e, n),
           UNCHANGED <<queue, queued, got>>, \A d \in Ends : Unmoved(d),
           s # "handle",
           s = "sendLen" => /\ n = "reader" /\ pc[<<e, n>>] = "handle"
                            /\ cur[<<e, n>>].task = "writer"
                            /\ cur'[<<e, n>>].num = cur[<<e, n>>].num
    PROVE  \A d \in Ends : Steady(d)
<1>1. /\ pc'[<<e, n>>] = s
      /\ \A d \in Ends, m \in TaskNames : d # e \/ m # n => pc'[<<d, m>>] = pc[<<d, m>>]
    BY Moved DEF Inv
<1>2. \A d \in Ends, m \in TaskNames : d # e \/ m # n => cur'[<<d, m>>] = cur[<<d, m>>]
    BY DEF OnlyCur
<1> SUFFICES ASSUME NEW d \in Ends PROVE Steady(d)
    OBVIOUS
<1> DEFINE r == <<d, "reader">>
           w == <<d, "writer">>
<1>3. "reader" \in TaskNames /\ "writer" \in TaskNames
    BY DEF TaskNames
<1>4. Stream(d)' = Stream(d)
    BY PendingKept DEF Stream
<1>5. pc'[w] = "sendLen" => pc[w] = "sendLen" /\ cur'[w] = cur[w]
    <2>1. CASE d # e \/ n # "writer"
        BY <1>1, <1>2, <1>3, <2>1
    <2>2. CASE d = e /\ n = "writer"
        BY <1>1, <2>2
    <2> QED BY <2>1, <2>2
<1>6. (pc'[r] = "handle" /\ cur'[r].task = "writer") \/ pc'[r] = "sendLen" =>
         /\ (pc[r] = "handle" /\ cur[r].task = "writer") \/ pc[r] = "sendLen"
         /\ cur'[r].num = cur[r].num
    <2>1. CASE d # e \/ n # "reader"
        BY <1>1, <1>2, <1>3, <2>1
    <2>2. CASE d = e /\ n = "reader"
        BY <1>1, <2>2
    <2> QED BY <2>1, <2>2
<1>7. \A k : Asked(Peer(d), k) => Asked(Peer(d), k)'
    BY DEF Asked
<1> QED BY <1>4, <1>5, <1>6, <1>7 DEF Steady

-------------------------------------------------------------------------------
\* Tasks that move no frame.
LEMMA StartReadStep == ASSUME Inv, NEW e \in Ends, StartRead(e) PROVE Inv' /\ Silent
<1>1. /\ pc[<<e, "reader">>] = "start" /\ Goto(<<e, "reader">>, "readLen") /\ Lock(e, "reader")
      /\ UNCHANGED <<queue, queued, cur, wire, shut, dead, got>>
      /\ "reader" \in TaskNames
    BY DEF StartRead, TaskNames
<1>2. /\ pc'[<<e, "reader">>] = "readLen"
      /\ \A d \in Ends, m \in TaskNames : d # e \/ m # "reader" => pc'[<<d, m>>] = pc[<<d, m>>]
    BY <1>1, Moved DEF Inv
<1>3. /\ \A d \in Ends : LockOK(d)'
      /\ holder' \in [Ends -> TaskNames \cup {Nobody}]
      /\ waiters' \in [Ends -> Seq(TaskNames)]
    <2>1. "reader" \notin NeedsLock(e) /\ "readLen" \in Needing \ Midway
        BY <1>1 DEF NeedsLock, Needing, Midway
    <2> QED BY <1>1, <2>1, LockTaken
<1>4. \A d \in Ends : CurOK(d)'
    BY <1>1, CurKept DEF OnlyCur
<1>5. TypeOK'
    BY <1>1, <1>3, PcTyped DEF Inv, TypeOK, ReaderStates
<1>6. OnlyCur(e, "reader")
    BY <1>1 DEF OnlyCur
<1>7. \A d \in Ends : Unmoved(d) /\ SendersKept(d)
    BY <1>1, <1>6, TaskAlone
<1>8. \A d \in Ends : Steady(d)
    BY <1>1, <1>6, <1>7, TaskSteady
<1> QED BY <1>1, <1>3, <1>4, <1>5, <1>7, <1>8, SilentStep

LEMMA HandleStep == ASSUME Inv, NEW e \in Ends, Handle(e) PROVE Inv' /\ Silent
<1> DEFINE r == <<e, "reader">>
<1>1. /\ pc[r] = "handle" /\ r \in Tasks /\ "reader" \in TaskNames
      /\ UNCHANGED <<queue, queued, wire, shut, dead, got>>
      /\ TypeOK /\ cur[r] \in Frames
    BY PeerFacts DEF Handle, TaskNames, Inv, CurOK
<1>2. "reader" \notin NeedsLock(e)
    BY <1>1 DEF NeedsLock
<1>3. CASE ~ IsRequest(e, cur[r]) /\ Goto(r, "start") /\ cur' = [cur EXCEPT ![r] = NoFrame]
           /\ UNCHANGED <<holder, waiters>>
    <2>1. /\ pc'[r] = "start"
          /\ \A d \in Ends, m \in TaskNames : d # e \/ m # "reader" => pc'[<<d, m>>] = pc[<<d, m>>]
        BY <1>1, <1>3, Moved
    <2>2. /\ cur' \in [Tasks -> Frames \cup {NoFrame}]
          /\ OnlyCur(e, "reader")
        BY <1>1, <1>3, PeerFacts DEF TypeOK, OnlyCur
    <2>3. /\ \A d \in Ends : LockOK(d)'
          /\ holder' \in [Ends -> TaskNames \cup {Nobody}]
          /\ waiters' \in [Ends -> Seq(TaskNames)]
        BY <1>1, <1>2, <1>3, LockKept DEF Needing
    <2>4. \A d \in Ends : CurOK(d)'
        BY <1>1, <1>3, <2>2, CurKept
    <2>5. TypeOK'
        BY <1>1, <1>3, <2>2, <2>3, PcTyped DEF TypeOK, ReaderStates
    <2>6. \A d \in Ends : Unmoved(d) /\ SendersKept(d)
        BY <1>1, <1>3, <2>2, TaskAlone
    <2>7. \A d \in Ends : Steady(d)
        BY <1>1, <1>3, <2>2, <2>6, TaskSteady
    <2> QED BY <1>1, <2>3, <2>4, <2>5, <2>6, <2>7, SilentStep
<1>4. CASE IsRequest(e, cur[r]) /\ Goto(r, "sendLen") /\ Lock(e, "reader")
           /\ cur' = [cur EXCEPT ![r] = [from |-> e, task |-> "reader", num |-> cur[r].num]]
    <2>1. /\ pc'[r] = "sendLen"
          /\ \A d \in Ends, m \in TaskNames : d # e \/ m # "reader" => pc'[<<d, m>>] = pc[<<d, m>>]
        BY <1>1, <1>4, Moved
    <2>2. [from |-> e, task |-> "reader", num |-> cur[r].num] \in Frames
        BY <1>1 DEF Frames, TaskNames
    <2>3. /\ cur' \in [Tasks -> Frames \cup {NoFrame}] /\ OnlyCur(e, "reader")
          /\ cur'[r] = [from |-> e, task |-> "reader", num |-> cur[r].num]
        BY <1>1, <1>4, <2>2, PeerFacts DEF TypeOK, OnlyCur
    <2>4. /\ \A d \in Ends : LockOK(d)'
          /\ holder' \in [Ends -> TaskNames \cup {Nobody}]
          /\ waiters' \in [Ends -> Seq(TaskNames)]
        <3>1. "sendLen" \in Needing \ Midway
            BY DEF Needing, Midway
        <3> QED BY <1>1, <1>2, <1>4, <3>1, LockTaken
    <2>5. \A d \in Ends : CurOK(d)'
        BY <1>1, <1>4, <2>2, <2>3, CurKept
    <2>6. TypeOK'
        BY <1>1, <1>4, <2>3, <2>4, PcTyped DEF TypeOK, ReaderStates
    <2>7. \A d \in Ends : Unmoved(d) /\ SendersKept(d)
        BY <1>1, <1>4, <2>3, TaskAlone
    <2>8. cur[r].task = "writer" /\ cur'[r].num = cur[r].num
        BY <1>4, <2>3 DEF IsRequest
    <2>9. \A d \in Ends : Steady(d)
        BY <1>1, <1>4, <2>3, <2>7, <2>8, TaskSteady
    <2> QED BY <1>1, <2>4, <2>5, <2>6, <2>7, <2>9, SilentStep
<1> QED BY <1>3, <1>4 DEF Handle

LEMMA CloseStep == ASSUME Inv, NEW e \in Ends, Close(e) PROVE Inv' /\ Silent
<1> DEFINE w == <<e, "writer">>
<1>1. /\ pc[w] = "close" /\ holder[e] = "writer" /\ Goto(w, "ended") /\ Unlock(e)
      /\ shut' = [shut EXCEPT ![e] = TRUE] /\ cur' = [cur EXCEPT ![w] = NoFrame]
      /\ UNCHANGED <<queue, queued, wire, dead, got>>
      /\ w \in Tasks /\ "writer" \in TaskNames /\ TypeOK
    BY PeerFacts DEF Close, TaskNames, Owns, Inv
<1>2. /\ pc'[w] = "ended"
      /\ \A d \in Ends, m \in TaskNames : d # e \/ m # "writer" => pc'[<<d, m>>] = pc[<<d, m>>]
    BY <1>1, Moved
<1>3. /\ cur' \in [Tasks -> Frames \cup {NoFrame}] /\ OnlyCur(e, "writer")
      /\ shut' \in [Ends -> BOOLEAN] /\ \A d \in Ends : shut[d] => shut'[d]
    BY <1>1, PeerFacts DEF TypeOK, OnlyCur
<1>4. /\ \A d \in Ends : LockOK(d)'
      /\ holder' \in [Ends -> TaskNames \cup {Nobody}]
      /\ waiters' \in [Ends -> Seq(TaskNames)]
    BY <1>1, LockReleased DEF Needing
<1>5. \A d \in Ends : CurOK(d)'
    BY <1>1, <1>3, CurKept
<1>6. TypeOK'
    BY <1>1, <1>3, <1>4, PcTyped DEF TypeOK, WriterStates
<1>7. \A d \in Ends : Unmoved(d) /\ SendersKept(d)
    BY <1>1, <1>3, TaskAlone
<1>8. \A d \in Ends : Steady(d)
    BY <1>1, <1>3, <1>7, TaskSteady
<1> QED BY <1>1, <1>4, <1>5, <1>6, <1>7, <1>8, SilentStep

LEMMA SendErrorStep ==
    ASSUME Inv, NEW e \in Ends, NEW n \in TaskNames, SendError(e, n)
    PROVE  Inv' /\ Silent
<1> DEFINE t == <<e, n>>
<1>1. /\ pc[t] \in {"sendLen", "sendBody"} /\ holder[e] = n
      /\ dead[e] \/ shut[e]
      /\ cur' = [cur EXCEPT ![t] = NoFrame]
      /\ UNCHANGED <<queue, queued, wire, shut, dead, got>>
      /\ t \in Tasks /\ TypeOK
    BY PeerFacts DEF SendError, Owns, Inv
<1>2. PICK s \in {"close", "start"} :
         /\ Goto(t, s)
         /\ s = "close" <=> n = "writer"
         /\ \/ s = "close" /\ Relock(e, n)
            \/ s = "start" /\ Unlock(e)
    BY DEF SendError
<1>3. /\ pc'[t] = s
      /\ \A d \in Ends, m \in TaskNames : d # e \/ m # n => pc'[<<d, m>>] = pc[<<d, m>>]
    BY <1>1, <1>2, Moved
<1>4. cur' \in [Tasks -> Frames \cup {NoFrame}] /\ OnlyCur(e, n)
    BY <1>1, PeerFacts DEF TypeOK, OnlyCur
<1>5. /\ \A d \in Ends : LockOK(d)'
      /\ holder' \in [Ends -> TaskNames \cup {Nobody}]
      /\ waiters' \in [Ends -> Seq(TaskNames)]
    <2>1. "close" \in Needing \ Midway /\ "start" \notin Needing
        BY DEF Needing, Midway
    <2> QED BY <1>1, <1>2, <2>1, LockRequeued, LockReleased
<1>6. \A d \in Ends : CurOK(d)'
    BY <1>2, <1>4, CurKept
<1>7. TypeOK'
    <2>1. s \in IF n = "reader" THEN ReaderStates ELSE WriterStates
        BY <1>2 DEF TaskNames, ReaderStates, WriterStates
    <2> QED BY <1>1, <1>2, <1>4, <1>5, <2>1, PcTyped DEF TypeOK
<1>8. \A d \in Ends : Unmoved(d) /\ SendersKept(d)
    BY <1>1, <1>2, <1>4, TaskAlone
<1>9. \A d \in Ends : Steady(d)
    BY <1>1, <1>2, <1>4, <1>8, TaskSteady
<1> QED BY <1>1, <1>5, <1>6, <1>7, <1>8, <1>9, SilentStep

LEMMA FailStep == ASSUME Inv, NEW e \in Ends, Fail(e) PROVE Inv' /\ Silent
<1>1. /\ dead' = [dead EXCEPT ![e] = TRUE] /\ TypeOK
      /\ UNCHANGED <<queue, queued, pc, cur, holder, waiters, wire, shut, got>>
    BY DEF Fail, Inv
<1>2. TypeOK' /\ \A d \in Ends : dead[d] => dead'[d]
    BY <1>1 DEF TypeOK
<1>3. \A d \in Ends : LockOK(d)' /\ CurOK(d)'
    BY <1>1 DEF Inv, LockOK, NeedsLock, CurOK
<1>4. \A d \in Ends : Unmoved(d) /\ SendersKept(d)
    BY <1>1, <1>2 DEF Unmoved, SendersKept, Reading, InHand, ReaderEnded
<1>5. \A d \in Ends : Steady(d)
    BY <1>1, <1>4, PendingKept DEF Steady, Stream, Asked
<1> QED BY <1>1, <1>2, <1>3, <1>4, <1>5, SilentStep

-------------------------------------------------------------------------------
\* Two sequences one after the other.
LEMMA ConcatAppend ==
    ASSUME NEW S, NEW s \in Seq(S), NEW a \in Seq(S), NEW c \in S
    PROVE  /\ Append(s, c) \o a = s \o (<<c>> \o a)
           /\ s \o Append(a, c) = Append(s \o a, c)
           /\ <<>> \o a = a /\ s \o <<>> = s /\ s \o a \in Seq(S) /\ <<c>> \o a \in Seq(S)
<1>1. /\ s \o a \in Seq(S) /\ Len(s \o a) = Len(s) + Len(a)
      /\ \A i \in 1 .. Len(s) + Len(a) :
            (s \o a)[i] = IF i <= Len(s) THEN s[i] ELSE a[i - Len(s)]
    BY ConcatProperties
<1>2. <<>> \o a = a /\ s \o <<>> = s
    BY ConcatEmptySeq
<1>3. <<c>> \in Seq(S) /\ Len(<<c>>) = 1 /\ <<c>>[1] = c
    OBVIOUS
<1>4. /\ <<c>> \o a \in Seq(S) /\ Len(<<c>> \o a) = 1 + Len(a)
      /\ \A i \in 1 .. 1 + Len(a) : (<<c>> \o a)[i] = IF i <= 1 THEN c ELSE a[i - 1]
    BY <1>3, ConcatProperties
<1>5. Append(s, c) = s \o <<c>> /\ Append(a, c) = a \o <<c>> /\ Append(s \o a, c) = (s \o a) \o <<c>>
    BY <1>1, AppendIsConcat
<1>6. (s \o <<c>>) \o a = s \o (<<c>> \o a)
    BY <1>3, ConcatAssociative
<1>7. s \o (a \o <<c>>) = (s \o a) \o <<c>>
    BY <1>3, ConcatAssociative
<1>8. Append(s, c) \o a = s \o (<<c>> \o a)
    BY <1>5, <1>6
<1>9. s \o Append(a, c) = Append(s \o a, c)
    BY <1>5, <1>7
<1> QED BY <1>1, <1>2, <1>4, <1>8, <1>9

LEMMA FrameFacts ==
    /\ \A f \in Frames : f.from \in Ends /\ f.task \in TaskNames /\ f.num \in Nat
    /\ \A f, g \in Frames : f.from = g.from /\ f.task = g.task /\ f.num = g.num => f = g
BY ConnAssumption DEF Frames, Nums

LEMMA StreamTyped ==
    ASSUME Inv, NEW e \in Ends
    PROVE  /\ wire[e] \in Seq(Tokens) /\ got[e] \in Seq(Frames)
           /\ Announced(wire[e]) \in Seq(Frames)
           /\ Reading(e) => InHand(e) \in Frames
           /\ Pending(e) = IF ReaderEnded(Peer(e)) THEN <<>>
                           ELSE IF Reading(e) THEN <<InHand(e)>> \o Announced(wire[e])
                           ELSE Announced(wire[e])
           /\ Pending(e) \in Seq(Frames) /\ Stream(e) \in Seq(Frames)
<1>1. wire[e] \in Seq(Tokens) /\ got[e] \in Seq(Frames) /\ Announced(wire[e]) \in Seq(Frames)
    BY AnnouncedFacts DEF Inv, TypeOK
<1>2. Reading(e) => InHand(e) \in Frames
    BY PeerFacts DEF Inv, CurOK, Reading, InHand, TaskNames
<1>3. <<>> \o Announced(wire[e]) = Announced(wire[e])
    BY <1>1, ConcatEmptySeq
<1>4. Pending(e) = IF ReaderEnded(Peer(e)) THEN <<>>
                   ELSE IF Reading(e) THEN <<InHand(e)>> \o Announced(wire[e])
                   ELSE Announced(wire[e])
    BY <1>3 DEF Pending, ReaderEnded, Reading, InHand
<1>5. Reading(e) => <<InHand(e)>> \o Announced(wire[e]) \in Seq(Frames)
    BY <1>1, <1>2, ConcatAppend
<1>6. Pending(e) \in Seq(Frames)
    BY <1>1, <1>4, <1>5
<1>7. Stream(e) \in Seq(Frames)
    BY <1>1, <1>6, ConcatProperties DEF Stream
<1> QED BY <1>1, <1>2, <1>4, <1>6, <1>7

-------------------------------------------------------------------------------
\* The channel of a writer.
LEMMA SubmitStep == ASSUME Inv, NEW e \in Ends, Submit(e) PROVE Inv' /\ Silent
<1>f. PICK f : f = [from |-> e, task |-> "writer", num |-> queued[e] + 1]
    OBVIOUS
<1>s. PICK S : S = Stream(e)
    OBVIOUS
<1>1. /\ queued[e] < MaxFrames /\ queued' = [queued EXCEPT ![e] = queued[e] + 1]
      /\ queue' = [queue EXCEPT ![e] = Append(queue[e], f)]
      /\ UNCHANGED <<pc, cur, holder, waiters, wire, shut, dead, got>>
      /\ TypeOK
    BY <1>f DEF Submit, Inv
<1>2. /\ queued[e] \in Nat /\ queued[e] + 1 \in 0 .. MaxFrames /\ MaxFrames \in Nat
      /\ queue[e] \in Seq(Frames) /\ f \in Frames
      /\ f.from = e /\ f.task = "writer" /\ f.num = queued[e] + 1
    <2>1. queued[e] \in 0 .. MaxFrames /\ MaxFrames \in Nat /\ queue[e] \in Seq(Frames)
        BY <1>1, ConnAssumption DEF TypeOK
    <2>2. queued[e] \in Nat /\ queued[e] + 1 \in 0 .. MaxFrames /\ queued[e] + 1 \in Nums
        BY <1>1, <2>1 DEF Nums
    <2>3. f \in Frames
        BY <1>f, <2>2 DEF Frames, TaskNames
    <2> QED BY <1>f, <2>1, <2>2, <2>3
<1>3. /\ Append(queue[e], f) \in Seq(Frames) /\ Len(queue[e]) \in Nat
      /\ Len(Append(queue[e], f)) = Len(queue[e]) + 1
      /\ \A i \in 1 .. Len(queue[e]) : Append(queue[e], f)[i] = queue[e][i]
      /\ Append(queue[e], f)[Len(queue[e]) + 1] = f
    BY <1>2, AppendProperties
<1>4. /\ queue'[e] = Append(queue[e], f) /\ queued'[e] = queued[e] + 1
      /\ queue' \in [Ends -> Seq(Frames)] /\ queued' \in [Ends -> 0 .. MaxFrames]
      /\ \A d \in Ends \ {e} : queue'[d] = queue[d] /\ queued'[d] = queued[d]
    BY <1>1, <1>2, <1>3 DEF TypeOK
<1>5. TypeOK'
    BY <1>1, <1>4 DEF TypeOK
<1>6. \A d \in Ends : LockOK(d)' /\ CurOK(d)'
    BY <1>1 DEF Inv, LockOK, NeedsLock, CurOK
<1>7. \A d \in Ends : Unmoved(d) /\ SendersKept(d)
    BY <1>1 DEF Unmoved, SendersKept, Reading, InHand, ReaderEnded
<1>8. \A d \in Ends : Stream(d)' = Stream(d) /\ \A k : Asked(Peer(d), k) => Asked(Peer(d), k)'
    BY <1>1, <1>7, PendingKept DEF Stream, Asked
<1>9. \A d \in Ends \ {e} : Steady(d)
    BY <1>1, <1>4, <1>8 DEF Steady
<1>10. OrderOK(e)'
    <2>1. OrderOK(e) /\ Stream(e)' = Stream(e) /\ CurOK(e)
        BY <1>8 DEF Inv
    <2>2. \A i \in 1 .. Len(queue[e]) : queue[e][i] \in Frames /\ queue[e][i].num \in Nat
        BY <1>2, FrameFacts
    <2>q. \A i \in 1 .. Len(queue'[e]) :
            (i \in 1 .. Len(queue[e]) /\ queue'[e][i] = queue[e][i])
              \/ (i = Len(queue[e]) + 1 /\ queue'[e][i] = f)
        <3>1. \A i \in 1 .. Len(queue'[e]) : i \in 1 .. Len(queue[e]) \/ i = Len(queue[e]) + 1
            BY <1>3, <1>4
        <3> QED BY <1>3, <1>4, <3>1
    <2>r. Len(queue[e]) \in Nat /\ queued[e] \in Nat /\ queued'[e] = queued[e] + 1
        BY <1>2, <1>3, <1>4
    <2>3. QueueOK(e)'
        <3>1. ASSUME NEW i \in 1 .. Len(queue'[e])
              PROVE  /\ queue'[e][i].from = e /\ queue'[e][i].task = "writer"
                     /\ queue'[e][i].num <= queued'[e]
            <4>1. CASE i \in 1 .. Len(queue[e]) /\ queue'[e][i] = queue[e][i]
                BY <2>r, <2>1, <2>2, <4>1 DEF OrderOK, QueueOK
            <4>2. CASE queue'[e][i] = f
                BY <1>2, <2>r, <4>2
            <4> QED BY <2>q, <4>1, <4>2
        <3>2. ASSUME NEW i \in 1 .. Len(queue'[e]), NEW j \in 1 .. Len(queue'[e]), i < j
              PROVE  queue'[e][i].num < queue'[e][j].num
            <4>1. /\ i \in 1 .. Len(queue[e]) /\ queue'[e][i] = queue[e][i]
                <5>1. j <= Len(queue[e]) + 1
                    BY <2>q, <2>r
                <5> QED BY <2>q, <2>r, <3>2, <5>1
            <4>2. queue[e][i].num <= queued[e] /\ queue[e][i].num \in Nat
                BY <2>1, <2>2, <4>1, FrameFacts DEF OrderOK, QueueOK
            <4>3. CASE j \in 1 .. Len(queue[e]) /\ queue'[e][j] = queue[e][j]
                BY <2>1, <3>2, <4>1, <4>3 DEF OrderOK, QueueOK
            <4>4. CASE queue'[e][j] = f
                BY <1>2, <4>1, <4>2, <4>4
            <4> QED BY <2>q, <4>3, <4>4
        <3>3. ASSUME pc'[<<e, "writer">>] = "sendLen"
              PROVE  /\ cur'[<<e, "writer">>].num <= queued'[e]
                     /\ \A i \in 1 .. Len(queue'[e]) : cur'[<<e, "writer">>].num < queue'[e][i].num
            <4>1. /\ pc[<<e, "writer">>] = "sendLen" /\ cur' = cur
                  /\ cur[<<e, "writer">>].num <= queued[e] /\ cur[<<e, "writer">>].num \in Nat
                <5>1. pc[<<e, "writer">>] = "sendLen" /\ cur' = cur
                    BY <1>1, <3>3
                <5>2. cur[<<e, "writer">>].num \in Nat
                    BY <2>1, <5>1, FrameFacts DEF CurOK, TaskNames
                <5> QED BY <2>1, <5>1, <5>2 DEF OrderOK, QueueOK
            <4>2. ASSUME NEW i \in 1 .. Len(queue'[e])
                  PROVE  cur[<<e, "writer">>].num < queue'[e][i].num
                <5>1. CASE i \in 1 .. Len(queue[e]) /\ queue'[e][i] = queue[e][i]
                    BY <2>1, <4>1, <5>1 DEF OrderOK, QueueOK
                <5>2. CASE queue'[e][i] = f
                    BY <1>2, <4>1, <5>2
                <5> QED BY <2>q, <5>1, <5>2
            <4>3. cur[<<e, "writer">>].num <= queued'[e]
                BY <2>r, <4>1
            <4> QED BY <4>1, <4>2, <4>3
        <3> QED BY <3>1, <3>2, <3>3 DEF QueueOK
    <2>4. AfterStream(e, Stream(e))'
        <3>1. ASSUME NEW i \in 1 .. Len(S), S[i].task = "writer"
              PROVE  /\ S[i].num <= queued'[e]
                     /\ \A k \in 1 .. Len(queue'[e]) : S[i].num < queue'[e][k].num
                     /\ pc'[<<e, "writer">>] = "sendLen" => S[i].num < cur'[<<e, "writer">>].num
            <4>1. S[i].num \in Nat /\ S[i].num <= queued[e]
                <5>1. S[i] \in Frames
                    <6>1. S \in Seq(Frames)
                        BY <1>s, StreamTyped
                    <6> QED BY <6>1
                <5> QED BY <1>s, <2>1, <3>1, <5>1, FrameFacts DEF OrderOK, AfterStream
            <4>2. ASSUME NEW k \in 1 .. Len(queue'[e]) PROVE S[i].num < queue'[e][k].num
                <5>1. CASE k \in 1 .. Len(queue[e]) /\ queue'[e][k] = queue[e][k]
                    BY <1>s, <2>1, <3>1, <5>1 DEF OrderOK, AfterStream
                <5>2. CASE queue'[e][k] = f
                    BY <1>2, <4>1, <5>2
                <5> QED BY <2>q, <5>1, <5>2
            <4>3. pc'[<<e, "writer">>] = "sendLen" => S[i].num < cur'[<<e, "writer">>].num
                BY <1>s, <1>1, <2>1, <3>1 DEF OrderOK, AfterStream
            <4>4. S[i].num <= queued'[e]
                BY <2>r, <4>1
            <4> QED BY <4>2, <4>3, <4>4
        <3>2. Stream(e)' = S
            BY <1>s, <2>1
        <3> QED BY <3>1, <3>2 DEF AfterStream
    <2>5. Ascending(Stream(e))' /\ RepliesOK(e, Stream(e))'
        BY <1>1, <2>1 DEF OrderOK, Ascending, RepliesOK, Asked
    <2> QED BY <2>3, <2>4, <2>5 DEF OrderOK
<1> QED BY <1>1, <1>5, <1>6, <1>7, <1>9, <1>10, SilentStep

LEMMA TakeStep == ASSUME Inv, NEW e \in Ends, Take(e) PROVE Inv' /\ Silent
<1>w. PICK w : w = <<e, "writer">>
    OBVIOUS
<1>f. PICK f : f = Head(queue[e])
    OBVIOUS
<1>s. PICK s : s = IF <<e, f.num>> \in Oversize THEN "close" ELSE "sendLen"
    OBVIOUS
<1>1. /\ pc[w] = "recv" /\ queue[e] # <<>> /\ queue' = [queue EXCEPT ![e] = Tail(queue[e])]
      /\ cur' = [cur EXCEPT ![w] = f] /\ Goto(<<e, "writer">>, s) /\ Lock(e, "writer")
      /\ UNCHANGED <<queued, wire, shut, dead, got>>
      /\ TypeOK /\ OrderOK(e) /\ w \in Tasks /\ "writer" \in TaskNames
    BY <1>w, <1>f, <1>s, PeerFacts DEF Take, NextFrame, Inv, TaskNames
<1>2. /\ queue[e] \in Seq(Frames) /\ f = queue[e][1] /\ f \in Frames /\ f.num \in Nat
      /\ Len(queue[e]) \in Nat /\ 1 \in 1 .. Len(queue[e])
      /\ Tail(queue[e]) \in Seq(Frames) /\ Len(Tail(queue[e])) = Len(queue[e]) - 1
      /\ \A i \in 1 .. Len(queue[e]) - 1 : Tail(queue[e])[i] = queue[e][i + 1]
    <2>1. queue[e] \in Seq(Frames)
        BY <1>1 DEF TypeOK
    <2>2. f = queue[e][1] /\ 1 \in 1 .. Len(queue[e]) /\ f \in Frames
        BY <1>1, <1>f, <2>1
    <2> QED BY <1>1, <2>1, <2>2, FrameFacts, HeadTailProperties
<1>3. f.from = e /\ f.task = "writer" /\ f.num <= queued[e]
    BY <1>1, <1>2 DEF OrderOK, QueueOK
<1>4. /\ queue'[e] = Tail(queue[e]) /\ queue' \in [Ends -> Seq(Frames)]
      /\ \A d \in Ends \ {e} : queue'[d] = queue[d]
    BY <1>1, <1>2 DEF TypeOK
<1>5. /\ cur' \in [Tasks -> Frames \cup {NoFrame}] /\ OnlyCur(e, "writer") /\ cur'[w] = f
    BY <1>1, <1>2, <1>w, PeerFacts DEF TypeOK, OnlyCur
<1>6. pc'[w] = s /\ pc'[<<e, "reader">>] = pc[<<e, "reader">>]
    <2>1. "reader" \in TaskNames
        BY DEF TaskNames
    <2> QED BY <1>1, <1>w, <2>1, Moved
<1>7. /\ \A d \in Ends : LockOK(d)'
      /\ holder' \in [Ends -> TaskNames \cup {Nobody}]
      /\ waiters' \in [Ends -> Seq(TaskNames)]
    <2>1. s \in Needing \ Midway /\ "writer" \notin NeedsLock(e)
        BY <1>1, <1>s, <1>w DEF Needing, Midway, NeedsLock
    <2> QED BY <1>1, <2>1, LockTaken
<1>8. \A d \in Ends : CurOK(d)'
    BY <1>1, <1>2, <1>3, <1>5, <1>w, CurKept
<1>9. TypeOK'
    <2>1. s \in WriterStates
        BY <1>s DEF WriterStates
    <2>2. /\ pc' \in [Tasks -> ReaderStates \cup WriterStates]
          /\ \A d \in Ends : /\ pc'[<<d, "reader">>] \in ReaderStates
                             /\ pc'[<<d, "writer">>] \in WriterStates
        BY <1>1, <2>1, PcTyped
    <2> QED BY <1>1, <1>4, <1>5, <1>7, <2>2 DEF TypeOK
<1>10. \A d \in Ends : Unmoved(d) /\ SendersKept(d)
    <2>1. s # "sendBody" /\ pc[<<e, "writer">>] # "sendBody"
        BY <1>1, <1>s, <1>w
    <2> QED BY <1>1, <1>5, <2>1, TaskAlone
<1>11. \A d \in Ends : Stream(d)' = Stream(d) /\ \A k : Asked(Peer(d), k) => Asked(Peer(d), k)'
    BY <1>1, <1>10, PendingKept DEF Stream, Asked
<1>12. \A d \in Ends \ {e} : Steady(d)
    BY <1>1, <1>4, <1>5, <1>11, ElsewhereSteady
<1>13. OrderOK(e)'
    <2>q. \A i \in 1 .. Len(queue'[e]) :
             i + 1 \in 1 .. Len(queue[e]) /\ queue'[e][i] = queue[e][i + 1]
        BY <1>2, <1>4
    <2>1. QueueOK(e)'
        <3>1. \A i \in 1 .. Len(queue'[e]) :
                 /\ queue'[e][i].from = e /\ queue'[e][i].task = "writer"
                 /\ queue'[e][i].num <= queued'[e]
            BY <1>1, <2>q DEF OrderOK, QueueOK
        <3>2. ASSUME NEW i \in 1 .. Len(queue'[e]), NEW j \in 1 .. Len(queue'[e]), i < j
              PROVE  queue'[e][i].num < queue'[e][j].num
            <4>1. i + 1 < j + 1
                BY <3>2
            <4> QED BY <1>1, <2>q, <4>1 DEF OrderOK, QueueOK
        <3>3. ASSUME NEW i \in 1 .. Len(queue'[e]) PROVE f.num < queue'[e][i].num
            <4>1. 1 < i + 1
                OBVIOUS
            <4> QED BY <1>1, <1>2, <2>q, <4>1 DEF OrderOK, QueueOK
        <3>4. f.num <= queued'[e]
            BY <1>1, <1>3
        <3> QED BY <1>5, <1>w, <3>1, <3>2, <3>3, <3>4 DEF QueueOK
    <2>2. AfterStream(e, Stream(e))'
        <3>1. PICK S : S = Stream(e)
            OBVIOUS
        <3>2. AfterStream(e, S) /\ Stream(e)' = S
            BY <1>1, <1>11, <3>1 DEF OrderOK
        <3>3. \A i \in 1 .. Len(S) : S[i].task = "writer" =>
                 /\ S[i].num <= queued'[e] /\ S[i].num < f.num
                 /\ \A k \in 1 .. Len(queue'[e]) : S[i].num < queue'[e][k].num
            BY <1>1, <1>2, <2>q, <3>2 DEF AfterStream
        <3> QED BY <1>5, <1>w, <3>2, <3>3 DEF AfterStream
    <2>3. Ascending(Stream(e))'
        BY <1>1, <1>11 DEF OrderOK, Ascending
    <2>4. RepliesOK(e, Stream(e))'
        <3>1. cur'[<<e, "reader">>] = cur[<<e, "reader">>]
            BY <1>5 DEF OnlyCur, TaskNames
        <3> QED BY <1>1, <1>6, <1>11, <3>1 DEF OrderOK, RepliesOK
    <2> QED BY <2>1, <2>2, <2>3, <2>4 DEF OrderOK
<1> QED BY <1>1, <1>7, <1>8, <1>9, <1>10, <1>12, <1>13, SilentStep

-------------------------------------------------------------------------------
\* Tokens on the streams.
LEMMA TokenTyped ==
    ASSUME TypeOK, NEW p \in Ends, NEW w \in Seq(Tokens), wire' = [wire EXCEPT ![p] = w]
    PROVE  /\ wire' \in [Ends -> Seq(Tokens)] /\ wire'[p] = w
           /\ \A d \in Ends \ {p} : wire'[d] = wire[d]
BY DEF TypeOK

LEMMA ReadLenStep == ASSUME Inv, NEW e \in Ends, ReadLen(e) PROVE Inv' /\ Silent
<1>p. PICK p : p = Peer(e) /\ p \in Ends /\ p # e /\ Peer(p) = e
    BY PeerFacts
<1>w. PICK w : w = wire[p]
    OBVIOUS
<1>r. PICK r : r = <<e, "reader">> /\ r \in Tasks /\ "reader" \in TaskNames
    BY PeerFacts DEF TaskNames
<1>1. /\ pc[r] = "readLen" /\ holder[e] = "reader" /\ w # <<>>
      /\ cur' = [cur EXCEPT ![r] = Head(w)[2]]
      /\ wire' = [wire EXCEPT ![p] = Tail(w)]
      /\ Goto(<<e, "reader">>, "readBody")
      /\ UNCHANGED <<queue, queued, holder, waiters, shut, dead, got>>
      /\ TypeOK /\ WireOK(p)
    BY <1>p, <1>w, <1>r DEF ReadLen, Owns, Inv
<1>2. w \in Seq(Tokens) /\ Whole(w)
    BY <1>1, <1>p, <1>w DEF TypeOK, WireOK
<1>3. w[1][1] = "len" /\ ~ Reading(p) /\ ~ ReaderEnded(Peer(p))
    BY <1>1, <1>p, <1>w, <1>r DEF WireOK, Reading, ReaderEnded
<1>4. PICK f : f = w[1][2]
    OBVIOUS
<1>5. /\ Tail(w) \in Seq(Tokens) /\ Whole(Tail(w))
      /\ Halfway(Tail(w)) => Halfway(w)
      /\ w[1] = <<"len", f>> /\ w[1] = Head(w) /\ f \in Frames
      /\ Announced(w) # <<>> /\ Head(Announced(w)) = f /\ Tail(Announced(w)) = Announced(Tail(w))
    <2>1. \A t \in Tokens : t = <<t[1], t[2]>> /\ t[2] \in Frames
        BY DEF Tokens
    <2> QED BY <1>1, <1>2, <1>3, <1>4, <2>1, ReadToken
<1>6. Tail(w) # <<>> => Tail(w)[Len(Tail(w))] = w[Len(w)] /\ Tail(w)[1] = <<"body", f>>
    BY <1>1, <1>2, <1>3, <1>4, ReadToken
<1>7. Tail(w) = <<>> => w[Len(w)] = w[1]
    <2>1. Len(Tail(w)) = Len(w) - 1 /\ Len(w) \in Nat
        BY <1>1, <1>2, HeadTailProperties
    <2>2. Len(<<>>) = 0
        OBVIOUS
    <2>3. Tail(w) = <<>> => Len(w) = 1
        <3>1. PICK v : v = Tail(w)
            OBVIOUS
        <3>2. v = <<>> => Len(v) = 0
            BY <2>2
        <3>3. v = <<>> => Len(w) = 1
            BY <2>1, <3>1, <3>2
        <3> QED BY <3>1, <3>3
    <2> QED BY <2>3
<1>8. /\ wire' \in [Ends -> Seq(Tokens)] /\ wire'[p] = Tail(w)
      /\ wire'[e] = wire[e]
    <2>1. PICK v : v = Tail(w)
        OBVIOUS
    <2>2. v \in Seq(Tokens) /\ wire' = [wire EXCEPT ![p] = v]
        BY <1>1, <1>5, <2>1
    <2>3. /\ wire' \in [Ends -> Seq(Tokens)] /\ wire'[p] = v
          /\ \A d \in Ends \ {p} : wire'[d] = wire[d]
        BY <1>1, <1>p, <2>2, TokenTyped
    <2> QED BY <1>p, <2>1, <2>3
<1>9. /\ cur' \in [Tasks -> Frames \cup {NoFrame}] /\ OnlyCur(e, "reader") /\ cur'[r] = f
    BY <1>1, <1>5, <1>r, PeerFacts DEF TypeOK, OnlyCur
<1>10. /\ pc'[r] = "readBody"
       /\ \A d \in Ends, m \in TaskNames : d # e \/ m # "reader" => pc'[<<d, m>>] = pc[<<d, m>>]
    BY <1>1, <1>r, Moved
<1>11. /\ \A d \in Ends : LockOK(d)'
       /\ holder' \in [Ends -> TaskNames \cup {Nobody}]
       /\ waiters' \in [Ends -> Seq(TaskNames)]
    BY <1>1, <1>r, LockKept DEF Needing
<1>12. \A d \in Ends : CurOK(d)'
    BY <1>1, <1>5, <1>9, <1>r, CurKept
<1>13. TypeOK'
    BY <1>1, <1>8, <1>9, <1>11, <1>r, PcTyped DEF TypeOK, ReaderStates
<1>14. Unmoved(e) /\ SendersKept(e)
    BY <1>1, <1>8, <1>9, <1>r, TaskAlone
<1>15. Reading(p)' /\ InHand(p)' = f /\ ~ ReaderEnded(Peer(p))'
    BY <1>9, <1>10, <1>p, <1>r DEF Reading, InHand, ReaderEnded
<1>16. WireOK(p)'
    <2>1. ASSUME NEW n \in TaskNames, pc'[<<p, n>>] = "sendBody"
          PROVE  /\ w[Len(w)] = <<"len", cur[<<p, n>>]>>
                 /\ cur'[<<p, n>>] = cur[<<p, n>>]
        BY <1>1, <1>9, <1>10, <1>p, <1>w, <2>1 DEF WireOK, OnlyCur
    <2>2. ASSUME NEW n \in TaskNames, pc'[<<p, n>>] = "sendBody"
          PROVE  IF wire'[p] # <<>> THEN wire'[p][Len(wire'[p])] = <<"len", cur'[<<p, n>>]>>
                 ELSE Reading(p)' /\ InHand(p)' = cur'[<<p, n>>]
        <3>1. CASE Tail(w) # <<>>
            BY <1>6, <1>8, <2>1, <2>2, <3>1
        <3>2. CASE Tail(w) = <<>>
            <4>1. <<"len", f>> = <<"len", cur[<<p, n>>]>>
                BY <1>5, <1>7, <2>1, <2>2, <3>2
            <4> QED BY <1>8, <1>15, <2>1, <2>2, <3>2, <4>1
        <3> QED BY <3>1, <3>2
    <2>3. (dead[p] \/ shut[p] \/ \E n \in TaskNames : pc[<<p, n>>] = "sendBody")
             => (dead'[p] \/ shut'[p] \/ \E n \in TaskNames : pc'[<<p, n>>] = "sendBody")
        BY <1>1, <1>10, <1>p
    <2>4. Halfway(wire'[p]) \/ wire'[p] = <<>> => Halfway(w)
        BY <1>1, <1>5, <1>7, <1>8 DEF Halfway
    <2>5. Halfway(w) => dead[p] \/ shut[p] \/ \E n \in TaskNames : pc[<<p, n>>] = "sendBody"
        BY <1>1, <1>w DEF WireOK
    <2>6. wire'[p] # <<>> => wire'[p][1] = <<"body", InHand(p)'>>
        BY <1>6, <1>8, <1>15
    <2>7. Whole(wire'[p])
        BY <1>5, <1>8
    <2> QED BY <1>15, <2>2, <2>3, <2>4, <2>5, <2>6, <2>7 DEF WireOK
<1>17. Pending(p)' = Pending(p)
    <2>1. Pending(p) = Announced(w)
        BY <1>3, <1>p, <1>w, StreamTyped
    <2>2. Pending(p)' = <<f>> \o Announced(Tail(w))
        BY <1>8, <1>15 DEF Pending, Reading, InHand, ReaderEnded
    <2>3. \A s \in Seq(Frames) : s # <<>> => <<Head(s)>> \o Tail(s) = s
        <3> SUFFICES ASSUME NEW s \in Seq(Frames), s # <<>> PROVE <<Head(s)>> \o Tail(s) = s
            OBVIOUS
        <3>1. /\ Head(s) \in Frames /\ Tail(s) \in Seq(Frames) /\ Len(s) \in Nat /\ Len(s) >= 1
              /\ Len(Tail(s)) = Len(s) - 1
              /\ \A i \in 1 .. Len(s) - 1 : Tail(s)[i] = s[i + 1]
            BY HeadTailProperties
        <3>2. <<Head(s)>> \in Seq(Frames) /\ Len(<<Head(s)>>) = 1 /\ <<Head(s)>>[1] = s[1]
            BY <3>1
        <3>3. /\ <<Head(s)>> \o Tail(s) \in Seq(Frames)
              /\ Len(<<Head(s)>> \o Tail(s)) = 1 + Len(Tail(s))
              /\ \A i \in 1 .. 1 + Len(Tail(s)) : (<<Head(s)>> \o Tail(s))[i] =
                    IF i <= 1 THEN <<Head(s)>>[i] ELSE Tail(s)[i - 1]
            BY <3>1, <3>2, ConcatProperties
        <3>4. ASSUME NEW i \in 1 .. Len(s) PROVE (<<Head(s)>> \o Tail(s))[i] = s[i]
            BY <3>1, <3>2, <3>3
        <3>5. Len(<<Head(s)>> \o Tail(s)) = Len(s)
            BY <3>1, <3>3
        <3> QED BY <3>3, <3>4, <3>5, SeqEqual
    <2> QED BY <1>2, <1>5, <2>1, <2>2, <2>3, AnnouncedFacts
<1>18. Through(p)
    BY <1>3, <1>15, <1>16, <1>17 DEF Through
<1>19. \A d \in Ends : d = e \/ d = p
    BY <1>p, PeerFacts
<1>20. \A d \in Ends : Stream(d)' = Stream(d) /\ \A k : Asked(Peer(d), k) => Asked(Peer(d), k)'
    <2>1. \A d \in Ends : Pending(d)' = Pending(d)
        BY <1>14, <1>17, <1>19, PendingKept
    <2> QED BY <1>1, <2>1 DEF Stream, Asked
<1>21. Steady(p)
    BY <1>1, <1>9, <1>20, <1>p, <1>r, ElsewhereSteady
<1>22. Steady(e)
    <2>1. pc'[<<e, "writer">>] = pc[<<e, "writer">>] /\ cur'[<<e, "writer">>] = cur[<<e, "writer">>]
        BY <1>9, <1>10 DEF OnlyCur, TaskNames
    <2> QED BY <1>1, <1>10, <1>20, <1>r, <2>1 DEF Steady
<1> QED BY <1>1, <1>11, <1>12, <1>13, <1>14, <1>18, <1>19, <1>21, <1>22, SilentStep

\* A frame's second token, and the guard is dropped.
LEMMA SendBodyStep ==
    ASSUME Inv, NEW e \in Ends, NEW n \in TaskNames, SendBody(e, n)
    PROVE  Inv' /\ Silent
<1>p. PICK p : p = Peer(e) /\ p \in Ends /\ p # e /\ Peer(p) = e
    BY PeerFacts
<1>w. PICK w : w = wire[e]
    OBVIOUS
<1>t. PICK t : t = <<e, n>> /\ t \in Tasks
    BY PeerFacts
<1>f. PICK f : f = cur[t]
    OBVIOUS
<1>v. PICK v : v = Append(w, <<"body", f>>)
    OBVIOUS
<1>s. PICK s \in {"recv", "start"} : s = AfterSend(n)
    BY DEF AfterSend
<1>1. /\ pc[t] = "sendBody" /\ holder[e] = n
      /\ wire' = [wire EXCEPT ![e] = v]
      /\ cur' = [cur EXCEPT ![t] = NoFrame]
      /\ Goto(<<e, n>>, s) /\ Unlock(e)
      /\ UNCHANGED <<queue, queued, shut, dead, got>>
      /\ TypeOK /\ WireOK(e) /\ LockOK(e)
    BY <1>w, <1>t, <1>f, <1>v, <1>s DEF SendBody, Owns, Inv
<1>2. w \in Seq(Tokens) /\ Whole(w) /\ f \in Frames
    BY <1>1, <1>t, <1>f, <1>w DEF TypeOK, WireOK, Inv, CurOK
<1>3. IF w # <<>> THEN w[Len(w)] = <<"len", f>>
      ELSE ReaderEnded(Peer(e)) \/ (Reading(e) /\ InHand(e) = f)
    BY <1>1, <1>t, <1>f, <1>w DEF WireOK
<1>4. /\ Whole(v) /\ Announced(v) = Announced(w)
      /\ v \in Seq(Tokens) /\ v # <<>> /\ Len(v) = Len(w) + 1 /\ v[Len(w) + 1] = <<"body", f>>
      /\ w # <<>> => v[1] = w[1]
      /\ w = <<>> => v[1] = <<"body", f>>
    <2>1. <<"body", f>> \in Tokens
        BY <1>2 DEF Tokens
    <2>2. Whole(v) /\ Announced(v) = Announced(w)
        BY <1>2, <1>3, <1>v, AppendPayload
    <2>3. /\ v \in Seq(Tokens) /\ v # <<>> /\ Len(v) = Len(w) + 1 /\ v[Len(w) + 1] = <<"body", f>>
          /\ \A i \in 1 .. Len(w) : v[i] = w[i]
        BY <1>2, <1>v, <2>1, AppendToken
    <2>4. w # <<>> => 1 \in 1 .. Len(w)
        BY <1>2
    <2>5. Len(<<>>) = 0
        OBVIOUS
    <2>6. w = <<>> => Len(w) + 1 = 1
        BY <2>5
    <2> QED BY <2>2, <2>3, <2>4, <2>6
<1>5. /\ wire' \in [Ends -> Seq(Tokens)] /\ wire'[e] = v
      /\ wire'[p] = wire[p]
    BY <1>1, <1>4, <1>p, TokenTyped
<1>6. cur' \in [Tasks -> Frames \cup {NoFrame}] /\ OnlyCur(e, n)
    BY <1>1, <1>t, PeerFacts DEF TypeOK, OnlyCur
<1>7. /\ pc'[t] = s
      /\ \A d \in Ends, m \in TaskNames : d # e \/ m # n => pc'[<<d, m>>] = pc[<<d, m>>]
    BY <1>1, <1>t, Moved
<1>8. /\ \A d \in Ends : LockOK(d)'
      /\ holder' \in [Ends -> TaskNames \cup {Nobody}]
      /\ waiters' \in [Ends -> Seq(TaskNames)]
    BY <1>1, <1>s, LockReleased DEF Needing
<1>9. \A d \in Ends : CurOK(d)'
    BY <1>1, <1>6, CurKept
<1>10. TypeOK'
    <2>1. s \in IF n = "reader" THEN ReaderStates ELSE WriterStates
        BY <1>s DEF AfterSend, TaskNames, ReaderStates, WriterStates
    <2> QED BY <1>1, <1>5, <1>6, <1>8, <2>1, PcTyped DEF TypeOK
<1>11. Unmoved(p) /\ SendersKept(p)
    BY <1>1, <1>5, <1>6, <1>p, <1>t, TaskAlone
<1>12. /\ Reading(e)' <=> Reading(e)
       /\ Reading(e) => InHand(e)' = InHand(e)
       /\ ReaderEnded(Peer(e))' <=> ReaderEnded(Peer(e))
    <2>1. /\ pc'[<<p, "reader">>] = pc[<<p, "reader">>]
          /\ cur'[<<p, "reader">>] = cur[<<p, "reader">>]
        BY <1>6, <1>7, <1>p DEF OnlyCur, TaskNames
    <2> QED BY <1>p, <2>1 DEF Reading, InHand, ReaderEnded
<1>13. WireOK(e)'
    <2>1. ASSUME NEW m \in TaskNames PROVE pc'[<<e, m>>] # "sendBody"
        <3>1. CASE m = n
            BY <1>7, <1>t, <3>1
        <3>2. CASE m # n
            BY <1>1, <1>7, <3>2 DEF LockOK
        <3> QED BY <3>1, <3>2
    <2>2. ~ Halfway(v) /\ v # <<>>
        BY <1>4 DEF Halfway
    <2>3. IF Reading(e)' THEN v[1] = <<"body", InHand(e)'>>
                         ELSE ReaderEnded(Peer(e))' \/ v[1][1] = "len"
        <3>1. CASE w # <<>>
            BY <1>1, <1>4, <1>12, <1>w, <3>1 DEF WireOK
        <3>2. CASE w = <<>>
            <4>1. Reading(e) => ~ ReaderEnded(Peer(e))
                BY DEF Reading, ReaderEnded
            <4> QED BY <1>3, <1>4, <1>12, <3>2, <4>1
        <3> QED BY <3>1, <3>2
    <2> QED BY <1>4, <1>5, <2>1, <2>2, <2>3 DEF WireOK
<1>14. Pending(e)' = Pending(e)
    <2>1. Announced(wire'[e]) = Announced(wire[e])
        BY <1>4, <1>5, <1>w
    <2> QED BY <1>12, <2>1 DEF Pending, Reading, InHand, ReaderEnded
<1>15. Through(e)
    BY <1>12, <1>13, <1>14 DEF Through
<1>16. \A d \in Ends : d = e \/ d = p
    BY <1>p, PeerFacts
<1>17. \A d \in Ends : Stream(d)' = Stream(d) /\ \A k : Asked(Peer(d), k) => Asked(Peer(d), k)'
    <2>1. \A d \in Ends : Pending(d)' = Pending(d)
        BY <1>11, <1>14, <1>16, PendingKept
    <2> QED BY <1>1, <2>1 DEF Stream, Asked
<1>18. Steady(p)
    BY <1>1, <1>6, <1>17, <1>p, ElsewhereSteady
<1>19. Steady(e)
    <2>1. ASSUME NEW m \in TaskNames
          PROVE  \/ pc'[<<e, m>>] \notin {"sendLen", "handle"}
                 \/ pc'[<<e, m>>] = pc[<<e, m>>] /\ cur'[<<e, m>>] = cur[<<e, m>>]
        BY <1>6, <1>7, <1>t DEF OnlyCur
    <2>2. "reader" \in TaskNames /\ "writer" \in TaskNames
        BY DEF TaskNames
    <2> QED BY <1>1, <1>17, <2>1, <2>2 DEF Steady
<1> QED BY <1>1, <1>8, <1>9, <1>10, <1>11, <1>15, <1>16, <1>18, <1>19, SilentStep

-------------------------------------------------------------------------------
\* Frames that move: the steps of Duplex.

\* Nothing in the stream S is numbered like f or after it.
Newest(S, f) == \A i \in 1 .. Len(S) : S[i].task = f.task => S[i].num < f.num

Sent(e, f) ==
    /\ f \in Frames /\ f.from = e /\ Newest(Stream(e), f)
    /\ ~ ReaderEnded(Peer(e)) /\ Pending(e)' = Append(Pending(e), f)
    /\ \A d \in Ends : d # e => Pending(d)' = Pending(d)
    /\ got' = got /\ \A d \in Ends : ReaderEnded(d)' = ReaderEnded(d)

Delivered(e) ==
    /\ Pending(e) # <<>> /\ Pending(e)' = Tail(Pending(e))
    /\ got' = [got EXCEPT ![e] = Append(@, Head(Pending(e)))]
    /\ \A d \in Ends : d # e => Pending(d)' = Pending(d)
    /\ \A d \in Ends : ReaderEnded(d)' = ReaderEnded(d)

WentDown(e) ==
    /\ ~ ReaderEnded(Peer(e)) /\ ReaderEnded(Peer(e))' /\ Pending(e)' = <<>>
    /\ \A d \in Ends : d # e => /\ Pending(d)' = Pending(d)
                               /\ ReaderEnded(Peer(d))' = ReaderEnded(Peer(d))
    /\ got' = got

\* A frame at the end of a stream.
LEMMA StreamGrows ==
    ASSUME NEW S \in Seq(Frames), NEW f \in Frames, Ascending(S), Newest(S, f)
    PROVE  Ascending(Append(S, f))
<1>1. /\ Len(S) \in Nat /\ Len(Append(S, f)) = Len(S) + 1
      /\ \A i \in 1 .. Len(S) : Append(S, f)[i] = S[i]
      /\ Append(S, f)[Len(S) + 1] = f
    BY AppendProperties
<1>2. PICK T : T = Append(S, f)
    OBVIOUS
<1>3. ASSUME NEW i \in 1 .. Len(T), NEW j \in 1 .. Len(T), i < j, T[i].task = T[j].task
      PROVE  T[i].num < T[j].num
    <2>1. i \in 1 .. Len(S) /\ (j \in 1 .. Len(S) \/ j = Len(S) + 1)
        BY <1>1, <1>2, <1>3
    <2>2. T[i] = S[i] /\ (j \in 1 .. Len(S) => T[j] = S[j]) /\ (j = Len(S) + 1 => T[j] = f)
        BY <1>1, <1>2, <2>1
    <2> QED BY <1>3, <2>1, <2>2 DEF Ascending, Newest
<1> QED BY <1>2, <1>3 DEF Ascending

\* The length of f goes onto the stream of e.
LEMMA SendLenFacts ==
    ASSUME Inv, NEW e \in Ends, NEW n \in TaskNames, SendLen(e, n)
    PROVE  LET f == cur[<<e, n>>] IN
           /\ f \in Frames /\ f.from = e /\ f.task = n
           /\ ~ Halfway(wire[e]) /\ ~ (wire[e] = <<>> /\ Reading(e))
           /\ Newest(Stream(e), f)
<1>f. PICK f : f = cur[<<e, n>>]
    OBVIOUS
<1>1. /\ pc[<<e, n>>] = "sendLen" /\ holder[e] = n /\ ~ dead[e] /\ ~ shut[e]
      /\ LockOK(e) /\ CurOK(e) /\ WireOK(e) /\ OrderOK(e)
    BY DEF SendLen, Owns, CanWrite, Inv
<1>2. f \in Frames /\ f.from = e /\ f.task = n
    BY <1>1, <1>f DEF CurOK
<1>3. \A m \in TaskNames : pc[<<e, m>>] # "sendBody"
    BY <1>1 DEF LockOK
<1>4. ~ Halfway(wire[e]) /\ ~ (wire[e] = <<>> /\ Reading(e))
    BY <1>1, <1>3 DEF WireOK
<1>5. PICK S : S = Stream(e)
    OBVIOUS
<1>6. AfterStream(e, S) /\ RepliesOK(e, S)
    BY <1>1, <1>5 DEF OrderOK
<1>7. n = "writer" => Newest(S, f)
    BY <1>1, <1>2, <1>6, <1>f DEF AfterStream, Newest
<1>8. n = "reader" => Newest(S, f)
    BY <1>1, <1>2, <1>6, <1>f DEF RepliesOK, Newest
<1>9. Newest(Stream(e), f)
    BY <1>5, <1>7, <1>8 DEF TaskNames
<1> QED BY <1>2, <1>4, <1>9, <1>f

LEMMA SendLenStep ==
    ASSUME Inv, NEW e \in Ends, NEW n \in TaskNames, SendLen(e, n)
    PROVE  Inv' /\ (Silent \/ Sent(e, cur[<<e, n>>]))
<1>p. PICK p : p = Peer(e) /\ p \in Ends /\ p # e /\ Peer(p) = e
    BY PeerFacts
<1>w. PICK w : w = wire[e]
    OBVIOUS
<1>t. PICK t : t = <<e, n>> /\ t \in Tasks
    BY PeerFacts
<1>f. PICK f : f = cur[t]
    OBVIOUS
<1>v. PICK v : v = Append(w, <<"len", f>>)
    OBVIOUS
<1>S. PICK S : S = Stream(e)
    OBVIOUS
<1>1. /\ pc[t] = "sendLen" /\ holder[e] = n /\ ~ dead[e] /\ ~ shut[e]
      /\ wire' = [wire EXCEPT ![e] = v]
      /\ Goto(<<e, n>>, "sendBody")
      /\ UNCHANGED <<queue, queued, cur, holder, waiters, shut, dead, got>>
      /\ TypeOK /\ WireOK(e) /\ LockOK(e) /\ OrderOK(e)
    BY <1>w, <1>t, <1>f, <1>v DEF SendLen, Owns, CanWrite, Inv
<1>2. /\ f \in Frames /\ f.from = e /\ f.task = n
      /\ ~ Halfway(w) /\ ~ (w = <<>> /\ Reading(e)) /\ Newest(S, f)
    BY <1>t, <1>f, <1>w, <1>S, SendLenFacts
<1>3. w \in Seq(Tokens) /\ Whole(w)
    BY <1>1, <1>w DEF TypeOK, WireOK
<1>4. /\ Whole(v) /\ Announced(v) = Append(Announced(w), f)
      /\ v \in Seq(Tokens) /\ v # <<>> /\ v[Len(v)] = <<"len", f>>
      /\ w # <<>> => v[1] = w[1]
      /\ w = <<>> => v[1] = <<"len", f>>
    <2>1. <<"len", f>> \in Tokens
        BY <1>2 DEF Tokens
    <2>2. Whole(v) /\ Announced(v) = Append(Announced(w), f)
        BY <1>2, <1>3, <1>v, AppendLength
    <2>3. /\ v \in Seq(Tokens) /\ v # <<>> /\ Len(v) = Len(w) + 1 /\ v[Len(w) + 1] = <<"len", f>>
          /\ \A i \in 1 .. Len(w) : v[i] = w[i]
        BY <1>3, <1>v, <2>1, AppendToken
    <2>4. w # <<>> => 1 \in 1 .. Len(w)
        BY <1>3
    <2>5. Len(<<>>) = 0
        OBVIOUS
    <2>6. w = <<>> => Len(w) + 1 = 1
        BY <2>5
    <2> QED BY <2>2, <2>3, <2>4, <2>6
<1>5. /\ wire' \in [Ends -> Seq(Tokens)] /\ wire'[e] = v
      /\ wire'[p] = wire[p]
    BY <1>1, <1>4, <1>p, TokenTyped
<1>6. OnlyCur(e, n) /\ cur'[t] = f
    BY <1>1, <1>f DEF OnlyCur
<1>7. /\ pc'[t] = "sendBody"
      /\ \A d \in Ends, m \in TaskNames : d # e \/ m # n => pc'[<<d, m>>] = pc[<<d, m>>]
    BY <1>1, <1>t, Moved
<1>8. /\ \A d \in Ends : LockOK(d)'
      /\ holder' \in [Ends -> TaskNames \cup {Nobody}]
      /\ waiters' \in [Ends -> Seq(TaskNames)]
    BY <1>1, LockKept DEF Needing
<1>9. \A d \in Ends : CurOK(d)'
    BY <1>1, <1>2, <1>6, <1>t, CurKept
<1>10. TypeOK'
    <2>1. "sendBody" \in IF n = "reader" THEN ReaderStates ELSE WriterStates
        BY DEF ReaderStates, WriterStates
    <2>2. /\ pc' \in [Tasks -> ReaderStates \cup WriterStates]
          /\ \A d \in Ends : /\ pc'[<<d, "reader">>] \in ReaderStates
                             /\ pc'[<<d, "writer">>] \in WriterStates
        BY <1>1, <2>1, PcTyped
    <2> QED BY <1>1, <1>5, <1>8, <2>2 DEF TypeOK
<1>11. Unmoved(p) /\ SendersKept(p)
    BY <1>1, <1>5, <1>6, <1>p, <1>t, TaskAlone
<1>12. /\ Reading(e)' <=> Reading(e)
       /\ InHand(e)' = InHand(e)
       /\ ReaderEnded(Peer(e))' <=> ReaderEnded(Peer(e))
    <2>1. /\ pc'[<<p, "reader">>] = pc[<<p, "reader">>]
          /\ cur'[<<p, "reader">>] = cur[<<p, "reader">>]
        BY <1>6, <1>7, <1>p DEF OnlyCur, TaskNames
    <2> QED BY <1>p, <2>1 DEF Reading, InHand, ReaderEnded
<1>13. WireOK(e)'
    <2>1. ASSUME NEW m \in TaskNames, pc'[<<e, m>>] = "sendBody"
          PROVE  v[Len(v)] = <<"len", cur'[<<e, m>>]>>
        <3>1. CASE m = n
            BY <1>4, <1>6, <1>t, <3>1
        <3>2. CASE m # n
            BY <1>1, <1>7, <2>1, <3>2 DEF LockOK
        <3> QED BY <3>1, <3>2
    <2>2. \E m \in TaskNames : pc'[<<e, m>>] = "sendBody"
        BY <1>7, <1>t
    <2>3. IF Reading(e)' THEN v[1] = <<"body", InHand(e)'>>
                         ELSE ReaderEnded(Peer(e))' \/ v[1][1] = "len"
        <3>1. CASE w # <<>>
            BY <1>1, <1>4, <1>12, <1>w, <3>1 DEF WireOK
        <3>2. CASE w = <<>>
            BY <1>2, <1>4, <1>12, <3>2
        <3> QED BY <3>1, <3>2
    <2> QED BY <1>4, <1>5, <2>1, <2>2, <2>3 DEF WireOK
<1>14. WireOK(p)'
    BY <1>11, <1>p, WireKept DEF Inv
<1>15. Pending(p)' = Pending(p)
    BY <1>11, <1>p, PendingKept
<1>16. \A d \in Ends : d = e \/ d = p
    BY <1>p, PeerFacts
<1>17. Pending(e)' = IF ReaderEnded(Peer(e)) THEN <<>> ELSE Append(Pending(e), f)
    <2>1. Announced(w) \in Seq(Frames) /\ (Reading(e) => InHand(e) \in Frames)
        BY <1>w, StreamTyped
    <2>2. Pending(e)' = IF ReaderEnded(Peer(e)) THEN <<>>
                        ELSE (IF Reading(e) THEN <<InHand(e)>> ELSE <<>>) \o Append(Announced(w), f)
        BY <1>4, <1>5, <1>12 DEF Pending, Reading, InHand, ReaderEnded
    <2>3. Pending(e) = IF ReaderEnded(Peer(e)) THEN <<>>
                       ELSE (IF Reading(e) THEN <<InHand(e)>> ELSE <<>>) \o Announced(w)
        BY <1>w DEF Pending, Reading, InHand, ReaderEnded
    <2>4. PICK x : x = IF Reading(e) THEN <<InHand(e)>> ELSE <<>>
        OBVIOUS
    <2>5. x \in Seq(Frames)
        BY <2>1, <2>4
    <2>6. x \o Append(Announced(w), f) = Append(x \o Announced(w), f)
        BY <1>2, <2>1, <2>5, ConcatAppend
    <2> QED BY <2>2, <2>3, <2>4, <2>6
<1>18. Stream(e)' = IF ReaderEnded(Peer(e)) THEN S ELSE Append(S, f)
    <2>1. Pending(e) \in Seq(Frames) /\ got[e] \in Seq(Frames) /\ S = got[e] \o Pending(e)
        BY <1>S, StreamTyped DEF Stream
    <2>2. got[e] \o Append(Pending(e), f) = Append(got[e] \o Pending(e), f)
        <3>1. PICK g, a : g = got[e] /\ a = Pending(e)
            OBVIOUS
        <3>2. g \in Seq(Frames) /\ a \in Seq(Frames) /\ f \in Frames
            BY <1>2, <2>1, <3>1
        <3>3. g \o Append(a, f) = Append(g \o a, f)
            BY <3>2, ConcatAppend
        <3> QED BY <3>1, <3>3
    <2>3. ReaderEnded(Peer(e)) => Pending(e) = <<>>
        BY DEF Pending, ReaderEnded
    <2>4. Stream(e)' = got[e] \o Pending(e)'
        BY <1>1 DEF Stream
    <2> QED BY <1>17, <2>1, <2>2, <2>3, <2>4
<1>19. Steady(p)
    <2>1. Stream(p)' = Stream(p) /\ \A k : Asked(Peer(p), k) => Asked(Peer(p), k)'
        BY <1>1, <1>15 DEF Stream, Asked
    <2> QED BY <1>1, <1>6, <1>p, <2>1, ElsewhereSteady
<1>20. OrderOK(p)'
    BY <1>19, <1>p, OrderKept DEF Inv
<1>21. OrderOK(e)'
    <2>1. S \in Seq(Frames) /\ Ascending(S) /\ AfterStream(e, S) /\ RepliesOK(e, S) /\ QueueOK(e)
        BY <1>1, <1>S, StreamTyped DEF OrderOK
    <2>2. PICK T : T = IF ReaderEnded(Peer(e)) THEN S ELSE Append(S, f)
        OBVIOUS
    <2>3. Stream(e)' = T
        BY <1>18, <2>2
    <2>4. Ascending(T)
        BY <1>2, <2>1, <2>2, StreamGrows
    <2>5. \A i \in 1 .. Len(T) : (i \in 1 .. Len(S) /\ T[i] = S[i]) \/ T[i] = f
        <3>1. /\ Len(S) \in Nat /\ Len(Append(S, f)) = Len(S) + 1
              /\ \A i \in 1 .. Len(S) : Append(S, f)[i] = S[i]
              /\ Append(S, f)[Len(S) + 1] = f
            BY <1>2, <2>1, AppendProperties
        <3>2. CASE T = S
            BY <3>2
        <3>3. CASE T = Append(S, f)
            <4>1. \A i \in 1 .. Len(T) : i \in 1 .. Len(S) \/ i = Len(S) + 1
                BY <3>1, <3>3
            <4> QED BY <3>1, <3>3, <4>1
        <3> QED BY <2>2, <3>2, <3>3
    <2>6. ASSUME NEW m \in TaskNames
          PROVE  /\ pc'[<<e, m>>] # "sendBody" => pc'[<<e, m>>] = pc[<<e, m>>]
                 /\ cur'[<<e, m>>] = cur[<<e, m>>]
        BY <1>1, <1>7, <1>t
    <2>7. "reader" \in TaskNames /\ "writer" \in TaskNames
        BY DEF TaskNames
    <2>8. QueueOK(e)'
        BY <1>1, <2>1, <2>6, <2>7 DEF QueueOK
    <2>9. AfterStream(e, T)'
        <3>1. ASSUME NEW i \in 1 .. Len(T), T[i].task = "writer"
              PROVE  /\ T[i].num <= queued[e]
                     /\ \A k \in 1 .. Len(queue[e]) : T[i].num < queue[e][k].num
                     /\ pc'[<<e, "writer">>] = "sendLen" => T[i].num < cur[<<e, "writer">>].num
            <4>1. CASE i \in 1 .. Len(S) /\ T[i] = S[i]
                BY <2>1, <2>6, <2>7, <3>1, <4>1 DEF AfterStream
            <4>2. CASE T[i] = f
                <5>1. n = "writer"
                    BY <1>2, <3>1, <4>2
                <5>2. pc'[<<e, "writer">>] = "sendBody" /\ pc[<<e, "writer">>] = "sendLen"
                      /\ f = cur[<<e, "writer">>]
                    BY <1>1, <1>7, <1>t, <1>f, <5>1
                <5> QED BY <2>1, <4>2, <5>2 DEF QueueOK
            <4> QED BY <2>5, <4>1, <4>2
        <3> QED BY <1>1, <3>1 DEF AfterStream
    <2>10. RepliesOK(e, T)'
        <3>1. \A k : Asked(Peer(e), k)' <=> Asked(Peer(e), k)
            BY <1>1 DEF Asked
        <3>2. ASSUME NEW i \in 1 .. Len(T), T[i].task = "reader" PROVE Asked(Peer(e), T[i].num)
            <4>1. CASE i \in 1 .. Len(S) /\ T[i] = S[i]
                BY <2>1, <3>2, <4>1 DEF RepliesOK
            <4>2. CASE T[i] = f
                <5>1. n = "reader"
                    BY <1>2, <3>2, <4>2
                <5>2. pc[<<e, "reader">>] = "sendLen" /\ f = cur[<<e, "reader">>]
                    BY <1>1, <1>t, <1>f, <5>1
                <5> QED BY <2>1, <4>2, <5>2 DEF RepliesOK
            <4> QED BY <2>5, <4>1, <4>2
        <3>3. ASSUME \/ pc'[<<e, "reader">>] = "handle" /\ cur'[<<e, "reader">>].task = "writer"
                     \/ pc'[<<e, "reader">>] = "sendLen"
              PROVE  /\ Asked(Peer(e), cur'[<<e, "reader">>].num)
                     /\ \A i \in 1 .. Len(T) : T[i].task = "reader"
                           => T[i].num < cur'[<<e, "reader">>].num
            <4>1. /\ pc'[<<e, "reader">>] = pc[<<e, "reader">>]
                  /\ cur'[<<e, "reader">>] = cur[<<e, "reader">>]
                BY <2>6, <2>7, <3>3
            <4>2. n = "writer"
                BY <1>7, <1>t, <3>3 DEF TaskNames
            <4>3. \A i \in 1 .. Len(T) : T[i].task = "reader" => i \in 1 .. Len(S) /\ T[i] = S[i]
                BY <1>2, <2>5, <4>2
            <4> QED BY <2>1, <3>3, <4>1, <4>3 DEF RepliesOK
        <3> QED BY <3>1, <3>2, <3>3 DEF RepliesOK
    <2> QED BY <2>3, <2>4, <2>8, <2>9, <2>10 DEF OrderOK, Ascending, AfterStream, RepliesOK
<1>22. Inv'
    BY <1>8, <1>9, <1>10, <1>13, <1>14, <1>16, <1>20, <1>21 DEF Inv
<1>23. \A d \in Ends : ReaderEnded(d)' = ReaderEnded(d)
    <2>1. ReaderEnded(p)' = ReaderEnded(p)
        BY <1>12, <1>p DEF ReaderEnded
    <2>2. ReaderEnded(e)' = ReaderEnded(e)
        BY <1>11, <1>p DEF Unmoved, ReaderEnded
    <2> QED BY <1>16, <2>1, <2>2
<1>24. CASE ReaderEnded(Peer(e))
    <2>1. Pending(e)' = Pending(e)
        BY <1>17, <1>24 DEF Pending, ReaderEnded
    <2> QED BY <1>1, <1>15, <1>16, <1>22, <1>23, <2>1 DEF Silent
<1>25. CASE ~ ReaderEnded(Peer(e))
    <2>1. Sent(e, f)
        BY <1>1, <1>2, <1>15, <1>16, <1>17, <1>23, <1>25, <1>S DEF Sent
    <2> QED BY <1>22, <1>f, <1>t, <2>1
<1> QED BY <1>24, <1>25

LEMMA ReadBodyStep ==
    ASSUME Inv, NEW e \in Ends, ReadBody(e)
    PROVE  Inv' /\ Delivered(Peer(e))
<1>p. PICK p : p = Peer(e) /\ p \in Ends /\ p # e /\ Peer(p) = e
    BY PeerFacts
<1>w. PICK w : w = wire[p]
    OBVIOUS
<1>r. PICK r : r = <<e, "reader">> /\ r \in Tasks /\ "reader" \in TaskNames
    BY PeerFacts DEF TaskNames
<1>f. PICK f : f = cur[r]
    OBVIOUS
<1>g. PICK g : g = got[p]
    OBVIOUS
<1>v. PICK v : v = Tail(w)
    OBVIOUS
<1>1. /\ pc[r] = "readBody" /\ holder[e] = "reader" /\ w # <<>>
      /\ got' = [got EXCEPT ![p] = Append(g, Head(w)[2])]
      /\ wire' = [wire EXCEPT ![p] = v]
      /\ Goto(<<e, "reader">>, "handle") /\ Unlock(e)
      /\ UNCHANGED <<queue, queued, cur, shut, dead>>
      /\ TypeOK /\ WireOK(p) /\ CurOK(e) /\ OrderOK(p) /\ OrderOK(e)
    BY <1>p, <1>w, <1>r, <1>g, <1>v DEF ReadBody, Owns, Inv
<1>2. /\ w \in Seq(Tokens) /\ Whole(w) /\ f \in Frames /\ f.num \in Nat /\ g \in Seq(Frames)
      /\ Reading(p) /\ InHand(p) = f /\ ~ ReaderEnded(e)
    BY <1>1, <1>p, <1>w, <1>r, <1>f, <1>g, FrameFacts
    DEF TypeOK, WireOK, CurOK, Reading, InHand, ReaderEnded
<1>3. w[1] = <<"body", f>>
    BY <1>1, <1>2, <1>w DEF WireOK
<1>4. /\ v \in Seq(Tokens) /\ Whole(v) /\ Announced(v) = Announced(w) /\ Head(w) = <<"body", f>>
      /\ Halfway(v) => Halfway(w)
      /\ v # <<>> => v[Len(v)] = w[Len(w)] /\ v[1][1] = "len"
    BY <1>1, <1>2, <1>3, <1>v, ReadToken
<1>5. v = <<>> => w[Len(w)] = <<"body", f>>
    <2>1. Len(v) = Len(w) - 1 /\ Len(w) \in Nat
        BY <1>1, <1>2, <1>v, HeadTailProperties
    <2>2. Len(<<>>) = 0
        OBVIOUS
    <2>3. v = <<>> => Len(w) = 1
        BY <2>1, <2>2
    <2> QED BY <1>3, <2>3
<1>6. /\ wire' \in [Ends -> Seq(Tokens)] /\ wire'[p] = v
      /\ wire'[e] = wire[e]
    BY <1>1, <1>4, <1>p, TokenTyped
<1>7. /\ Append(g, f) \in Seq(Frames) /\ Len(g) \in Nat /\ Len(Append(g, f)) = Len(g) + 1
      /\ \A i \in 1 .. Len(g) : Append(g, f)[i] = g[i]
      /\ Append(g, f)[Len(g) + 1] = f
    BY <1>2, AppendProperties
<1>8. /\ got' \in [Ends -> Seq(Frames)] /\ got'[p] = Append(g, f) /\ got'[e] = got[e]
      /\ got' = [got EXCEPT ![p] = Append(g, f)]
    <2>1. Head(w)[2] = f
        BY <1>4
    <2>2. PICK a : a = Append(g, f)
        OBVIOUS
    <2>3. got' = [got EXCEPT ![p] = a] /\ a \in Seq(Frames)
        BY <1>1, <1>7, <2>1, <2>2
    <2>4. got' \in [Ends -> Seq(Frames)] /\ got'[p] = a /\ got'[e] = got[e]
        BY <1>1, <1>p, <2>3 DEF TypeOK
    <2> QED BY <2>2, <2>3, <2>4
<1>9. /\ pc'[r] = "handle"
      /\ \A d \in Ends, m \in TaskNames : d # e \/ m # "reader" => pc'[<<d, m>>] = pc[<<d, m>>]
    BY <1>1, <1>r, Moved
<1>10. /\ \A d \in Ends : LockOK(d)'
       /\ holder' \in [Ends -> TaskNames \cup {Nobody}]
       /\ waiters' \in [Ends -> Seq(TaskNames)]
    BY <1>1, <1>r, LockReleased DEF Needing
<1>11. OnlyCur(e, "reader") /\ cur'[r] = f
    BY <1>1, <1>f DEF OnlyCur
<1>12. \A d \in Ends : CurOK(d)'
    BY <1>1, <1>2, <1>11, <1>r, CurKept
<1>13. TypeOK'
    <2>1. "handle" \in ReaderStates
        BY DEF ReaderStates
    <2>2. /\ pc' \in [Tasks -> ReaderStates \cup WriterStates]
          /\ \A d \in Ends : /\ pc'[<<d, "reader">>] \in ReaderStates
                             /\ pc'[<<d, "writer">>] \in WriterStates
        BY <1>1, <1>r, <2>1, PcTyped
    <2> QED BY <1>1, <1>6, <1>8, <1>10, <2>2 DEF TypeOK
<1>14. Unmoved(e) /\ SendersKept(e)
    BY <1>1, <1>6, <1>11, <1>r, TaskAlone
<1>15. WireOK(e)' /\ Pending(e)' = Pending(e)
    BY <1>14, WireKept, PendingKept DEF Inv
<1>16. ~ Reading(p)' /\ ~ ReaderEnded(e)'
    BY <1>9, <1>p, <1>r DEF Reading, ReaderEnded
<1>17. WireOK(p)'
    <2>1. ASSUME NEW n \in TaskNames, pc'[<<p, n>>] = "sendBody"
          PROVE  v # <<>> /\ v[Len(v)] = <<"len", cur'[<<p, n>>]>>
        <3>1. pc[<<p, n>>] = "sendBody"
            BY <1>9, <1>p, <2>1
        <3>2. w[Len(w)] = <<"len", cur[<<p, n>>]>>
            BY <1>1, <1>w, <3>1 DEF WireOK
        <3>3. v # <<>>
            BY <1>5, <3>2
        <3> QED BY <1>1, <1>4, <3>2, <3>3
    <2>2. Halfway(v) => dead'[p] \/ shut'[p] \/ \E n \in TaskNames : pc'[<<p, n>>] = "sendBody"
        BY <1>1, <1>4, <1>9, <1>p, <1>w DEF WireOK
    <2> QED BY <1>4, <1>6, <1>16, <2>1, <2>2 DEF WireOK
<1>18. /\ Pending(p) = <<f>> \o Announced(w) /\ Pending(p)' = Announced(w)
       /\ Announced(w) \in Seq(Frames)
    <2>1. Announced(w) \in Seq(Frames) /\ <<>> \o Announced(w) = Announced(w)
        BY <1>2, AnnouncedFacts, ConcatEmptySeq
    <2>2. Pending(p) = <<f>> \o Announced(w)
        BY <1>2, <1>p, <1>w, StreamTyped
    <2>3. Pending(p)' = <<>> \o Announced(v)
        BY <1>6, <1>16, <1>p DEF Pending, Reading, ReaderEnded
    <2> QED BY <1>4, <2>1, <2>2, <2>3
<1>19. PICK a : a = Announced(w)
    OBVIOUS
<1>20. /\ <<f>> \o a # <<>> /\ Head(<<f>> \o a) = f /\ Tail(<<f>> \o a) = a
       /\ (<<f>> \o a)[1] = f
       /\ Len(<<f>> \o a) >= 1 /\ Len(<<f>> \o a) \in Nat
    <2>1. a \in Seq(Frames) /\ <<f>> \in Seq(Frames) /\ Len(<<f>>) = 1 /\ <<f>>[1] = f
        BY <1>2, <1>18, <1>19
    <2>2. PICK b : b = <<f>> \o a
        OBVIOUS
    <2>3. /\ b \in Seq(Frames) /\ Len(b) = 1 + Len(a) /\ Len(a) \in Nat
          /\ \A i \in 1 .. 1 + Len(a) : b[i] = IF i <= 1 THEN f ELSE a[i - 1]
        BY <2>1, <2>2, ConcatProperties
    <2>4. Len(b) >= 1 /\ b # <<>> /\ Head(b) = f /\ b[1] = f
        BY <2>3
    <2>5. /\ Tail(b) \in Seq(Frames) /\ Len(Tail(b)) = Len(b) - 1
          /\ \A i \in 1 .. Len(b) - 1 : Tail(b)[i] = b[i + 1]
        BY <2>3, <2>4, HeadTailProperties
    <2>6. ASSUME NEW i \in 1 .. Len(a) PROVE Tail(b)[i] = a[i]
        <3>1. i \in 1 .. Len(b) - 1 /\ i + 1 \in 1 .. 1 + Len(a) /\ ~ (i + 1 <= 1) /\ (i + 1) - 1 = i
            BY <2>3
        <3> QED BY <2>3, <2>5, <3>1
    <2>7. Len(Tail(b)) = Len(a)
        BY <2>3, <2>5
    <2>8. Tail(b) = a
        BY <2>1, <2>5, <2>6, <2>7, SeqEqual
    <2> QED BY <2>2, <2>3, <2>4, <2>8
<1>21. Stream(p)' = Stream(p) /\ Stream(p) = g \o (<<f>> \o a)
    <2>1. Append(g, f) \o a = g \o (<<f>> \o a)
        BY <1>2, <1>18, <1>19, ConcatAppend
    <2> QED BY <1>8, <1>18, <1>19, <1>g, <2>1 DEF Stream
<1>22. \A k : Asked(p, k) => Asked(p, k)'
    <2> SUFFICES ASSUME NEW k, Asked(p, k) PROVE Asked(p, k)'
        OBVIOUS
    <2>1. PICK i \in 1 .. Len(g) : g[i].task = "writer" /\ k <= g[i].num
        BY <1>g DEF Asked
    <2>2. i \in 1 .. Len(Append(g, f)) /\ Append(g, f)[i] = g[i]
        BY <1>7
    <2> QED BY <1>8, <2>1, <2>2 DEF Asked
<1>23. Steady(p)
    <2>1. \A k : Asked(Peer(p), k) => Asked(Peer(p), k)'
        BY <1>8, <1>p DEF Asked
    <2> QED BY <1>1, <1>11, <1>21, <1>p, <1>r, <2>1, ElsewhereSteady
<1>24. OrderOK(p)'
    BY <1>1, <1>p, <1>23, OrderKept
<1>25. OrderOK(e)'
    <2>1. PICK S : S = Stream(e)
        OBVIOUS
    <2>2. /\ Stream(e)' = S /\ S \in Seq(Frames)
          /\ QueueOK(e) /\ Ascending(S) /\ AfterStream(e, S) /\ RepliesOK(e, S)
        BY <1>1, <1>8, <1>15, <2>1, StreamTyped DEF Stream, OrderOK
    <2>3. pc'[<<e, "writer">>] = pc[<<e, "writer">>]
        BY <1>9 DEF TaskNames
    <2>4. QueueOK(e)'
        BY <1>1, <2>2, <2>3 DEF QueueOK
    <2>5. AfterStream(e, S)'
        BY <1>1, <2>2, <2>3 DEF AfterStream
    <2>6. ASSUME f.task = "writer"
          PROVE  /\ Asked(p, f.num)'
                 /\ \A i \in 1 .. Len(S) : S[i].task = "reader" => S[i].num < f.num
        <3>1. Asked(p, f.num)'
            <4>1. Len(g) + 1 \in 1 .. Len(Append(g, f)) /\ f.num <= f.num
                BY <1>2, <1>7
            <4> QED BY <1>7, <1>8, <2>6, <4>1 DEF Asked
        <3>2. ASSUME NEW i \in 1 .. Len(S), S[i].task = "reader" PROVE S[i].num < f.num
            <4>1. Asked(p, S[i].num)
                BY <1>p, <2>2, <3>2 DEF RepliesOK
            <4>2. PICK j \in 1 .. Len(g) : g[j].task = "writer" /\ S[i].num <= g[j].num
                BY <1>g, <4>1 DEF Asked
            <4>3. PICK T : T = Stream(p)
                OBVIOUS
            <4>4. PICK b : b = <<f>> \o a
                OBVIOUS
            <4>5. b \in Seq(Frames) /\ b[1] = f /\ Len(b) >= 1 /\ Len(b) \in Nat
                BY <1>2, <1>18, <1>19, <1>20, <4>4, ConcatAppend
            <4>6. /\ T = g \o b /\ Len(T) = Len(g) + Len(b)
                  /\ \A x \in 1 .. Len(g) + Len(b) :
                        T[x] = IF x <= Len(g) THEN g[x] ELSE b[x - Len(g)]
                BY <1>2, <1>21, <4>3, <4>4, <4>5, ConcatProperties
            <4>7. /\ j \in 1 .. Len(T) /\ Len(g) + 1 \in 1 .. Len(T) /\ j < Len(g) + 1
                  /\ T[j] = g[j]
                BY <1>7, <4>5, <4>6
            <4>8. T[Len(g) + 1] = f
                <5>1. Len(g) + 1 \in 1 .. Len(g) + Len(b) /\ ~ (Len(g) + 1 <= Len(g))
                      /\ (Len(g) + 1) - Len(g) = 1
                    BY <1>7, <4>5
                <5> QED BY <4>5, <4>6, <5>1
            <4>9. g[j].num < f.num
                BY <1>1, <2>6, <4>2, <4>3, <4>7, <4>8 DEF OrderOK, Ascending
            <4>10. S[i].num \in Nat /\ g[j].num \in Nat
                <5>1. S[i] \in Frames /\ g[j] \in Frames
                    BY <1>2, <2>2
                <5> QED BY <5>1, FrameFacts
            <4> QED BY <1>2, <4>2, <4>9, <4>10
        <3> QED BY <3>1, <3>2
    <2>7. RepliesOK(e, S)'
        <3>1. \A i \in 1 .. Len(S) : S[i].task = "reader" => Asked(Peer(e), S[i].num)'
            BY <1>22, <1>p, <2>2 DEF RepliesOK
        <3>2. (pc'[r] = "handle" /\ cur'[r].task = "writer") \/ pc'[r] = "sendLen" => f.task = "writer"
            BY <1>9, <1>11
        <3> QED BY <1>11, <1>p, <1>r, <2>6, <3>1, <3>2 DEF RepliesOK
    <2> QED BY <2>2, <2>4, <2>5, <2>7 DEF OrderOK, Ascending, AfterStream, RepliesOK
<1>26. \A d \in Ends : d = e \/ d = p
    BY <1>p, PeerFacts
<1>27. Inv'
    BY <1>10, <1>12, <1>13, <1>15, <1>17, <1>24, <1>25, <1>26 DEF Inv
<1>28. \A d \in Ends : ReaderEnded(d)' = ReaderEnded(d)
    <2>1. ReaderEnded(p)' = ReaderEnded(p)
        BY <1>9, <1>p, <1>r DEF ReaderEnded
    <2>2. ReaderEnded(e)' = ReaderEnded(e)
        BY <1>2, <1>16 DEF ReaderEnded
    <2> QED BY <1>26, <2>1, <2>2
<1>29. Delivered(p)
    <2>1. Pending(p) = <<f>> \o a /\ Pending(p)' = a
        BY <1>18, <1>19
    <2>2. got' = [got EXCEPT ![p] = Append(got[p], Head(Pending(p)))]
        BY <1>8, <1>20, <1>g, <2>1
    <2> QED BY <1>15, <1>20, <1>26, <1>28, <2>1, <2>2 DEF Delivered
<1> QED BY <1>27, <1>29, <1>p

LEMMA ReadErrorStep ==
    ASSUME Inv, NEW e \in Ends, ReadError(e)
    PROVE  Inv' /\ WentDown(Peer(e))
<1>p. PICK p : p = Peer(e) /\ p \in Ends /\ p # e /\ Peer(p) = e
    BY PeerFacts
<1>r. PICK r : r = <<e, "reader">> /\ r \in Tasks /\ "reader" \in TaskNames
    BY PeerFacts DEF TaskNames
<1>g. PICK g : g = got[p]
    OBVIOUS
<1>1. /\ pc[r] \in {"readLen", "readBody"} /\ holder[e] = "reader"
      /\ Goto(<<e, "reader">>, "ended") /\ Unlock(e)
      /\ UNCHANGED <<queue, queued, cur, wire, shut, dead, got>>
      /\ TypeOK /\ WireOK(p) /\ OrderOK(p) /\ OrderOK(e)
    BY <1>p, <1>r DEF ReadError, Owns, Inv
<1>2. /\ pc'[r] = "ended"
      /\ \A d \in Ends, m \in TaskNames : d # e \/ m # "reader" => pc'[<<d, m>>] = pc[<<d, m>>]
    BY <1>1, <1>r, Moved
<1>3. /\ \A d \in Ends : LockOK(d)'
      /\ holder' \in [Ends -> TaskNames \cup {Nobody}]
      /\ waiters' \in [Ends -> Seq(TaskNames)]
    BY <1>1, <1>r, LockReleased DEF Needing
<1>4. OnlyCur(e, "reader")
    BY <1>1 DEF OnlyCur
<1>5. \A d \in Ends : CurOK(d)'
    BY <1>1, <1>4, <1>r, CurKept
<1>6. TypeOK'
    BY <1>1, <1>3, <1>r, PcTyped DEF TypeOK, ReaderStates
<1>7. Unmoved(e) /\ SendersKept(e)
    BY <1>1, <1>4, <1>r, TaskAlone
<1>8. WireOK(e)' /\ Pending(e)' = Pending(e)
    BY <1>7, WireKept, PendingKept DEF Inv
<1>9. ReaderEnded(Peer(p))' /\ ~ ReaderEnded(Peer(p)) /\ ~ Reading(p)'
    BY <1>1, <1>2, <1>p, <1>r DEF Reading, ReaderEnded
<1>10. WireOK(p)'
    <2>1. \A n \in TaskNames : pc'[<<p, n>>] = pc[<<p, n>>] /\ cur'[<<p, n>>] = cur[<<p, n>>]
        BY <1>1, <1>2, <1>p
    <2>2. \A n \in TaskNames : pc'[<<p, n>>] = "sendBody" =>
             IF wire'[p] # <<>> THEN wire'[p][Len(wire'[p])] = <<"len", cur'[<<p, n>>]>>
             ELSE ReaderEnded(Peer(p))'
        BY <1>1, <1>9, <2>1 DEF WireOK
    <2>3. Halfway(wire'[p]) =>
             dead'[p] \/ shut'[p] \/ \E n \in TaskNames : pc'[<<p, n>>] = "sendBody"
        BY <1>1, <2>1 DEF WireOK
    <2>4. Whole(wire'[p])
        BY <1>1 DEF WireOK
    <2> QED BY <1>9, <2>2, <2>3, <2>4 DEF WireOK
<1>11. Pending(p)' = <<>>
    BY <1>9 DEF Pending, ReaderEnded
<1>12. PICK S, T : S = Stream(p) /\ T = Stream(p)'
    OBVIOUS
<1>13. /\ T = g /\ S \in Seq(Frames) /\ T \in Seq(Frames)
       /\ \A i \in 1 .. Len(T) : i \in 1 .. Len(S) /\ T[i] = S[i]
    <2>1. g \in Seq(Frames) /\ Pending(p) \in Seq(Frames) /\ S = g \o Pending(p)
        BY <1>g, <1>p, <1>12, StreamTyped DEF Stream
    <2>2. T = g \o <<>> /\ g \o <<>> = g
        BY <1>1, <1>11, <1>12, <1>g, <2>1, ConcatEmptySeq DEF Stream
    <2>3. PICK a : a = Pending(p)
        OBVIOUS
    <2>4. /\ S \in Seq(Frames) /\ Len(S) = Len(g) + Len(a) /\ Len(g) \in Nat /\ Len(a) \in Nat
          /\ \A i \in 1 .. Len(g) + Len(a) : S[i] = IF i <= Len(g) THEN g[i] ELSE a[i - Len(g)]
        BY <2>1, <2>3, ConcatProperties
    <2> QED BY <2>1, <2>2, <2>4
<1>14. OrderOK(p)'
    <2>1. QueueOK(p) /\ Ascending(S) /\ AfterStream(p, S) /\ RepliesOK(p, S)
        BY <1>1, <1>12 DEF OrderOK
    <2>2. /\ pc'[<<p, "reader">>] = pc[<<p, "reader">>]
          /\ pc'[<<p, "writer">>] = pc[<<p, "writer">>]
        BY <1>2, <1>p DEF TaskNames
    <2>3. QueueOK(p)'
        BY <1>1, <2>1, <2>2 DEF QueueOK
    <2>4. Ascending(T)
        BY <1>13, <2>1 DEF Ascending
    <2>5. AfterStream(p, T)'
        BY <1>1, <1>13, <2>1, <2>2 DEF AfterStream
    <2>6. \A k : Asked(Peer(p), k)' <=> Asked(Peer(p), k)
        BY <1>1 DEF Asked
    <2>7. RepliesOK(p, T)'
        BY <1>1, <1>13, <2>1, <2>2, <2>6 DEF RepliesOK
    <2> QED BY <1>12, <2>3, <2>4, <2>5, <2>7 DEF OrderOK, Ascending, AfterStream, RepliesOK
<1>15. OrderOK(e)'
    <2>1. Steady(e)
        <3>1. Stream(e)' = Stream(e) /\ \A k : Asked(Peer(e), k) => Asked(Peer(e), k)'
            BY <1>1, <1>8 DEF Stream, Asked
        <3>2. pc'[<<e, "writer">>] = pc[<<e, "writer">>]
            BY <1>2 DEF TaskNames
        <3> QED BY <1>1, <1>2, <1>r, <3>1, <3>2 DEF Steady
    <2> QED BY <1>1, <2>1, OrderKept
<1>16. \A d \in Ends : d = e \/ d = p
    BY <1>p, PeerFacts
<1>17. Inv'
    BY <1>3, <1>5, <1>6, <1>8, <1>10, <1>14, <1>15, <1>16 DEF Inv
<1>18. ReaderEnded(Peer(e))' = ReaderEnded(Peer(e))
    BY <1>2, <1>p DEF ReaderEnded, TaskNames
<1> QED BY <1>1, <1>8, <1>9, <1>11, <1>16, <1>17, <1>18, <1>p DEF WentDown

-------------------------------------------------------------------------------
LEMMA StutterStep == ASSUME Inv, UNCHANGED vars PROVE Inv' /\ Silent
<1>1. UNCHANGED <<queue, queued, pc, cur, holder, waiters, wire, shut, dead, got>> /\ TypeOK
    BY DEF vars, Inv
<1>2. TypeOK' /\ \A d \in Ends : LockOK(d)' /\ CurOK(d)'
    BY <1>1 DEF TypeOK, Inv, LockOK, NeedsLock, CurOK
<1>3. \A d \in Ends : Unmoved(d) /\ SendersKept(d)
    BY <1>1 DEF Unmoved, SendersKept, Reading, InHand, ReaderEnded
<1>4. \A d \in Ends : Steady(d)
    BY <1>1, <1>3, PendingKept DEF Steady, Stream, Asked
<1> QED BY <1>1, <1>2, <1>3, <1>4, SilentStep

\* What a step does, to the invariant and to what the two ends can tell.
LEMMA NextStep ==
    ASSUME Inv, [Next]_vars
    PROVE  /\ Inv'
           /\ \/ Silent
              \/ \E e \in Ends : (\E f : Sent(e, f)) \/ Delivered(e) \/ WentDown(e)
<1>1. CASE UNCHANGED vars
    BY <1>1, StutterStep
<1>2. ASSUME NEW e \in Ends, Submit(e) \/ TaskStep(e) \/ Fail(e)
      PROVE  /\ Inv'
             /\ \/ Silent
                \/ \E d \in Ends : (\E f : Sent(d, f)) \/ Delivered(d) \/ WentDown(d)
    <2>1. CASE Submit(e)
        BY <2>1, SubmitStep
    <2>2. CASE Fail(e)
        BY <2>2, FailStep
    <2>3. CASE StartRead(e)
        BY <2>3, StartReadStep
    <2>4. CASE ReadLen(e)
        BY <2>4, ReadLenStep
    <2>5. CASE ReadBody(e)
        BY <2>5, ReadBodyStep, PeerFacts
    <2>6. CASE ReadError(e)
        BY <2>6, ReadErrorStep, PeerFacts
    <2>7. CASE Handle(e)
        BY <2>7, HandleStep
    <2>8. CASE Take(e)
        BY <2>8, TakeStep
    <2>9. CASE Close(e)
        BY <2>9, CloseStep
    <2>10. ASSUME NEW n \in TaskNames, SendLen(e, n)
           PROVE  Inv' /\ (Silent \/ \E d \in Ends : \E f : Sent(d, f))
        BY <2>10, SendLenStep
    <2>11. ASSUME NEW n \in TaskNames, SendBody(e, n) PROVE Inv' /\ Silent
        BY <2>11, SendBodyStep
    <2>12. ASSUME NEW n \in TaskNames, SendError(e, n) PROVE Inv' /\ Silent
        BY <2>12, SendErrorStep
    <2> QED BY <1>2, <2>1, <2>2, <2>3, <2>4, <2>5, <2>6, <2>7, <2>8, <2>9, <2>10, <2>11, <2>12
            DEF TaskStep
<1> QED BY <1>1, <1>2 DEF Next

LEMMA InitInv == Init => Inv
<1> SUFFICES ASSUME Init PROVE Inv
    OBVIOUS
<1>1. /\ queue = [e \in Ends |-> <<>>] /\ queued = [e \in Ends |-> 0]
      /\ pc = [t \in Tasks |-> IF t[2] = "reader" THEN "start" ELSE "recv"]
      /\ cur = [t \in Tasks |-> NoFrame] /\ holder = [e \in Ends |-> Nobody]
      /\ waiters = [e \in Ends |-> <<>>] /\ wire = [e \in Ends |-> <<>>]
      /\ shut = [e \in Ends |-> FALSE] /\ dead = [e \in Ends |-> FALSE]
      /\ got = [e \in Ends |-> <<>>]
    BY DEF Init
<1>2. \A e \in Ends : pc[<<e, "reader">>] = "start" /\ pc[<<e, "writer">>] = "recv"
    BY <1>1, PeerFacts DEF TaskNames
<1>3. TypeOK
    <2>1. pc \in [Tasks -> ReaderStates \cup WriterStates]
        BY <1>1 DEF ReaderStates, WriterStates
    <2>2. queued \in [Ends -> 0 .. MaxFrames]
        BY <1>1, ConnAssumption
    <2>3. /\ queue \in [Ends -> Seq(Frames)] /\ waiters \in [Ends -> Seq(TaskNames)]
          /\ wire \in [Ends -> Seq(Tokens)] /\ got \in [Ends -> Seq(Frames)]
        BY <1>1
    <2>4. /\ cur \in [Tasks -> Frames \cup {NoFrame}] /\ holder \in [Ends -> TaskNames \cup {Nobody}]
          /\ shut \in [Ends -> BOOLEAN] /\ dead \in [Ends -> BOOLEAN]
        BY <1>1
    <2>5. \A e \in Ends : /\ pc[<<e, "reader">>] \in ReaderStates
                         /\ pc[<<e, "writer">>] \in WriterStates
        BY <1>2 DEF ReaderStates, WriterStates
    <2> QED BY <2>1, <2>2, <2>3, <2>4, <2>5 DEF TypeOK
<1>4. ASSUME NEW e \in Ends PROVE LockOK(e) /\ CurOK(e)
    BY <1>1, <1>2 DEF LockOK, NeedsLock, CurOK, TaskNames
<1>5. Len(<<>>) = 0
    OBVIOUS
<1>6. ASSUME NEW e \in Ends PROVE WireOK(e) /\ OrderOK(e)
    <2>1. wire[e] = <<>> /\ got[e] = <<>> /\ queue[e] = <<>> /\ queued[e] = 0
        BY <1>1
    <2>2. /\ pc[<<e, "reader">>] = "start" /\ pc[<<e, "writer">>] = "recv"
          /\ pc[<<Peer(e), "reader">>] = "start"
        BY <1>2, PeerFacts
    <2>3. WireOK(e)
        BY <1>5, <2>1, <2>2 DEF WireOK, Whole, Halfway, Reading, TaskNames
    <2>4. Pending(e) = <<>> /\ Stream(e) = <<>>
        <3>1. <<>> \in Seq(Tokens) /\ Headless(<<>>) = 0 /\ (0 - 0 + 1) \div 2 = 0
            BY DEF Headless
        <3>2. Announced(<<>>) \in Seq(Frames) /\ Len(Announced(<<>>)) = 0
            BY <1>5, <3>1, AnnouncedFacts
        <3>3. Announced(<<>>) = <<>>
            BY <3>2
        <3>4. <<>> \o <<>> = <<>>
            BY ConcatEmptySeq
        <3>5. Pending(e) = <<>> \o Announced(<<>>)
            BY <2>1, <2>2 DEF Pending
        <3>6. Pending(e) = <<>>
            BY <3>3, <3>4, <3>5
        <3> QED BY <2>1, <3>4, <3>6 DEF Stream
    <2>5. OrderOK(e)
        BY <1>5, <2>1, <2>2, <2>4 DEF OrderOK, QueueOK, Ascending, AfterStream, RepliesOK
    <2> QED BY <2>3, <2>5
<1> QED BY <1>3, <1>4, <1>6 DEF Inv

THEOREM InvAlways == Spec => []Inv
<1>1. Inv /\ [Next]_vars => Inv'
    BY NextStep
<1> QED BY InitInv, <1>1, PTL DEF Spec

-------------------------------------------------------------------------------
\* A task between lock() and the end of its guard owns the lock or waits for it
\* once, and a free lock has no waiters (connection.rs:83-108): no wakeup is
\* lost, whatever the frames and the capacity.
THEOREM LockAndTasksAgree == Spec => []ConnInv
<1>1. Inv => ConnInv
    <2> SUFFICES ASSUME Inv PROVE ConnInv
        OBVIOUS
    <2>1. ASSUME NEW e \in Ends
          PROVE  /\ NeedsLock(e) = ({holder[e]} \ {Nobody}) \cup ToSet(waiters[e])
                 /\ holder[e] \notin ToSet(waiters[e])
                 /\ IsInjective(waiters[e])
                 /\ holder[e] = Nobody => waiters[e] = <<>>
        <3>1. LockOK(e)
            BY DEF Inv
        <3>2. ToSet(<<>>) = {} /\ IsInjective(<<>>)
            BY DEF ToSet, IsInjective
        <3>3. \A n : ToSet(<<n>>) = {n} /\ IsInjective(<<n>>) /\ <<n>> # <<>>
            BY DEF ToSet, IsInjective
        <3>4. CASE holder[e] = Nobody
            BY <3>1, <3>2, <3>4, PeerFacts DEF LockOK
        <3>5. CASE holder[e] \in TaskNames /\ waiters[e] = <<>>
            BY <3>1, <3>2, <3>3, <3>5, PeerFacts DEF LockOK
        <3>6. CASE holder[e] \in TaskNames /\ waiters[e] # <<>>
            <4>1. PICK n \in TaskNames : /\ n # holder[e] /\ waiters[e] = <<n>>
                                         /\ NeedsLock(e) = {holder[e], n}
                BY <3>1, <3>6, PeerFacts DEF LockOK
            <4> QED BY <3>3, <3>6, <4>1, PeerFacts
        <3> QED BY <3>1, <3>4, <3>5, <3>6 DEF LockOK
    <2> QED BY <2>1 DEF ConnInv, LockAccounted, Inv
<1> QED BY InvAlways, <1>1, PTL

\* On the wire every length is followed by the payload of the same frame, and a
\* reader finds the payload of the length it has read (connection.rs:83-140).
THEOREM FramesStayWhole == Spec => []FramesWhole
<1>1. Inv => FramesWhole
    BY DEF Inv, WireOK, Whole, FramesWhole, Reading, InHand, ReaderEnded
<1> QED BY InvAlways, <1>1, PTL

-------------------------------------------------------------------------------
\* The refinement.
LEMMA InitRefines == Init => D!Init
<1> SUFFICES ASSUME Init PROVE D!Init
    OBVIOUS
<1>1. Inv
    BY InitInv
<1>2. /\ got = [e \in Ends |-> <<>>] /\ wire = [e \in Ends |-> <<>>]
      /\ pc = [t \in Tasks |-> IF t[2] = "reader" THEN "start" ELSE "recv"]
    BY DEF Init
<1>3. ASSUME NEW e \in Ends PROVE Pending(e) = <<>> /\ ReaderEnded(Peer(e)) = FALSE
    <2>1. pc[<<Peer(e), "reader">>] = "start" /\ wire[e] = <<>>
        BY <1>2, PeerFacts DEF TaskNames
    <2>2. <<>> \in Seq(Tokens) /\ Headless(<<>>) = 0 /\ (0 - 0 + 1) \div 2 = 0 /\ Len(<<>>) = 0
        BY DEF Headless
    <2>3. Announced(<<>>) \in Seq(Frames) /\ Len(Announced(<<>>)) = 0
        BY <2>2, AnnouncedFacts
    <2>4. Announced(<<>>) = <<>>
        BY <2>3
    <2>5. <<>> \o <<>> = <<>>
        BY ConcatEmptySeq
    <2> QED BY <2>1, <2>4, <2>5 DEF Pending, ReaderEnded
<1>4. [e \in Ends |-> Pending(e)] = [e \in Ends |-> <<>>]
    BY <1>3
<1>5. [e \in Ends |-> ReaderEnded(Peer(e))] = [e \in Ends |-> FALSE]
    BY <1>3
<1> QED BY <1>2, <1>4, <1>5 DEF D!Init

\* Sending the length of a frame sends the frame.
LEMMA SentRefines ==
    ASSUME Inv, NEW e \in Ends, NEW f, Sent(e, f)
    PROVE  D!Send(e, f)
<1>1. /\ f \in Frames /\ f.from = e /\ Newest(Stream(e), f) /\ ~ ReaderEnded(Peer(e))
      /\ Pending(e)' = Append(Pending(e), f)
      /\ \A d \in Ends : d # e => Pending(d)' = Pending(d)
      /\ got' = got /\ \A d \in Ends : ReaderEnded(Peer(d))' = ReaderEnded(Peer(d))
    BY PeerFacts DEF Sent
<1>2. [d \in Ends |-> Pending(d)]'
        = [[d \in Ends |-> Pending(d)] EXCEPT ![e] = Append(@, f)]
    BY <1>1
<1>3. [d \in Ends |-> ReaderEnded(Peer(d))]' = [d \in Ends |-> ReaderEnded(Peer(d))]
    BY <1>1
<1>4. ASSUME NEW g \in ToSet(Pending(e)) \cup ToSet(got[e]), g.task = f.task
      PROVE  g.num < f.num
    <2>1. PICK a, h, S : a = Pending(e) /\ h = got[e] /\ S = Stream(e)
        OBVIOUS
    <2>2. a \in Seq(Frames) /\ h \in Seq(Frames) /\ S = h \o a
        BY <2>1, StreamTyped DEF Stream
    <2>3. /\ Len(S) = Len(h) + Len(a) /\ Len(h) \in Nat /\ Len(a) \in Nat
          /\ \A i \in 1 .. Len(h) + Len(a) : S[i] = IF i <= Len(h) THEN h[i] ELSE a[i - Len(h)]
        BY <2>2, ConcatProperties
    <2>4. (\E i \in 1 .. Len(a) : g = a[i]) \/ (\E i \in 1 .. Len(h) : g = h[i])
        BY <1>4, <2>1 DEF ToSet
    <2>5. \E i \in 1 .. Len(S) : g = S[i]
        <3>1. ASSUME NEW i \in 1 .. Len(a), g = a[i] PROVE \E j \in 1 .. Len(S) : g = S[j]
            <4>1. /\ Len(h) + i \in 1 .. Len(h) + Len(a) /\ ~ (Len(h) + i <= Len(h))
                  /\ (Len(h) + i) - Len(h) = i
                BY <2>3
            <4> QED BY <2>3, <3>1, <4>1
        <3>2. ASSUME NEW i \in 1 .. Len(h), g = h[i] PROVE \E j \in 1 .. Len(S) : g = S[j]
            <4>1. i \in 1 .. Len(h) + Len(a) /\ i <= Len(h)
                BY <2>3
            <4> QED BY <2>3, <3>2, <4>1
        <3> QED BY <2>4, <3>1, <3>2
    <2> QED BY <1>1, <1>4, <2>1, <2>5 DEF Newest
<1>5. /\ [d \in Ends |-> Pending(d)][e] = Pending(e)
      /\ ~ [d \in Ends |-> ReaderEnded(Peer(d))][e]
    BY <1>1
<1>6. D!Fresh(e, f)
    <2>1. \A g \in ToSet([d \in Ends |-> Pending(d)][e]) \cup ToSet(got[e]) :
             g.task = f.task => g.num < f.num
        <3>1. PICK a : a = [d \in Ends |-> Pending(d)][e]
            OBVIOUS
        <3>2. a = Pending(e)
            BY <1>5, <3>1
        <3>3. \A g \in ToSet(a) \cup ToSet(got[e]) : g.task = f.task => g.num < f.num
            BY <1>4, <3>2
        <3> QED BY <3>1, <3>3
    <2>2. \A s : D!ToSet(s) = ToSet(s)
        BY DEF D!ToSet, ToSet
    <2> QED BY <2>1, <2>2 DEF D!Fresh
<1> QED BY <1>1, <1>2, <1>3, <1>5, <1>6 DEF D!Send

LEMMA DeliveredRefines ==
    ASSUME Inv, NEW e \in Ends, Delivered(e)
    PROVE  D!Deliver(e)
<1>1. /\ Pending(e) # <<>> /\ Pending(e)' = Tail(Pending(e))
      /\ got' = [got EXCEPT ![e] = Append(got[e], Head(Pending(e)))]
      /\ \A d \in Ends : d # e => Pending(d)' = Pending(d)
      /\ \A d \in Ends : ReaderEnded(Peer(d))' = ReaderEnded(Peer(d))
    BY PeerFacts DEF Delivered
<1>2. [d \in Ends |-> Pending(d)][e] = Pending(e)
    OBVIOUS
<1>3. [d \in Ends |-> Pending(d)]'
        = [[d \in Ends |-> Pending(d)] EXCEPT ![e] = Tail(@)]
    BY <1>1
<1>4. [d \in Ends |-> ReaderEnded(Peer(d))]' = [d \in Ends |-> ReaderEnded(Peer(d))]
    BY <1>1
<1> QED BY <1>1, <1>2, <1>3, <1>4 DEF D!Deliver

LEMMA WentDownRefines ==
    ASSUME Inv, NEW e \in Ends, WentDown(e)
    PROVE  D!GoDown(e)
<1>1. /\ ~ ReaderEnded(Peer(e)) /\ ReaderEnded(Peer(e))' /\ Pending(e)' = <<>>
      /\ \A d \in Ends : d # e => /\ Pending(d)' = Pending(d)
                                  /\ ReaderEnded(Peer(d))' = ReaderEnded(Peer(d))
      /\ got' = got
    BY DEF WentDown
<1>2. [d \in Ends |-> Pending(d)]' = [[d \in Ends |-> Pending(d)] EXCEPT ![e] = <<>>]
    BY <1>1
<1>3. ReaderEnded(Peer(e))' = TRUE
    BY <1>1 DEF ReaderEnded
<1>4. [d \in Ends |-> ReaderEnded(Peer(d))]'
        = [[d \in Ends |-> ReaderEnded(Peer(d))] EXCEPT ![e] = TRUE]
    BY <1>1, <1>3
<1>5. ~ [d \in Ends |-> ReaderEnded(Peer(d))][e]
    BY <1>1
<1> QED BY <1>1, <1>2, <1>4, <1>5 DEF D!GoDown

\* A Connection is a pair of FIFO channels: whole frames, in order, at most
\* once, each task's in the order of its numbers, until the reader of the other
\* end is down.
THEOREM ConnectionImplementsDuplex == Spec => ImplementsDuplex
<1>1. Init => D!Init
    BY InitRefines
<1>2. Inv /\ [Next]_vars => [D!Next]_D!vars
    <2> SUFFICES ASSUME Inv, [Next]_vars PROVE [D!Next]_D!vars
        OBVIOUS
    <2>1. CASE Silent
        <3>1. got' = got /\ \A d \in Ends : /\ Pending(d)' = Pending(d)
                                            /\ ReaderEnded(Peer(d))' = ReaderEnded(Peer(d))
            BY <2>1, PeerFacts DEF Silent
        <3>2. [d \in Ends |-> Pending(d)]' = [d \in Ends |-> Pending(d)]
            BY <3>1
        <3>3. [d \in Ends |-> ReaderEnded(Peer(d))]' = [d \in Ends |-> ReaderEnded(Peer(d))]
            BY <3>1
        <3> QED BY <3>1, <3>2, <3>3 DEF D!vars
    <2>2. ASSUME NEW e \in Ends, NEW f, Sent(e, f) PROVE D!Next
        <3>1. D!Send(e, f) /\ f \in Frames
            BY <2>2, SentRefines DEF Sent
        <3> QED BY <3>1 DEF D!Next
    <2>3. ASSUME NEW e \in Ends, Delivered(e) PROVE D!Next
        BY <2>3, DeliveredRefines DEF D!Next
    <2>4. ASSUME NEW e \in Ends, WentDown(e) PROVE D!Next
        BY <2>4, WentDownRefines DEF D!Next
    <2> QED BY NextStep, <2>1, <2>2, <2>3, <2>4
<1> QED BY InvAlways, <1>1, <1>2, PTL DEF Spec, ImplementsDuplex, D!Spec
===============================================================================
