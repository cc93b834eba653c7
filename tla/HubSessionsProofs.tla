---------------------------- MODULE HubSessionsProofs ---------------------------
(***************************************************************************)
(* Proofs about HubSessions for any spokes and any number of sessions,     *)
(* broadcasts, fetches and chunks.                                         *)
(*                                                                         *)
(* The argument: broadcasts are numbered apart, so a frame stands for one  *)
(* place of the log (LogOK).  A session that is registered and whose       *)
(* writer lives has every broadcast that is due to it; the next one comes  *)
(* at the end of its channel and at the end of the log, and to a session   *)
(* that missed one no later one comes (RegisteredGetsAll is inductive once *)
(* LogOK is known).  A reply is put into a channel in one piece, of a      *)
(* request that no other reader holds (FetchOK).                           *)
(*                                                                         *)
(* Given the invariant, every step is one of FanOut or none: what a        *)
(* session was given is what its writer sent and what is in its channel,   *)
(* a request is answered once no reader holds it, and a session has ended  *)
(* when its writer has.                                                    *)
(***************************************************************************)
EXTENDS HubSessions, SequenceTheorems, TLAPS

\* A session that is not open has nothing, and one that is open has its tasks;
\* a channel without a receiver is empty.
SessionOK(i) ==
    /\ ~ Opened(i) => /\ rx[i] = <<>> /\ shipped[i] = <<>>
                      /\ reader[i].at = "none" /\ writer[i] = "none"
    /\ Opened(i) => reader[i].at # "none"
    /\ writer[i] # "recv" => rx[i] = <<>>
    /\ joined[i] <= Len(log)

\* The readers that have still to relay a snapshot or to answer a request.
Relaying(i) == reader[i].at = "relay"
Answering(i) == reader[i].at = "reply"

\* The broadcasts so far and those to come are numbered apart.
LogOK ==
    /\ \A q \in 1 .. Len(log) :
          /\ ~ IsReply(log[q].frame)
          /\ log[q].frame.kind = "local" => log[q].frame.num <= locals
          /\ log[q].frame.kind = "relay" =>
                /\ log[q].frame.num <= clips
                /\ \A i \in Sessions : Relaying(i) => reader[i].num # log[q].frame.num
    /\ \A p, q \in 1 .. Len(log) : log[p].frame = log[q].frame => p = q
    /\ \A i \in Sessions : Relaying(i) =>
          /\ reader[i].num <= clips
          /\ \A j \in Sessions : Relaying(j) /\ reader[j].num = reader[i].num => j = i

\* So are the requests answered and those being answered.
FetchOK ==
    /\ \A i \in Sessions : \A k \in Replies(i) :
          /\ Outgoing(i)[k].req <= fetches
          /\ \A j \in Sessions : Answering(j) => reader[j].req # Outgoing(i)[k].req
    /\ \A i \in Sessions : Answering(i) =>
          /\ reader[i].req <= fetches
          /\ \A j \in Sessions : Answering(j) /\ reader[j].req = reader[i].req => j = i

\* The inductive invariant.
Inv ==
    /\ TypeOK
    /\ \A i \in Sessions : SessionOK(i)
    /\ EntriesHaveReaders
    /\ LogOK
    /\ FetchOK
    /\ RegisteredGetsAll
    /\ RepliesInOrder

-------------------------------------------------------------------------------
(* Sequences of frames.                                                    *)

BroadcastsIn(out) == {k \in 1 .. Len(out) : ~ IsReply(out[k])}
RepliesIn(out) == {k \in 1 .. Len(out) : IsReply(out[k])}
Has(out, L, q) == \E k \in BroadcastsIn(out) : out[k] = L[q].frame

\* out holds the broadcasts of the log L at the places due, as a prefix or all.
Gets(out, L, due, all) ==
    /\ \A k \in BroadcastsIn(out) : \E q \in due : out[k] = L[q].frame
    /\ \A k, l \in BroadcastsIn(out), p, q \in due :
          k < l /\ out[k] = L[p].frame /\ out[l] = L[q].frame => p < q
    /\ \A p, q \in due : p < q /\ Has(out, L, q) => Has(out, L, p)
    /\ all => \A q \in due : Has(out, L, q)

\* Replies in out are whole, but for the one its end cuts.
Whole(out, cut) ==
    \A k \in RepliesIn(out) :
        /\ out[k].num > 1 => k > 1 /\ out[k - 1] = [out[k] EXCEPT !.num = @ - 1]
        /\ out[k].num \in 1 .. Chunks - 1 =>
              IF k < Len(out) THEN out[k + 1] = [out[k] EXCEPT !.num = @ + 1] ELSE cut

LEMMA PrefixFacts ==
    ASSUME NEW S, NEW s \in Seq(S), NEW a \in Seq(S)
    PROVE  /\ s \o a \in Seq(S) /\ Len(s) \in Nat /\ Len(a) \in Nat
           /\ Len(s \o a) = Len(s) + Len(a)
           /\ \A k \in 1 .. Len(s) : k \in 1 .. Len(s \o a) /\ (s \o a)[k] = s[k]
           /\ \A k \in 1 .. Len(s \o a) : k \in 1 .. Len(s) \/
                 (k - Len(s) \in 1 .. Len(a) /\ (s \o a)[k] = a[k - Len(s)])
           /\ \A k \in 1 .. Len(a) : /\ Len(s) + k \in 1 .. Len(s \o a)
                                     /\ (s \o a)[Len(s) + k] = a[k]
<1>1. /\ s \o a \in Seq(S) /\ Len(s) \in Nat /\ Len(a) \in Nat
      /\ Len(s \o a) = Len(s) + Len(a)
      /\ \A i \in 1 .. Len(s) + Len(a) :
            (s \o a)[i] = IF i <= Len(s) THEN s[i] ELSE a[i - Len(s)]
    BY ConcatProperties
<1>2. PICK v : v = s \o a
    OBVIOUS
<1>3. ASSUME NEW k \in 1 .. Len(s) PROVE k \in 1 .. Len(v) /\ v[k] = s[k]
    BY <1>1, <1>2
<1>4. ASSUME NEW k \in 1 .. Len(v)
      PROVE  k \in 1 .. Len(s) \/ (k - Len(s) \in 1 .. Len(a) /\ v[k] = a[k - Len(s)])
    BY <1>1, <1>2
<1>5. ASSUME NEW k \in 1 .. Len(a)
      PROVE  Len(s) + k \in 1 .. Len(v) /\ v[Len(s) + k] = a[k]
    <2>1. Len(s) + k \in 1 .. Len(v) /\ ~ (Len(s) + k <= Len(s)) /\ (Len(s) + k) - Len(s) = k
        BY <1>1, <1>2
    <2> QED BY <1>1, <1>2, <2>1
<1> QED BY <1>1, <1>2, <1>3, <1>4, <1>5

\* What is lost at the end of a channel leaves no gap.
LEMMA GetsCut ==
    ASSUME NEW S, NEW s \in Seq(S), NEW a \in Seq(S), NEW L, NEW due \in SUBSET Nat, NEW all,
           Gets(s \o a, L, due, all)
    PROVE  Gets(s, L, due, FALSE)
<1>1. PICK v : v = s \o a
    OBVIOUS
<1>2. /\ \A k \in 1 .. Len(s) : k \in 1 .. Len(v) /\ v[k] = s[k]
      /\ \A k \in 1 .. Len(v) : k \in 1 .. Len(s) \/ k - Len(s) \in 1 .. Len(a)
      /\ Len(s) \in Nat /\ Len(a) \in Nat /\ Len(v) = Len(s) + Len(a)
    BY <1>1, PrefixFacts
<1>3. \A k \in BroadcastsIn(s) : k \in BroadcastsIn(v) /\ v[k] = s[k]
    BY <1>2 DEF BroadcastsIn
<1>4. Gets(v, L, due, all)
    BY <1>1
<1>5. ASSUME NEW p \in due, NEW q \in due, p < q, Has(s, L, q) PROVE Has(s, L, p)
    <2>1. PICK l \in BroadcastsIn(s) : s[l] = L[q].frame
        BY <1>5 DEF Has
    <2>2. Has(v, L, q)
        BY <1>3, <2>1 DEF Has
    <2>3. Has(v, L, p)
        BY <1>4, <1>5, <2>2 DEF Gets
    <2>4. PICK k \in BroadcastsIn(v) : v[k] = L[p].frame
        BY <2>3 DEF Has
    <2>5. ~ (l < k)
        <3>1. l < k => q < p
            BY <1>3, <1>4, <2>1, <2>4 DEF Gets
        <3> QED BY <1>5, <3>1
    <2>6. k \in 1 .. Len(v) /\ l \in 1 .. Len(s) /\ ~ IsReply(v[k])
        BY <2>1, <2>4 DEF BroadcastsIn
    <2>7. k \in 1 .. Len(s)
        BY <1>2, <2>5, <2>6
    <2>8. k \in BroadcastsIn(s) /\ s[k] = L[p].frame
        BY <1>2, <2>4, <2>6, <2>7 DEF BroadcastsIn
    <2> QED BY <2>8 DEF Has
<1>6. \A k \in BroadcastsIn(s) : \E q \in due : s[k] = L[q].frame
    BY <1>3, <1>4 DEF Gets
<1>7. \A k, l \in BroadcastsIn(s), p, q \in due :
          k < l /\ s[k] = L[p].frame /\ s[l] = L[q].frame => p < q
    BY <1>3, <1>4 DEF Gets
<1> QED BY <1>5, <1>6, <1>7 DEF Gets

\* Replies in between change nothing.
LEMMA GetsReply ==
    ASSUME NEW S, NEW s \in Seq(S), NEW a \in Seq(S), NEW L, NEW due, NEW all,
           Gets(s, L, due, all), \A k \in 1 .. Len(a) : IsReply(a[k])
    PROVE  Gets(s \o a, L, due, all)
<1>1. PICK v : v = s \o a
    OBVIOUS
<1>2. /\ \A k \in 1 .. Len(s) : k \in 1 .. Len(v) /\ v[k] = s[k]
      /\ \A k \in 1 .. Len(v) : k \in 1 .. Len(s) \/
            (k - Len(s) \in 1 .. Len(a) /\ v[k] = a[k - Len(s)])
    BY <1>1, PrefixFacts
<1>3. BroadcastsIn(v) = BroadcastsIn(s) /\ \A k \in BroadcastsIn(s) : v[k] = s[k]
    BY <1>2 DEF BroadcastsIn
<1>4. \A q : Has(v, L, q) <=> Has(s, L, q)
    BY <1>3 DEF Has
<1>5. Gets(v, L, due, all)
    BY <1>3, <1>4 DEF Gets
<1> QED BY <1>1, <1>5

\* The next broadcast, at the end of the log and of a channel that has all.
LEMMA GetsNext ==
    ASSUME NEW S, NEW s \in Seq(S), NEW f \in S, ~ IsReply(f),
           NEW R, NEW L \in Seq(R), NEW x \in R, x.frame = f,
           NEW due \in SUBSET (1 .. Len(L)), Gets(s, L, due, TRUE),
           \A q \in 1 .. Len(L) : L[q].frame # f
    PROVE  Gets(Append(s, f), Append(L, x), due \cup {Len(L) + 1}, TRUE)
<1>1. PICK t, M, n, m : /\ t = Append(s, f) /\ M = Append(L, x)
                        /\ n = Len(s) + 1 /\ m = Len(L) + 1
    OBVIOUS
<1>2. /\ Len(t) = n /\ n \in Nat /\ n >= 1 /\ t[n] = f
      /\ \A k \in 1 .. Len(s) : t[k] = s[k] /\ k \in 1 .. n /\ k < n
      /\ \A k \in 1 .. n : k \in 1 .. Len(s) \/ k = n
    BY <1>1, AppendProperties
<1>3. /\ M[m] = x /\ \A q \in 1 .. Len(L) : M[q] = L[q] /\ q < m
      /\ m \notin due /\ \A q \in due : M[q] = L[q] /\ L[q].frame # f /\ q < m
    BY <1>1, AppendProperties
<1>4. /\ \A k \in BroadcastsIn(s) : k \in BroadcastsIn(t) /\ t[k] = s[k] /\ k < n
      /\ n \in BroadcastsIn(t)
      /\ \A k \in BroadcastsIn(t) : k \in BroadcastsIn(s) \/ k = n
    BY <1>2 DEF BroadcastsIn
<1>5. \A k \in BroadcastsIn(s) : s[k] # f /\ \E q \in due : s[k] = L[q].frame
    BY <1>3 DEF Gets
<1> DEFINE D == due \cup {m}
<1>6. \A k \in BroadcastsIn(t) : \E q \in D : t[k] = M[q].frame
    <2>1. ASSUME NEW k \in BroadcastsIn(s) PROVE \E q \in D : t[k] = M[q].frame
        <3>1. PICK q \in due : s[k] = L[q].frame
            BY <1>5
        <3> QED BY <1>3, <1>4, <3>1
    <2>2. t[n] = M[m].frame /\ m \in D
        BY <1>2, <1>3
    <2> QED BY <1>4, <2>1, <2>2
<1>7. ASSUME NEW k \in BroadcastsIn(t), NEW l \in BroadcastsIn(t), NEW p \in D, NEW q \in D,
             k < l, t[k] = M[p].frame, t[l] = M[q].frame
      PROVE  p < q
    <2>1. n \in Nat /\ k \in Nat /\ l \in Nat /\ (l = n \/ l < n)
        BY <1>2, <1>4 DEF BroadcastsIn
    <2>2. k \in BroadcastsIn(s) /\ t[k] = s[k] /\ s[k] # f
        <3>1. k # n
            BY <1>4, <1>7, <2>1
        <3> QED BY <1>4, <1>5, <3>1
    <2>3. p \in due
        BY <1>3, <1>7, <2>2
    <2>4. CASE l = n
        <3>1. q = m
            <4>1. M[q].frame = f
                BY <1>2, <1>7, <2>4
            <4>2. q \in due => M[q].frame # f
                BY <1>3
            <4> QED BY <4>1, <4>2
        <3> QED BY <1>3, <2>3, <3>1
    <2>5. CASE l # n
        <3>1. l \in BroadcastsIn(s) /\ t[l] = s[l] /\ s[l] # f
            BY <1>4, <1>5, <2>5
        <3>2. q \in due
            BY <1>3, <1>7, <3>1
        <3>3. s[k] = L[p].frame /\ s[l] = L[q].frame
            BY <1>3, <1>7, <2>2, <2>3, <3>1, <3>2
        <3> QED BY <1>7, <2>2, <2>3, <3>1, <3>2, <3>3 DEF Gets
    <2> QED BY <2>4, <2>5
<1>8. \A q \in D : Has(t, M, q)
    <2>1. ASSUME NEW q \in due PROVE Has(t, M, q)
        <3>1. PICK k \in BroadcastsIn(s) : s[k] = L[q].frame
            BY DEF Gets, Has
        <3>2. k \in BroadcastsIn(t) /\ t[k] = M[q].frame
            BY <1>3, <1>4, <3>1
        <3> QED BY <3>2 DEF Has
    <2>2. Has(t, M, m)
        BY <1>2, <1>3, <1>4 DEF Has
    <2> QED BY <2>1, <2>2
<1>9. Gets(t, M, D, TRUE)
    BY <1>6, <1>7, <1>8 DEF Gets
<1> QED BY <1>1, <1>9

\* The next broadcast, which the channel is not given.
LEMMA GetsMissed ==
    ASSUME NEW s, NEW R, NEW L \in Seq(R), NEW x \in R,
           NEW due \in SUBSET (1 .. Len(L)), NEW all, Gets(s, L, due, all),
           \A q \in 1 .. Len(L) : L[q].frame # x.frame,
           NEW D \in {due, due \cup {Len(L) + 1}}, NEW now, now => all /\ D = due
    PROVE  Gets(s, Append(L, x), D, now)
<1>1. PICK M, m : M = Append(L, x) /\ m = Len(L) + 1
    OBVIOUS
<1>2. /\ M[m] = x /\ \A q \in 1 .. Len(L) : M[q] = L[q] /\ q < m
      /\ \A q \in due : M[q] = L[q] /\ L[q].frame # x.frame /\ q < m /\ q \in Nat
      /\ \A q \in D : q \in due \/ q = m
      /\ \A q \in due : q \in D
    BY <1>1, AppendProperties
<1>3. \A k \in BroadcastsIn(s) : \E q \in due : s[k] = L[q].frame
    BY DEF Gets
<1>4. \A k \in BroadcastsIn(s) : s[k] # M[m].frame
    BY <1>2, <1>3
<1>5. ~ Has(s, M, m) /\ \A q \in due : Has(s, M, q) <=> Has(s, L, q)
    BY <1>2, <1>4 DEF Has
<1>6. \A k \in BroadcastsIn(s) : \E q \in D : s[k] = M[q].frame
    BY <1>2, <1>3
<1>7. ASSUME NEW k \in BroadcastsIn(s), NEW l \in BroadcastsIn(s), NEW p \in D, NEW q \in D,
             k < l, s[k] = M[p].frame, s[l] = M[q].frame
      PROVE  p < q
    <2>1. p \in due /\ q \in due
        BY <1>2, <1>4, <1>7
    <2>2. s[k] = L[p].frame /\ s[l] = L[q].frame
        BY <1>2, <1>7, <2>1
    <2> QED BY <1>7, <2>1, <2>2 DEF Gets
<1>8. ASSUME NEW p \in D, NEW q \in D, p < q, Has(s, M, q) PROVE Has(s, M, p)
    <2>1. q \in due /\ Has(s, L, q)
        BY <1>2, <1>5, <1>8
    <2>2. p \in due
        <3>1. q < m /\ q \in Nat /\ m \in Nat
            BY <1>1, <1>2, <2>1
        <3> QED BY <1>2, <1>8, <3>1
    <2>3. Has(s, L, p)
        BY <1>8, <2>1, <2>2 DEF Gets
    <2> QED BY <1>5, <2>2, <2>3
<1>9. now => \A q \in D : Has(s, M, q)
    BY <1>5 DEF Gets
<1>10. Gets(s, M, D, now)
    BY <1>6, <1>7, <1>8, <1>9 DEF Gets
<1> QED BY <1>1, <1>10

\* Whole replies stay whole, whatever follows them; only an end may cut one.
LEMMA WholeCut ==
    ASSUME NEW S, NEW s \in Seq(S), NEW a \in Seq(S), NEW cut, Whole(s \o a, cut)
    PROVE  Whole(s, TRUE)
<1>1. PICK v : v = s \o a
    OBVIOUS
<1>2. /\ \A k \in 1 .. Len(s) : k \in 1 .. Len(v) /\ v[k] = s[k]
      /\ Len(s) \in Nat /\ Len(a) \in Nat /\ Len(v) = Len(s) + Len(a)
    BY <1>1, PrefixFacts
<1>3. Whole(v, cut)
    BY <1>1
<1>4. ASSUME NEW k \in RepliesIn(s)
      PROVE  /\ s[k].num > 1 => k > 1 /\ s[k - 1] = [s[k] EXCEPT !.num = @ - 1]
             /\ s[k].num \in 1 .. Chunks - 1 =>
                   IF k < Len(s) THEN s[k + 1] = [s[k] EXCEPT !.num = @ + 1] ELSE TRUE
    <2>1. k \in RepliesIn(v) /\ v[k] = s[k] /\ k \in 1 .. Len(s)
        BY <1>2 DEF RepliesIn
    <2>2. s[k].num > 1 => k > 1 /\ s[k - 1] = [s[k] EXCEPT !.num = @ - 1]
        <3>1. s[k].num > 1 => k > 1 /\ v[k - 1] = [s[k] EXCEPT !.num = @ - 1]
            BY <1>3, <2>1 DEF Whole
        <3>2. k > 1 => k - 1 \in 1 .. Len(s)
            BY <1>2, <2>1
        <3> QED BY <1>2, <3>1, <3>2
    <2>3. s[k].num \in 1 .. Chunks - 1 /\ k < Len(s) => s[k + 1] = [s[k] EXCEPT !.num = @ + 1]
        <3>1. k < Len(s) => k < Len(v) /\ k + 1 \in 1 .. Len(s)
            BY <1>2, <2>1
        <3>2. s[k].num \in 1 .. Chunks - 1 /\ k < Len(v) => v[k + 1] = [s[k] EXCEPT !.num = @ + 1]
            BY <1>3, <2>1 DEF Whole
        <3> QED BY <1>2, <3>1, <3>2
    <2> QED BY <2>2, <2>3
<1> QED BY <1>4 DEF Whole

LEMMA WholeJoined ==
    ASSUME NEW S, NEW s \in Seq(S), NEW a \in Seq(S), Whole(s, FALSE), Whole(a, FALSE)
    PROVE  Whole(s \o a, FALSE)
<1>1. PICK v : v = s \o a
    OBVIOUS
<1>2. /\ \A k \in 1 .. Len(s) : k \in 1 .. Len(v) /\ v[k] = s[k]
      /\ \A k \in 1 .. Len(v) : k \in 1 .. Len(s) \/
            (k - Len(s) \in 1 .. Len(a) /\ v[k] = a[k - Len(s)])
      /\ \A k \in 1 .. Len(a) : Len(s) + k \in 1 .. Len(v) /\ v[Len(s) + k] = a[k]
      /\ Len(s) \in Nat /\ Len(a) \in Nat /\ Len(v) = Len(s) + Len(a)
    BY <1>1, PrefixFacts
<1>3. ASSUME NEW k \in RepliesIn(v)
      PROVE  /\ v[k].num > 1 => k > 1 /\ v[k - 1] = [v[k] EXCEPT !.num = @ - 1]
             /\ v[k].num \in 1 .. Chunks - 1 =>
                   /\ k < Len(v) /\ v[k + 1] = [v[k] EXCEPT !.num = @ + 1]
    <2>1. CASE k \in 1 .. Len(s)
        <3>1. k \in RepliesIn(s) /\ v[k] = s[k]
            BY <1>2, <2>1 DEF RepliesIn
        <3>2. v[k].num > 1 => k > 1 /\ v[k - 1] = [v[k] EXCEPT !.num = @ - 1]
            <4>1. v[k].num > 1 => k > 1 /\ s[k - 1] = [v[k] EXCEPT !.num = @ - 1]
                BY <3>1 DEF Whole
            <4>2. k > 1 => k - 1 \in 1 .. Len(s)
                BY <1>2, <2>1
            <4> QED BY <1>2, <4>1, <4>2
        <3>3. v[k].num \in 1 .. Chunks - 1 =>
                 k < Len(s) /\ s[k + 1] = [v[k] EXCEPT !.num = @ + 1]
            BY <3>1 DEF Whole
        <3>4. k < Len(s) => k < Len(v) /\ k + 1 \in 1 .. Len(s)
            BY <1>2, <2>1
        <3> QED BY <1>2, <3>2, <3>3, <3>4
    <2>2. CASE k \notin 1 .. Len(s)
        <3>1. PICK i : i = k - Len(s)
            OBVIOUS
        <3>2. i \in 1 .. Len(a) /\ v[k] = a[i] /\ k = Len(s) + i /\ k \in Nat
            BY <1>2, <2>2, <3>1 DEF RepliesIn
        <3>3. i \in RepliesIn(a)
            BY <3>2 DEF RepliesIn
        <3>4. v[k].num > 1 => k > 1 /\ v[k - 1] = [v[k] EXCEPT !.num = @ - 1]
            <4>1. v[k].num > 1 => i > 1 /\ a[i - 1] = [v[k] EXCEPT !.num = @ - 1]
                BY <3>2, <3>3 DEF Whole
            <4>2. i > 1 => i - 1 \in 1 .. Len(a) /\ Len(s) + (i - 1) = k - 1 /\ k > 1
                BY <1>2, <3>2
            <4> QED BY <1>2, <4>1, <4>2
        <3>5. v[k].num \in 1 .. Chunks - 1 =>
                 i < Len(a) /\ a[i + 1] = [v[k] EXCEPT !.num = @ + 1]
            BY <3>2, <3>3 DEF Whole
        <3>6. i < Len(a) => i + 1 \in 1 .. Len(a) /\ Len(s) + (i + 1) = k + 1 /\ k < Len(v)
            BY <1>2, <3>2
        <3> QED BY <1>2, <3>4, <3>5, <3>6
    <2> QED BY <2>1, <2>2
<1>4. Whole(v, FALSE)
    BY <1>3 DEF Whole
<1> QED BY <1>1, <1>4

\* A frame that is put at the end of a channel is at the end of the session.
LEMMA AppendedBehind ==
    ASSUME NEW S, NEW s \in Seq(S), NEW a \in Seq(S), NEW f \in S
    PROVE  /\ s \o Append(a, f) = Append(s \o a, f)
           /\ Append(s, f) = s \o <<f>>
<1>1. /\ Append(a, f) = a \o <<f>> /\ <<f>> \in Seq(S) /\ s \o a \in Seq(S)
      /\ Append(s, f) = s \o <<f>>
    BY AppendIsConcat, ConcatProperties
<1>2. Append(s \o a, f) = (s \o a) \o <<f>>
    BY <1>1, AppendIsConcat
<1>3. (s \o a) \o <<f>> = s \o (a \o <<f>>)
    BY <1>1, ConcatAssociative
<1> QED BY <1>1, <1>2, <1>3

\* A frame that is sent stays where it is.
LEMMA SentKeepsPlace ==
    ASSUME NEW S, NEW s \in Seq(S), NEW a \in Seq(S), a # <<>>
    PROVE  /\ Append(s, Head(a)) \in Seq(S) /\ Tail(a) \in Seq(S)
           /\ Append(s, Head(a)) \o Tail(a) = s \o a
<1>1. PICK h, t, u : h = Head(a) /\ t = Tail(a) /\ u = Append(s, h)
    OBVIOUS
<1>2. /\ h \in S /\ t \in Seq(S) /\ Len(a) \in Nat /\ Len(a) >= 1 /\ Len(t) = Len(a) - 1
      /\ a[1] = h /\ \A i \in 1 .. Len(t) : t[i] = a[i + 1]
    BY <1>1, HeadTailProperties, EmptySeq, LenProperties
<1>3. /\ u \in Seq(S) /\ Len(s) \in Nat /\ Len(u) = Len(s) + 1 /\ u[Len(s) + 1] = h
      /\ \A i \in 1 .. Len(s) : u[i] = s[i]
    BY <1>1, <1>2, AppendProperties
<1>4. PICK v, w : v = u \o t /\ w = s \o a
    OBVIOUS
<1>5. /\ v \in Seq(S) /\ Len(v) = Len(u) + Len(t)
      /\ \A i \in 1 .. Len(u) + Len(t) : v[i] = IF i <= Len(u) THEN u[i] ELSE t[i - Len(u)]
    BY <1>2, <1>3, <1>4, ConcatProperties
<1>6. /\ w \in Seq(S) /\ Len(w) = Len(s) + Len(a)
      /\ \A i \in 1 .. Len(s) + Len(a) : w[i] = IF i <= Len(s) THEN s[i] ELSE a[i - Len(s)]
    BY <1>4, ConcatProperties
<1>7. Len(v) = Len(w)
    BY <1>2, <1>3, <1>5, <1>6
<1>8. ASSUME NEW i \in 1 .. Len(v) PROVE v[i] = w[i]
    <2>1. i \in 1 .. Len(u) + Len(t) /\ i \in 1 .. Len(s) + Len(a)
        BY <1>5, <1>6, <1>7, <1>8
    <2>2. CASE i <= Len(s)
        <3>1. i \in 1 .. Len(s) /\ i <= Len(u)
            BY <1>3, <2>1, <2>2
        <3> QED BY <1>3, <1>5, <1>6, <2>1, <2>2, <3>1
    <2>3. CASE i = Len(s) + 1
        <3>1. i <= Len(u) /\ ~ (i <= Len(s)) /\ i - Len(s) = 1
            BY <1>3, <2>3
        <3> QED BY <1>2, <1>3, <1>5, <1>6, <2>1, <2>3, <3>1
    <2>4. CASE i > Len(s) + 1
        <3>1. /\ ~ (i <= Len(u)) /\ ~ (i <= Len(s)) /\ i - Len(u) \in 1 .. Len(t)
              /\ (i - Len(u)) + 1 = i - Len(s)
            BY <1>2, <1>3, <2>1, <2>4
        <3> QED BY <1>2, <1>5, <1>6, <2>1, <3>1
    <2> QED BY <1>3, <2>1, <2>2, <2>3, <2>4
<1>9. v = w
    BY <1>5, <1>6, <1>7, <1>8, SeqEqual
<1> QED BY <1>1, <1>2, <1>3, <1>4, <1>9

-------------------------------------------------------------------------------
(* The two properties in these terms, and what keeps them.                 *)

GetsAll(i) ==
    /\ Gets(Outgoing(i), log, Due(i), FALSE)
    /\ HasSender(i) /\ HasReceiver(i) => Gets(Outgoing(i), log, Due(i), TRUE)

AllWhole(i) ==
    /\ writer[i] = "done" => Whole(Outgoing(i), TRUE)
    /\ writer[i] # "done" => Whole(Outgoing(i), FALSE)

Unshared == \A i \in Sessions : \A k \in Replies(i) : OneReply(i, k)
Owned == \A i \in Sessions : \A k \in Replies(i) : owner[Outgoing(i)[k].to] = owner[i]

AllGet == \A i \in Sessions : Opened(i) => GetsAll(i)
AllInOrder == (\A i \in Sessions : AllWhole(i)) /\ Unshared /\ Owned

LEMMA Restated ==
    /\ RegisteredGetsAll <=> AllGet
    /\ RepliesInOrder <=> AllInOrder
<1>1. ASSUME NEW i \in Sessions
      PROVE  /\ Given(i) = BroadcastsIn(Outgoing(i)) /\ Replies(i) = RepliesIn(Outgoing(i))
             /\ \A q : Reached(i, q) <=> Has(Outgoing(i), log, q)
    BY DEF Given, Replies, BroadcastsIn, RepliesIn, Reached, Has, Matches
<1>2. RegisteredGetsAll <=> AllGet
    BY <1>1 DEF RegisteredGetsAll, AllGet, GetsAll, Gets, Matches
<1>3. \A i \in Sessions : AllWhole(i) <=> Whole(Outgoing(i), writer[i] = "done")
    BY DEF AllWhole, Whole
<1>4. \A i \in Sessions :
         Whole(Outgoing(i), writer[i] = "done") <=> \A k \in Replies(i) : NothingBetween(i, k)
    BY <1>1 DEF NothingBetween, Whole
<1>5. RepliesInOrder <=> AllInOrder
    BY <1>3, <1>4 DEF RepliesInOrder, AllInOrder, Unshared, Owned
<1> QED BY <1>2, <1>5

LEMMA OutTyped ==
    ASSUME TypeOK, NEW i \in Sessions
    PROVE  /\ rx[i] \in Seq(Frames) /\ shipped[i] \in Seq(Frames)
           /\ Outgoing(i) \in Seq(Frames)
<1>1. rx[i] \in Seq(Frames) /\ shipped[i] \in Seq(Frames)
    BY DEF TypeOK
<1> QED BY <1>1, PrefixFacts DEF Outgoing

\* No reply is new in what session i has been given.
Fewer(i) ==
    /\ Replies(i)' \subseteq Replies(i)
    /\ \A k \in Replies(i)' : Outgoing(i)'[k] = Outgoing(i)[k]

LEMMA FewerReplies ==
    ASSUME Inv, \A i \in Sessions : Fewer(i) /\ (Opened(i) => owner'[i] = owner[i]),
           \A i \in Sessions : ~ Opened(i) => Replies(i)' = {}
    PROVE  Unshared' /\ Owned'
<1>1. Unshared /\ Owned
    BY Restated DEF Inv, AllInOrder
<1>2. Unshared'
    BY <1>1 DEF Unshared, OneReply, Fewer
<1>3. Owned'
    <2>1. ASSUME NEW i \in Sessions, NEW k \in Replies(i)'
          PROVE  owner'[Outgoing(i)'[k].to] = owner'[i]
        <3>1. Opened(i) /\ owner'[i] = owner[i]
            BY <2>1
        <3>2. k \in Replies(i) /\ Outgoing(i)'[k] = Outgoing(i)[k]
            BY DEF Fewer
        <3>3. PICK f : f = Outgoing(i)[k]
            OBVIOUS
        <3>4. owner[f.to] = owner[i] /\ IsReply(f)
            BY <1>1, <3>2, <3>3 DEF Owned, Replies
        <3>5. f \in Frames
            BY <3>2, <3>3, OutTyped DEF Replies, Inv
        <3>6. f.to \in Sessions
            BY <3>4, <3>5 DEF Frames, IsReply
        <3>7. Opened(f.to) /\ owner'[f.to] = owner[f.to]
            BY <3>1, <3>4, <3>6 DEF Opened
        <3> QED BY <3>1, <3>2, <3>3, <3>4, <3>7
    <2> QED BY <2>1 DEF Owned
<1> QED BY <1>2, <1>3

LEMMA FetchKept ==
    ASSUME Inv, \A i \in Sessions : Fewer(i), fetches' = fetches,
           \A i \in Sessions : Answering(i)' => Answering(i) /\ reader'[i] = reader[i]
    PROVE  FetchOK'
<1>1. FetchOK
    BY DEF Inv
<1>2. ASSUME NEW i \in Sessions, NEW k \in Replies(i)'
      PROVE  /\ Outgoing(i)'[k].req <= fetches'
             /\ \A j \in Sessions : Answering(j)' => reader'[j].req # Outgoing(i)'[k].req
    BY <1>1 DEF FetchOK, Fewer
<1>3. ASSUME NEW i \in Sessions, Answering(i)'
      PROVE  /\ reader'[i].req <= fetches'
             /\ \A j \in Sessions : Answering(j)' /\ reader'[j].req = reader'[i].req => j = i
    BY <1>1, <1>3 DEF FetchOK
<1> QED BY <1>2, <1>3 DEF FetchOK

LEMMA LogKept ==
    ASSUME Inv, UNCHANGED <<log, locals, clips>>,
           \A i \in Sessions : Relaying(i)' => Relaying(i) /\ reader'[i] = reader[i]
    PROVE  LogOK'
<1>1. LogOK
    BY DEF Inv
<1>2. ASSUME NEW q \in 1 .. Len(log)
      PROVE  /\ ~ IsReply(log[q].frame)
             /\ log[q].frame.kind = "local" => log[q].frame.num <= locals
             /\ log[q].frame.kind = "relay" =>
                   /\ log[q].frame.num <= clips
                   /\ \A i \in Sessions : Relaying(i)' => reader'[i].num # log[q].frame.num
    BY <1>1 DEF LogOK
<1>3. \A p, q \in 1 .. Len(log) : log[p].frame = log[q].frame => p = q
    BY <1>1 DEF LogOK
<1>4. ASSUME NEW i \in Sessions, Relaying(i)'
      PROVE  /\ reader'[i].num <= clips
             /\ \A j \in Sessions : Relaying(j)' /\ reader'[j].num = reader'[i].num => j = i
    BY <1>1, <1>4 DEF LogOK
<1> QED BY <1>2, <1>3, <1>4 DEF LogOK, IsReply

\* Nothing new for session i, or the end of its channel is lost.
Quiet(i) ==
    \/ /\ Outgoing(i)' = Outgoing(i)
       /\ writer[i] = "done" => writer'[i] = "done"
       /\ HasSender(i)' /\ HasReceiver(i)' => HasSender(i) /\ HasReceiver(i)
    \/ Outgoing(i)' = shipped[i] /\ writer'[i] = "done"

LEMMA QuietStep ==
    ASSUME Inv, UNCHANGED <<owner, log, joined>>, \A i \in Sessions : Quiet(i)
    PROVE  /\ RegisteredGetsAll' /\ RepliesInOrder'
           /\ \A i \in Sessions : Fewer(i)
<1>1. ASSUME NEW i \in Sessions
      PROVE  /\ Opened(i)' => GetsAll(i)'
             /\ AllWhole(i)'
             /\ Fewer(i) /\ (~ Opened(i) => Replies(i)' = {})
    <2>1. Due(i)' = Due(i) /\ (Opened(i)' <=> Opened(i)) /\ Due(i) \in SUBSET Nat
        <3>1. joined[i] \in Nat /\ Len(log) \in Nat
            BY DEF Inv, TypeOK
        <3> QED BY <3>1 DEF Due, Opened
    <2>2. (Opened(i) => GetsAll(i)) /\ AllWhole(i)
        BY Restated DEF Inv, AllGet, AllInOrder
    <2>3. ~ Opened(i) => Outgoing(i) = <<>> /\ shipped[i] = <<>>
        <3>1. <<>> \o <<>> = <<>>
            BY ConcatEmptySeq
        <3> QED BY <3>1 DEF Inv, SessionOK, Outgoing
    <2>4. Len(<<>>) = 0
        OBVIOUS
    <2>5. CASE Outgoing(i)' = Outgoing(i) /\ (writer[i] = "done" => writer'[i] = "done")
               /\ (HasSender(i)' /\ HasReceiver(i)' => HasSender(i) /\ HasReceiver(i))
        <3>1. Opened(i)' => GetsAll(i)'
            BY <2>1, <2>2, <2>5 DEF GetsAll
        <3>2. Whole(Outgoing(i), FALSE) => Whole(Outgoing(i), TRUE)
            BY DEF Whole
        <3>3. AllWhole(i)'
            BY <2>2, <2>5, <3>2 DEF AllWhole
        <3>4. Fewer(i)
            BY <2>5 DEF Fewer, Replies
        <3>5. ~ Opened(i) => Replies(i)' = {}
            BY <2>3, <2>4, <2>5 DEF Replies
        <3> QED BY <3>1, <3>3, <3>4, <3>5
    <2>6. CASE Outgoing(i)' = shipped[i] /\ writer'[i] = "done"
        <3>1. PICK s, a : s = shipped[i] /\ a = rx[i]
            OBVIOUS
        <3>2. s \in Seq(Frames) /\ a \in Seq(Frames) /\ Outgoing(i) = s \o a /\ Outgoing(i)' = s
            BY <2>6, <3>1, OutTyped DEF Inv, Outgoing
        <3>3. Opened(i) => Gets(s, log, Due(i), FALSE)
            BY <2>1, <2>2, <3>2, GetsCut DEF GetsAll
        <3>4. Whole(s, TRUE)
            <4>1. CASE writer[i] = "done"
                BY <2>2, <3>2, <4>1, WholeCut DEF AllWhole
            <4>2. CASE writer[i] # "done"
                BY <2>2, <3>2, <4>2, WholeCut DEF AllWhole
            <4> QED BY <4>1, <4>2
        <3>5. ~ HasReceiver(i)'
            BY <2>6 DEF HasReceiver
        <3>6. Opened(i)' => GetsAll(i)'
            BY <2>1, <3>2, <3>3, <3>5 DEF GetsAll
        <3>7. AllWhole(i)'
            BY <2>6, <3>2, <3>4 DEF AllWhole
        <3>8. Fewer(i)
            BY <3>2, PrefixFacts DEF Fewer, Replies
        <3>9. ~ Opened(i) => Replies(i)' = {}
            BY <2>3, <2>4, <2>6 DEF Replies
        <3> QED BY <3>6, <3>7, <3>8, <3>9
    <2> QED BY <2>5, <2>6 DEF Quiet
<1>2. Unshared' /\ Owned'
    <2>1. \A i \in Sessions : Opened(i) => owner'[i] = owner[i]
        OBVIOUS
    <2> QED BY <1>1, <2>1, FewerReplies
<1>3. AllGet' /\ AllInOrder'
    BY <1>1, <1>2 DEF AllGet, AllInOrder
<1>4. (RegisteredGetsAll' <=> AllGet') /\ (RepliesInOrder' <=> AllInOrder')
    BY Restated, PTL
<1> QED BY <1>1, <1>3, <1>4

\* A broadcast that is new to the log reaches every session that is registered
\* and whose writer lives, but for the spoke it leaves out.
LEMMA BroadcastStep ==
    ASSUME Inv, NEW f \in Frames, NEW x \in Spokes \cup {NoSpoke}, ~ IsReply(f),
           \A q \in 1 .. Len(log) : log[q].frame # f,
           Broadcast(f, x), UNCHANGED <<owner, writers, writer, shipped, joined>>
    PROVE  /\ RegisteredGetsAll' /\ RepliesInOrder'
           /\ \A i \in Sessions : Fewer(i)
           /\ rx' \in [Sessions -> Seq(Frames)]
           /\ log' \in Seq([frame : Frames, exclude : Spokes \cup {NoSpoke}])
           /\ \A i \in Sessions : rx'[i] # rx[i] => Sendable(i, x)
<1>1. PICK e, R, n : /\ e = [frame |-> f, exclude |-> x] /\ n = Len(log) + 1
                     /\ R = [frame : Frames, exclude : Spokes \cup {NoSpoke}]
    OBVIOUS
<1>2. /\ e \in R /\ e.frame = f /\ e.exclude = x /\ log \in Seq(R) /\ log' = Append(log, e)
      /\ \A i \in Sessions : rx'[i] = IF Sendable(i, x) THEN Append(rx[i], f) ELSE rx[i]
    BY <1>1 DEF Broadcast, Inv, TypeOK
<1>3. /\ log' \in Seq(R) /\ Len(log') = n /\ Len(log) \in Nat /\ n \in Nat /\ log'[n] = e
      /\ \A q \in 1 .. Len(log) : log'[q] = log[q]
    BY <1>1, <1>2, AppendProperties
<1>4. rx' \in [Sessions -> Seq(Frames)]
    <2>1. \A i \in Sessions : Append(rx[i], f) \in Seq(Frames) /\ rx[i] \in Seq(Frames)
        BY AppendProperties DEF Inv, TypeOK
    <2> QED BY <2>1 DEF Broadcast
<1>5. ASSUME NEW i \in Sessions
      PROVE  /\ Opened(i)' => GetsAll(i)'
             /\ AllWhole(i)'
             /\ Fewer(i) /\ (~ Opened(i) => Replies(i)' = {})
    <2>1. /\ Due(i) \in SUBSET (1 .. Len(log))
          /\ Due(i)' = IF x # owner[i] THEN Due(i) \cup {n} ELSE Due(i)
        <3>1. joined[i] \in Nat /\ joined[i] <= Len(log)
            BY DEF Inv, TypeOK, SessionOK
        <3>2. \A q \in 1 .. Len(log) : log'[q].exclude = log[q].exclude
            BY <1>3
        <3>3. joined[i] + 1 .. n = (joined[i] + 1 .. Len(log)) \cup {n}
            BY <1>1, <1>3, <3>1
        <3>4. joined[i] + 1 .. Len(log) \subseteq 1 .. Len(log)
            BY <1>3, <3>1
        <3>5. Due(i)' = {q \in joined[i] + 1 .. n : log'[q].exclude # owner[i]}
            BY <1>3 DEF Due
        <3> QED BY <1>2, <1>3, <3>2, <3>3, <3>4, <3>5 DEF Due
    <2>2. (Opened(i)' <=> Opened(i)) /\ (HasSender(i)' <=> HasSender(i))
          /\ (HasReceiver(i)' <=> HasReceiver(i))
        BY DEF Opened, HasSender, HasReceiver
    <2>3. (Opened(i) => GetsAll(i)) /\ AllWhole(i)
        BY Restated DEF Inv, AllGet, AllInOrder
    <2>4. PICK s, a, out : s = shipped[i] /\ a = rx[i] /\ out = Outgoing(i)
        OBVIOUS
    <2>5. s \in Seq(Frames) /\ a \in Seq(Frames) /\ out \in Seq(Frames) /\ out = s \o a
        BY <2>4, OutTyped DEF Inv, Outgoing
    <2>6. CASE Sendable(i, x)
        <3>1. Outgoing(i)' = Append(out, f) /\ Outgoing(i)' = out \o <<f>>
            <4>1. Outgoing(i)' = s \o Append(a, f)
                BY <1>2, <2>4, <2>6 DEF Outgoing
            <4>2. s \o Append(a, f) = Append(out, f)
                BY <2>5, AppendedBehind
            <4>3. Append(out, f) = out \o <<f>>
                BY <2>5, AppendedBehind
            <4> QED BY <4>1, <4>2, <4>3
        <3>2. Opened(i) /\ HasSender(i) /\ HasReceiver(i) /\ owner[i] # x
            BY <2>6 DEF Sendable, HasSender
        <3>3. Gets(out, log, Due(i), TRUE) /\ Due(i)' = Due(i) \cup {Len(log) + 1}
            BY <1>1, <2>1, <2>3, <2>4, <3>2 DEF GetsAll
        <3>4. PICK due : due = Due(i)
            OBVIOUS
        <3>5. Gets(Append(out, f), Append(log, e), due \cup {Len(log) + 1}, TRUE)
            BY <1>2, <2>1, <2>5, <3>3, <3>4, GetsNext
        <3>6. Gets(Outgoing(i)', log', Due(i)', TRUE)
            BY <1>2, <3>1, <3>3, <3>4, <3>5
        <3>7. GetsAll(i)'
            BY <3>6 DEF GetsAll, Gets
        <3>8. AllWhole(i)'
            <4>1. <<f>> \in Seq(Frames) /\ Len(<<f>>) = 1 /\ <<f>>[1] = f
                OBVIOUS
            <4>2. Whole(<<f>>, FALSE)
                BY <4>1 DEF Whole, RepliesIn
            <4>3. writer[i] # "done" /\ Whole(out, FALSE)
                BY <2>3, <2>4, <3>2 DEF AllWhole, HasReceiver
            <4>4. Whole(out \o <<f>>, FALSE)
                BY <2>5, <4>1, <4>2, <4>3, WholeJoined
            <4> QED BY <3>1, <4>3, <4>4 DEF AllWhole
        <3>9. Fewer(i)
            <4>1. PICK t : t = Append(out, f)
                OBVIOUS
            <4>2. /\ Len(t) = Len(out) + 1 /\ t[Len(out) + 1] = f /\ Len(out) \in Nat
                  /\ \A k \in 1 .. Len(out) : t[k] = out[k]
                BY <2>5, <4>1, AppendProperties
            <4>3. \A k \in 1 .. Len(t) : k \in 1 .. Len(out) \/ k = Len(out) + 1
                BY <4>2
            <4> QED BY <2>4, <3>1, <4>1, <4>2, <4>3 DEF Fewer, Replies
        <3> QED BY <3>2, <3>7, <3>8, <3>9
    <2>7. CASE ~ Sendable(i, x)
        <3>1. Outgoing(i)' = out
            BY <1>2, <2>4, <2>7 DEF Outgoing
        <3>2. PICK due, D : due = Due(i) /\ D = Due(i)'
            OBVIOUS
        <3>3. /\ due \in SUBSET (1 .. Len(log)) /\ D \in {due, due \cup {Len(log) + 1}}
              /\ x = owner[i] => D = due
            BY <1>1, <2>1, <3>2
        <3>4. Opened(i) => Gets(out, log', D, FALSE)
            <4>1. Opened(i) => Gets(out, log, due, FALSE)
                BY <2>3, <2>4, <3>2 DEF GetsAll
            <4> QED BY <1>2, <3>3, <4>1, GetsMissed
        <3>5. HasSender(i) /\ HasReceiver(i) => Gets(out, log', D, TRUE)
            <4>1. HasSender(i) /\ HasReceiver(i) => Gets(out, log, due, TRUE) /\ D = due
                BY <2>3, <2>4, <2>7, <3>2, <3>3 DEF GetsAll, Sendable, HasSender
            <4> QED BY <1>2, <3>3, <4>1, GetsMissed
        <3>6. Opened(i)' => GetsAll(i)'
            BY <2>2, <3>1, <3>2, <3>4, <3>5 DEF GetsAll
        <3>7. AllWhole(i)'
            BY <2>3, <2>4, <3>1 DEF AllWhole
        <3>8. Fewer(i)
            BY <2>4, <3>1 DEF Fewer, Replies
        <3>9. ~ Opened(i) => Replies(i)' = {}
            <4>1. ~ Opened(i) => s = <<>> /\ a = <<>>
                BY <2>4 DEF Inv, SessionOK
            <4>2. ~ Opened(i) => out = <<>>
                BY <2>5, <4>1, ConcatEmptySeq
            <4>3. Len(<<>>) = 0
                OBVIOUS
            <4> QED BY <3>1, <4>2, <4>3 DEF Replies
        <3> QED BY <3>6, <3>7, <3>8, <3>9
    <2> QED BY <2>6, <2>7
<1>6. Unshared' /\ Owned'
    <2>1. \A i \in Sessions : Opened(i) => owner'[i] = owner[i]
        OBVIOUS
    <2> QED BY <1>5, <2>1, FewerReplies
<1>7. AllGet' /\ AllInOrder'
    BY <1>5, <1>6 DEF AllGet, AllInOrder
<1>8. (RegisteredGetsAll' <=> AllGet') /\ (RepliesInOrder' <=> AllInOrder')
    BY Restated, PTL
<1>9. \A i \in Sessions : rx'[i] # rx[i] => Sendable(i, x)
    BY <1>2
<1> QED BY <1>1, <1>3, <1>4, <1>5, <1>7, <1>8, <1>9

\* A reply is whole, and its frames are numbered apart.
LEMMA ReplyFacts ==
    ASSUME Inv, NEW i \in Sessions, Answering(i), NEW hit \in BOOLEAN,
           NEW r, r = Reply(i, hit)
    PROVE  /\ r \in Seq(Frames) /\ Whole(r, FALSE)
           /\ \A k \in 1 .. Len(r) :
                 IsReply(r[k]) /\ r[k].req = reader[i].req /\ r[k].to = i
           /\ \A k, l \in 1 .. Len(r) :
                 r[l].num = r[k].num \/ r[l].num = 0 => l = k
<1>1. Chunks \in Nat /\ Chunks >= 1
    BY HubSessionsAssumption
<1>2. reader[i].req \in 1 .. MaxFetches
    <2>1. reader[i] \in ReaderStates
        BY DEF Inv, TypeOK
    <2> QED BY <2>1 DEF ReaderStates, Answering
<1>3. PICK q : q = reader[i].req
    OBVIOUS
<1> DEFINE F(k) == [kind |-> "reply", to |-> i, req |-> q, num |-> k]
<1>4. \A k \in 0 .. Chunks : F(k) \in Frames
    BY <1>2, <1>3 DEF Frames
<1>5. \A k : /\ F(k).num = k /\ F(k).kind = "reply" /\ F(k).to = i /\ F(k).req = q
             /\ ReplyFrame(i, k) = F(k)
    BY <1>3 DEF ReplyFrame
<1>6. CASE hit
    <2>1. r = [k \in 1 .. Chunks |-> F(k)]
        BY <1>5, <1>6 DEF Reply
    <2>2. r \in Seq(Frames) /\ Len(r) = Chunks /\ \A k \in 1 .. Len(r) : r[k] = F(k)
        BY <1>1, <1>4, <2>1, IsASeq
    <2>3. Whole(r, FALSE)
        <3> SUFFICES ASSUME NEW k \in 1 .. Len(r)
                     PROVE  /\ r[k].num > 1 => k > 1 /\ r[k - 1] = [r[k] EXCEPT !.num = @ - 1]
                            /\ r[k].num \in 1 .. Chunks - 1 =>
                                  k < Len(r) /\ r[k + 1] = [r[k] EXCEPT !.num = @ + 1]
            BY DEF Whole, RepliesIn
        <3>1. \A m : [F(k) EXCEPT !.num = m] = F(m)
            OBVIOUS
        <3>2. k > 1 => k - 1 \in 1 .. Len(r)
            BY <1>1, <2>2
        <3>3. k < Len(r) => k + 1 \in 1 .. Len(r)
            BY <1>1, <2>2
        <3>4. r[k] = F(k) /\ r[k].num = k
            BY <1>5, <2>2
        <3>5. k > 1 => r[k - 1] = [r[k] EXCEPT !.num = @ - 1]
            BY <2>2, <3>1, <3>2, <3>4
        <3>6. k \in 1 .. Chunks - 1 => k < Len(r) /\ r[k + 1] = [r[k] EXCEPT !.num = @ + 1]
            BY <1>1, <2>2, <3>1, <3>3, <3>4
        <3> QED BY <3>4, <3>5, <3>6
    <2>4. \A k \in 1 .. Len(r) : r[k].num = k /\ k # 0 /\ r[k].req = q /\ r[k].to = i /\ IsReply(r[k])
        BY <1>1, <1>5, <2>2 DEF IsReply
    <2>5. \A k, l \in 1 .. Len(r) : r[l].num = r[k].num \/ r[l].num = 0 => l = k
        BY <2>4
    <2> QED BY <1>3, <2>2, <2>3, <2>4, <2>5
<1>7. CASE ~ hit
    <2>1. r = << F(0) >>
        BY <1>5, <1>7 DEF Reply
    <2>2. F(0) \in Frames
        BY <1>1, <1>4
    <2>3. PICK f : f = F(0)
        OBVIOUS
    <2>4. r \in Seq(Frames) /\ Len(r) = 1 /\ r[1] = f
        BY <2>1, <2>2, <2>3
    <2>5. f.num = 0 /\ f.req = q /\ f.to = i /\ IsReply(f)
        BY <1>5, <2>3 DEF IsReply
    <2>6. \A k \in 1 .. Len(r) : k = 1
        BY <2>4
    <2>7. Whole(r, FALSE)
        BY <1>1, <2>4, <2>5, <2>6 DEF Whole, RepliesIn
    <2> QED BY <1>3, <2>4, <2>5, <2>6, <2>7
<1> QED BY <1>6, <1>7

\* A reply goes in one piece to the session that its spoke has by now.
LEMMA ReplyStep ==
    ASSUME Inv, NEW i \in Sessions, AnswerFetch(i)
    PROVE  /\ RegisteredGetsAll' /\ RepliesInOrder' /\ FetchOK'
           /\ rx' \in [Sessions -> Seq(Frames)]
           /\ \A k \in Sessions : rx'[k] # rx[k] => HasReceiver(k)
<1>1. PICK hit \in BOOLEAN : SendReply(i, hit)
    BY DEF AnswerFetch
<1>2. PICK r, j, q : r = Reply(i, hit) /\ j = writers[owner[i]] /\ q = reader[i].req
    OBVIOUS
<1>3. /\ Answering(i) /\ reader' = [reader EXCEPT ![i] = [at |-> "read"]]
      /\ UNCHANGED <<owner, writers, writer, shipped, log, joined, fetches>>
    BY DEF AnswerFetch, Answering, countVars
<1>4. \A k \in Sessions : rx'[k] = IF k = j /\ HasReceiver(j) THEN rx[k] \o r ELSE rx[k]
    BY <1>1, <1>2 DEF SendReply
<1>5. /\ r \in Seq(Frames) /\ Whole(r, FALSE)
      /\ \A k \in 1 .. Len(r) : IsReply(r[k]) /\ r[k].req = q /\ r[k].to = i
      /\ \A k, l \in 1 .. Len(r) : r[l].num = r[k].num \/ r[l].num = 0 => l = k
    <2>1. /\ r \in Seq(Frames) /\ Whole(r, FALSE)
          /\ \A k \in 1 .. Len(r) : IsReply(r[k]) /\ r[k].req = reader[i].req /\ r[k].to = i
        BY <1>2, <1>3, ReplyFacts
    <2>2. \A k, l \in 1 .. Len(r) : r[l].num = r[k].num \/ r[l].num = 0 => l = k
        BY <1>2, <1>3, ReplyFacts
    <2> QED BY <1>2, <2>1, <2>2
<1>6. Opened(i) /\ owner[i] \in Spokes
    <2>1. Opened(i)
        BY <1>3 DEF Inv, SessionOK, Answering
    <2> QED BY <2>1 DEF Inv, TypeOK, Opened
<1>7. j \in Sessions => owner[j] = owner[i]
    <2>1. NoSession \notin Sessions
        BY DEF NoSession, Sessions
    <2> QED BY <1>2, <1>6, <2>1 DEF Inv, TypeOK
<1>8. rx' \in [Sessions -> Seq(Frames)]
    <2>1. \A k \in Sessions : rx[k] \o r \in Seq(Frames) /\ rx[k] \in Seq(Frames)
        BY <1>5, ConcatProperties DEF Inv, TypeOK
    <2> QED BY <1>1, <1>2, <2>1 DEF SendReply
<1>9. ASSUME NEW a \in Sessions
      PROVE  \/ Outgoing(a)' = Outgoing(a)
             \/ a = j /\ HasReceiver(a) /\ Outgoing(a)' = Outgoing(a) \o r
    <2>1. CASE a = j /\ HasReceiver(j)
        <3>1. Outgoing(a)' = shipped[a] \o (rx[a] \o r)
            BY <1>3, <1>4, <2>1 DEF Outgoing
        <3>2. shipped[a] \in Seq(Frames) /\ rx[a] \in Seq(Frames)
            BY OutTyped DEF Inv
        <3>3. PICK s, b : s = shipped[a] /\ b = rx[a]
            OBVIOUS
        <3>4. s \in Seq(Frames) /\ b \in Seq(Frames) /\ r \in Seq(Frames)
            BY <1>5, <3>2, <3>3
        <3>5. (s \o b) \o r = s \o (b \o r)
            BY <3>4, ConcatAssociative
        <3> QED BY <2>1, <3>1, <3>3, <3>5 DEF Outgoing
    <2>2. CASE ~ (a = j /\ HasReceiver(j))
        BY <1>3, <1>4, <2>2 DEF Outgoing
    <2> QED BY <2>1, <2>2
<1>10. ASSUME NEW a \in Sessions
       PROVE  (Opened(a)' => GetsAll(a)') /\ AllWhole(a)'
    <2>1. /\ (Opened(a)' <=> Opened(a)) /\ (HasSender(a)' <=> HasSender(a))
          /\ (HasReceiver(a)' <=> HasReceiver(a)) /\ Due(a)' = Due(a) /\ log' = log
        BY <1>3 DEF Opened, HasSender, HasReceiver, Due
    <2>2. (Opened(a) => GetsAll(a)) /\ AllWhole(a)
        BY Restated DEF Inv, AllGet, AllInOrder
    <2>3. PICK out, due : out = Outgoing(a) /\ due = Due(a) /\ out \in Seq(Frames)
        BY OutTyped DEF Inv
    <2>4. CASE Outgoing(a)' = Outgoing(a)
        <3>1. Opened(a)' => GetsAll(a)'
            BY <2>1, <2>2, <2>4 DEF GetsAll
        <3>2. AllWhole(a)'
            BY <1>3, <2>2, <2>4 DEF AllWhole
        <3> QED BY <3>1, <3>2
    <2>5. CASE a = j /\ HasReceiver(a) /\ Outgoing(a)' = Outgoing(a) \o r
        <3>1. Opened(a) => Gets(out \o r, log, due, FALSE)
            <4>1. Opened(a) => Gets(out, log, due, FALSE)
                BY <2>2, <2>3 DEF GetsAll
            <4> QED BY <1>5, <2>3, <4>1, GetsReply
        <3>2. HasSender(a) => Gets(out \o r, log, due, TRUE)
            <4>1. HasSender(a) => Gets(out, log, due, TRUE)
                BY <2>2, <2>3, <2>5 DEF GetsAll, HasSender
            <4> QED BY <1>5, <2>3, <4>1, GetsReply
        <3>3. Opened(a)' => GetsAll(a)'
            BY <2>1, <2>3, <2>5, <3>1, <3>2 DEF GetsAll
        <3>4. writer[a] # "done" /\ Whole(out, FALSE)
            BY <2>2, <2>3, <2>5 DEF AllWhole, HasReceiver
        <3>5. Whole(out \o r, FALSE)
            BY <1>5, <2>3, <3>4, WholeJoined
        <3>6. AllWhole(a)'
            BY <1>3, <2>3, <2>5, <3>4, <3>5 DEF AllWhole
        <3> QED BY <3>3, <3>6
    <2> QED BY <1>9, <2>4, <2>5
<1>11. ASSUME NEW a \in Sessions, NEW k \in Replies(a)'
       PROVE  \/ k \in Replies(a) /\ Outgoing(a)'[k] = Outgoing(a)[k]
              \/ /\ a = j /\ k - Len(Outgoing(j)) \in 1 .. Len(r)
                 /\ Outgoing(a)'[k] = r[k - Len(Outgoing(j))]
    <2>1. CASE Outgoing(a)' = Outgoing(a)
        BY <2>1 DEF Replies
    <2>2. CASE a = j /\ Outgoing(a)' = Outgoing(a) \o r
        <3>1. PICK out, w : out = Outgoing(a) /\ w = Outgoing(a)' /\ out \in Seq(Frames)
            BY OutTyped DEF Inv
        <3>2. /\ \A m \in 1 .. Len(w) : m \in 1 .. Len(out) \/
                    (m - Len(out) \in 1 .. Len(r) /\ w[m] = r[m - Len(out)])
              /\ \A m \in 1 .. Len(out) : w[m] = out[m]
            BY <1>5, <2>2, <3>1, PrefixFacts
        <3>3. k \in 1 .. Len(w) /\ IsReply(w[k])
            BY <3>1 DEF Replies
        <3>4. k \in 1 .. Len(out) => k \in Replies(a)
            BY <3>1, <3>2, <3>3 DEF Replies
        <3> QED BY <2>2, <3>1, <3>2, <3>3, <3>4
    <2> QED BY <1>9, <2>1, <2>2
<1>12. Unshared' /\ Owned' /\ FetchOK'
    <2>1. Unshared /\ Owned /\ FetchOK
        BY Restated DEF Inv, AllInOrder
    <2>2. \A a \in Sessions : \A k \in Replies(a) : Outgoing(a)[k].req # q
        BY <1>2, <1>3, <2>1 DEF FetchOK
    <2>3. j \in Sessions => Len(Outgoing(j)) \in Nat
        BY OutTyped DEF Inv
    <2>4. ASSUME NEW a \in Sessions, NEW b \in Sessions, NEW k \in Replies(a)',
                 NEW l \in Replies(b)', NEW f, NEW g,
                 f = Outgoing(a)'[k], g = Outgoing(b)'[l], g.req = f.req
          PROVE  b = a /\ g.to = f.to /\ (g.num = f.num \/ g.num = 0 => l = k)
        <3>1. CASE k \in Replies(a) /\ f = Outgoing(a)[k]
            <4>1. f.req # q
                BY <2>2, <3>1
            <4>2. l \in Replies(b) /\ g = Outgoing(b)[l]
                BY <1>5, <1>11, <2>4, <4>1
            <4> QED BY <2>1, <2>4, <3>1, <4>2 DEF Unshared, OneReply
        <3>2. CASE a = j /\ k - Len(Outgoing(j)) \in 1 .. Len(r) /\ f = r[k - Len(Outgoing(j))]
            <4>1. f.req = q
                BY <1>5, <3>2
            <4>2. /\ b = j /\ l - Len(Outgoing(j)) \in 1 .. Len(r)
                  /\ g = r[l - Len(Outgoing(j))]
                BY <1>11, <2>2, <2>4, <4>1
            <4>3. b = a /\ g.to = f.to
                BY <1>5, <3>2, <4>2
            <4>4. g.num = f.num \/ g.num = 0 => l - Len(Outgoing(j)) = k - Len(Outgoing(j))
                BY <1>5, <3>2, <4>2
            <4>5. k \in Nat /\ l \in Nat /\ Len(Outgoing(j)) \in Nat
                BY <2>3, <3>2 DEF Replies
            <4> QED BY <4>3, <4>4, <4>5
        <3> QED BY <1>11, <2>4, <3>1, <3>2
    <2>5. Unshared'
        BY <2>4 DEF Unshared, OneReply
    <2>6. ASSUME NEW a \in Sessions, NEW k \in Replies(a)', NEW f, f = Outgoing(a)'[k]
          PROVE  /\ owner'[f.to] = owner'[a] /\ f.req <= fetches'
                 /\ \A b \in Sessions : Answering(b)' => reader'[b].req # f.req
        <3>1. \A b \in Sessions : Answering(b)' => b # i /\ Answering(b) /\ reader'[b] = reader[b]
            <4>1. "read" # "reply"
                OBVIOUS
            <4> QED BY <1>3, <4>1 DEF Answering, Inv, TypeOK
        <3>2. CASE k \in Replies(a) /\ f = Outgoing(a)[k]
            BY <1>3, <2>1, <3>1, <3>2 DEF Owned, FetchOK
        <3>3. CASE a = j /\ k - Len(Outgoing(j)) \in 1 .. Len(r) /\ f = r[k - Len(Outgoing(j))]
            <4>1. f.req = q /\ f.to = i
                BY <1>5, <3>3
            <4> QED BY <1>2, <1>3, <1>7, <2>1, <3>1, <3>3, <4>1 DEF FetchOK
        <3> QED BY <1>11, <2>6, <3>2, <3>3
    <2>7. Owned'
        BY <2>6 DEF Owned
    <2>8. ASSUME NEW a \in Sessions, Answering(a)'
          PROVE  /\ reader'[a].req <= fetches'
                 /\ \A b \in Sessions : Answering(b)' /\ reader'[b].req = reader'[a].req => b = a
        <3>1. \A b \in Sessions : Answering(b)' => Answering(b) /\ reader'[b] = reader[b]
            BY <1>3 DEF Answering, Inv, TypeOK
        <3> QED BY <1>3, <2>1, <2>8, <3>1 DEF FetchOK
    <2>9. FetchOK'
        BY <2>6, <2>8 DEF FetchOK
    <2> QED BY <2>5, <2>7, <2>9
<1>13. AllGet' /\ AllInOrder'
    BY <1>10, <1>12 DEF AllGet, AllInOrder
<1>14. (RegisteredGetsAll' <=> AllGet') /\ (RepliesInOrder' <=> AllInOrder')
    BY Restated, PTL
<1>15. \A k \in Sessions : rx'[k] # rx[k] => HasReceiver(k)
    BY <1>4
<1> QED BY <1>8, <1>12, <1>13, <1>14, <1>15

-------------------------------------------------------------------------------
(* The steps.                                                              *)

LEMMA SessionsKept ==
    ASSUME Inv, owner' = owner, joined' = joined, Len(log) <= Len(log'), Len(log') \in Nat,
           \A k \in Sessions :
               /\ ~ Opened(k) => /\ rx'[k] = rx[k] /\ shipped'[k] = shipped[k]
                                 /\ reader'[k] = reader[k] /\ writer'[k] = writer[k]
               /\ Opened(k) => reader'[k].at # "none"
               /\ writer'[k] # "recv" => rx'[k] = <<>>
    PROVE  \A k \in Sessions : SessionOK(k)'
<1> SUFFICES ASSUME NEW k \in Sessions PROVE SessionOK(k)'
    OBVIOUS
<1>1. SessionOK(k) /\ joined[k] \in Nat /\ Len(log) \in Nat
    BY DEF Inv, TypeOK
<1>2. joined'[k] <= Len(log')
    BY <1>1 DEF SessionOK
<1> QED BY <1>1, <1>2 DEF SessionOK, Opened

LEMMA EntriesKept ==
    ASSUME Inv, writers' = writers,
           \A k \in Sessions : reader'[k].at = "done" => reader[k].at = "done"
    PROVE  EntriesHaveReaders'
<1>1. \A s \in Spokes : writers[s] # NoSession => writers[s] \in Sessions
    BY DEF Inv, TypeOK
<1> QED BY <1>1 DEF Inv, EntriesHaveReaders

\* A new broadcast is numbered apart from those before it and those to come.
LEMMA LogExtended ==
    ASSUME Inv, NEW f, NEW x, ~ IsReply(f), Broadcast(f, x), Len(log') = Len(log) + 1,
           \A q \in 1 .. Len(log) : log[q].frame # f /\ log'[q] = log[q],
           log'[Len(log) + 1].frame = f,
           locals' \in Nat, locals <= locals', clips' = clips,
           f.kind = "local" => f.num <= locals',
           f.kind = "relay" =>
               f.num <= clips /\ \A k \in Sessions : Relaying(k)' => reader'[k].num # f.num,
           \A k \in Sessions : Relaying(k)' => Relaying(k) /\ reader'[k] = reader[k]
    PROVE  LogOK'
<1>1. LogOK /\ locals \in Nat /\ Len(log) \in Nat
    BY DEF Inv, TypeOK
<1>2. \A q \in 1 .. Len(log') : q \in 1 .. Len(log) \/ q = Len(log) + 1
    BY <1>1
<1>3. ASSUME NEW q \in 1 .. Len(log')
      PROVE  /\ ~ IsReply(log'[q].frame)
             /\ log'[q].frame.kind = "local" => log'[q].frame.num <= locals'
             /\ log'[q].frame.kind = "relay" =>
                   /\ log'[q].frame.num <= clips'
                   /\ \A k \in Sessions : Relaying(k)' => reader'[k].num # log'[q].frame.num
    <2>1. CASE q \in 1 .. Len(log)
        <3>1. /\ ~ IsReply(log[q].frame)
              /\ log[q].frame.kind = "relay" =>
                    /\ log[q].frame.num <= clips
                    /\ \A k \in Sessions : Relaying(k) => reader[k].num # log[q].frame.num
            BY <1>1, <2>1 DEF LogOK
        <3>2. log[q].frame.kind = "local" => log[q].frame.num <= locals
            BY <1>1, <2>1 DEF LogOK
        <3>3. log[q].frame.kind = "local" => log[q].frame.num \in Nat
            <4>1. log[q] \in [frame : Frames, exclude : Spokes \cup {NoSpoke}]
                BY <2>1, ElementOfSeq DEF Inv, TypeOK
            <4>2. log[q].frame \in Frames
                BY <4>1
            <4> QED BY <4>2 DEF Frames
        <3>4. log[q].frame.kind = "local" => log[q].frame.num <= locals'
            BY <1>1, <3>2, <3>3
        <3> QED BY <2>1, <3>1, <3>4
    <2>2. CASE q = Len(log) + 1
        BY <2>2
    <2> QED BY <1>2, <2>1, <2>2
<1>4. ASSUME NEW p \in 1 .. Len(log'), NEW q \in 1 .. Len(log'), log'[p].frame = log'[q].frame
      PROVE  p = q
    BY <1>1, <1>2, <1>4 DEF LogOK
<1>5. ASSUME NEW i \in Sessions, Relaying(i)'
      PROVE  /\ reader'[i].num <= clips'
             /\ \A j \in Sessions : Relaying(j)' /\ reader'[j].num = reader'[i].num => j = i
    BY <1>1, <1>5 DEF LogOK
<1>6. \A q \in 1 .. Len(log') : IsReply(log[q].frame)' <=> IsReply(log'[q].frame)
    BY DEF IsReply
<1> QED BY <1>3, <1>4, <1>5, <1>6 DEF LogOK

LEMMA BroadcastInLog ==
    ASSUME Inv, NEW f \in Frames, NEW x \in Spokes \cup {NoSpoke}, Broadcast(f, x)
    PROVE  /\ Len(log') = Len(log) + 1 /\ Len(log) \in Nat /\ log'[Len(log) + 1].frame = f
           /\ \A q \in 1 .. Len(log) : log'[q] = log[q]
<1>1. PICK R, e : /\ R = [frame : Frames, exclude : Spokes \cup {NoSpoke}]
                  /\ e = [frame |-> f, exclude |-> x]
    OBVIOUS
<1>2. e \in R /\ e.frame = f /\ log \in Seq(R) /\ log' = Append(log, e)
    BY <1>1 DEF Broadcast, Inv, TypeOK
<1> QED BY <1>2, AppendProperties

LEMMA InitOK == Init => Inv
<1> SUFFICES ASSUME Init PROVE Inv
    OBVIOUS
<1> USE DEF Init
<1>1. /\ NoSession \notin Sessions /\ Len(<<>>) = 0 /\ <<>> \o <<>> = <<>>
      /\ \A S : <<>> \in Seq(S)
    BY ConcatEmptySeq DEF NoSession, Sessions
<1>2. TypeOK
    <2>1. {MaxSessions, MaxLocal, MaxClips, MaxFetches} \subseteq Nat
        BY HubSessionsAssumption
    <2>2. Idle \in ReaderStates
        BY DEF Idle, ReaderStates
    <2>3. log \in Seq([frame : Frames, exclude : Spokes \cup {NoSpoke}])
        BY <1>1
    <2>4. rx \in [Sessions -> Seq(Frames)] /\ shipped \in [Sessions -> Seq(Frames)]
        BY <1>1
    <2> QED BY <2>1, <2>2, <2>3, <2>4 DEF TypeOK, WriterStates
<1>3. \A i \in Sessions : ~ Opened(i) /\ ~ Relaying(i) /\ ~ Answering(i) /\ Outgoing(i) = <<>>
    BY <1>1 DEF Opened, Relaying, Answering, Outgoing, Idle
<1>4. \A i \in Sessions : Replies(i) = {}
    BY <1>1, <1>3 DEF Replies
<1>5. \A i \in Sessions : SessionOK(i)
    BY <1>1, <1>3 DEF SessionOK, Idle
<1>6. EntriesHaveReaders
    BY DEF EntriesHaveReaders
<1>7. LogOK
    BY <1>1, <1>3 DEF LogOK
<1>8. FetchOK
    BY <1>3, <1>4 DEF FetchOK
<1>9. RegisteredGetsAll
    BY <1>3 DEF RegisteredGetsAll
<1>10. RepliesInOrder
    BY <1>4 DEF RepliesInOrder
<1> QED BY <1>2, <1>5, <1>6, <1>7, <1>8, <1>9, <1>10 DEF Inv

LEMMA LocalFrameStep == ASSUME Inv, LocalFrame PROVE Inv'
<1>1. PICK f : f = [kind |-> "local", num |-> locals + 1]
    OBVIOUS
<1>2. /\ locals < MaxLocal /\ locals' = locals + 1 /\ Broadcast(f, NoSpoke)
      /\ UNCHANGED <<owner, conn, writers, reader, writer, shipped, clips, fetches, joined>>
    BY <1>1 DEF LocalFrame, taskVars
<1>3. /\ locals' \in 0 .. MaxLocal /\ locals \in Nat /\ locals' \in 1 .. MaxLocal
    <2>1. MaxLocal \in Nat
        BY HubSessionsAssumption
    <2> QED BY <1>2, <2>1 DEF Inv, TypeOK
<1>4. f \in Frames /\ ~ IsReply(f) /\ f.kind = "local" /\ f.num = locals'
    BY <1>1, <1>2, <1>3 DEF Frames, IsReply
<1>5. \A q \in 1 .. Len(log) : log[q].frame # f
    <2>1. \A q \in 1 .. Len(log) : log[q].frame.kind = "local" => log[q].frame.num <= locals
        BY DEF Inv, LogOK
    <2> QED BY <1>2, <1>3, <1>4, <2>1
<1>6. /\ RegisteredGetsAll' /\ RepliesInOrder' /\ \A i \in Sessions : Fewer(i)
      /\ rx' \in [Sessions -> Seq(Frames)]
      /\ log' \in Seq([frame : Frames, exclude : Spokes \cup {NoSpoke}])
      /\ \A i \in Sessions : rx'[i] # rx[i] => Sendable(i, NoSpoke)
    BY <1>2, <1>4, <1>5, BroadcastStep
<1>7. /\ Len(log') = Len(log) + 1 /\ Len(log) \in Nat /\ log'[Len(log) + 1].frame = f
      /\ \A q \in 1 .. Len(log) : log'[q] = log[q]
    BY <1>2, <1>4, BroadcastInLog
<1>8. TypeOK'
    BY <1>2, <1>3, <1>6 DEF Inv, TypeOK
<1>9. \A k \in Sessions : SessionOK(k)'
    <2>1. \A k \in Sessions : SessionOK(k)
        BY DEF Inv
    <2>2. \A k \in Sessions : rx'[k] # rx[k] => Opened(k) /\ writer[k] = "recv"
        BY <1>6 DEF Sendable, HasSender, HasReceiver
    <2> QED BY <1>2, <1>7, <2>1, <2>2, SessionsKept DEF SessionOK
<1>10. EntriesHaveReaders'
    BY <1>2, EntriesKept
<1>11. \A k \in Sessions : Relaying(k)' => Relaying(k) /\ reader'[k] = reader[k]
    BY <1>2 DEF Relaying
<1>12. LogOK'
    BY <1>2, <1>3, <1>4, <1>5, <1>7, <1>11, LogExtended
<1>13. FetchOK'
    BY <1>2, <1>6, FetchKept DEF Answering
<1> QED BY <1>6, <1>8, <1>9, <1>10, <1>12, <1>13 DEF Inv

LEMMA RelayStep == ASSUME Inv, NEW i \in Sessions, Relay(i) PROVE Inv'
<1>1. PICK f, x, n : x = owner[i] /\ n = reader[i].num /\ f = [kind |-> "relay", from |-> x, num |-> n]
    OBVIOUS
<1>2. /\ Relaying(i) /\ Broadcast(f, x) /\ reader' = [reader EXCEPT ![i] = [at |-> "read"]]
      /\ UNCHANGED <<owner, conn, writers, writer, shipped, locals, clips, fetches, joined>>
    BY <1>1 DEF Relay, Relaying, countVars
<1>3. reader \in [Sessions -> ReaderStates] /\ reader' \in [Sessions -> ReaderStates]
    BY <1>2 DEF Inv, TypeOK, ReaderStates
<1>4. x \in Spokes
    <2>1. Opened(i)
        BY <1>2 DEF Inv, SessionOK, Relaying
    <2> QED BY <1>1, <2>1 DEF Inv, TypeOK, Opened
<1>5. n \in 1 .. MaxClips
    <2>1. reader[i] \in ReaderStates
        BY <1>3
    <2> QED BY <1>1, <1>2, <2>1 DEF ReaderStates, Relaying
<1>6. f \in Frames /\ ~ IsReply(f) /\ f.kind = "relay" /\ f.num = n
    BY <1>1, <1>4, <1>5 DEF Frames, IsReply
<1>7. /\ \A q \in 1 .. Len(log) : log[q].frame # f
      /\ n <= clips /\ \A k \in Sessions : Relaying(k) /\ reader[k].num = n => k = i
    <2>1. LogOK
        BY DEF Inv
    <2>2. \A q \in 1 .. Len(log) : log[q].frame.kind = "relay" => log[q].frame.num # n
        BY <1>1, <1>2, <2>1 DEF LogOK
    <2>3. n <= clips /\ \A k \in Sessions : Relaying(k) /\ reader[k].num = n => k = i
        BY <1>1, <1>2, <2>1 DEF LogOK
    <2> QED BY <1>6, <2>2, <2>3
<1>8. /\ RegisteredGetsAll' /\ RepliesInOrder' /\ \A k \in Sessions : Fewer(k)
      /\ rx' \in [Sessions -> Seq(Frames)]
      /\ log' \in Seq([frame : Frames, exclude : Spokes \cup {NoSpoke}])
      /\ \A k \in Sessions : rx'[k] # rx[k] => Sendable(k, x)
    BY <1>2, <1>4, <1>6, <1>7, BroadcastStep
<1>9. /\ Len(log') = Len(log) + 1 /\ Len(log) \in Nat /\ log'[Len(log) + 1].frame = f
      /\ \A q \in 1 .. Len(log) : log'[q] = log[q]
    BY <1>2, <1>4, <1>6, BroadcastInLog
<1>10. TypeOK'
    BY <1>2, <1>3, <1>8 DEF Inv, TypeOK
<1>11. \A k \in Sessions : SessionOK(k)'
    <2>1. \A k \in Sessions : SessionOK(k)
        BY DEF Inv
    <2>2. \A k \in Sessions : rx'[k] # rx[k] => Opened(k) /\ writer[k] = "recv"
        BY <1>8 DEF Sendable, HasSender, HasReceiver
    <2>3. \A k \in Sessions : (k # i => reader'[k] = reader[k]) /\ reader'[i].at = "read"
        BY <1>2, <1>3
    <2>4. Opened(i)
        BY <1>2 DEF Inv, SessionOK, Relaying
    <2>5. \A k \in Sessions : Opened(k) => reader'[k].at # "none"
        BY <2>1, <2>3 DEF SessionOK
    <2>6. \A k \in Sessions : ~ Opened(k) => reader'[k] = reader[k] /\ rx'[k] = rx[k]
        BY <2>2, <2>3, <2>4
    <2>7. \A k \in Sessions : writer'[k] # "recv" => rx'[k] = <<>>
        BY <1>2, <2>1, <2>2 DEF SessionOK
    <2> QED BY <1>2, <1>9, <2>5, <2>6, <2>7, SessionsKept
<1>12. EntriesHaveReaders'
    BY <1>2, <1>3, EntriesKept
<1>13. \A k \in Sessions : Relaying(k)' => k # i /\ Relaying(k) /\ reader'[k] = reader[k]
    BY <1>2, <1>3 DEF Relaying
<1>14. LogOK'
    <2>1. locals' \in Nat /\ locals <= locals'
        BY <1>2 DEF Inv, TypeOK
    <2>2. \A k \in Sessions : Relaying(k)' => reader'[k].num # n
        BY <1>7, <1>13
    <2> QED BY <1>2, <1>6, <1>7, <1>9, <1>13, <2>1, <2>2, LogExtended
<1>15. \A k \in Sessions : Answering(k)' => Answering(k) /\ reader'[k] = reader[k]
    BY <1>2, <1>3 DEF Answering
<1>16. FetchOK'
    BY <1>2, <1>8, <1>15, FetchKept
<1> QED BY <1>8, <1>10, <1>11, <1>12, <1>14, <1>16 DEF Inv

LEMMA AnswerFetchStep == ASSUME Inv, NEW i \in Sessions, AnswerFetch(i) PROVE Inv'
<1>1. /\ Answering(i) /\ reader' = [reader EXCEPT ![i] = [at |-> "read"]]
      /\ UNCHANGED <<owner, conn, writers, writer, shipped, log, locals, clips, fetches, joined>>
    BY DEF AnswerFetch, Answering, countVars
<1>2. /\ RegisteredGetsAll' /\ RepliesInOrder' /\ FetchOK'
      /\ rx' \in [Sessions -> Seq(Frames)]
      /\ \A k \in Sessions : rx'[k] # rx[k] => HasReceiver(k)
    BY ReplyStep
<1>3. reader \in [Sessions -> ReaderStates] /\ reader' \in [Sessions -> ReaderStates]
    BY <1>1 DEF Inv, TypeOK, ReaderStates
<1>4. TypeOK'
    BY <1>1, <1>2, <1>3 DEF Inv, TypeOK
<1>5. \A k \in Sessions : SessionOK(k)'
    <2>1. \A k \in Sessions : SessionOK(k)
        BY DEF Inv
    <2>2. \A k \in Sessions : rx'[k] # rx[k] => Opened(k) /\ writer[k] = "recv"
        BY <1>2, <2>1 DEF SessionOK, HasReceiver
    <2>3. \A k \in Sessions : (k # i => reader'[k] = reader[k]) /\ reader'[i].at = "read"
        BY <1>1, <1>3
    <2>4. Opened(i)
        BY <1>1, <2>1 DEF SessionOK, Answering
    <2>5. \A k \in Sessions : Opened(k) => reader'[k].at # "none"
        BY <2>1, <2>3 DEF SessionOK
    <2>6. \A k \in Sessions : ~ Opened(k) => reader'[k] = reader[k] /\ rx'[k] = rx[k]
        BY <2>2, <2>3, <2>4
    <2>7. \A k \in Sessions : writer'[k] # "recv" => rx'[k] = <<>>
        BY <1>1, <2>1, <2>2 DEF SessionOK
    <2>8. Len(log) \in Nat
        BY DEF Inv, TypeOK
    <2> QED BY <1>1, <2>5, <2>6, <2>7, <2>8, SessionsKept
<1>6. EntriesHaveReaders'
    BY <1>1, <1>3, EntriesKept
<1>7. LogOK'
    <2>1. \A k \in Sessions : Relaying(k)' => Relaying(k) /\ reader'[k] = reader[k]
        BY <1>1, <1>3 DEF Relaying
    <2> QED BY <1>1, <2>1, LogKept
<1> QED BY <1>2, <1>4, <1>5, <1>6, <1>7 DEF Inv

\* A step that leaves all channels, all sessions but their readers and
\* connections, and the log as they are.
LEMMA ReaderStep ==
    ASSUME Inv, UNCHANGED <<owner, rx, writer, shipped, log, joined, locals>>,
           \A k \in Sessions : HasSender(k)' => HasSender(k),
           \A k \in Sessions : /\ reader'[k].at = "none" <=> reader[k].at = "none"
                               /\ ~ Opened(k) => reader'[k] = reader[k]
    PROVE  /\ RegisteredGetsAll' /\ RepliesInOrder'
           /\ \A k \in Sessions : Fewer(k) /\ SessionOK(k)'
<1>1. \A k \in Sessions : Quiet(k)
    BY DEF Quiet, Outgoing, HasReceiver
<1>2. \A k \in Sessions : SessionOK(k)
    BY DEF Inv
<1>3. \A k \in Sessions : SessionOK(k)'
    <2>1. \A k \in Sessions : Opened(k) => reader'[k].at # "none"
        BY <1>2 DEF SessionOK
    <2>2. \A k \in Sessions : writer'[k] # "recv" => rx'[k] = <<>>
        BY <1>2 DEF SessionOK
    <2>3. Len(log) \in Nat
        BY DEF Inv, TypeOK
    <2> QED BY <2>1, <2>2, <2>3, SessionsKept
<1> QED BY <1>1, <1>3, QuietStep

LEMMA ReadClipStep == ASSUME Inv, NEW i \in Sessions, ReadClip(i) PROVE Inv'
<1>1. PICK r : r = [at |-> "relay", num |-> clips + 1]
    OBVIOUS
<1>2. /\ reader[i].at = "read" /\ clips < MaxClips /\ clips' = clips + 1
      /\ reader' = [reader EXCEPT ![i] = r]
      /\ UNCHANGED <<owner, conn, writers, rx, writer, shipped, locals, fetches, log, joined>>
    BY <1>1 DEF ReadClip
<1>3. clips \in Nat /\ clips' \in 0 .. MaxClips /\ clips' \in 1 .. MaxClips
    <2>1. MaxClips \in Nat
        BY HubSessionsAssumption
    <2> QED BY <1>2, <2>1 DEF Inv, TypeOK
<1>4. r \in ReaderStates /\ r.at = "relay" /\ r.num = clips'
    BY <1>1, <1>2, <1>3 DEF ReaderStates
<1>5. reader' \in [Sessions -> ReaderStates]
      /\ \A k \in Sessions : reader'[k] = IF k = i THEN r ELSE reader[k]
    BY <1>2, <1>4 DEF Inv, TypeOK
<1>6. /\ RegisteredGetsAll' /\ RepliesInOrder'
      /\ \A k \in Sessions : Fewer(k) /\ SessionOK(k)'
    <2>1. Opened(i)
        BY <1>2 DEF Inv, SessionOK
    <2>2. \A k \in Sessions : HasSender(k)' => HasSender(k)
        BY <1>2 DEF HasSender, Opened
    <2> QED BY <1>2, <1>4, <1>5, <2>1, <2>2, ReaderStep
<1>7. TypeOK'
    BY <1>2, <1>3, <1>5 DEF Inv, TypeOK
<1>8. EntriesHaveReaders'
    BY <1>2, <1>4, <1>5, EntriesKept
<1>9. FetchOK'
    <2>1. \A k \in Sessions : Answering(k)' => Answering(k) /\ reader'[k] = reader[k]
        BY <1>4, <1>5 DEF Answering
    <2> QED BY <1>2, <1>6, <2>1, FetchKept
<1>10. LogOK'
    <2>1. LogOK
        BY DEF Inv
    <2>2. \A q \in 1 .. Len(log) : log[q].frame.kind = "relay" => log[q].frame.num \in Nat
        <3> SUFFICES ASSUME NEW q \in 1 .. Len(log), log[q].frame.kind = "relay"
                     PROVE  log[q].frame.num \in Nat
            OBVIOUS
        <3>1. log[q] \in [frame : Frames, exclude : Spokes \cup {NoSpoke}]
            BY ElementOfSeq DEF Inv, TypeOK
        <3>2. log[q].frame \in Frames
            BY <3>1
        <3> QED BY <3>2 DEF Frames
    <2>3. ASSUME NEW k \in Sessions, Relaying(k) PROVE reader[k].num \in Nat
        <3>1. reader[k] \in ReaderStates
            BY DEF Inv, TypeOK
        <3> QED BY <2>3, <3>1 DEF ReaderStates, Relaying
    <2>4. ASSUME NEW q \in 1 .. Len(log)
          PROVE  /\ ~ IsReply(log[q].frame)
                 /\ log[q].frame.kind = "local" => log[q].frame.num <= locals
                 /\ log[q].frame.kind = "relay" =>
                       /\ log[q].frame.num <= clips'
                       /\ \A k \in Sessions :
                             Relaying(k)' => reader'[k].num # log[q].frame.num
        <3>1. /\ ~ IsReply(log[q].frame)
              /\ log[q].frame.kind = "local" => log[q].frame.num <= locals
            BY <2>1 DEF LogOK
        <3>2. log[q].frame.kind = "relay" =>
                  /\ log[q].frame.num <= clips
                  /\ \A k \in Sessions : Relaying(k) => reader[k].num # log[q].frame.num
            BY <2>1 DEF LogOK
        <3>3. ASSUME log[q].frame.kind = "relay"
              PROVE  /\ log[q].frame.num <= clips' /\ log[q].frame.num # clips'
                     /\ \A k \in Sessions :
                           Relaying(k)' => reader'[k].num # log[q].frame.num
            <4>1. log[q].frame.num <= clips' /\ log[q].frame.num # clips'
                BY <1>2, <1>3, <2>2, <3>2, <3>3
            <4> QED BY <1>4, <1>5, <3>2, <3>3, <4>1 DEF Relaying
        <3> QED BY <3>1, <3>3
    <2>5. \A p, q \in 1 .. Len(log) : log[p].frame = log[q].frame => p = q
        BY <2>1 DEF LogOK
    <2>6. ASSUME NEW k \in Sessions, Relaying(k)'
          PROVE  /\ reader'[k].num <= clips'
                 /\ \A j \in Sessions : Relaying(j)' /\ reader'[j].num = reader'[k].num => j = k
        <3>1. \A j \in Sessions : Relaying(j) => reader[j].num <= clips /\ reader[j].num # clips'
            BY <1>2, <1>3, <2>1, <2>3 DEF LogOK
        <3>2. \A j \in Sessions : Relaying(j) /\ Relaying(k) /\ reader[j].num = reader[k].num => j = k
            BY <2>1 DEF LogOK
        <3>3. k # i => Relaying(k) /\ reader'[k] = reader[k] /\ reader[k].num <= clips'
            <4>1. k # i => Relaying(k) /\ reader'[k] = reader[k]
                BY <1>5, <2>6 DEF Relaying
            <4> QED BY <1>2, <1>3, <2>3, <3>1, <4>1
        <3>4. \A j \in Sessions : j # i /\ Relaying(j)' => Relaying(j) /\ reader'[j] = reader[j]
            BY <1>5 DEF Relaying
        <3>5. reader'[i].num = clips' /\ clips' <= clips'
            BY <1>3, <1>4, <1>5
        <3>6. reader'[k].num <= clips'
            BY <3>3, <3>5
        <3>7. \A j \in Sessions : Relaying(j)' /\ reader'[j].num = reader'[k].num => j = k
            BY <3>1, <3>2, <3>3, <3>4, <3>5
        <3> QED BY <3>6, <3>7
    <2> QED BY <1>2, <2>4, <2>5, <2>6 DEF LogOK, IsReply
<1> QED BY <1>6, <1>7, <1>8, <1>9, <1>10 DEF Inv

LEMMA ReadFetchStep == ASSUME Inv, NEW i \in Sessions, ReadFetch(i) PROVE Inv'
<1>1. PICK r : r = [at |-> "reply", req |-> fetches + 1]
    OBVIOUS
<1>2. /\ reader[i].at = "read" /\ fetches < MaxFetches /\ fetches' = fetches + 1
      /\ reader' = [reader EXCEPT ![i] = r]
      /\ UNCHANGED <<owner, conn, writers, rx, writer, shipped, locals, clips, log, joined>>
    BY <1>1 DEF ReadFetch
<1>3. fetches \in Nat /\ fetches' \in 0 .. MaxFetches /\ fetches' \in 1 .. MaxFetches
    <2>1. MaxFetches \in Nat
        BY HubSessionsAssumption
    <2> QED BY <1>2, <2>1 DEF Inv, TypeOK
<1>4. r \in ReaderStates /\ r.at = "reply" /\ r.req = fetches'
    BY <1>1, <1>2, <1>3 DEF ReaderStates
<1>5. reader' \in [Sessions -> ReaderStates]
      /\ \A k \in Sessions : reader'[k] = IF k = i THEN r ELSE reader[k]
    BY <1>2, <1>4 DEF Inv, TypeOK
<1>6. /\ RegisteredGetsAll' /\ RepliesInOrder'
      /\ \A k \in Sessions : Fewer(k) /\ SessionOK(k)'
    <2>1. Opened(i)
        BY <1>2 DEF Inv, SessionOK
    <2>2. \A k \in Sessions : HasSender(k)' => HasSender(k)
        BY <1>2 DEF HasSender, Opened
    <2> QED BY <1>2, <1>4, <1>5, <2>1, <2>2, ReaderStep
<1>7. TypeOK'
    BY <1>2, <1>3, <1>5 DEF Inv, TypeOK
<1>8. EntriesHaveReaders'
    BY <1>2, <1>4, <1>5, EntriesKept
<1>9. LogOK'
    <2>1. \A k \in Sessions : Relaying(k)' => Relaying(k) /\ reader'[k] = reader[k]
        BY <1>4, <1>5 DEF Relaying
    <2> QED BY <1>2, <2>1, LogKept
<1>10. FetchOK'
    <2>1. FetchOK
        BY DEF Inv
    <2>2. ASSUME NEW k \in Sessions, Answering(k)
          PROVE  reader[k].req \in Nat /\ reader[k].req <= fetches /\ reader[k].req # fetches'
        <3>1. reader[k] \in ReaderStates
            BY DEF Inv, TypeOK
        <3>2. reader[k].req \in Nat
            BY <2>2, <3>1 DEF ReaderStates, Answering
        <3>3. reader[k].req <= fetches
            BY <2>1, <2>2 DEF FetchOK
        <3> QED BY <1>2, <1>3, <3>2, <3>3
    <2>3. \A k \in Sessions : k # i /\ Answering(k)' => Answering(k) /\ reader'[k] = reader[k]
        BY <1>5 DEF Answering
    <2>4. reader'[i].req = fetches' /\ fetches' <= fetches'
        BY <1>3, <1>4, <1>5
    <2>5. ASSUME NEW k \in Sessions, NEW m \in Replies(k)', NEW f, f = Outgoing(k)'[m]
          PROVE  /\ f.req <= fetches'
                 /\ \A j \in Sessions : Answering(j)' => reader'[j].req # f.req
        <3>1. m \in Replies(k) /\ f = Outgoing(k)[m]
            BY <1>6, <2>5 DEF Fewer
        <3>2. f.req <= fetches /\ \A j \in Sessions : Answering(j) => reader[j].req # f.req
            BY <2>1, <3>1 DEF FetchOK
        <3>3. f \in Frames /\ IsReply(f)
            BY <3>1, OutTyped DEF Inv, Replies
        <3>4. f.req \in Nat
            BY <3>3 DEF Frames, IsReply
        <3>5. f.req <= fetches' /\ f.req # fetches'
            BY <1>2, <1>3, <3>2, <3>4
        <3> QED BY <2>3, <2>4, <3>2, <3>5
    <2>6. ASSUME NEW k \in Sessions, Answering(k)'
          PROVE  /\ reader'[k].req <= fetches'
                 /\ \A j \in Sessions : Answering(j)' /\ reader'[j].req = reader'[k].req => j = k
        <3>1. \A j \in Sessions : Answering(j) /\ Answering(k) /\ reader[j].req = reader[k].req => j = k
            BY <2>1 DEF FetchOK
        <3>2. k # i => reader'[k].req <= fetches'
            BY <1>2, <1>3, <2>2, <2>3, <2>6
        <3>3. \A j \in Sessions : Answering(j)' /\ reader'[j].req = reader'[k].req => j = k
            BY <2>2, <2>3, <2>4, <2>6, <3>1
        <3> QED BY <2>4, <3>2, <3>3
    <2> QED BY <2>5, <2>6 DEF FetchOK
<1> QED BY <1>6, <1>7, <1>8, <1>9, <1>10 DEF Inv

\* The steps that take nothing and give nothing.
LEMMA ReaderEndsStep ==
    ASSUME Inv, NEW i \in Sessions, ReaderFails(i) \/ Cleanup(i) \/ Break(i)
    PROVE  Inv'
<1>1. /\ UNCHANGED <<owner, rx, writer, shipped, locals, clips, fetches, log, joined>>
      /\ conn' \in [Sessions -> {"none", "up", "broken", "closed"}]
    BY DEF ReaderFails, Cleanup, Break, taskVars, countVars, Inv, TypeOK
<1>2. /\ reader' \in [Sessions -> ReaderStates]
      /\ \A k \in Sessions : \/ reader'[k] = reader[k]
                             \/ /\ reader[k].at \in {"read", "cleanup"}
                                /\ reader'[k].at \in {"cleanup", "done"}
    <2>1. CASE ReaderFails(i)
        BY <2>1 DEF ReaderFails, Inv, TypeOK, ReaderStates
    <2>2. CASE Cleanup(i)
        BY <2>2 DEF Cleanup, Inv, TypeOK, ReaderStates
    <2>3. CASE Break(i)
        BY <2>3 DEF Break, taskVars, Inv, TypeOK
    <2> QED BY <2>1, <2>2, <2>3
<1>3. \A k \in Sessions : /\ reader'[k].at = "none" <=> reader[k].at = "none"
                          /\ ~ Opened(k) => reader'[k] = reader[k]
    BY <1>2 DEF Inv, SessionOK
<1>4. Cleanup(i) => owner[i] \in Spokes
    <2>1. Cleanup(i) => Opened(i)
        BY DEF Cleanup, Inv, SessionOK
    <2> QED BY <2>1 DEF Inv, TypeOK, Opened
<1>5. /\ writers' \in [Spokes -> Sessions \cup {NoSession}]
      /\ \A s \in Spokes : writers'[s] = writers[s] \/ writers'[s] = NoSession
      /\ Cleanup(i) => writers'[owner[i]] = NoSession
    <2>1. CASE Cleanup(i)
        BY <1>4, <2>1 DEF Cleanup, Unregister, Inv, TypeOK
    <2>2. CASE ~ Cleanup(i)
        BY <2>2 DEF ReaderFails, Break, Inv, TypeOK
    <2> QED BY <2>1, <2>2
<1>6. \A k \in Sessions : HasSender(k)' => HasSender(k)
    <2>1. NoSession \notin Sessions
        BY DEF NoSession, Sessions
    <2>2. \A k \in Sessions : Opened(k) => owner[k] \in Spokes
        BY DEF Opened, Inv, TypeOK
    <2> QED BY <1>1, <1>5, <2>1, <2>2 DEF HasSender, Opened
<1>7. /\ RegisteredGetsAll' /\ RepliesInOrder'
      /\ \A k \in Sessions : Fewer(k) /\ SessionOK(k)'
    BY <1>1, <1>3, <1>6, ReaderStep
<1>8. TypeOK'
    BY <1>1, <1>2, <1>5 DEF Inv, TypeOK
<1>9. EntriesHaveReaders'
    <2>1. CASE Cleanup(i)
        <3>1. \A k \in Sessions : k # i => reader'[k] = reader[k]
            BY <2>1 DEF Cleanup, Inv, TypeOK
        <3>2. ASSUME NEW s \in Spokes, writers'[s] # NoSession
              PROVE  reader'[writers'[s]].at # "done"
            <4>1. writers'[s] = writers[s] /\ writers[s] \in Sessions
                BY <1>5, <3>2 DEF Inv, TypeOK
            <4>2. writers[s] # i
                <5>1. writers[s] = i => owner[i] = s
                    BY <3>2, <4>1 DEF Inv, TypeOK
                <5> QED BY <1>5, <2>1, <3>2, <5>1
            <4> QED BY <3>1, <3>2, <4>1, <4>2 DEF Inv, EntriesHaveReaders
        <3> QED BY <3>2 DEF EntriesHaveReaders
    <2>2. CASE ReaderFails(i)
        <3>1. \A k \in Sessions : reader'[k].at = "done" => reader[k].at = "done"
            BY <2>2 DEF ReaderFails, Inv, TypeOK
        <3> QED BY <2>2, <3>1, EntriesKept DEF ReaderFails
    <2>3. CASE Break(i)
        BY <2>3, EntriesKept DEF Break, taskVars
    <2> QED BY <2>1, <2>2, <2>3
<1>10. LogOK'
    <2>1. \A k \in Sessions : Relaying(k)' => Relaying(k) /\ reader'[k] = reader[k]
        BY <1>2 DEF Relaying
    <2> QED BY <1>1, <2>1, LogKept
<1>11. FetchOK'
    <2>1. \A k \in Sessions : Answering(k)' => Answering(k) /\ reader'[k] = reader[k]
        BY <1>2 DEF Answering
    <2> QED BY <1>1, <1>7, <2>1, FetchKept
<1> QED BY <1>7, <1>8, <1>9, <1>10, <1>11 DEF Inv

LEMMA WriterStep ==
    ASSUME Inv, NEW i \in Sessions, Ship(i) \/ ShipFails(i) \/ WriterDrained(i)
    PROVE  Inv'
<1>1. /\ UNCHANGED <<owner, writers, reader, locals, clips, fetches, log, joined>>
      /\ conn' \in [Sessions -> {"none", "up", "broken", "closed"}]
      /\ writer[i] = "recv" /\ Len(log) \in Nat
    <2>1. Len(log) \in Nat /\ conn \in [Sessions -> {"none", "up", "broken", "closed"}]
        BY DEF Inv, TypeOK
    <2>2. UNCHANGED <<owner, writers, reader, locals, clips, fetches, log, joined>>
        BY DEF Ship, ShipFails, WriterDrained, countVars
    <2>3. conn' = conn \/ conn' = [conn EXCEPT ![i] = "closed"]
        BY DEF Ship, ShipFails, WriterDrained
    <2>4. writer[i] = "recv"
        BY DEF Ship, ShipFails, WriterDrained
    <2> QED BY <2>1, <2>2, <2>3, <2>4
<1>2. \A k \in Sessions : k # i => /\ rx'[k] = rx[k] /\ shipped'[k] = shipped[k]
                                   /\ writer'[k] = writer[k]
    BY DEF Ship, ShipFails, WriterDrained, Inv, TypeOK
<1>3. PICK s, a : s = shipped[i] /\ a = rx[i]
    OBVIOUS
<1>4. s \in Seq(Frames) /\ a \in Seq(Frames) /\ Outgoing(i) = s \o a
    BY <1>3, OutTyped DEF Inv, Outgoing
<1>5. /\ rx' \in [Sessions -> Seq(Frames)] /\ shipped' \in [Sessions -> Seq(Frames)]
      /\ writer' \in [Sessions -> WriterStates]
      /\ writer'[i] # "recv" => rx'[i] = <<>>
      /\ \/ Outgoing(i)' = Outgoing(i) /\ (HasReceiver(i)' => HasReceiver(i))
         \/ Outgoing(i)' = shipped[i] /\ writer'[i] = "done"
    <2>1. CASE Ship(i)
        <3>1. /\ rx' = [rx EXCEPT ![i] = Tail(a)] /\ a # <<>>
              /\ shipped' = [shipped EXCEPT ![i] = Append(s, Head(a))]
              /\ writer' = writer
            BY <1>3, <2>1 DEF Ship
        <3>2. /\ Append(s, Head(a)) \in Seq(Frames) /\ Tail(a) \in Seq(Frames)
              /\ Append(s, Head(a)) \o Tail(a) = s \o a
            BY <1>4, <3>1, SentKeepsPlace
        <3>3. Outgoing(i)' = Append(s, Head(a)) \o Tail(a)
            BY <3>1 DEF Outgoing, Inv, TypeOK
        <3> QED BY <1>1, <1>4, <3>1, <3>2, <3>3 DEF Inv, TypeOK, HasReceiver
    <2>2. CASE ShipFails(i)
        <3>1. /\ rx' = [rx EXCEPT ![i] = <<>>] /\ shipped' = shipped
              /\ writer' = [writer EXCEPT ![i] = "done"]
            BY <2>2 DEF ShipFails
        <3>2. s \o <<>> = s /\ <<>> \in Seq(Frames)
            BY <1>4, ConcatEmptySeq
        <3>3. Outgoing(i)' = s
            BY <1>3, <3>1, <3>2 DEF Outgoing, Inv, TypeOK
        <3> QED BY <1>3, <3>1, <3>2, <3>3 DEF Inv, TypeOK, WriterStates
    <2>3. CASE WriterDrained(i)
        BY <1>1, <2>3 DEF WriterDrained, Inv, TypeOK, WriterStates, Outgoing, HasReceiver
    <2> QED BY <2>1, <2>2, <2>3
<1>6. /\ RegisteredGetsAll' /\ RepliesInOrder' /\ \A k \in Sessions : Fewer(k)
    <2>1. \A k \in Sessions : Quiet(k)
        BY <1>1, <1>2, <1>5 DEF Quiet, Outgoing, HasSender, HasReceiver, Opened
    <2> QED BY <1>1, <2>1, QuietStep
<1>7. TypeOK'
    BY <1>1, <1>5 DEF Inv, TypeOK
<1>8. \A k \in Sessions : SessionOK(k)'
    <2>1. \A k \in Sessions : SessionOK(k)
        BY DEF Inv
    <2>2. Opened(i)
        BY <1>1, <2>1 DEF SessionOK
    <2>3. \A k \in Sessions : Opened(k) => reader'[k].at # "none"
        BY <1>1, <2>1 DEF SessionOK
    <2>4. \A k \in Sessions : writer'[k] # "recv" => rx'[k] = <<>>
        BY <1>2, <1>5, <2>1 DEF SessionOK
    <2> QED BY <1>1, <1>2, <2>2, <2>3, <2>4, SessionsKept
<1>9. EntriesHaveReaders'
    BY <1>1, EntriesKept
<1>10. LogOK'
    BY <1>1, LogKept DEF Relaying
<1>11. FetchOK'
    BY <1>1, <1>6, FetchKept DEF Answering
<1> QED BY <1>6, <1>7, <1>8, <1>9, <1>10, <1>11 DEF Inv

\* A session starts with nothing and owes nothing; the spoke's previous one
\* loses its sender.
LEMMA AcceptStep == ASSUME Inv, NEW s \in Spokes, Accept(s) PROVE Inv'
<1>1. PICK i \in Sessions :
        /\ ~ Opened(i)
        /\ owner' = [owner EXCEPT ![i] = s] /\ conn' = [conn EXCEPT ![i] = "up"]
        /\ writers' = [writers EXCEPT ![s] = i]
        /\ reader' = [reader EXCEPT ![i] = [at |-> "read"]]
        /\ writer' = [writer EXCEPT ![i] = "recv"]
        /\ joined' = [joined EXCEPT ![i] = Len(log)]
        /\ UNCHANGED <<rx, shipped, locals, clips, fetches, log>>
    BY DEF Accept, Register, countVars
<1>2. /\ s # NoSpoke /\ Len(log) \in Nat /\ NoSession \notin Sessions
      /\ i # NoSession /\ Len(<<>>) = 0
    <2>1. s # NoSpoke
        BY SpokesAssumption
    <2>2. NoSession \notin Sessions
        BY DEF NoSession, Sessions
    <2>3. Len(log) \in Nat
        BY DEF Inv, TypeOK
    <2> QED BY <2>1, <2>2, <2>3
<1>3. /\ \A k \in Sessions : k # i => /\ owner'[k] = owner[k] /\ reader'[k] = reader[k]
                                      /\ writer'[k] = writer[k] /\ joined'[k] = joined[k]
      /\ owner'[i] = s /\ reader'[i].at = "read" /\ writer'[i] = "recv"
      /\ joined'[i] = Len(log)
    BY <1>1 DEF Inv, TypeOK
<1>4. \A k \in Sessions : Opened(k)' <=> Opened(k) \/ k = i
    BY <1>2, <1>3 DEF Opened
<1>5. Outgoing(i)' = <<>> /\ Outgoing(i) = <<>>
    <2>1. rx[i] = <<>> /\ shipped[i] = <<>> /\ <<>> \o <<>> = <<>>
        BY <1>1, ConcatEmptySeq DEF Inv, SessionOK
    <2> QED BY <1>1, <2>1 DEF Outgoing
<1>6. \A k \in Sessions : Outgoing(k)' = Outgoing(k)
    BY <1>1 DEF Outgoing
<1>7. TypeOK'
    <2>1. /\ owner' \in [Sessions -> Spokes \cup {NoSpoke}]
          /\ conn' \in [Sessions -> {"none", "up", "broken", "closed"}]
          /\ writers' \in [Spokes -> Sessions \cup {NoSession}]
        BY <1>1 DEF Inv, TypeOK
    <2>2. /\ reader' \in [Sessions -> ReaderStates] /\ writer' \in [Sessions -> WriterStates]
          /\ joined' \in [Sessions -> Nat]
        BY <1>1, <1>2 DEF Inv, TypeOK, ReaderStates, WriterStates
    <2>3. ASSUME NEW t \in Spokes, writers'[t] # NoSession PROVE owner'[writers'[t]] = t
        <3>1. CASE t = s
            BY <1>1, <1>3, <3>1 DEF Inv, TypeOK
        <3>2. CASE t # s
            <4>1. writers'[t] = writers[t] /\ writers[t] \in Sessions /\ owner[writers[t]] = t
                BY <1>1, <2>3, <3>2 DEF Inv, TypeOK
            <4>2. writers[t] # i
                BY <1>1, <4>1, SpokesAssumption DEF Opened
            <4> QED BY <1>3, <4>1, <4>2
        <3> QED BY <3>1, <3>2
    <2> QED BY <1>1, <2>1, <2>2, <2>3 DEF Inv, TypeOK
<1>8. ASSUME NEW k \in Sessions PROVE SessionOK(k)'
    <2>1. SessionOK(k)
        BY DEF Inv
    <2>2. CASE k = i
        BY <1>1, <1>2, <1>3, <1>4, <2>1, <2>2 DEF SessionOK
    <2>3. CASE k # i
        BY <1>1, <1>3, <1>4, <2>1, <2>3 DEF SessionOK
    <2> QED BY <2>2, <2>3
<1>9. EntriesHaveReaders'
    <2>1. ASSUME NEW t \in Spokes, writers'[t] # NoSession
          PROVE  reader'[writers'[t]].at # "done"
        <3>1. CASE t = s
            BY <1>1, <1>3, <3>1 DEF Inv, TypeOK
        <3>2. CASE t # s
            <4>1. writers'[t] = writers[t] /\ writers[t] \in Sessions
                BY <1>1, <2>1, <3>2 DEF Inv, TypeOK
            <4>2. reader[writers[t]].at # "done"
                BY <2>1, <4>1 DEF Inv, EntriesHaveReaders
            <4> QED BY <1>3, <4>1, <4>2
        <3> QED BY <3>1, <3>2
    <2> QED BY <2>1 DEF EntriesHaveReaders
<1>10. LogOK'
    <2>1. \A k \in Sessions : Relaying(k)' => Relaying(k) /\ reader'[k] = reader[k]
        BY <1>3 DEF Relaying
    <2> QED BY <1>1, <2>1, LogKept
<1>11. \A k \in Sessions : Fewer(k) /\ (~ Opened(k) => Replies(k)' = {})
    <2>1. \A k \in Sessions : ~ Opened(k) => Outgoing(k) = <<>>
        <3>1. <<>> \o <<>> = <<>>
            BY ConcatEmptySeq
        <3> QED BY <3>1 DEF Inv, SessionOK, Outgoing
    <2> QED BY <1>2, <1>6, <2>1 DEF Fewer, Replies
<1>12. FetchOK'
    <2>1. \A k \in Sessions : Answering(k)' => Answering(k) /\ reader'[k] = reader[k]
        BY <1>3 DEF Answering
    <2> QED BY <1>1, <1>11, <2>1, FetchKept
<1>13. ASSUME NEW k \in Sessions PROVE (Opened(k)' => GetsAll(k)') /\ AllWhole(k)'
    <2>1. (Opened(k) => GetsAll(k)) /\ AllWhole(k)
        BY Restated DEF Inv, AllGet, AllInOrder
    <2>2. CASE k = i
        <3>1. Due(k)' = {}
            BY <1>1, <1>2, <1>3, <2>2 DEF Due
        <3>2. PICK v : v = <<>>
            OBVIOUS
        <3>3. BroadcastsIn(v) = {} /\ RepliesIn(v) = {}
            BY <1>2, <3>2 DEF BroadcastsIn, RepliesIn
        <3>4. Gets(v, log, {}, FALSE) /\ Gets(v, log, {}, TRUE)
            BY <3>3 DEF Gets
        <3>5. Whole(v, FALSE) /\ Whole(v, TRUE)
            BY <3>3 DEF Whole
        <3>6. GetsAll(k)'
            BY <1>1, <1>5, <2>2, <3>1, <3>2, <3>4 DEF GetsAll
        <3>7. AllWhole(k)'
            BY <1>5, <2>2, <3>2, <3>5 DEF AllWhole
        <3> QED BY <3>6, <3>7
    <2>3. CASE k # i
        <3>1. Due(k)' = Due(k) /\ (HasReceiver(k)' <=> HasReceiver(k)) /\ (Opened(k)' <=> Opened(k))
            BY <1>1, <1>3, <1>4, <2>3 DEF Due, HasReceiver
        <3>2. HasSender(k)' => HasSender(k)
            <4>1. Opened(k) => owner[k] \in Spokes
                BY DEF Opened, Inv, TypeOK
            <4>2. HasSender(k)' => Opened(k) /\ writers'[owner[k]] = k
                BY <1>3, <2>3, <3>1 DEF HasSender
            <4> QED BY <1>1, <2>3, <4>1, <4>2 DEF HasSender, Inv, TypeOK
        <3>3. Opened(k)' => GetsAll(k)'
            BY <1>1, <1>6, <2>1, <3>1, <3>2 DEF GetsAll
        <3>4. AllWhole(k)'
            BY <1>3, <1>6, <2>1, <2>3 DEF AllWhole
        <3> QED BY <3>3, <3>4
    <2> QED BY <2>2, <2>3
<1>14. Unshared' /\ Owned'
    <2>1. \A k \in Sessions : Opened(k) => owner'[k] = owner[k]
        BY <1>1, <1>3
    <2> QED BY <1>11, <2>1, FewerReplies
<1>15. AllGet' /\ AllInOrder'
    BY <1>13, <1>14 DEF AllGet, AllInOrder
<1>16. (RegisteredGetsAll' <=> AllGet') /\ (RepliesInOrder' <=> AllInOrder')
    BY Restated, PTL
<1> QED BY <1>7, <1>8, <1>9, <1>10, <1>12, <1>15, <1>16 DEF Inv

LEMMA StutterOK == ASSUME Inv, UNCHANGED vars PROVE Inv'
<1>1. UNCHANGED <<owner, writers, rx, reader, writer, shipped, locals, clips, fetches, log,
                  joined, conn>>
    BY DEF vars, taskVars, countVars
<1>2. RegisteredGetsAll' /\ RepliesInOrder' /\ \A k \in Sessions : Fewer(k) /\ SessionOK(k)'
    BY <1>1, ReaderStep DEF HasSender, Opened
<1>3. TypeOK'
    BY <1>1 DEF Inv, TypeOK
<1>4. EntriesHaveReaders' /\ LogOK' /\ FetchOK'
    BY <1>1, <1>2, EntriesKept, LogKept, FetchKept DEF Relaying, Answering
<1> QED BY <1>2, <1>3, <1>4 DEF Inv

LEMMA NextOK == ASSUME Inv, [Next]_vars PROVE Inv'
<1>1. CASE LocalFrame
    BY <1>1, LocalFrameStep
<1>2. ASSUME NEW s \in Spokes, Accept(s) PROVE Inv'
    BY <1>2, AcceptStep
<1>3. ASSUME NEW i \in Sessions, TaskStep(i) \/ Break(i) PROVE Inv'
    <2>1. CASE Ship(i) \/ ShipFails(i) \/ WriterDrained(i)
        BY <2>1, WriterStep
    <2>2. CASE ReadClip(i)
        BY <2>2, ReadClipStep
    <2>3. CASE Relay(i)
        BY <2>3, RelayStep
    <2>4. CASE ReadFetch(i)
        BY <2>4, ReadFetchStep
    <2>5. CASE AnswerFetch(i)
        BY <2>5, AnswerFetchStep
    <2>6. CASE ReaderFails(i) \/ Cleanup(i) \/ Break(i)
        BY <2>6, ReaderEndsStep
    <2> QED BY <1>3, <2>1, <2>2, <2>3, <2>4, <2>5, <2>6 DEF TaskStep
<1>4. CASE UNCHANGED vars
    BY <1>4, StutterOK
<1> QED BY <1>1, <1>2, <1>3, <1>4 DEF Next

-------------------------------------------------------------------------------
(* The refinement: FanOut.                                                 *)

LEMMA Listening ==
    ASSUME Inv, NEW i \in Sessions
    PROVE  FO!Listens(i) <=> HasSender(i) /\ HasReceiver(i)
BY DEF FO!Listens, Live, HasSender, HasReceiver, Inv, SessionOK

LEMMA SameInbox ==
    ASSUME \A i \in Sessions : Outgoing(i)' = Outgoing(i)
    PROVE  Inbox' = Inbox
BY DEF Inbox

\* Readers that relay or wait leave the requests alone.
LEMMA SameAnswered ==
    ASSUME fetches' = fetches,
           \A k \in Sessions : reader[k].at = "reply" \/ reader'[k].at = "reply" =>
                                  reader'[k] = reader[k]
    PROVE  Answered' = Answered
<1>1. \A k \in Sessions : reader'[k].at = "reply" <=> reader[k].at = "reply"
    OBVIOUS
<1>2. Pending' = Pending
    BY <1>1 DEF Pending
<1> QED BY <1>2 DEF Answered

\* A step of one reader that neither took nor answers a request.
LEMMA OtherReader ==
    ASSUME TypeOK, NEW i \in Sessions, NEW r, reader[i].at # "reply", r.at # "reply",
           reader' = [reader EXCEPT ![i] = r], fetches' = fetches
    PROVE  Answered' = Answered
<1>1. \A k \in Sessions : reader'[k] = IF k = i THEN r ELSE reader[k]
    BY DEF TypeOK
<1> QED BY <1>1, SameAnswered

LEMMA BroadcastPublishes ==
    ASSUME Inv, NEW f \in Frames, NEW x \in Spokes \cup {NoSpoke}, Broadcast(f, x),
           \A q \in 1 .. Len(log) : log[q].frame # f, Answered' = Answered,
           UNCHANGED <<owner, writers, writer, shipped>>
    PROVE  FO!Publish(f, x)
<1>1. /\ Len(log') = Len(log) + 1 /\ Len(log) \in Nat /\ log'[Len(log) + 1].frame = f
      /\ \A q \in 1 .. Len(log) : log'[q] = log[q]
    BY BroadcastInLog
<1>2. DOMAIN log = 1 .. Len(log) /\ DOMAIN log' = 1 .. Len(log) + 1
    <2>1. PICK R, e : /\ R = [frame : Frames, exclude : Spokes \cup {NoSpoke}]
                      /\ e = [frame |-> f, exclude |-> x]
        OBVIOUS
    <2>2. e \in R /\ log \in Seq(R) /\ log' = Append(log, e)
        BY <2>1 DEF Broadcast, Inv, TypeOK
    <2>3. log' \in Seq(R)
        BY <2>2, AppendProperties
    <2> QED BY <1>1, <2>2, <2>3, LenProperties
<1>3. f \notin Published /\ Published' = Published \cup {f}
    <2>1. \A q : q \in DOMAIN log' <=> q \in DOMAIN log \/ q = Len(log) + 1
        BY <1>1, <1>2
    <2> QED BY <1>1, <1>2, <2>1 DEF Published
<1>4. ASSUME NEW i \in Sessions
      PROVE  Outgoing(i)' = IF FO!Listens(i) /\ owner[i] # x THEN Append(Inbox[i], f)
                                                             ELSE Inbox[i]
    <2>1. rx[i] \in Seq(Frames) /\ shipped[i] \in Seq(Frames)
        BY OutTyped DEF Inv
    <2>2. rx'[i] = IF Sendable(i, x) THEN Append(rx[i], f) ELSE rx[i]
        BY DEF Broadcast
    <2>3. Sendable(i, x) <=> FO!Listens(i) /\ owner[i] # x
        BY Listening DEF Sendable
    <2>4. shipped[i] \o Append(rx[i], f) = Append(shipped[i] \o rx[i], f)
        <3>1. PICK S, a, b : S = Frames /\ a = shipped[i] /\ b = rx[i]
            OBVIOUS
        <3>2. a \in Seq(S) /\ b \in Seq(S) /\ f \in S
            BY <2>1, <3>1
        <3>3. a \o Append(b, f) = Append(a \o b, f)
            BY <3>2, AppendedBehind
        <3> QED BY <3>1, <3>3
    <2>5. Outgoing(i)' = shipped[i] \o rx'[i] /\ Inbox[i] = shipped[i] \o rx[i]
        BY DEF Outgoing, Inbox
    <2> QED BY <2>2, <2>3, <2>4, <2>5
<1>5. Inbox' = [i \in Sessions |-> IF FO!Listens(i) /\ owner[i] # x THEN Append(Inbox[i], f)
                                                                   ELSE Inbox[i]]
    BY <1>4 DEF Inbox
<1>6. UNCHANGED <<owner, writers, Live>>
    BY DEF Live, HasReceiver
<1> QED BY <1>3, <1>5, <1>6 DEF FO!Publish

LEMMA LocalFramePublishes == ASSUME Inv, LocalFrame PROVE FO!Next
<1>1. PICK f : f = [kind |-> "local", num |-> locals + 1]
    OBVIOUS
<1>2. /\ locals < MaxLocal /\ Broadcast(f, NoSpoke)
      /\ UNCHANGED <<owner, writers, reader, writer, shipped, fetches>>
    BY <1>1 DEF LocalFrame, taskVars
<1>3. locals \in Nat /\ MaxLocal \in Nat /\ locals + 1 \in 1 .. MaxLocal
    BY <1>2, HubSessionsAssumption DEF Inv, TypeOK
<1>4. f \in Frames /\ f.kind = "local" /\ f.num = locals + 1
    BY <1>1, <1>3 DEF Frames
<1>5. \A q \in 1 .. Len(log) : log[q].frame # f
    <2>1. \A q \in 1 .. Len(log) : log[q].frame.kind = "local" => log[q].frame.num <= locals
        BY DEF Inv, LogOK
    <2> QED BY <1>3, <1>4, <2>1
<1>6. Answered' = Answered
    BY <1>2 DEF Answered, Pending
<1>7. FO!Publish(f, NoSpoke)
    BY <1>2, <1>4, <1>5, <1>6, BroadcastPublishes
<1> QED BY <1>4, <1>7 DEF FO!Next

LEMMA RelayPublishes == ASSUME Inv, NEW i \in Sessions, Relay(i) PROVE FO!Next
<1>1. PICK f : f = [kind |-> "relay", from |-> owner[i], num |-> reader[i].num]
    OBVIOUS
<1>2. /\ Relaying(i) /\ reader[i].at = "relay" /\ Broadcast(f, owner[i])
      /\ reader' = [reader EXCEPT ![i] = [at |-> "read"]]
      /\ UNCHANGED <<owner, writers, writer, shipped, fetches>>
    BY <1>1 DEF Relay, Relaying, countVars
<1>3. owner[i] \in Spokes
    BY <1>2 DEF Inv, SessionOK, TypeOK, Opened
<1>4. reader[i].num \in 1 .. MaxClips
    <2>1. reader[i] \in ReaderStates
        BY DEF Inv, TypeOK
    <2> QED BY <1>2, <2>1 DEF ReaderStates
<1>5. f \in Frames /\ f.kind = "relay" /\ f.from = owner[i] /\ f.num = reader[i].num
    BY <1>1, <1>3, <1>4 DEF Frames
<1>6. \A q \in 1 .. Len(log) : log[q].frame # f
    <2>1. \A q \in 1 .. Len(log) :
             log[q].frame.kind = "relay" => reader[i].num # log[q].frame.num
        BY <1>2 DEF Inv, LogOK
    <2> QED BY <1>5, <2>1
<1>7. Answered' = Answered
    BY <1>2, OtherReader DEF Inv
<1>8. FO!Publish(f, owner[i])
    BY <1>2, <1>3, <1>5, <1>6, <1>7, BroadcastPublishes
<1> QED BY <1>5, <1>8 DEF FO!Next

LEMMA AcceptOpens == ASSUME Inv, NEW s \in Spokes, Accept(s) PROVE FO!Open(s)
<1>1. PICK i \in Sessions :
        /\ ~ Opened(i) /\ \A j \in 1 .. i - 1 : Opened(j)
        /\ owner' = [owner EXCEPT ![i] = s]
        /\ Register(s, i)
        /\ reader' = [reader EXCEPT ![i] = [at |-> "read"]]
        /\ writer' = [writer EXCEPT ![i] = "recv"]
        /\ UNCHANGED <<rx, shipped, log, fetches>>
    BY DEF Accept, countVars
<1>2. reader[i].at = "none" /\ TypeOK
    BY <1>1 DEF Inv, SessionOK
<1>3. Answered' = Answered
    BY <1>1, <1>2, OtherReader
<1>4. Inbox' = Inbox /\ Published' = Published
    BY <1>1 DEF Inbox, Outgoing, Published
<1>5. Live' = Live \cup {i}
    <2>1. \A k \in Sessions : writer'[k] = IF k = i THEN "recv" ELSE writer[k]
        BY <1>1, <1>2 DEF TypeOK
    <2> QED BY <2>1 DEF Live, HasReceiver
<1>6. owner[i] = NoSpoke /\ \A j \in Sessions : j < i => owner[j] # NoSpoke
    BY <1>1, HubSessionsAssumption DEF Opened, Sessions
<1>7. writers' = [writers EXCEPT ![s] = i]
    BY <1>1 DEF Register
<1> QED BY <1>1, <1>3, <1>4, <1>5, <1>6, <1>7 DEF FO!Open

LEMMA AnswerFetchAnswers == ASSUME Inv, NEW i \in Sessions, AnswerFetch(i) PROVE FO!Next
<1>1. PICK q, j : q = reader[i].req /\ j = writers[owner[i]]
    OBVIOUS
<1>2. PICK hit \in BOOLEAN : SendReply(i, hit)
    BY DEF AnswerFetch
<1>3. PICK reply : reply = Reply(i, hit)
    OBVIOUS
<1>4. /\ reader[i].at = "reply" /\ reader' = [reader EXCEPT ![i] = [at |-> "read"]]
      /\ UNCHANGED <<owner, writers, writer, shipped, log, fetches>>
    BY DEF AnswerFetch, countVars
<1>5. owner[i] \in Spokes /\ owner[i] # NoSpoke
    BY <1>4 DEF Inv, SessionOK, TypeOK, Opened
<1>6. q \in 1 .. MaxFetches
    <2>1. reader[i] \in ReaderStates
        BY DEF Inv, TypeOK
    <2> QED BY <1>1, <1>4, <2>1 DEF ReaderStates
<1>7. q <= fetches /\ \A k \in Sessions \ {i} : reader[k].at = "reply" => reader[k].req # q
    BY <1>1, <1>4 DEF Inv, FetchOK, Answering
<1>8. q \notin Answered /\ Answered' = Answered \cup {q}
    <2>1. \A k \in Sessions : reader'[k] = IF k = i THEN [at |-> "read"] ELSE reader[k]
        BY <1>4 DEF Inv, TypeOK
    <2>2. q \in Pending
        BY <1>1, <1>4 DEF Pending
    <2>3. Pending' = Pending \ {q}
        BY <1>1, <1>4, <1>7, <2>1 DEF Pending
    <2>4. q \in 1 .. fetches
        BY <1>6, <1>7 DEF Inv, TypeOK
    <2> QED BY <1>4, <2>2, <2>3, <2>4 DEF Answered
<1>9. reply \in FO!Reply(i, q) /\ reply \in Seq(Frames)
    <2>1. \A m : ReplyFrame(i, m) = FO!Piece(i, q, m)
        BY <1>1 DEF ReplyFrame, FO!Piece
    <2>2. ASSUME hit PROVE reply \in FO!Reply(i, q)
        <3>1. reply = [m \in 1 .. Chunks |-> FO!Piece(i, q, m)]
            BY <1>3, <2>1, <2>2 DEF Reply
        <3> QED BY <3>1 DEF FO!Reply
    <2>3. ASSUME ~ hit PROVE reply \in FO!Reply(i, q)
        <3>1. reply = << FO!Piece(i, q, 0) >>
            BY <1>3, <2>1, <2>3 DEF Reply
        <3> QED BY <3>1 DEF FO!Reply
    <2>4. reply \in FO!Reply(i, q)
        BY <1>2, <2>2, <2>3
    <2>5. Answering(i)
        BY <1>4 DEF Answering
    <2>6. hit \in BOOLEAN
        BY <1>2
    <2>7. reply \in Seq(Frames)
        BY <1>3, <2>5, <2>6, ReplyFacts
    <2> QED BY <2>4, <2>7
<1>10. ASSUME NEW k \in Sessions
       PROVE  Outgoing(k)' = IF FO!Listens(k) /\ owner[k] = owner[i] THEN Inbox[k] \o reply
                                                                    ELSE Inbox[k]
    <2>1. rx[k] \in Seq(Frames) /\ shipped[k] \in Seq(Frames)
        BY OutTyped DEF Inv
    <2>2. rx'[k] = IF k = j /\ HasReceiver(j) THEN rx[k] \o reply ELSE rx[k]
        BY <1>1, <1>2, <1>3 DEF SendReply
    <2>3. (k = j /\ HasReceiver(j)) <=> (FO!Listens(k) /\ owner[k] = owner[i])
        <3>1. k = j => owner[k] = owner[i] /\ HasSender(k)
            <4>1. k # NoSession
                BY DEF Sessions, NoSession
            <4> QED BY <1>1, <1>5, <4>1 DEF Inv, TypeOK, HasSender, Opened
        <3>2. owner[k] = owner[i] /\ HasSender(k) => k = j
            BY <1>1 DEF HasSender
        <3> QED BY <3>1, <3>2, Listening
    <2>4. shipped[k] \o (rx[k] \o reply) = (shipped[k] \o rx[k]) \o reply
        <3>1. PICK S, a, b : S = Frames /\ a = shipped[k] /\ b = rx[k]
            OBVIOUS
        <3>2. a \in Seq(S) /\ b \in Seq(S) /\ reply \in Seq(S)
            BY <1>9, <2>1, <3>1
        <3>3. a \o (b \o reply) = (a \o b) \o reply
            BY <3>2, ConcatAssociative
        <3> QED BY <3>1, <3>3
    <2>5. Outgoing(k)' = shipped[k] \o rx'[k] /\ Inbox[k] = shipped[k] \o rx[k]
        BY <1>4 DEF Outgoing, Inbox
    <2> QED BY <2>2, <2>3, <2>4, <2>5
<1>11. Inbox' = [k \in Sessions |->
                   IF FO!Listens(k) /\ owner[k] = owner[i] THEN Inbox[k] \o reply
                                                          ELSE Inbox[k]]
    BY <1>10 DEF Inbox
<1>12. UNCHANGED <<owner, writers, Live, Published>>
    BY <1>4 DEF Live, HasReceiver, Published
<1>13. FO!Answer(i, q)
    BY <1>5, <1>8, <1>9, <1>11, <1>12 DEF FO!Answer
<1> QED BY <1>6, <1>13 DEF FO!Next

LEMMA WriterEnds ==
    ASSUME Inv, NEW i \in Sessions, ShipFails(i) \/ WriterDrained(i)
    PROVE  FO!End(i)
<1>1. /\ writer[i] = "recv" /\ writer' = [writer EXCEPT ![i] = "done"]
      /\ rx'[i] = <<>> /\ \A k \in Sessions \ {i} : rx'[k] = rx[k]
      /\ UNCHANGED <<owner, writers, shipped, reader, log, fetches>>
    BY DEF ShipFails, WriterDrained, countVars, Inv, TypeOK
<1>2. i \in Live /\ Live' = Live \ {i}
    <2>1. \A k \in Sessions : writer'[k] = IF k = i THEN "done" ELSE writer[k]
        BY <1>1 DEF Inv, TypeOK
    <2> QED BY <1>1, <2>1 DEF Live, HasReceiver
<1>3. rx[i] \in Seq(Frames) /\ shipped[i] \in Seq(Frames)
    BY OutTyped DEF Inv
<1>4. PICK v, n : v = shipped[i] \o rx[i] /\ n = Len(shipped[i])
    OBVIOUS
<1>5. n \in 0 .. Len(v) /\ SubSeq(v, 1, n) = shipped[i]
    <2>1. Len(v) = n + Len(rx[i]) /\ n \in Nat /\ Len(rx[i]) \in Nat
        BY <1>3, <1>4, PrefixFacts
    <2>2. PICK S, a, b : S = Frames /\ a = shipped[i] /\ b = rx[i]
        OBVIOUS
    <2>3. a \in Seq(S) /\ b \in Seq(S)
        BY <1>3, <2>2
    <2>4. SubSeq(a \o b, 1, Len(a)) = a
        <3>1. CASE a = <<>>
            <4>1. Len(a) = 0
                BY <3>1, EmptySeq
            <4>2. SubSeq(a \o b, 1, 0) = <<>>
                BY SubSeqEmpty
            <4> QED BY <3>1, <4>1, <4>2
        <3>2. CASE a # <<>>
            <4>1. Len(a) \in 1 .. Len(a) /\ 1 \in 1 .. Len(a)
                BY <2>3, <3>2, EmptySeq, LenProperties
            <4>2. PICK l : l = Len(a)
                OBVIOUS
            <4>3. SubSeq(a \o b, 1, l) = SubSeq(a, 1, l)
                BY <2>3, <4>1, <4>2, SubSeqOfConcat1
            <4> QED BY <2>3, <4>2, <4>3, SubSeqFull
        <3> QED BY <3>1, <3>2
    <2>5. SubSeq(v, 1, n) = shipped[i]
        BY <1>4, <2>2, <2>4
    <2>6. PICK l, m : l = Len(v) /\ m = Len(rx[i])
        OBVIOUS
    <2>7. n \in 0 .. Len(v)
        BY <2>1, <2>6
    <2> QED BY <2>5, <2>7
<1>6. Outgoing(i)' = shipped[i] /\ \A k \in Sessions \ {i} : Outgoing(k)' = Outgoing(k)
    <2>1. shipped[i] \o <<>> = shipped[i]
        BY <1>3, ConcatEmptySeq
    <2> QED BY <1>1, <2>1 DEF Outgoing
<1>7. Inbox[i] = v /\ Inbox' = [Inbox EXCEPT ![i] = SubSeq(@, 1, n)]
    BY <1>4, <1>5, <1>6 DEF Inbox, Outgoing
<1>8. UNCHANGED <<owner, writers, Published, Answered>>
    BY <1>1 DEF Published, Answered, Pending
<1> QED BY <1>2, <1>5, <1>7, <1>8 DEF FO!End

LEMMA CleanupForgets ==
    ASSUME Inv, NEW i \in Sessions, Cleanup(i)
    PROVE  FO!Next \/ UNCHANGED FO!vars
<1>1. /\ reader[i].at = "cleanup" /\ reader' = [reader EXCEPT ![i] = [at |-> "done"]]
      /\ writers' = [writers EXCEPT ![owner[i]] = NoSession]
      /\ UNCHANGED <<owner, rx, writer, shipped, log, fetches>>
    BY DEF Cleanup, Unregister, countVars
<1>2. PICK s \in Spokes : s = owner[i]
    BY <1>1 DEF Inv, SessionOK, TypeOK, Opened
<1>3. UNCHANGED <<owner, Live, Inbox, Published, Answered>>
    <2>1. Answered' = Answered
        BY <1>1, OtherReader DEF Inv
    <2> QED BY <1>1, <2>1 DEF Live, HasReceiver, Inbox, Outgoing, Published
<1>4. CASE writers[s] = NoSession
    <2>1. writers' = writers
        BY <1>1, <1>2, <1>4 DEF Inv, TypeOK
    <2> QED BY <1>3, <2>1 DEF FO!vars
<1>5. CASE writers[s] # NoSession
    <2>1. FO!Forget(s)
        BY <1>1, <1>2, <1>3, <1>5 DEF FO!Forget
    <2> QED BY <2>1 DEF FO!Next
<1> QED BY <1>4, <1>5

\* Sending moves a frame; reading and breaking are none of the abstract
\* specification's business.
LEMMA QuietSteps ==
    ASSUME Inv, NEW i \in Sessions,
           Ship(i) \/ ReadClip(i) \/ ReadFetch(i) \/ ReaderFails(i) \/ Break(i)
    PROVE  UNCHANGED FO!vars
<1>1. UNCHANGED <<owner, writers, writer, log>>
    BY DEF Ship, ReadClip, ReadFetch, ReaderFails, Break, countVars, taskVars
<1>2. Inbox' = Inbox
    <2>1. CASE Ship(i)
        <3>1. rx[i] \in Seq(Frames) /\ shipped[i] \in Seq(Frames) /\ rx[i] # <<>>
            BY <2>1, OutTyped DEF Inv, Ship
        <3>2. Append(shipped[i], Head(rx[i])) \o Tail(rx[i]) = shipped[i] \o rx[i]
            BY <3>1, SentKeepsPlace
        <3>3. \A k \in Sessions :
                 /\ shipped'[k] = IF k = i THEN Append(shipped[i], Head(rx[i])) ELSE shipped[k]
                 /\ rx'[k] = IF k = i THEN Tail(rx[i]) ELSE rx[k]
            BY <2>1 DEF Ship, Inv, TypeOK
        <3>4. \A k \in Sessions : Outgoing(k)' = Outgoing(k)
            BY <3>2, <3>3 DEF Outgoing
        <3> QED BY <3>4, SameInbox
    <2>2. CASE ~ Ship(i)
        <3>1. UNCHANGED <<rx, shipped>>
            BY <2>2 DEF ReadClip, ReadFetch, ReaderFails, Break, taskVars
        <3> QED BY <3>1 DEF Inbox, Outgoing
    <2> QED BY <2>1, <2>2
<1>3. Answered' = Answered
    <2>1. CASE ReadFetch(i)
        <3>1. /\ reader[i].at = "read" /\ fetches' = fetches + 1
              /\ reader' = [reader EXCEPT ![i] = [at |-> "reply", req |-> fetches + 1]]
            BY <2>1 DEF ReadFetch
        <3>2. \A k \in Sessions :
                 reader'[k] = IF k = i THEN [at |-> "reply", req |-> fetches + 1] ELSE reader[k]
            BY <3>1 DEF Inv, TypeOK
        <3>3. Pending' = Pending \cup {fetches + 1}
            BY <3>1, <3>2 DEF Pending
        <3>4. fetches \in Nat
            BY DEF Inv, TypeOK
        <3>5. 1 .. fetches + 1 = (1 .. fetches) \cup {fetches + 1} /\ fetches + 1 \notin 1 .. fetches
            BY <3>4
        <3> QED BY <3>1, <3>3, <3>5 DEF Answered
    <2>2. CASE ReadClip(i) \/ ReaderFails(i)
        <3>1. PICK r : /\ r.at # "reply" /\ reader[i].at # "reply"
                       /\ reader' = [reader EXCEPT ![i] = r] /\ fetches' = fetches
            BY <2>2 DEF ReadClip, ReaderFails, countVars
        <3> QED BY <3>1, OtherReader DEF Inv
    <2>3. CASE Ship(i) \/ Break(i)
        BY <2>3 DEF Ship, Break, taskVars, countVars, Answered, Pending
    <2> QED BY <2>1, <2>2, <2>3
<1> QED BY <1>1, <1>2, <1>3 DEF FO!vars, Live, HasReceiver, Published

-------------------------------------------------------------------------------
(* The theorems.                                                           *)

\* The invariant holds in every reachable state: whatever the order in which
\* spokes come back, readers fan out and answer, and writers end.
THEOREM InvAlways == Spec => []Inv
<1>1. Init => Inv
    BY InitOK
<1>2. Inv /\ [Next]_vars => Inv'
    BY NextOK
<1> QED BY <1>1, <1>2, PTL DEF Spec

\* The values have their types, an entry of the map is under the spoke that its
\* session belongs to (server.rs:263-271), and none goes stale: it is there only
\* while the reader that removes it is (server.rs:332-334).
THEOREM HubInvariant == Spec => []HubInv
<1>1. Inv => HubInv
    BY DEF Inv, HubInv
<1> QED BY <1>1, InvAlways, PTL

\* A session's frames are the broadcasts that are due to it since it joined, in
\* order, once each and without a gap, and all of them while it is registered
\* and its writer lives (server.rs:241-251, 261-302).
THEOREM BroadcastsArrive == Spec => []RegisteredGetsAll
<1>1. Inv => RegisteredGetsAll
    BY DEF Inv
<1> QED BY <1>1, InvAlways, PTL

\* A fetch reply goes to one session of the spoke that asked, whole and in order
\* (server.rs:307-317).
THEOREM RepliesArriveWhole == Spec => []RepliesInOrder
<1>1. Inv => RepliesInOrder
    BY DEF Inv
<1> QED BY <1>1, InvAlways, PTL

\* With its map, channels and tasks the hub behaves as one that gives every
\* frame at once to all it is for (server.rs:241-336).
THEOREM HubImplementsFanOut == Spec => ImplementsFanOut
<1>1. Init => FO!Init
    <2> SUFFICES ASSUME Init PROVE FO!Init
        OBVIOUS
    <2>1. Live = {} /\ Pending = {} /\ fetches = 0 /\ DOMAIN log = {}
        BY DEF Init, Live, HasReceiver, Pending, Idle
    <2>2. Published = {} /\ Answered = {}
        BY <2>1 DEF Published, Answered
    <2>3. <<>> \o <<>> = <<>>
        BY ConcatEmptySeq, EmptySeq
    <2>4. Inbox = [i \in Sessions |-> <<>>]
        BY <2>3 DEF Init, Inbox, Outgoing
    <2> QED BY <2>1, <2>2, <2>4 DEF Init, FO!Init
<1>2. ASSUME Inv, [Next]_vars PROVE [FO!Next]_FO!vars
    <2>1. CASE LocalFrame
        BY <1>2, <2>1, LocalFramePublishes
    <2>2. ASSUME NEW s \in Spokes, Accept(s) PROVE FO!Next
        BY <1>2, <2>2, AcceptOpens DEF FO!Next
    <2>3. ASSUME NEW i \in Sessions, TaskStep(i) \/ Break(i) PROVE [FO!Next]_FO!vars
        <3>1. CASE ShipFails(i) \/ WriterDrained(i)
            BY <1>2, <3>1, WriterEnds DEF FO!Next
        <3>2. CASE Relay(i)
            BY <1>2, <3>2, RelayPublishes
        <3>3. CASE AnswerFetch(i)
            BY <1>2, <3>3, AnswerFetchAnswers
        <3>4. CASE Cleanup(i)
            BY <1>2, <3>4, CleanupForgets
        <3>5. CASE Ship(i) \/ ReadClip(i) \/ ReadFetch(i) \/ ReaderFails(i) \/ Break(i)
            BY <1>2, <3>5, QuietSteps
        <3> QED BY <2>3, <3>1, <3>2, <3>3, <3>4, <3>5 DEF TaskStep
    <2>4. CASE UNCHANGED vars
        BY <2>4 DEF vars, taskVars, countVars, FO!vars, Live, HasReceiver, Inbox, Outgoing,
                    Published, Answered, Pending
    <2> QED BY <1>2, <2>1, <2>2, <2>3, <2>4 DEF Next
<1> QED BY <1>1, <1>2, InvAlways, PTL DEF Spec, ImplementsFanOut, FO!Spec
===============================================================================
