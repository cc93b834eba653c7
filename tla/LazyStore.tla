------------------------------- MODULE LazyStore ------------------------------
(***************************************************************************)
(* The store of large clipboard payloads (crates/clipboard/src/lazy.rs)    *)
(* and the chunks in which the hub hands a payload out                     *)
(* (crates/cli/src/runtime/server.rs:214-239, 307-312).  Every operation   *)
(* holds the store's mutex from its first read to its last write.          *)
(*                                                                         *)
(* A payload stands for its bytes and for their hash; what matters of it   *)
(* is its size.                                                            *)
(***************************************************************************)
EXTENDS Naturals, SequencesExt

CONSTANTS
    Payloads,
    Size,               \* Size[p]: bytes.len()
    Cap,                \* cap
    InlineThreshold,    \* INLINE_THRESHOLD
    ChunkSize           \* FETCH_CHUNK_SIZE

ASSUME LazyStoreAssumption ==
    /\ Size \in [Payloads -> Nat]
    /\ Cap \in Nat /\ InlineThreshold \in Nat
    /\ ChunkSize \in Nat \ {0}

VARIABLES
    stored,     \* by_hash, as the set of payloads it holds
    order,      \* insertion order
    total,      \* total_bytes
    reply       \* the last fetch request and the frames that answered it

vars == <<stored, order, total, reply>>

Chunk == [idx : Nat, total : Nat, len : 0 .. ChunkSize]
NoReply == <<>>

TypeOK ==
    /\ stored \subseteq Payloads
    /\ order \in Seq(Payloads)
    /\ total \in Nat
    /\ \/ reply = NoReply
       \/ reply \in [payload : Payloads, miss : BOOLEAN, frames : Seq(Chunk)]

Init == stored = {} /\ order = <<>> /\ total = 0 /\ reply = NoReply
-------------------------------------------------------------------------------
SaturatingSub(m, n) == IF m > n THEN m - n ELSE 0

\* f[1] + ... + f[n]
SumTo(f, n) ==
    LET sum[k \in 0 .. n] == IF k = 0 THEN 0 ELSE sum[k - 1] + f[k] IN sum[n]

\* Bytes of the first n entries of a queue.
BytesTo(queue, n) == SumTo([k \in DOMAIN queue |-> Size[queue[k]]], n)

OldestBytes(n) == BytesTo(order, n)

Fits(n, p) == SaturatingSub(total, OldestBytes(n)) + Size[p] <= Cap

\* Mutant of Evictions: the entry must stay strictly below the cap.
EvictionsStrict(p) ==
    CHOOSE n \in 0 .. Len(order) :
        /\ n = Len(order) \/ SaturatingSub(total, OldestBytes(n)) + Size[p] < Cap
        /\ \A m \in 0 .. n - 1 :
             SaturatingSub(total, OldestBytes(m)) + Size[p] >= Cap

\* How many of the oldest entries go until p fits or the store is empty.
Evictions(p) ==
    CHOOSE n \in 0 .. Len(order) :
        /\ n = Len(order) \/ Fits(n, p)
        /\ \A m \in 0 .. n - 1 : ~ Fits(m, p)

\* insert: nothing to do for a hash that is present, and no entry is too big.
Insert(p) ==
    /\ reply' = NoReply
    /\ \/ /\ p \in stored
          /\ UNCHANGED <<stored, order, total>>
       \/ /\ p \notin stored
          /\ LET n == Evictions(p) IN
             /\ stored' = (stored \ ToSet(SubSeq(order, 1, n))) \cup {p}
             /\ order' = Append(SubSeq(order, n + 1, Len(order)), p)
             /\ total' = SaturatingSub(total, OldestBytes(n)) + Size[p]

\* produce_image: a payload over the threshold goes to the store, a smaller
\* one travels in the snapshot.
ProduceImage(p) == Size[p] > InlineThreshold /\ Insert(p)

\* What retain leaves of the first n entries of a queue.
Retained(queue, p, n) ==
    LET kept[k \in 0 .. n] ==
            IF k = 0 THEN <<>>
            ELSE IF queue[k] = p THEN kept[k - 1] ELSE Append(kept[k - 1], queue[k])
    IN  kept[n]

\* Mutant of Forget: the order queue keeps the hash.
ForgetKeepsOrder(p) == UNCHANGED order

\* order.retain
Forget(p) == order' = Retained(order, p, Len(order))

\* remove
RemoveEntry(p) ==
    /\ p \in stored
    /\ stored' = stored \ {p}
    /\ total' = SaturatingSub(total, Size[p])
    /\ Forget(p)
    /\ reply' = NoReply

\* Mutant of ChunkCount: an exact multiple gets one chunk too many.
ChunkCountSpare(size) == size \div ChunkSize + 1

\* div_ceil
ChunkCount(size) == (size + ChunkSize - 1) \div ChunkSize

\* chunk_fetch_response: even an empty payload has a frame.
ChunkFetchResponse(size) ==
    IF size = 0 THEN << [idx |-> 0, total |-> 1, len |-> 0] >>
    ELSE LET count == ChunkCount(size) IN
         [k \in 1 .. count |->
            [idx |-> k - 1, total |-> count,
             len |-> IF k < count THEN ChunkSize ELSE size - (count - 1) * ChunkSize]]

\* The hub answers a fetch request; a miss has no chunks.
Fetch(p) ==
    /\ reply' = [payload |-> p, miss |-> p \notin stored,
                 frames |-> IF p \in stored THEN ChunkFetchResponse(Size[p])
                                            ELSE <<>>]
    /\ UNCHANGED <<stored, order, total>>

Next ==
    \E p \in Payloads : Insert(p) \/ ProduceImage(p) \/ RemoveEntry(p) \/ Fetch(p)

Spec == Init /\ [][Next]_vars
-------------------------------------------------------------------------------
\* The map, the queue and the counter tell the same story after any sequence
\* of insertions, evictions and removals: each entry is queued once and its
\* bytes are counted once, so no subtraction ever saturates.
Accounted ==
    /\ ToSet(order) = stored /\ IsInjective(order)
    /\ total = BytesTo(order, Len(order))

\* The store stays within its cap, but for a single entry that alone exceeds
\* it: such an entry is kept, with nothing beside it.
WithinCap == total <= Cap \/ \E p \in stored : stored = {p}

\* The two of them, with the types: what every operation preserves, whatever
\* was stored, evicted or removed before (lazy.rs:75-108).
StoreInv == TypeOK /\ Accounted /\ WithinCap

OldestLeave ==
    LET gone == stored \ stored'
        n == Cardinality(gone)
    IN  /\ ToSet(SubSeq(order, 1, n)) = gone
        /\ n > 0 => total' + Size[order[n]] > Cap

\* Entries leave from the oldest on and no more of them than needed: what an
\* insertion takes away are the oldest entries, and the youngest of those
\* would not have fitted beside what stays.
EvictsOldestOnly == [][stored' \ stored # {} => OldestLeave]_vars

\* The frames f are numbered and know how many they are, none but the last is
\* short, none is too long or empty without need, and they add up to size.
AddUp(f, size) ==
    /\ f # <<>>
    /\ \A k \in DOMAIN f :
         /\ f[k].idx = k - 1 /\ f[k].total = Len(f)
         /\ k < Len(f) => f[k].len = ChunkSize
         /\ f[k].len <= ChunkSize /\ (f[k].len = 0 => size = 0)
    /\ SumTo([k \in DOMAIN f |-> f[k].len], Len(f)) = size

\* A hit can be put together from its frames alone: their lengths add up to the
\* payload, whatever its size.
ReplyReassembles ==
    (reply # NoReply /\ ~ reply.miss) => AddUp(reply.frames, Size[reply.payload])
===============================================================================
