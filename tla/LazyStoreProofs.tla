---------------------------- MODULE LazyStoreProofs ----------------------------
(***************************************************************************)
(* Proofs about LazyStore for all payloads of any sizes and for every cap  *)
(* and chunk size.                                                         *)
(*                                                                         *)
(* The argument: StoreInv is inductive. What an operation does to the sum  *)
(* of the bytes follows from what it does to the queue, for which the      *)
(* recursive definitions of the model are shown to satisfy their           *)
(* equations (SumFacts, RetainedFacts), by induction in the form of        *)
(* the least number of a set (LeastNumber).                                *)
(***************************************************************************)
EXTENDS LazyStore, SequenceTheorems, FiniteSetTheorems, WellFoundedInduction, TLAPS

LEMMA LeastNumber ==
    ASSUME NEW T, T \subseteq Nat, T # {}
    PROVE  \E x \in T : \A y \in T : x <= y
<1>1. PICK R : R = OpToRel(<, Nat)
    OBVIOUS
<1>2. IsWellFoundedOn(R, Nat)
    BY <1>1, NatLessThanWellFounded
<1>3. PICK x \in T : \A y \in T : ~(<<y, x>> \in R)
    BY <1>2, WFMin
<1>4. \A x1, y1 \in Nat : <<y1, x1>> \in R <=> y1 < x1
    BY <1>1 DEF OpToRel
<1>5. ASSUME NEW y \in T PROVE x <= y
    <2>1. x \in Nat /\ y \in Nat
        OBVIOUS
    <2>2. ~(y < x)
        BY <2>1, <1>3, <1>4
    <2> QED BY <2>1, <2>2
<1> QED BY <1>5

\* Of the first n numbers all are in T, if 0 is and each that follows one is.
LEMMA UpTo ==
    ASSUME NEW n \in Nat, NEW T, 0 \in T,
           \A k \in 1 .. n : k - 1 \in T => k \in T
    PROVE  \A k \in 0 .. n : k \in T
<1> SUFFICES ASSUME NEW j \in 0 .. n, j \notin T PROVE FALSE
    OBVIOUS
<1>1. PICK U : U = {k \in 0 .. n : k \notin T}
    OBVIOUS
<1>2. PICK x \in U : \A y \in U : x <= y
    <2>1. U \subseteq Nat /\ U # {}
        BY <1>1
    <2> QED BY <2>1, LeastNumber
<1>3. x \in 1 .. n /\ x \notin T
    BY <1>1, <1>2
<1>4. x - 1 \in 0 .. n /\ ~(x <= x - 1)
    BY <1>3
<1>5. x - 1 \in T
    BY <1>1, <1>2, <1>4
<1> QED BY <1>3, <1>5

\* f is b at 0 and G of k and what it was before at each k up to n.
Recurs(f, n, b, G) == f[0] = b /\ \A k \in 1 .. n : f[k] = G[<<k, f[k - 1]>>]

\* A function defined by recursion over the first n numbers exists.
LEMMA Recursion ==
    ASSUME NEW n \in Nat, NEW V, NEW b \in V, NEW G \in [(1 .. n) \X V -> V]
    PROVE  \E f \in [0 .. n -> V] : Recurs(f, n, b, G)
<1>1. PICK T : T = {m \in 0 .. n : \E f \in [0 .. m -> V] :
                       f[0] = b /\ \A k \in 1 .. m : f[k] = G[<<k, f[k - 1]>>]}
    OBVIOUS
<1>2. 0 \in T
    <2>1. PICK f \in [0 .. 0 -> V] : f = [k \in 0 .. 0 |-> b]
        OBVIOUS
    <2>2. f[0] = b /\ \A k \in 1 .. 0 : FALSE
        BY <2>1
    <2>3. 0 \in 0 .. n
        OBVIOUS
    <2> QED BY <1>1, <2>2, <2>3
<1>3. ASSUME NEW m \in 1 .. n, m - 1 \in T PROVE m \in T
    <2>1. PICK f \in [0 .. m - 1 -> V] :
              f[0] = b /\ \A k \in 1 .. m - 1 : f[k] = G[<<k, f[k - 1]>>]
        BY <1>1, <1>3
    <2>2. PICK v \in V : v = G[<<m, f[m - 1]>>]
        <3>1. m - 1 \in 0 .. m - 1
            OBVIOUS
        <3>2. f[m - 1] \in V
            BY <3>1
        <3>3. <<m, f[m - 1]>> \in (1 .. n) \X V
            BY <3>2
        <3> QED BY <3>3
    <2>3. PICK h : h = [k \in 0 .. m |-> IF k = m THEN v ELSE f[k]]
        OBVIOUS
    <2>4. h \in [0 .. m -> V]
        <3>1. \A k \in 0 .. m : k = m \/ k \in 0 .. m - 1
            OBVIOUS
        <3> QED BY <2>3, <3>1
    <2>5. h[0] = b
        BY <2>1, <2>3
    <2>6. ASSUME NEW k \in 1 .. m PROVE h[k] = G[<<k, h[k - 1]>>]
        <3>1. k - 1 \in 0 .. m - 1 /\ k \in 0 .. m /\ k - 1 \in 0 .. m /\ k - 1 # m
            OBVIOUS
        <3>2. h[k - 1] = f[k - 1]
            BY <2>3, <3>1
        <3>3. CASE k = m
            BY <2>2, <2>3, <3>1, <3>2, <3>3
        <3>4. CASE k # m
            <4>1. k \in 1 .. m - 1
                BY <3>4
            <4> QED BY <2>1, <2>3, <3>1, <3>2, <3>4, <4>1
        <3> QED BY <3>3, <3>4
    <2>7. m \in 0 .. n
        OBVIOUS
    <2> QED BY <1>1, <2>4, <2>5, <2>6, <2>7
<1>4. n \in 0 .. n
    OBVIOUS
<1>5. n \in T
    BY <1>2, <1>3, <1>4, UpTo
<1>6. PICK f \in [0 .. n -> V] :
          f[0] = b /\ \A k \in 1 .. n : f[k] = G[<<k, f[k - 1]>>]
    BY <1>1, <1>5
<1>7. Recurs(f, n, b, G)
    BY <1>6 DEF Recurs
<1> QED BY <1>7
-------------------------------------------------------------------------------
(* Sums.                                                                    *)

\* h[k] is the sum of the first k numbers of f.
Sums(h, f, n) == h[0] = 0 /\ \A k \in 1 .. n : h[k] = h[k - 1] + f[k]

LEMMA SumsAgree ==
    ASSUME NEW n \in Nat, NEW f, NEW g, NEW h, Sums(g, f, n), Sums(h, f, n)
    PROVE  g[n] = h[n]
<1>1. PICK T : T = {k \in 0 .. n : g[k] = h[k]}
    OBVIOUS
<1>2. 0 \in T
    BY <1>1 DEF Sums
<1>3. \A k \in 1 .. n : k - 1 \in T => k \in T
    BY <1>1 DEF Sums
<1>4. n \in 0 .. n
    OBVIOUS
<1>5. n \in T
    BY <1>2, <1>3, <1>4, UpTo
<1> QED BY <1>1, <1>5

LEMMA SumsExist ==
    ASSUME NEW n \in Nat, NEW f, \A k \in 1 .. n : f[k] \in Nat
    PROVE  \E h \in [0 .. n -> Nat] : Sums(h, f, n) /\ SumTo(f, n) = h[n]
<1>1. PICK G : G = [x \in (1 .. n) \X Nat |-> x[2] + f[x[1]]]
    OBVIOUS
<1>2. G \in [(1 .. n) \X Nat -> Nat]
    BY <1>1
<1>3. PICK h \in [0 .. n -> Nat] : h[0] = 0 /\ \A k \in 1 .. n : h[k] = G[<<k, h[k - 1]>>]
    <2>1. PICK V, b : V = Nat /\ b = 0
        OBVIOUS
    <2>2. b \in V /\ G \in [(1 .. n) \X V -> V]
        BY <1>2, <2>1
    <2>3. \E h \in [0 .. n -> V] : Recurs(h, n, b, G)
        BY <2>2, Recursion
    <2> QED BY <2>1, <2>3 DEF Recurs
<1>4. ASSUME NEW k \in 1 .. n PROVE h[k] = h[k - 1] + f[k]
    <2>1. k - 1 \in 0 .. n
        OBVIOUS
    <2>2. <<k, h[k - 1]>> \in (1 .. n) \X Nat
        BY <2>1
    <2>3. G[<<k, h[k - 1]>>] = h[k - 1] + f[k]
        BY <1>1, <2>2
    <2> QED BY <1>3, <2>3
<1>5. Sums(h, f, n)
    BY <1>3, <1>4 DEF Sums
<1>6. h = [k \in 0 .. n |-> IF k = 0 THEN 0 ELSE h[k - 1] + f[k]]
    BY <1>3, <1>4
<1>7. PICK sum : /\ sum = [k \in 0 .. n |-> IF k = 0 THEN 0 ELSE sum[k - 1] + f[k]]
                 /\ SumTo(f, n) = sum[n]
    <2>1. PICK sum : sum = CHOOSE u : u = [k \in 0 .. n |-> IF k = 0 THEN 0 ELSE u[k - 1] + f[k]]
        OBVIOUS
    <2>2. sum = [k \in 0 .. n |-> IF k = 0 THEN 0 ELSE sum[k - 1] + f[k]]
        BY <1>6, <2>1
    <2>3. SumTo(f, n) = sum[n]
        BY <2>1 DEF SumTo
    <2> QED BY <2>2, <2>3
<1>8. Sums(sum, f, n)
    <2>1. 0 \in 0 .. n /\ \A k \in 1 .. n : k \in 0 .. n /\ k # 0
        OBVIOUS
    <2>2. sum[0] = 0
        BY <1>7, <2>1
    <2>3. \A k \in 1 .. n : sum[k] = sum[k - 1] + f[k]
        BY <1>7, <2>1
    <2> QED BY <2>2, <2>3 DEF Sums
<1>9. sum[n] = h[n]
    BY <1>5, <1>8, SumsAgree
<1> QED BY <1>5, <1>7, <1>9

\* Whatever satisfies the recursion is the sum.
LEMMA SumIs ==
    ASSUME NEW n \in Nat, NEW f, \A k \in 1 .. n : f[k] \in Nat, NEW h, Sums(h, f, n)
    PROVE  SumTo(f, n) = h[n]
BY SumsAgree, SumsExist

LEMMA SumFacts ==
    ASSUME NEW n \in Nat, NEW f, \A k \in 1 .. n : f[k] \in Nat
    PROVE  /\ SumTo(f, n) \in Nat
           /\ n = 0 => SumTo(f, n) = 0
           /\ n > 0 => SumTo(f, n) = SumTo(f, n - 1) + f[n]
<1>1. PICK h \in [0 .. n -> Nat] : Sums(h, f, n) /\ SumTo(f, n) = h[n]
    BY SumsExist
<1>2. n \in 0 .. n
    OBVIOUS
<1>3. n = 0 => h[n] = 0
    BY <1>1 DEF Sums
<1>4. ASSUME n > 0 PROVE SumTo(f, n) = SumTo(f, n - 1) + f[n]
    <2>1. n - 1 \in Nat /\ n \in 1 .. n /\ \A k \in 1 .. n - 1 : k \in 1 .. n
        BY <1>4
    <2>2. Sums(h, f, n - 1)
        BY <1>1, <2>1 DEF Sums
    <2>3. SumTo(f, n - 1) = h[n - 1]
        BY <2>1, <2>2, SumIs
    <2> QED BY <1>1, <2>1, <2>3 DEF Sums
<1> QED BY <1>1, <1>2, <1>3, <1>4
-------------------------------------------------------------------------------
(* Queues.                                                                  *)

LEMMA BytesFacts ==
    ASSUME NEW q \in Seq(Payloads), NEW n \in 0 .. Len(q)
    PROVE  /\ BytesTo(q, n) \in Nat
           /\ n = 0 => BytesTo(q, n) = 0
           /\ n > 0 => BytesTo(q, n) = BytesTo(q, n - 1) + Size[q[n]]
<1>1. PICK f : f = [k \in DOMAIN q |-> Size[q[k]]]
    OBVIOUS
<1>2. n \in Nat /\ \A k \in 1 .. n : k \in 1 .. Len(q)
    OBVIOUS
<1>3. \A k \in 1 .. Len(q) : f[k] = Size[q[k]] /\ f[k] \in Nat
    BY <1>1, LazyStoreAssumption
<1>4. /\ SumTo(f, n) \in Nat
      /\ n = 0 => SumTo(f, n) = 0
      /\ n > 0 => SumTo(f, n) = SumTo(f, n - 1) + f[n]
    BY <1>2, <1>3, SumFacts
<1>5. n > 0 => f[n] = Size[q[n]]
    BY <1>2, <1>3
<1> QED BY <1>1, <1>4, <1>5 DEF BytesTo

\* Whatever adds up along a queue are its bytes.
LEMMA BytesAre ==
    ASSUME NEW q \in Seq(Payloads), NEW n \in 0 .. Len(q), NEW h, h[0] = 0,
           \A k \in 1 .. n : h[k] = h[k - 1] + Size[q[k]]
    PROVE  BytesTo(q, n) = h[n]
<1>1. PICK f : f = [k \in DOMAIN q |-> Size[q[k]]]
    OBVIOUS
<1>2. n \in Nat /\ \A k \in 1 .. n : k \in 1 .. Len(q)
    OBVIOUS
<1>3. \A k \in 1 .. Len(q) : f[k] = Size[q[k]] /\ f[k] \in Nat
    BY <1>1, LazyStoreAssumption
<1>4. Sums(h, f, n)
    BY <1>2, <1>3 DEF Sums
<1>5. SumTo(f, n) = h[n]
    BY <1>2, <1>3, <1>4, SumIs
<1> QED BY <1>1, <1>5 DEF BytesTo

\* Queues that begin alike weigh the same that far.
LEMMA BytesSame ==
    ASSUME NEW q \in Seq(Payloads), NEW r \in Seq(Payloads), NEW n \in 0 .. Len(q),
           n <= Len(r), \A k \in 1 .. n : r[k] = q[k]
    PROVE  BytesTo(r, n) = BytesTo(q, n)
<1>1. PICK h : h = [k \in 0 .. n |-> BytesTo(q, k)]
    OBVIOUS
<1>2. n \in Nat /\ Len(q) \in Nat /\ Len(r) \in Nat /\ n \in 0 .. Len(r)
    OBVIOUS
<1>3. h[0] = 0
    BY <1>1, <1>2, BytesFacts
<1>4. ASSUME NEW k \in 1 .. n PROVE h[k] = h[k - 1] + Size[r[k]]
    <2>1. k \in 0 .. Len(q) /\ k \in 0 .. n /\ k - 1 \in 0 .. n /\ k > 0
        BY <1>2
    <2>2. BytesTo(q, k) = BytesTo(q, k - 1) + Size[q[k]]
        BY <2>1, BytesFacts
    <2> QED BY <1>1, <2>1, <2>2
<1>5. BytesTo(r, n) = h[n]
    BY <1>2, <1>3, <1>4, BytesAre
<1> QED BY <1>1, <1>2, <1>5

LEMMA BytesAppend ==
    ASSUME NEW q \in Seq(Payloads), NEW p \in Payloads
    PROVE  BytesTo(Append(q, p), Len(q) + 1) = BytesTo(q, Len(q)) + Size[p]
<1>1. PICK r \in Seq(Payloads) : r = Append(q, p)
    BY AppendProperties
<1>2. /\ Len(q) \in Nat /\ Len(r) = Len(q) + 1 /\ r[Len(q) + 1] = p
      /\ \A k \in 1 .. Len(q) : r[k] = q[k]
    BY <1>1, AppendProperties
<1>3. Len(q) + 1 \in 0 .. Len(r) /\ Len(q) + 1 > 0 /\ (Len(q) + 1) - 1 = Len(q)
    BY <1>2
<1>4. BytesTo(r, Len(q) + 1) = BytesTo(r, Len(q)) + Size[p]
    BY <1>2, <1>3, BytesFacts
<1>5. BytesTo(r, Len(q)) = BytesTo(q, Len(q))
    BY <1>2, BytesSame
<1> QED BY <1>1, <1>4, <1>5

\* What is left of a queue when its first n entries have gone.
LEMMA BytesCut ==
    ASSUME NEW q \in Seq(Payloads), NEW n \in 0 .. Len(q),
           NEW r \in Seq(Payloads), Len(r) = Len(q) - n,
           \A k \in 1 .. Len(r) : r[k] = q[n + k]
    PROVE  BytesTo(q, Len(q)) = BytesTo(q, n) + BytesTo(r, Len(r))
<1>1. PICK h : h = [k \in 0 .. Len(r) |-> BytesTo(q, n + k) - BytesTo(q, n)]
    OBVIOUS
<1>2. n \in Nat /\ Len(q) \in Nat /\ Len(r) \in Nat
    OBVIOUS
<1>3. \A k \in 0 .. Len(r) : n + k \in 0 .. Len(q) /\ BytesTo(q, n + k) \in Nat
    BY <1>2, BytesFacts
<1>4. BytesTo(q, n) \in Nat /\ n + 0 = n
    BY <1>2, BytesFacts
<1>5. h[0] = 0
    BY <1>1, <1>2, <1>4
<1>6. ASSUME NEW k \in 1 .. Len(r) PROVE h[k] = h[k - 1] + Size[r[k]]
    <2>1. /\ k \in 0 .. Len(r) /\ k - 1 \in 0 .. Len(r)
          /\ n + k \in 0 .. Len(q) /\ n + k > 0 /\ (n + k) - 1 = n + (k - 1)
          /\ n + k \in 1 .. Len(q)
        BY <1>2
    <2>2. BytesTo(q, n + k) = BytesTo(q, n + (k - 1)) + Size[q[n + k]]
        BY <2>1, BytesFacts
    <2>3. Size[q[n + k]] \in Nat
        BY <2>1, LazyStoreAssumption
    <2>4. h[k] = BytesTo(q, n + k) - BytesTo(q, n)
        BY <1>1, <2>1
    <2>5. h[k - 1] = BytesTo(q, n + (k - 1)) - BytesTo(q, n)
        BY <1>1, <2>1
    <2>6. /\ BytesTo(q, n + k) \in Nat /\ BytesTo(q, n + (k - 1)) \in Nat
          /\ BytesTo(q, n) \in Nat
        <3>1. BytesTo(q, n + k) \in Nat
            BY <1>3, <2>1
        <3>2. BytesTo(q, n + (k - 1)) \in Nat
            BY <1>3, <2>1
        <3> QED BY <1>4, <3>1, <3>2
    <2>7. PICK a, b, c, d : /\ a = BytesTo(q, n + k) /\ b = BytesTo(q, n + (k - 1))
                            /\ c = BytesTo(q, n) /\ d = Size[q[n + k]]
        OBVIOUS
    <2>8. a \in Nat /\ b \in Nat /\ c \in Nat /\ d \in Nat
        BY <2>3, <2>6, <2>7
    <2>9. a = b + d
        BY <2>2, <2>7
    <2>10. a - c = (b - c) + d
        BY <2>8, <2>9
    <2>11. r[k] = q[n + k]
        OBVIOUS
    <2> QED BY <2>4, <2>5, <2>7, <2>10, <2>11
<1>7. BytesTo(r, Len(r)) = h[Len(r)]
    BY <1>2, <1>5, <1>6, BytesAre
<1>8. n + Len(r) = Len(q) /\ Len(r) \in 0 .. Len(r)
    BY <1>2
<1>9. h[Len(r)] = BytesTo(q, Len(q)) - BytesTo(q, n)
    BY <1>1, <1>8
<1>10. BytesTo(q, Len(q)) \in Nat
    BY <1>3, <1>8
<1> QED BY <1>4, <1>7, <1>9, <1>10
-------------------------------------------------------------------------------
(* The queue without an entry.                                              *)

LEMMA QueueFacts ==
    ASSUME NEW S, NEW q \in Seq(S)
    PROVE  /\ Len(q) \in Nat /\ DOMAIN q = 1 .. Len(q)
           /\ ToSet(q) = {q[k] : k \in 1 .. Len(q)} /\ ToSet(q) \subseteq S
           /\ IsInjective(q) <=>
                 \A i, j \in 1 .. Len(q) : q[i] = q[j] => i = j
BY LenProperties DEF ToSet, IsInjective

LEMMA Queued ==
    ASSUME NEW S, NEW q \in Seq(S), NEW x \in S
    PROVE  /\ Append(q, x) \in Seq(S)
           /\ ToSet(Append(q, x)) = ToSet(q) \cup {x}
           /\ IsInjective(q) /\ x \notin ToSet(q) => IsInjective(Append(q, x))
<1>1. PICK r \in Seq(S) : r = Append(q, x)
    BY AppendProperties
<1>2. /\ Len(r) = Len(q) + 1 /\ r[Len(q) + 1] = x
      /\ \A k \in 1 .. Len(q) : r[k] = q[k]
    BY <1>1, AppendProperties
<1>3. Len(q) \in Nat
    BY QueueFacts
<1>4. \A k \in 1 .. Len(r) : k \in 1 .. Len(q) \/ k = Len(q) + 1
    BY <1>2, <1>3
<1>5. Len(q) + 1 \in 1 .. Len(r) /\ \A k \in 1 .. Len(q) : k \in 1 .. Len(r)
    BY <1>2, <1>3
<1>6. ToSet(r) = ToSet(q) \cup {x}
    <2>1. ASSUME NEW y \in ToSet(r) PROVE y \in ToSet(q) \cup {x}
        <3>1. PICK k \in 1 .. Len(r) : y = r[k]
            BY <2>1, QueueFacts
        <3> QED BY <1>2, <1>4, <3>1, QueueFacts
    <2>2. ASSUME NEW y \in ToSet(q) PROVE y \in ToSet(r)
        <3>1. PICK k \in 1 .. Len(q) : y = q[k]
            BY <2>2, QueueFacts
        <3>2. k \in 1 .. Len(r) /\ r[k] = y
            BY <1>2, <1>5, <3>1
        <3> QED BY <3>2, QueueFacts
    <2>3. x \in ToSet(r)
        BY <1>2, <1>5, QueueFacts
    <2> QED BY <2>1, <2>2, <2>3
<1>7. ASSUME IsInjective(q), x \notin ToSet(q) PROVE IsInjective(r)
    <2>1. ASSUME NEW i \in 1 .. Len(r), NEW j \in 1 .. Len(r), r[i] = r[j] PROVE i = j
        <3>1. \A k \in 1 .. Len(q) : q[k] # x
            BY <1>7, QueueFacts
        <3>2. \A k, l \in 1 .. Len(q) : q[k] = q[l] => k = l
            BY <1>7, QueueFacts
        <3> QED BY <1>2, <1>4, <2>1, <3>1, <3>2
    <2> QED BY <2>1, QueueFacts
<1> QED BY <1>1, <1>6, <1>7

\* f[k] is what is kept of the first k entries of q without p.
Keeps(f, q, p, n) ==
    /\ f[0] = <<>>
    /\ \A k \in 1 .. n : f[k] = IF q[k] = p THEN f[k - 1] ELSE Append(f[k - 1], q[k])

LEMMA RetainedExists ==
    ASSUME NEW q \in Seq(Payloads), NEW p, NEW n \in 0 .. Len(q)
    PROVE  \E f \in [0 .. n -> Seq(Payloads)] :
              Keeps(f, q, p, n) /\ Retained(q, p, n) = f[n]
<1>1. PICK V, b, G : /\ V = Seq(Payloads) /\ b = <<>>
                     /\ G = [x \in (1 .. n) \X V |->
                              IF q[x[1]] = p THEN x[2] ELSE Append(x[2], q[x[1]])]
    OBVIOUS
<1>2. n \in Nat /\ \A k \in 1 .. n : q[k] \in Payloads
    OBVIOUS
<1>3. ASSUME NEW k \in 1 .. n, NEW v \in V
      PROVE  /\ G[<<k, v>>] = IF q[k] = p THEN v ELSE Append(v, q[k])
             /\ G[<<k, v>>] \in V
    <2>1. <<k, v>> \in (1 .. n) \X V /\ Append(v, q[k]) \in V
        BY <1>1, <1>2, AppendProperties
    <2>2. G[<<k, v>>] = IF q[k] = p THEN v ELSE Append(v, q[k])
        BY <1>1, <2>1
    <2> QED BY <2>1, <2>2
<1>4. G \in [(1 .. n) \X V -> V] /\ b \in V
    <2>1. \A x \in (1 .. n) \X V : G[x] \in V
        <3>1. TAKE x \in (1 .. n) \X V
        <3>2. x = <<x[1], x[2]>> /\ x[1] \in 1 .. n /\ x[2] \in V
            OBVIOUS
        <3> QED BY <1>3, <3>2
    <2>2. G = [x \in (1 .. n) \X V |-> G[x]]
        BY <1>1
    <2> QED BY <1>1, <2>1, <2>2, EmptySeq
<1>5. PICK f \in [0 .. n -> V] : Recurs(f, n, b, G)
    BY <1>2, <1>4, Recursion
<1>6. ASSUME NEW k \in 1 .. n
      PROVE  f[k] = IF q[k] = p THEN f[k - 1] ELSE Append(f[k - 1], q[k])
    <2>1. k - 1 \in 0 .. n
        BY <1>2
    <2>2. f[k - 1] \in V /\ f[k] = G[<<k, f[k - 1]>>]
        BY <1>5, <2>1 DEF Recurs
    <2> QED BY <1>3, <2>2
<1>7. Keeps(f, q, p, n)
    BY <1>1, <1>5, <1>6 DEF Recurs, Keeps
<1>8. f = [k \in 0 .. n |-> IF k = 0 THEN <<>>
             ELSE IF q[k] = p THEN f[k - 1] ELSE Append(f[k - 1], q[k])]
    <2>1. \A k \in 0 .. n : k = 0 \/ k \in 1 .. n
        BY <1>2
    <2>2. f = [k \in 0 .. n |-> f[k]]
        OBVIOUS
    <2>3. \A k \in 0 .. n : f[k] = IF k = 0 THEN <<>>
             ELSE IF q[k] = p THEN f[k - 1] ELSE Append(f[k - 1], q[k])
        BY <1>7, <2>1 DEF Keeps
    <2> QED BY <2>2, <2>3
<1>9. PICK g : /\ g = [k \in 0 .. n |-> IF k = 0 THEN <<>>
                       ELSE IF q[k] = p THEN g[k - 1] ELSE Append(g[k - 1], q[k])]
               /\ Retained(q, p, n) = g[n]
    <2>1. PICK g : g = CHOOSE u : u = [k \in 0 .. n |-> IF k = 0 THEN <<>>
                       ELSE IF q[k] = p THEN u[k - 1] ELSE Append(u[k - 1], q[k])]
        OBVIOUS
    <2>2. g = [k \in 0 .. n |-> IF k = 0 THEN <<>>
                       ELSE IF q[k] = p THEN g[k - 1] ELSE Append(g[k - 1], q[k])]
        BY <1>8, <2>1
    <2>3. Retained(q, p, n) = g[n]
        BY <2>1 DEF Retained
    <2> QED BY <2>2, <2>3
<1>10. g[n] = f[n]
    <2>1. PICK T : T = {k \in 0 .. n : g[k] = f[k]}
        OBVIOUS
    <2>2. 0 \in 0 .. n /\ \A k \in 1 .. n : k \in 0 .. n /\ k # 0 /\ k - 1 \in 0 .. n
        BY <1>2
    <2>3. g[0] = <<>>
        BY <1>9, <2>2
    <2>4. \A k \in 1 .. n : g[k] = IF q[k] = p THEN g[k - 1] ELSE Append(g[k - 1], q[k])
        BY <1>9, <2>2
    <2>5. 0 \in T
        BY <1>7, <2>1, <2>2, <2>3 DEF Keeps
    <2>6. \A k \in 1 .. n : k - 1 \in T => k \in T
        BY <1>7, <2>1, <2>2, <2>4 DEF Keeps
    <2>7. n \in 0 .. n
        BY <1>2
    <2>8. n \in T
        BY <1>2, <2>5, <2>6, <2>7, UpTo
    <2> QED BY <2>1, <2>8
<1> QED BY <1>1, <1>7, <1>9, <1>10

\* The queue without p holds the same entries but p, each once, and weighs as
\* much less as p does.
LEMMA RetainedFacts ==
    ASSUME NEW q \in Seq(Payloads), IsInjective(q), NEW p \in Payloads,
           NEW r, r = Retained(q, p, Len(q))
    PROVE  /\ r \in Seq(Payloads) /\ IsInjective(r)
           /\ ToSet(r) = ToSet(q) \ {p}
           /\ p \in ToSet(q) => BytesTo(q, Len(q)) = BytesTo(r, Len(r)) + Size[p]
<1>1. PICK n \in Nat : n = Len(q)
    BY LenProperties
<1>2. PICK f \in [0 .. n -> Seq(Payloads)] : Keeps(f, q, p, n) /\ r = f[n]
    <2>1. n \in 0 .. Len(q)
        BY <1>1
    <2> QED BY <1>1, <2>1, RetainedExists
<1>3. PICK W : W = [k \in 0 .. n |-> IF p \in {q[j] : j \in 1 .. k} THEN Size[p] ELSE 0]
    OBVIOUS
<1>4. PICK T : T = {k \in 0 .. n :
              /\ IsInjective(f[k])
              /\ ToSet(f[k]) = {q[j] : j \in 1 .. k} \ {p}
              /\ BytesTo(q, k) = BytesTo(f[k], Len(f[k])) + W[k]}
    OBVIOUS
<1>5. 0 \in T
    <2>1. 0 \in 0 .. n /\ f[0] = <<>> /\ Len(<<>>) = 0
        BY <1>2, EmptySeq DEF Keeps
    <2>2. IsInjective(f[0])
        BY <2>1, QueueFacts
    <2>3. ToSet(f[0]) = {q[j] : j \in 1 .. 0} \ {p}
        BY <2>1, QueueFacts
    <2>4. W[0] = 0
        <3>1. {q[j] : j \in 1 .. 0} = {}
            OBVIOUS
        <3> QED BY <1>3, <2>1, <3>1
    <2>5. BytesTo(q, 0) = 0 /\ BytesTo(f[0], Len(f[0])) = 0
        <3>1. 0 \in 0 .. Len(q) /\ f[0] \in Seq(Payloads) /\ Len(f[0]) \in 0 .. Len(f[0])
            BY <1>1, <2>1
        <3>2. Len(f[0]) = 0
            BY <2>1
        <3> QED BY <3>1, <3>2, BytesFacts
    <2> QED BY <1>4, <2>1, <2>2, <2>3, <2>4, <2>5
<1>6. ASSUME NEW k \in 1 .. n, k - 1 \in T PROVE k \in T
    <2>1. /\ k \in 0 .. n /\ k - 1 \in 0 .. n /\ k > 0 /\ k \in 0 .. Len(q)
          /\ k \in 1 .. Len(q)
        BY <1>1
    <2>2. PICK s, X : s \in Seq(Payloads) /\ s = f[k - 1] /\ X = {q[j] : j \in 1 .. k - 1}
        BY <2>1
    <2>3. /\ IsInjective(s) /\ ToSet(s) = X \ {p}
          /\ BytesTo(q, k - 1) = BytesTo(s, Len(s)) + W[k - 1]
        BY <1>4, <1>6, <2>2
    <2>4. {q[j] : j \in 1 .. k} = X \cup {q[k]}
        <3>1. \A j : j \in 1 .. k <=> j \in 1 .. k - 1 \/ j = k
            OBVIOUS
        <3> QED BY <2>2, <3>1
    <2>5. q[k] \notin X
        <3>1. \A j \in 1 .. k - 1 : j \in 1 .. Len(q) /\ j # k
            BY <2>1
        <3>2. \A j \in 1 .. k - 1 : q[j] # q[k]
            BY <2>1, <3>1, QueueFacts
        <3> QED BY <2>2, <3>2
    <2>6. BytesTo(q, k) = BytesTo(q, k - 1) + Size[q[k]]
        BY <2>1, BytesFacts
    <2>7. q[k] \in Payloads /\ Size[q[k]] \in Nat /\ Size[p] \in Nat
        BY <2>1, LazyStoreAssumption
    <2>8. BytesTo(q, k) \in Nat /\ BytesTo(q, k - 1) \in Nat /\ BytesTo(s, Len(s)) \in Nat
        <3>1. k - 1 \in 0 .. Len(q)
            BY <2>1
        <3>2. s \in Seq(Payloads) /\ Len(s) \in Nat
            BY <2>2, LenProperties
        <3>3. Len(s) \in 0 .. Len(s)
            BY <3>2
        <3>4. BytesTo(s, Len(s)) \in Nat
            BY <3>2, <3>3, BytesFacts
        <3> QED BY <2>1, <3>1, <3>4, BytesFacts
    <2>9. CASE q[k] = p
        <3>1. f[k] = s
            BY <1>2, <2>2, <2>9 DEF Keeps
        <3>2. ToSet(s) = {q[j] : j \in 1 .. k} \ {p}
            BY <2>3, <2>4, <2>9
        <3>3. W[k] = Size[p]
            BY <1>3, <2>1, <2>4, <2>9
        <3>4. W[k - 1] = 0
            BY <1>3, <2>1, <2>2, <2>5, <2>9
        <3>5. BytesTo(q, k) = BytesTo(s, Len(s)) + W[k]
            BY <2>3, <2>6, <2>7, <2>8, <2>9, <3>3, <3>4
        <3> QED BY <1>4, <2>1, <2>3, <3>1, <3>2, <3>5
    <2>10. CASE q[k] # p
        <3>1. PICK t : t = Append(s, q[k])
            OBVIOUS
        <3>2. f[k] = t
            BY <1>2, <2>2, <2>10, <3>1 DEF Keeps
        <3>3. q[k] \notin ToSet(s)
            BY <2>3, <2>5
        <3>4. /\ t \in Seq(Payloads) /\ ToSet(t) = ToSet(s) \cup {q[k]}
              /\ IsInjective(t) /\ Len(t) = Len(s) + 1
            <4>1. PICK S, x : S = Payloads /\ x = q[k]
                OBVIOUS
            <4>2. s \in Seq(S) /\ x \in S /\ x \notin ToSet(s)
                BY <2>2, <2>7, <3>3, <4>1
            <4>3. /\ Append(s, x) \in Seq(S)
                  /\ ToSet(Append(s, x)) = ToSet(s) \cup {x}
                  /\ IsInjective(Append(s, x))
                BY <2>3, <4>2, Queued
            <4>4. Len(Append(s, x)) = Len(s) + 1
                BY <4>2, AppendProperties
            <4> QED BY <3>1, <4>1, <4>3, <4>4
        <3>5. ToSet(t) = {q[j] : j \in 1 .. k} \ {p}
            BY <2>3, <2>4, <2>10, <3>4
        <3>6. W[k] = W[k - 1]
            BY <1>3, <2>1, <2>2, <2>4, <2>10
        <3>7. BytesTo(t, Len(t)) = BytesTo(s, Len(s)) + Size[q[k]]
            BY <2>2, <2>7, <3>1, <3>4, BytesAppend
        <3>8. W[k - 1] \in Nat
            BY <1>3, <2>1, <2>7
        <3>9. PICK a, b, c, d, e : /\ a = BytesTo(q, k) /\ b = BytesTo(q, k - 1)
                                   /\ c = BytesTo(s, Len(s))
                                   /\ d = Size[q[k]] /\ e = W[k - 1]
            OBVIOUS
        <3>10. b \in Nat /\ c \in Nat /\ d \in Nat /\ e \in Nat
            BY <2>7, <2>8, <3>8, <3>9
        <3>11. a = b + d /\ b = c + e
            BY <2>3, <2>6, <3>9
        <3>12. a = (c + d) + e
            BY <3>10, <3>11
        <3>13. BytesTo(q, k) = BytesTo(t, Len(t)) + W[k]
            BY <3>6, <3>7, <3>9, <3>12
        <3> QED BY <1>4, <2>1, <3>2, <3>4, <3>5, <3>13
    <2> QED BY <2>9, <2>10
<1>7. n \in 0 .. n
    OBVIOUS
<1>8. n \in T
    BY <1>5, <1>6, <1>7, UpTo
<1>9. ToSet(q) = {q[j] : j \in 1 .. n}
    BY <1>1, QueueFacts
<1>10. r \in Seq(Payloads)
    BY <1>2, <1>7
<1>11. /\ IsInjective(r) /\ ToSet(r) = {q[j] : j \in 1 .. n} \ {p}
       /\ BytesTo(q, n) = BytesTo(r, Len(r)) + W[n]
    BY <1>2, <1>4, <1>8
<1>12. p \in ToSet(q) => W[n] = Size[p]
    BY <1>3, <1>7, <1>9
<1> QED BY <1>1, <1>9, <1>10, <1>11, <1>12

\* The queue q is cut after n entries, r is what stays.
Cut(q, n, o, r) ==
    /\ r \in Seq(Payloads) /\ IsInjective(r) /\ Len(r) = Len(q) - n
    /\ \A k \in 1 .. Len(r) : r[k] = q[n + k]
    /\ ToSet(o) = {q[k] : k \in 1 .. n}
    /\ ToSet(r) = ToSet(q) \ ToSet(o)

\* What goes and what stays of a queue have nothing in common and are the queue
\* together.
LEMMA CutFacts ==
    ASSUME NEW q \in Seq(Payloads), IsInjective(q), NEW n \in 0 .. Len(q),
           NEW o, o = SubSeq(q, 1, n), NEW r, r = SubSeq(q, n + 1, Len(q))
    PROVE  Cut(q, n, o, r)
<1>1. /\ Len(q) \in Nat /\ n \in Nat /\ n <= Len(q)
      /\ \A k \in 1 .. Len(q) : q[k] \in Payloads
    BY LenProperties
<1>2. /\ o \in Seq(Payloads) /\ Len(o) = n /\ \A k \in 1 .. n : o[k] = q[k]
    <2>1. 1 \in Int /\ n \in Int /\ \A k \in 1 .. n : q[k] \in Payloads
        BY <1>1
    <2>2. /\ o \in Seq(Payloads) /\ Len(o) = IF 1 <= n THEN n - 1 + 1 ELSE 0
          /\ \A k \in 1 .. n - 1 + 1 : o[k] = q[1 + k - 1]
        BY <2>1, SubSeqProperties
    <2>3. \A k \in 1 .. n : k \in 1 .. n - 1 + 1 /\ 1 + k - 1 = k
        BY <1>1
    <2>4. Len(o) = n
        BY <1>1, <2>2
    <2>5. \A k \in 1 .. n : o[k] = q[k]
        BY <2>2, <2>3
    <2> QED BY <2>2, <2>4, <2>5
<1>3. /\ r \in Seq(Payloads) /\ Len(r) = Len(q) - n
      /\ \A k \in 1 .. Len(r) : r[k] = q[n + k]
    <2>1. /\ n + 1 \in Int /\ Len(q) \in Int
          /\ \A k \in n + 1 .. Len(q) : q[k] \in Payloads
        BY <1>1
    <2>2. /\ r \in Seq(Payloads)
          /\ Len(r) = IF n + 1 <= Len(q) THEN Len(q) - (n + 1) + 1 ELSE 0
          /\ \A k \in 1 .. Len(q) - (n + 1) + 1 : r[k] = q[(n + 1) + k - 1]
        BY <2>1, SubSeqProperties
    <2>3. Len(r) = Len(q) - n
        BY <1>1, <2>2
    <2>4. \A k \in 1 .. Len(r) : k \in 1 .. Len(q) - (n + 1) + 1 /\ (n + 1) + k - 1 = n + k
        BY <1>1, <2>3
    <2> QED BY <2>2, <2>3, <2>4
<1>4. \A i, j \in 1 .. Len(q) : q[i] = q[j] => i = j
    BY QueueFacts
<1>5. \A k \in 1 .. Len(r) : n + k \in 1 .. Len(q)
    BY <1>1, <1>3
<1>6. IsInjective(r)
    <2>1. ASSUME NEW i \in 1 .. Len(r), NEW j \in 1 .. Len(r), r[i] = r[j] PROVE i = j
        <3>1. n + i = n + j
            BY <1>3, <1>4, <1>5, <2>1
        <3> QED BY <1>1, <3>1
    <2> QED BY <1>3, <2>1, QueueFacts
<1>7. ToSet(o) = {q[k] : k \in 1 .. n}
    <2>1. DOMAIN o = 1 .. n
        BY <1>1, <1>2, LenProperties
    <2>2. ToSet(o) = {o[k] : k \in 1 .. n}
        BY <2>1 DEF ToSet
    <2> QED BY <1>2, <2>2
<1>8. ToSet(q) = {q[k] : k \in 1 .. Len(q)} /\ ToSet(r) = {r[k] : k \in 1 .. Len(r)}
    <2>1. DOMAIN q = 1 .. Len(q)
        BY LenProperties
    <2>2. DOMAIN r = 1 .. Len(r)
        BY <1>3, LenProperties
    <2>3. ToSet(q) = {q[k] : k \in 1 .. Len(q)}
        BY <2>1 DEF ToSet
    <2>4. ToSet(r) = {r[k] : k \in 1 .. Len(r)}
        BY <2>2 DEF ToSet
    <2> QED BY <2>3, <2>4
<1>9. ASSUME NEW x \in ToSet(r) PROVE x \in ToSet(q) \ ToSet(o)
    <2>1. PICK k \in 1 .. Len(r) : x = q[n + k]
        BY <1>3, <1>8
    <2>2. \A i \in 1 .. n : i \in 1 .. Len(q) /\ i # n + k
        BY <1>1
    <2>3. x \notin ToSet(o)
        BY <1>4, <1>5, <1>7, <2>1, <2>2
    <2> QED BY <1>5, <1>8, <2>1, <2>3
<1>10. ASSUME NEW x \in ToSet(q) \ ToSet(o) PROVE x \in ToSet(r)
    <2>1. PICK k \in 1 .. Len(q) : x = q[k]
        BY <1>8
    <2>2. ~(k \in 1 .. n)
        BY <1>7, <2>1
    <2>3. k - n \in 1 .. Len(r) /\ n + (k - n) = k
        BY <1>1, <1>3, <2>2
    <2>4. x = r[k - n]
        BY <1>3, <2>1, <2>3
    <2> QED BY <1>8, <2>3, <2>4
<1>11. ToSet(r) = ToSet(q) \ ToSet(o)
    BY <1>9, <1>10
<1> QED BY <1>3, <1>6, <1>7, <1>11 DEF Cut

\* As many entries as go are gone.
LEMMA CutCounts ==
    ASSUME NEW q \in Seq(Payloads), IsInjective(q), NEW n \in 0 .. Len(q)
    PROVE  Cardinality({q[k] : k \in 1 .. n}) = n
<1>1. n \in Nat /\ \A k \in 1 .. n : k \in 1 .. Len(q)
    BY LenProperties
<1>2. PICK X, h : X = {q[k] : k \in 1 .. n} /\ h = [k \in 1 .. n |-> q[k]]
    OBVIOUS
<1>3. h \in [1 .. n -> X]
    BY <1>2
<1>4. \A i, j \in 1 .. n : h[i] = h[j] => i = j
    BY <1>1, <1>2, QueueFacts
<1>5. \A x \in X : \E k \in 1 .. n : h[k] = x
    BY <1>2
<1>6. h \in Bijection(1 .. n, X)
    BY <1>3, <1>4, <1>5 DEF Bijection, Injection, Surjection, IsInjective
<1>7. ExistsBijection(1 .. n, X)
    BY <1>6 DEF ExistsBijection
<1>8. Cardinality(X) = n
    BY <1>1, <1>7, FS_CountingElements
<1> QED BY <1>2, <1>8

\* Evictions(p) is the least number of entries that makes room for p.
LEMMA EvictionFacts ==
    ASSUME TypeOK, NEW p \in Payloads, NEW n, n = Evictions(p)
    PROVE  /\ n \in 0 .. Len(order) /\ (n = Len(order) \/ Fits(n, p))
           /\ \A m \in 0 .. n - 1 : ~ Fits(m, p)
<1>1. Len(order) \in Nat
    BY LenProperties DEF TypeOK
<1>2. PICK T : T = {k \in 0 .. Len(order) : k = Len(order) \/ Fits(k, p)}
    OBVIOUS
<1>3. PICK x \in T : \A y \in T : x <= y
    <2>1. T \subseteq Nat /\ Len(order) \in T
        BY <1>1, <1>2
    <2> QED BY <2>1, LeastNumber
<1>4. ASSUME NEW m \in 0 .. x - 1 PROVE ~ Fits(m, p)
    <2>1. m \in 0 .. Len(order) /\ ~(x <= m)
        BY <1>1, <1>2, <1>3
    <2>2. m \notin T
        BY <1>3, <2>1
    <2> QED BY <1>2, <2>1, <2>2
<1>5. /\ x \in 0 .. Len(order) /\ (x = Len(order) \/ Fits(x, p))
      /\ \A m \in 0 .. x - 1 : ~ Fits(m, p)
    BY <1>2, <1>4
<1> QED BY <1>5 DEF Evictions
-------------------------------------------------------------------------------
(* The operations.                                                          *)

\* What the insertion of p does to the store: n entries go and r stays.
MakesRoom(n, r, p) ==
    /\ n = Len(order) \/ Fits(n, p)
    /\ \A m \in 0 .. n - 1 : ~ Fits(m, p)
    /\ IsInjective(r) /\ Len(r) = Len(order) - n
    /\ \A k \in 1 .. Len(r) : r[k] = order[n + k]
    /\ ToSet(SubSeq(order, 1, n)) = {order[k] : k \in 1 .. n}
    /\ ToSet(r) = stored \ ToSet(SubSeq(order, 1, n))
    /\ order' = Append(r, p)
    /\ stored' = ToSet(r) \cup {p}
    /\ total' = BytesTo(r, Len(r)) + Size[p]

LEMMA Inserted ==
    ASSUME StoreInv, NEW p \in Payloads, p \notin stored, Insert(p)
    PROVE  \E n \in 0 .. Len(order) : \E r \in Seq(Payloads) : MakesRoom(n, r, p)
<1>1. PICK n : n = Evictions(p)
    OBVIOUS
<1>2. /\ n \in 0 .. Len(order) /\ (n = Len(order) \/ Fits(n, p))
      /\ \A m \in 0 .. n - 1 : ~ Fits(m, p)
    BY <1>1, EvictionFacts DEF StoreInv
<1>3. order \in Seq(Payloads) /\ IsInjective(order) /\ ToSet(order) = stored
    BY DEF StoreInv, TypeOK, Accounted
<1>4. PICK o, r : o = SubSeq(order, 1, n) /\ r = SubSeq(order, n + 1, Len(order))
    OBVIOUS
<1>5. /\ r \in Seq(Payloads) /\ IsInjective(r) /\ Len(r) = Len(order) - n
      /\ \A k \in 1 .. Len(r) : r[k] = order[n + k]
      /\ ToSet(o) = {order[k] : k \in 1 .. n}
      /\ ToSet(r) = ToSet(order) \ ToSet(o)
    <2>1. PICK q : q = order
        OBVIOUS
    <2>2. q \in Seq(Payloads) /\ IsInjective(q) /\ n \in 0 .. Len(q)
        BY <1>2, <1>3, <2>1
    <2>3. o = SubSeq(q, 1, n) /\ r = SubSeq(q, n + 1, Len(q))
        BY <1>4, <2>1
    <2>4. Cut(q, n, o, r)
        BY <2>2, <2>3, CutFacts
    <2> QED BY <2>1, <2>4 DEF Cut
<1>6. /\ stored' = (stored \ ToSet(o)) \cup {p} /\ order' = Append(r, p)
      /\ total' = SaturatingSub(total, OldestBytes(n)) + Size[p]
    BY <1>1, <1>4 DEF Insert
<1>7. BytesTo(order, Len(order)) = BytesTo(order, n) + BytesTo(r, Len(r))
    BY <1>2, <1>3, <1>5, BytesCut
<1>8. BytesTo(order, n) \in Nat /\ BytesTo(r, Len(r)) \in Nat
    <2>1. Len(r) \in 0 .. Len(r)
        BY <1>5, LenProperties
    <2> QED BY <1>2, <1>3, <1>5, <2>1, BytesFacts
<1>9. total = BytesTo(order, n) + BytesTo(r, Len(r))
    BY <1>7 DEF StoreInv, Accounted
<1>10. SaturatingSub(total, OldestBytes(n)) = BytesTo(r, Len(r))
    BY <1>8, <1>9 DEF SaturatingSub, OldestBytes
<1>11. MakesRoom(n, r, p)
    BY <1>2, <1>3, <1>4, <1>5, <1>6, <1>10 DEF MakesRoom
<1> QED BY <1>2, <1>5, <1>11

LEMMA InsertKeeps ==
    ASSUME StoreInv, NEW p \in Payloads, Insert(p)
    PROVE  StoreInv'
<1>1. CASE p \in stored
    BY <1>1 DEF Insert, StoreInv, TypeOK, Accounted, WithinCap
<1>2. CASE p \notin stored
    <2>1. PICK n \in 0 .. Len(order) : \E r \in Seq(Payloads) : MakesRoom(n, r, p)
        BY <1>2, Inserted
    <2>2. PICK r \in Seq(Payloads) : MakesRoom(n, r, p)
        BY <2>1
    <2>3. /\ n = Len(order) \/ Fits(n, p)
          /\ IsInjective(r) /\ Len(r) = Len(order) - n /\ p \notin ToSet(r)
          /\ \A k \in 1 .. Len(r) : r[k] = order[n + k]
          /\ order' = Append(r, p) /\ stored' = ToSet(r) \cup {p}
          /\ total' = BytesTo(r, Len(r)) + Size[p]
        BY <1>2, <2>2 DEF MakesRoom
    <2>4. /\ Append(r, p) \in Seq(Payloads)
          /\ ToSet(Append(r, p)) = ToSet(r) \cup {p} /\ IsInjective(Append(r, p))
          /\ Len(Append(r, p)) = Len(r) + 1
        BY <1>2, <2>3, Queued, AppendProperties
    <2>5. /\ BytesTo(r, Len(r)) \in Nat /\ Size[p] \in Nat
          /\ BytesTo(order', Len(order')) = BytesTo(r, Len(r)) + Size[p]
        <3>1. Len(r) \in 0 .. Len(r)
            BY LenProperties
        <3>2. BytesTo(Append(r, p), Len(r) + 1) = BytesTo(r, Len(r)) + Size[p]
            BY BytesAppend
        <3> QED BY <2>3, <2>4, <3>1, <3>2, BytesFacts, LazyStoreAssumption
    <2>6. TypeOK'
        <3>1. ToSet(r) \subseteq Payloads
            BY QueueFacts
        <3>2. reply' = NoReply
            BY DEF Insert
        <3> QED BY <2>3, <2>4, <2>5, <3>1, <3>2 DEF TypeOK
    <2>7. Accounted'
        BY <2>3, <2>4, <2>5 DEF Accounted
    <2>8. WithinCap'
        <3>1. CASE n = Len(order)
            <4>1. Len(r) = 0
                BY <2>3, <3>1, LenProperties DEF StoreInv, TypeOK
            <4>2. ToSet(r) = {}
                <5>1. ToSet(r) = {r[k] : k \in 1 .. Len(r)}
                    BY QueueFacts
                <5>2. \A k : ~(k \in 1 .. Len(r))
                    BY <4>1
                <5> QED BY <5>1, <5>2
            <4> QED BY <2>3, <4>2 DEF WithinCap
        <3>2. CASE n # Len(order)
            <4>1. /\ SaturatingSub(total, OldestBytes(n)) = BytesTo(r, Len(r))
                  /\ Fits(n, p)
                <5>1. BytesTo(order, Len(order)) = BytesTo(order, n) + BytesTo(r, Len(r))
                    BY <2>3, BytesCut DEF StoreInv, TypeOK
                <5>2. BytesTo(order, n) \in Nat
                    BY BytesFacts DEF StoreInv, TypeOK
                <5>3. total = BytesTo(order, n) + BytesTo(r, Len(r))
                    BY <5>1 DEF StoreInv, Accounted
                <5> QED BY <2>3, <2>5, <3>2, <5>2, <5>3 DEF SaturatingSub, OldestBytes
            <4>2. total' <= Cap
                BY <2>3, <4>1 DEF Fits
            <4> QED BY <4>2 DEF WithinCap
        <3> QED BY <3>1, <3>2
    <2> QED BY <2>6, <2>7, <2>8 DEF StoreInv
<1> QED BY <1>1, <1>2

LEMMA RemoveKeeps ==
    ASSUME StoreInv, NEW p \in Payloads, RemoveEntry(p)
    PROVE  StoreInv'
<1>1. /\ order \in Seq(Payloads) /\ IsInjective(order) /\ ToSet(order) = stored
      /\ p \in stored /\ total = BytesTo(order, Len(order)) /\ total \in Nat
    BY DEF StoreInv, TypeOK, Accounted, RemoveEntry
<1>2. PICK r : r = Retained(order, p, Len(order))
    OBVIOUS
<1>3. /\ r \in Seq(Payloads) /\ IsInjective(r) /\ ToSet(r) = stored \ {p}
      /\ BytesTo(order, Len(order)) = BytesTo(r, Len(r)) + Size[p]
    BY <1>1, <1>2, RetainedFacts
<1>4. Size[p] \in Nat /\ BytesTo(r, Len(r)) \in Nat
    <2>1. Len(r) \in 0 .. Len(r)
        BY <1>3, LenProperties
    <2> QED BY <1>3, <2>1, BytesFacts, LazyStoreAssumption
<1>5. total' = BytesTo(r, Len(r)) /\ total' <= total
    BY <1>1, <1>3, <1>4 DEF RemoveEntry, SaturatingSub
<1>6. order' = r /\ stored' = stored \ {p} /\ reply' = NoReply
    BY <1>2 DEF RemoveEntry, Forget
<1>7. TypeOK'
    BY <1>3, <1>4, <1>5, <1>6 DEF TypeOK, StoreInv
<1>8. Accounted'
    BY <1>3, <1>5, <1>6 DEF Accounted
<1>9. WithinCap'
    <2>1. CASE total <= Cap
        BY <1>1, <1>4, <1>5, <2>1, LazyStoreAssumption DEF WithinCap
    <2>2. CASE \E x \in stored : stored = {x}
        <3>1. ToSet(r) = {}
            <4>1. PICK x : stored = {x}
                BY <2>2
            <4>2. p = x
                BY <1>1, <4>1
            <4>3. stored \ {p} = {}
                BY <4>1, <4>2
            <4>4. ToSet(r) = stored \ {p}
                BY <1>3
            <4> QED BY <4>3, <4>4
        <3>2. Len(r) = 0
            <4>1. Len(r) \in Nat /\ ToSet(r) = {r[k] : k \in 1 .. Len(r)}
                BY <1>3, QueueFacts
            <4>2. ~(1 \in 1 .. Len(r))
                BY <3>1, <4>1
            <4> QED BY <4>1, <4>2
        <3>3. total' = 0
            <4>1. 0 \in 0 .. Len(r)
                BY <3>2
            <4>2. BytesTo(r, 0) = 0
                BY <1>3, <4>1, BytesFacts
            <4> QED BY <1>5, <3>2, <4>2
        <3> QED BY <3>3, LazyStoreAssumption DEF WithinCap
    <2> QED BY <2>1, <2>2 DEF StoreInv, WithinCap
<1> QED BY <1>7, <1>8, <1>9 DEF StoreInv

\* Where the entries that leave stand in the queue, and what would not have
\* fitted: the step of EvictsOldestOnly.
LEMMA InsertEvicts ==
    ASSUME StoreInv, NEW p \in Payloads, Insert(p), stored' \ stored # {}
    PROVE  OldestLeave
<1>1. p \notin stored
    BY DEF Insert
<1>2. PICK n \in 0 .. Len(order) : \E r \in Seq(Payloads) : MakesRoom(n, r, p)
    BY <1>1, Inserted
<1>3. PICK r \in Seq(Payloads) : MakesRoom(n, r, p)
    BY <1>2
<1>4. /\ order \in Seq(Payloads) /\ IsInjective(order) /\ ToSet(order) = stored
      /\ total = BytesTo(order, Len(order))
    BY DEF StoreInv, TypeOK, Accounted
<1>5. PICK X : X = ToSet(SubSeq(order, 1, n))
    OBVIOUS
<1>6. X = {order[k] : k \in 1 .. n} /\ ToSet(r) = stored \ X /\ stored' = ToSet(r) \cup {p}
    BY <1>3, <1>5 DEF MakesRoom
<1>7. X \subseteq stored
    <2>1. \A k \in 1 .. n : k \in 1 .. Len(order)
        BY <1>4, LenProperties
    <2>2. ToSet(order) = {order[k] : k \in 1 .. Len(order)}
        BY <1>4, QueueFacts
    <2> QED BY <1>4, <1>6, <2>1, <2>2
<1>8. stored \ stored' = X
    BY <1>1, <1>6, <1>7
<1>9. Cardinality(X) = n
    BY <1>4, <1>6, CutCounts
<1>10. ASSUME n > 0 PROVE total' + Size[order[n]] > Cap
    <2>1. /\ n \in 0 .. Len(order) /\ n - 1 \in 0 .. Len(order) /\ n - 1 \in 0 .. n - 1
          /\ n \in 1 .. Len(order)
        BY <1>4, <1>10, LenProperties
    <2>2. ~ Fits(n - 1, p)
        BY <1>3, <2>1 DEF MakesRoom
    <2>3. BytesTo(order, n) = BytesTo(order, n - 1) + Size[order[n]]
        BY <1>4, <1>10, <2>1, BytesFacts
    <2>4. /\ Len(r) = Len(order) - n /\ total' = BytesTo(r, Len(r)) + Size[p]
          /\ \A k \in 1 .. Len(r) : r[k] = order[n + k]
        BY <1>3 DEF MakesRoom
    <2>5. total = BytesTo(order, n) + BytesTo(r, Len(r))
        BY <1>4, <2>1, <2>4, BytesCut
    <2>6. PICK a, b, c, d, e : /\ a = BytesTo(order, n) /\ b = BytesTo(order, n - 1)
                               /\ c = Size[order[n]] /\ d = BytesTo(r, Len(r))
                               /\ e = Size[p]
        OBVIOUS
    <2>7. b \in Nat /\ c \in Nat /\ d \in Nat /\ e \in Nat /\ Cap \in Nat
        <3>1. BytesTo(order, n - 1) \in Nat
            BY <1>4, <2>1, BytesFacts
        <3>2. Len(r) \in Nat
            BY LenProperties
        <3>3. Len(r) \in 0 .. Len(r)
            BY <3>2
        <3>4. BytesTo(r, Len(r)) \in Nat
            BY <3>3, BytesFacts
        <3>5. order[n] \in Payloads
            BY <1>4, <2>1
        <3> QED BY <2>6, <3>1, <3>4, <3>5, LazyStoreAssumption
    <2>8. a = b + c /\ total = a + d /\ total' = d + e
        BY <2>3, <2>4, <2>5, <2>6
    <2>9. ~(SaturatingSub(total, b) + e <= Cap)
        BY <2>2, <2>6 DEF Fits, OldestBytes
    <2>10. SaturatingSub(total, b) = c + d
        BY <2>7, <2>8 DEF SaturatingSub
    <2>11. (d + e) + c > Cap
        BY <2>7, <2>9, <2>10
    <2> QED BY <2>6, <2>8, <2>11
<1> QED BY <1>5, <1>8, <1>9, <1>10 DEF OldestLeave
-------------------------------------------------------------------------------
(* Chunks.                                                                  *)

\* As many chunks as it takes: all but the last are full, the last is not empty.
LEMMA ChunkCountFacts ==
    ASSUME NEW size \in Nat, size > 0, NEW c, c = ChunkCount(size)
    PROVE  /\ c \in Nat /\ c > 0
           /\ (c - 1) * ChunkSize < size /\ size <= c * ChunkSize
<1>1. ChunkSize \in Nat /\ ChunkSize > 0
    BY LazyStoreAssumption
<1>2. PICK m \in Nat : m = size + ChunkSize - 1
    BY <1>1
<1>3. c = m \div ChunkSize
    BY <1>2 DEF ChunkCount
<1>4. c \in Nat /\ c * ChunkSize <= m /\ m < (c + 1) * ChunkSize
    BY <1>1, <1>3, Z3
<1>5. (c - 1) * ChunkSize = c * ChunkSize - ChunkSize /\ (c + 1) * ChunkSize = c * ChunkSize + ChunkSize
    BY <1>1, <1>4, Z3
<1>6. PICK x \in Int : x = c * ChunkSize
    BY <1>1, <1>4
<1>7. (c - 1) * ChunkSize < size /\ size <= c * ChunkSize
    BY <1>1, <1>2, <1>4, <1>5, <1>6
<1>8. c # 0
    BY <1>1, <1>2, <1>4
<1> QED BY <1>4, <1>7, <1>8

LEMMA EmptyPayload ==
    ASSUME NEW f, f = ChunkFetchResponse(0)
    PROVE  f \in Seq(Chunk) /\ AddUp(f, 0)
<1>1. PICK e : e = [idx |-> 0, total |-> 1, len |-> 0]
    OBVIOUS
<1>2. f = << e >> /\ Len(f) = 1 /\ f[1] = e /\ DOMAIN f = 1 .. 1 /\ f # <<>>
    BY <1>1 DEF ChunkFetchResponse
<1>3. ChunkSize \in Nat /\ ChunkSize > 0
    BY LazyStoreAssumption
<1>4. e.idx = 0 /\ e.total = 1 /\ e.len = 0
    BY <1>1
<1>5. e \in Chunk
    BY <1>1, <1>3 DEF Chunk
<1>6. PICK l : l = [k \in DOMAIN f |-> f[k].len]
    OBVIOUS
<1>7. SumTo(l, 1) = 0
    <2>1. l[1] = 0
        BY <1>2, <1>4, <1>6
    <2>2. \A k \in 1 .. 1 : l[k] \in Nat
        BY <2>1
    <2>3. SumTo(l, 1) = SumTo(l, 1 - 1) + l[1] /\ \A k \in 1 .. 0 : l[k] \in Nat
        BY <2>2, SumFacts
    <2>4. SumTo(l, 0) = 0
        BY <2>3, SumFacts
    <2> QED BY <2>1, <2>3, <2>4
<1>8. f \in Seq(Chunk)
    <2>1. PICK S : S = Chunk
        OBVIOUS
    <2>2. e \in S
        BY <1>5, <2>1
    <2>3. f = Append(<<>>, e)
        BY <1>2
    <2>4. <<>> \in Seq(S)
        BY EmptySeq
    <2>5. Append(<<>>, e) \in Seq(S)
        BY <2>2, <2>4, AppendProperties
    <2> QED BY <2>1, <2>3, <2>5
<1>9. ASSUME NEW k \in DOMAIN f
      PROVE  /\ f[k].idx = k - 1 /\ f[k].total = Len(f)
             /\ k < Len(f) => f[k].len = ChunkSize
             /\ f[k].len <= ChunkSize
    <2>1. k = 1
        BY <1>2
    <2>2. f[k] = e
        BY <1>2, <2>1
    <2>3. f[k].idx = 0 /\ f[k].total = 1 /\ f[k].len = 0
        BY <1>4, <2>2
    <2>4. k - 1 = 0 /\ ~(k < 1) /\ 0 <= ChunkSize
        BY <1>3, <2>1
    <2> QED BY <1>2, <2>3, <2>4
<1> QED BY <1>2, <1>6, <1>7, <1>8, <1>9 DEF AddUp

LEMMA PayloadOfBytes ==
    ASSUME NEW size \in Nat, size > 0, NEW f, f = ChunkFetchResponse(size)
    PROVE  f \in Seq(Chunk) /\ AddUp(f, size)
<1>1. PICK c : c = ChunkCount(size)
    OBVIOUS
<1>2. /\ c \in Nat /\ c > 0
      /\ (c - 1) * ChunkSize < size /\ size <= c * ChunkSize
    BY <1>1, ChunkCountFacts
<1>3. ChunkSize \in Nat /\ ChunkSize > 0
    BY LazyStoreAssumption
<1>4. PICK b \in Nat : b = (c - 1) * ChunkSize
    BY <1>2, <1>3
<1>5. b < size /\ size <= b + ChunkSize
    <2>1. c * ChunkSize = (c - 1) * ChunkSize + ChunkSize
        BY <1>2, <1>3, Z3
    <2> QED BY <1>2, <1>4, <2>1
<1>6. f = [k \in 1 .. c |-> [idx |-> k - 1, total |-> c,
                             len |-> IF k < c THEN ChunkSize ELSE size - b]]
    BY <1>1, <1>2, <1>4 DEF ChunkFetchResponse
<1>7. ASSUME NEW k \in 1 .. c
      PROVE  /\ f[k] \in Chunk /\ f[k].idx = k - 1 /\ f[k].total = c
             /\ f[k].len = IF k < c THEN ChunkSize ELSE size - b
             /\ f[k].len \in 1 .. ChunkSize
    <2>1. PICK v : v = IF k < c THEN ChunkSize ELSE size - b
        OBVIOUS
    <2>2. v \in 1 .. ChunkSize
        BY <1>2, <1>3, <1>4, <1>5, <2>1
    <2>3. f[k] = [idx |-> k - 1, total |-> c, len |-> v]
        BY <1>6, <2>1
    <2>4. k - 1 \in Nat /\ v \in 0 .. ChunkSize
        BY <1>3, <2>2
    <2>5. f[k] \in Chunk
        BY <1>2, <2>3, <2>4 DEF Chunk
    <2> QED BY <2>1, <2>2, <2>3, <2>5
<1>8. f \in Seq(Chunk) /\ Len(f) = c /\ DOMAIN f = 1 .. c /\ f # <<>>
    <2>1. f \in [1 .. c -> Chunk]
        BY <1>6, <1>7
    <2>2. f \in Seq(Chunk)
        BY <1>2, <2>1
    <2>3. Len(f) = c
        BY <1>2, <2>1, <2>2, LenProperties
    <2> QED BY <1>2, <2>1, <2>2, <2>3, EmptySeq
<1>9. PICK l : l = [k \in DOMAIN f |-> f[k].len]
    OBVIOUS
<1>10. \A k \in 1 .. c : l[k] = f[k].len /\ l[k] \in Nat
    BY <1>3, <1>7, <1>8, <1>9
<1>11. PICK h : h = [k \in 0 .. c |-> IF k < c THEN k * ChunkSize ELSE size]
    OBVIOUS
<1>12. Sums(h, l, c)
    <2>1. h[0] = 0
        <3>1. 0 \in 0 .. c /\ 0 < c /\ 0 * ChunkSize = 0
            BY <1>2, <1>3
        <3> QED BY <1>11, <3>1
    <2>2. ASSUME NEW k \in 1 .. c PROVE h[k] = h[k - 1] + l[k]
        <3>1. /\ k \in 0 .. c /\ k - 1 \in 0 .. c /\ k - 1 < c
              /\ k \in Nat /\ k - 1 \in Nat
            BY <1>2
        <3>2. h[k - 1] = (k - 1) * ChunkSize
            BY <1>11, <3>1
        <3>3. CASE k < c
            <4>1. h[k] = k * ChunkSize /\ l[k] = ChunkSize
                BY <1>7, <1>10, <1>11, <3>1, <3>3
            <4>2. k * ChunkSize = (k - 1) * ChunkSize + ChunkSize
                BY <1>3, <3>1, Z3
            <4> QED BY <3>2, <4>1, <4>2
        <3>4. CASE k = c
            <4>1. h[k] = size /\ l[k] = size - b
                BY <1>7, <1>10, <1>11, <3>1, <3>4
            <4>2. h[k - 1] = b
                BY <1>4, <3>2, <3>4
            <4> QED BY <4>1, <4>2
        <3> QED BY <1>2, <3>3, <3>4
    <2> QED BY <2>1, <2>2 DEF Sums
<1>13. SumTo(l, c) = size
    <2>1. SumTo(l, c) = h[c]
        BY <1>2, <1>10, <1>12, SumIs
    <2>2. c \in 0 .. c
        BY <1>2
    <2> QED BY <1>11, <2>1, <2>2
<1>14. ASSUME NEW k \in DOMAIN f
       PROVE  /\ f[k].idx = k - 1 /\ f[k].total = Len(f)
              /\ k < Len(f) => f[k].len = ChunkSize
              /\ f[k].len <= ChunkSize /\ f[k].len # 0
    BY <1>3, <1>7, <1>8
<1> QED BY <1>8, <1>9, <1>13, <1>14 DEF AddUp
-------------------------------------------------------------------------------
(* The store.                                                               *)

LEMMA FetchKeeps ==
    ASSUME StoreInv, NEW p \in Payloads, Fetch(p)
    PROVE  StoreInv' /\ ReplyReassembles'
<1>1. Size[p] \in Nat
    BY LazyStoreAssumption
<1>2. PICK f : f = IF p \in stored THEN ChunkFetchResponse(Size[p]) ELSE <<>>
    OBVIOUS
<1>3. f \in Seq(Chunk) /\ (p \in stored => AddUp(f, Size[p]))
    <2>1. CASE p \notin stored
        BY <1>2, <2>1, EmptySeq
    <2>2. CASE p \in stored /\ Size[p] = 0
        BY <1>2, <2>2, EmptyPayload
    <2>3. CASE p \in stored /\ Size[p] > 0
        BY <1>1, <1>2, <2>3, PayloadOfBytes
    <2> QED BY <1>1, <2>1, <2>2, <2>3
<1>4. reply' = [payload |-> p, miss |-> p \notin stored, frames |-> f]
    BY <1>2 DEF Fetch
<1>5. reply'.payload = p /\ reply'.frames = f /\ (reply'.miss <=> p \notin stored)
    BY <1>4
<1>6. reply' \in [payload : Payloads, miss : BOOLEAN, frames : Seq(Chunk)]
    BY <1>3, <1>4
<1>7. UNCHANGED <<stored, order, total>>
    BY DEF Fetch
<1>8. StoreInv'
    BY <1>6, <1>7 DEF StoreInv, TypeOK, Accounted, WithinCap
<1>9. ReplyReassembles'
    BY <1>3, <1>5 DEF ReplyReassembles, AddUp
<1> QED BY <1>8, <1>9

LEMMA StoreInit == Init => StoreInv /\ ReplyReassembles
<1> SUFFICES ASSUME Init PROVE StoreInv /\ ReplyReassembles
    OBVIOUS
<1>1. order = <<>> /\ Len(<<>>) = 0 /\ stored = {} /\ total = 0 /\ reply = NoReply
    BY DEF Init
<1>2. order \in Seq(Payloads)
    BY <1>1, EmptySeq
<1>3. ToSet(order) = {} /\ IsInjective(order)
    <2>1. \A k : ~(k \in 1 .. Len(order))
        BY <1>1
    <2>2. ToSet(order) = {order[k] : k \in 1 .. Len(order)}
        BY <1>2, QueueFacts
    <2>3. IsInjective(order)
        BY <1>2, <2>1, QueueFacts
    <2> QED BY <2>1, <2>2, <2>3
<1>4. BytesTo(order, Len(order)) = 0
    <2>1. Len(order) = 0 /\ Len(order) \in 0 .. Len(order)
        BY <1>1
    <2> QED BY <1>2, <2>1, BytesFacts
<1> QED BY <1>1, <1>2, <1>3, <1>4, LazyStoreAssumption
        DEF StoreInv, TypeOK, Accounted, WithinCap, ReplyReassembles

LEMMA StoreStep == StoreInv /\ ReplyReassembles /\ [Next]_vars => StoreInv' /\ ReplyReassembles'
<1> SUFFICES ASSUME StoreInv, ReplyReassembles, [Next]_vars
             PROVE  StoreInv' /\ ReplyReassembles'
    OBVIOUS
<1>1. ASSUME NEW p \in Payloads, Insert(p) PROVE StoreInv' /\ ReplyReassembles'
    <2>1. reply' = NoReply
        BY <1>1 DEF Insert
    <2>2. StoreInv'
        BY <1>1, InsertKeeps
    <2> QED BY <2>1, <2>2 DEF ReplyReassembles
<1>2. ASSUME NEW p \in Payloads, ProduceImage(p) PROVE StoreInv' /\ ReplyReassembles'
    BY <1>1, <1>2 DEF ProduceImage
<1>3. ASSUME NEW p \in Payloads, RemoveEntry(p) PROVE StoreInv' /\ ReplyReassembles'
    <2>1. reply' = NoReply
        BY <1>3 DEF RemoveEntry
    <2>2. StoreInv'
        BY <1>3, RemoveKeeps
    <2> QED BY <2>1, <2>2 DEF ReplyReassembles
<1>4. ASSUME NEW p \in Payloads, Fetch(p) PROVE StoreInv' /\ ReplyReassembles'
    BY <1>4, FetchKeeps
<1>5. CASE UNCHANGED vars
    BY <1>5 DEF vars, StoreInv, TypeOK, Accounted, WithinCap, ReplyReassembles
<1> QED BY <1>1, <1>2, <1>3, <1>4, <1>5 DEF Next

LEMMA StoreAlways == Spec => [](StoreInv /\ ReplyReassembles)
BY StoreInit, StoreStep, PTL DEF Spec

\* The map, the queue and the byte counter of the store agree, no entry is
\* queued twice, and the store exceeds its cap only by a single entry that alone
\* exceeds it (lazy.rs, insert and remove).
THEOREM StoreAccounts == Spec => []StoreInv
BY StoreAlways, PTL

\* An insertion evicts the oldest entries only, and no more of them than it has
\* to (lazy.rs, the loop of insert).
THEOREM EvictionIsFifo == Spec => EvictsOldestOnly
<1>1. StoreInv /\ [Next]_vars => [stored' \ stored # {} => OldestLeave]_vars
    <2> SUFFICES ASSUME StoreInv, [Next]_vars, stored' \ stored # {} PROVE OldestLeave
        OBVIOUS
    <2>1. PICK p \in Payloads : Insert(p)
        BY DEF Next, vars, ProduceImage, RemoveEntry, Fetch
    <2> QED BY <2>1, InsertEvicts
<1> QED BY <1>1, StoreAlways, PTL DEF Spec, EvictsOldestOnly

\* A hit is answered with the frames of its payload, whatever its size and the
\* size of a chunk: numbered, all but the last full, adding up to the payload
\* (server.rs, chunk_fetch_response).
THEOREM RepliesAddUp == Spec => []ReplyReassembles
BY StoreAlways, PTL
===============================================================================
