------------------------------ MODULE ClipEngine ------------------------------
(***************************************************************************)
(* The clipboard engine of crates/clipboard/src/lib.rs as pure operators:  *)
(* what a node does to its Lamport version and its history when the local  *)
(* OS reports a text, and when a snapshot arrives from a peer.             *)
(*                                                                         *)
(* A snapshot keeps the three fields the protocol decides on: version,     *)
(* origin and the text it carries.  created_unix_ms is informational.      *)
(***************************************************************************)
EXTENDS Naturals, Sequences

CONSTANT HistoryLimit      \* cfg.clipboard.history_size

ASSUME HistoryLimitAssumption == HistoryLimit \in Nat \ {0}

MakeSnapshot(v, n, t) == [version |-> v, origin |-> n, text |-> t]

\* The version of a new engine.
InitialVersion == 0

\* Mutant of PushHistory: one entry too many stays.
PushHistoryLate(h, snap) ==
    Append(IF Len(h) > HistoryLimit THEN Tail(h) ELSE h, snap)

\* Ring buffer, newest last: a full one drops its oldest entry first.
PushHistory(h, snap) ==
    Append(IF Len(h) = HistoryLimit THEN Tail(h) ELSE h, snap)

\* produce_text: the clock moves by one and stamps the new snapshot.
NextVersion(v) == v + 1

\* Mutant of Accepts: no staleness check.
AcceptsStale(n, v, snap) == snap.origin # n

\* Mutant of Accepts: compared with the version the node would use next.
AcceptsPast(n, v, snap) == snap.origin # n /\ snap.version > NextVersion(v)

\* Mutant of Accepts: a snapshot of the clock's own version is taken too.
AcceptsTies(n, v, snap) == snap.origin # n /\ snap.version >= v

\* observe_remote: a node refuses its own snapshots and every snapshot that
\* does not move its clock forward.
Accepts(n, v, snap) == snap.origin # n /\ snap.version > v

\* Mutant of AdvancedVersion: the clock is moved past the snapshot.
AdvancedVersionPast(v, snap) == snap.version + 1

\* The clock after an accepted snapshot.
AdvancedVersion(v, snap) == snap.version
===============================================================================
