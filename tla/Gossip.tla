-------------------------------- MODULE Gossip --------------------------------
(***************************************************************************)
(* What the clipboard pipeline promises: a text that a node announces is   *)
(* owed to its peers at once and taken at most once over each link; a node *)
(* keeps the newest it has heard of, and passes on what it keeps to every  *)
(* peer but the one it came from.  Queues, tasks, watchers and OS          *)
(* clipboards do not appear.                                               *)
(***************************************************************************)
EXTENDS Naturals

CONSTANTS
    Nodes,       \* the nodes
    Links,       \* the pairs <<a, b>> of nodes such that a sends to b
    Text,        \* the texts
    NoSnap       \* a node that has heard of no snapshot

VARIABLES
    newest,      \* newest[n]: the snapshot that n announced or took last
    due          \* due[<<a, b>>]: the snapshots that a owes to b

vars == <<newest, due>>

Init ==
    /\ newest = [n \in Nodes |-> NoSnap]
    /\ due = [l \in Links |-> {}]

Clock(n) == IF newest[n] = NoSnap THEN 0 ELSE newest[n].version

\* n announces a text, stamped with the next version of its clock.
Publish(n) ==
    LET x == newest'[n]
    IN  /\ x # NoSnap /\ x.text \in Text
        /\ x = [version |-> Clock(n) + 1, origin |-> n, text |-> x.text]
        /\ newest' = [newest EXCEPT ![n] = x]
        /\ due' = [l \in Links |-> IF l[1] = n THEN due[l] \cup {x} ELSE due[l]]

\* What p no longer owes to n after the step.
Settled(p, n) == due[<<p, n>>] \ due'[<<p, n>>]

\* n hears a snapshot from p.  If it moves the clock of n forward, n keeps it
\* and from then on owes it to its other peers.
Hear(n, p) ==
    \E x \in Settled(p, n) :
        \/ /\ x.origin # n /\ x.version > Clock(n)
           /\ newest' = [newest EXCEPT ![n] = x]
           /\ due' = [l \in Links |->
                        IF l = <<p, n>> THEN due[l] \ {x}
                        ELSE IF l[1] = n /\ l[2] # p THEN due[l] \cup {x}
                        ELSE due[l]]
        \/ /\ ~ (x.origin # n /\ x.version > Clock(n))
           /\ due' = [due EXCEPT ![<<p, n>>] = @ \ {x}]
           /\ UNCHANGED newest

Next ==
    \/ \E n \in Nodes : Publish(n)
    \/ \E l \in Links : Hear(l[2], l[1])

Spec == Init /\ [][Next]_vars
===============================================================================
