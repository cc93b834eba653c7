-------------------------------- MODULE Duplex --------------------------------
(***************************************************************************)
(* What a Connection promises to its two ends: in each direction, frames   *)
(* arrive whole, in the order they were put on the stream, at most once,   *)
(* until the receiving side goes down.                                     *)
(***************************************************************************)
EXTENDS Naturals, SequencesExt

CONSTANTS
    Ends,        \* the two ends of a connection
    Frames       \* frames: records with fields from, task and num

VARIABLES
    pending,     \* pending[e]: frames sent by e and not yet delivered
    delivered,   \* delivered[e]: frames sent by e and delivered, in order
    down         \* down[e]: nothing sent by e is delivered any more

vars == <<pending, delivered, down>>

Init ==
    /\ pending = [e \in Ends |-> <<>>]
    /\ delivered = [e \in Ends |-> <<>>]
    /\ down = [e \in Ends |-> FALSE]

\* A task's frames are numbered in the order it sends them.
Fresh(e, f) ==
    \A g \in ToSet(pending[e]) \cup ToSet(delivered[e]) :
        g.task = f.task => g.num < f.num

Send(e, f) ==
    /\ ~ down[e]
    /\ f.from = e
    /\ Fresh(e, f)
    /\ pending' = [pending EXCEPT ![e] = Append(@, f)]
    /\ UNCHANGED <<delivered, down>>

Deliver(e) ==
    /\ pending[e] # <<>>
    /\ delivered' = [delivered EXCEPT ![e] = Append(@, Head(pending[e]))]
    /\ pending' = [pending EXCEPT ![e] = Tail(@)]
    /\ UNCHANGED down

GoDown(e) ==
    /\ ~ down[e]
    /\ down' = [down EXCEPT ![e] = TRUE]
    /\ pending' = [pending EXCEPT ![e] = <<>>]
    /\ UNCHANGED delivered

Next ==
    \E e \in Ends : (\E f \in Frames : Send(e, f)) \/ Deliver(e) \/ GoDown(e)

Spec == Init /\ [][Next]_vars
===============================================================================
