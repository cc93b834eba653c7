----------------------------- MODULE MCLazyStore ------------------------------
EXTENDS LazyStore

SixPayloads == 0 .. 5

\* Payload n has n bytes: empty, inline, exactly one chunk, exactly the cap
\* and over it are among them.
OwnSize == [p \in SixPayloads |-> p]
===============================================================================
