----------------------------- MODULE MCRegistry -----------------------------
\* Small instances of Registry: every commit builds to an image of its own, or
\* two build to the same (as in MCEdge).
EXTENDS Registry
CONSTANTS c1, c2

EachItsOwn == [c \in Commits |-> c]
TwoAlike == [c \in Commits |-> IF c = c2 THEN c1 ELSE c]
=============================================================================
