---------------------------- MODULE MCStdioLanes ----------------------------
(* Instances of StdioLanes for TLC.                                        *)
EXTENDS StdioLanes

CONSTANTS life, r1, r2, r3, m1, m2, m3

ClientCalls == {life, r1, r2, r3, m1, m2, m3}

ClientLane == [c \in ClientCalls |-> CASE c = life -> "lifecycle"
                                        [] c \in {r1, r2, r3} -> "read"
                                        [] OTHER -> "mutation"]

\* A setup with one worker for reads and n for mutations.
To(n, session) == [input |-> session, workers |-> [lane \in Lanes |-> IF lane = "mutation" THEN n ELSE 1]]

\* Two mutations compete for their lock, one runs next to a read, a lifecycle
\* request keeps the dispatcher from a mutation; three mutations overflow the lane
\* of a single worker, three reads overflow theirs.
Sessions == {To(2, <<m1, m2>>), To(2, <<m1, r1>>), To(2, <<life, m2>>),
             To(1, <<m1, m2, m3>>), To(1, <<r2, r3, r1>>)}

\* Two mutations, and two reads.
ShortSessions == {To(2, <<m1, m2>>), To(2, <<r1, r2>>)}
=============================================================================
