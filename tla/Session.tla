------------------------------- MODULE Session -------------------------------
(***************************************************************************)
(* What a client's session promises, without lanes, workers, ids and the   *)
(* routing of answers: every request that was read ends once, without an   *)
(* answer only when the client has cancelled it, and it was not written as *)
(* a mutation, or when the client has gone; mutations run one at a time    *)
(* and are written at most once; the proxy stops when nothing that it read *)
(* is open.                                                                *)
(***************************************************************************)
EXTENDS Sequences, Integers

CONSTANTS Calls, Tools, Mutations, None

VARIABLES state,      \* each request: "unread", "open", "answered", "silent", "unsent"
          cancelled,  \* the tool calls the client has cancelled
          gone,       \* whether the client has gone
          running,    \* the mutation that has the downstream to itself
          log,        \* the mutations in the order they were written
          stopped     \* whether the proxy has stopped

sessionVars == <<state, cancelled, gone, running, log, stopped>>

Logged == {log[i] : i \in 1..Len(log)}

SessionInit ==
  /\ state = [c \in Calls |-> "unread"]
  /\ cancelled = {} /\ gone = FALSE /\ running = None /\ log = <<>> /\ stopped = FALSE

Becomes(c, from, to) ==
  /\ state[c] = from
  /\ state' = [state EXCEPT ![c] = to]
  /\ UNCHANGED <<cancelled, gone, running, log, stopped>>

Read(c) == ~stopped /\ Becomes(c, "unread", "open")

Cancel(c) ==
  /\ ~stopped /\ c \in Tools /\ state[c] = "open"
  /\ cancelled' = cancelled \cup {c}
  /\ UNCHANGED <<state, gone, running, log, stopped>>

HangUp ==
  /\ ~gone /\ gone' = TRUE
  /\ UNCHANGED <<state, cancelled, running, log, stopped>>

Enter(c) ==
  /\ c \in Mutations \ Logged /\ state[c] = "open" /\ running = None
  /\ running' = c
  /\ UNCHANGED <<state, cancelled, gone, log, stopped>>

Write(c) ==
  /\ running = c /\ c \notin Logged
  /\ log' = Append(log, c)
  /\ UNCHANGED <<state, cancelled, gone, running, stopped>>

\* Its answer was taken, or it gave up waiting.
Yield(c) ==
  /\ running = c /\ running' = None
  /\ UNCHANGED <<state, cancelled, gone, log, stopped>>

Answer(c)  == running # c /\ Becomes(c, "open", "answered")
Silence(c) == running # c /\ c \in cancelled \ Logged /\ Becomes(c, "open", "silent")
Drop(c)    == running # c /\ gone /\ Becomes(c, "open", "unsent")

Stop ==
  /\ ~stopped /\ stopped' = TRUE
  /\ running = None /\ \A c \in Calls : state[c] # "open"
  /\ UNCHANGED <<state, cancelled, gone, running, log>>

SessionNext ==
  \/ Stop \/ HangUp
  \/ \E c \in Calls :
       \/ Read(c) \/ Cancel(c) \/ Enter(c) \/ Write(c) \/ Yield(c)
       \/ Answer(c) \/ Silence(c) \/ Drop(c)

SessionSpec == SessionInit /\ [][SessionNext]_sessionVars
==============================================================================
