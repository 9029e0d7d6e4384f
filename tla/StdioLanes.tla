------------------------------ MODULE StdioLanes ------------------------------
(***************************************************************************)
(* The client's lines on their way through run_stdio (passthrough.py): one *)
(* dispatcher, two bounded lanes of worker threads, the lock that orders   *)
(* mutations downstream, the routing of the answers by request id, and the *)
(* shutdown when the client closes its end.  A call's policy and approval  *)
(* are one decision here (ApprovalFlow has them), and a downstream that is *)
(* lost stays lost (DownstreamRoute replaces it).  The client may go away  *)
(* at any time: then the thread that writes its next answer ends with it.  *)
(* Every line is a request with an id of its own; a cancellation is the    *)
(* only notification.                                                      *)
(***************************************************************************)
EXTENDS Integers, Sequences, FiniteSets, Functions

CONSTANTS
  Calls,       \* requests of the client
  Lane,        \* where run_stdio sends each: its own thread or a lane
  Setups,      \* in which order the client may send them, to how many threads a lane
  QueueMax,    \* STDIO_REQUEST_QUEUE_MAXSIZE
  PipeMax,     \* requests that fit into the downstream's stdin
  MaxPending,  \* MAX_PENDING_RESPONSES
  Twice,       \* requests the downstream may answer twice
  None

Lanes == {"read", "mutation"}

ASSUME StdioAssumption ==
  /\ Lane \in [Calls -> Lanes \cup {"lifecycle"}]
  /\ {QueueMax, PipeMax} \subseteq Nat \ {0}
  /\ MaxPending \in Nat
  /\ Twice \subseteq Calls
  /\ IsFiniteSet(Calls)
  /\ \A setup \in Setups : /\ setup.input \in Seq(Calls) /\ IsInjective(setup.input)
                            /\ setup.workers \in [Lanes -> Nat \ {0}]
  /\ None \notin Calls

VARIABLES
  input,      \* what the client sends, in order
  workers,    \* diagnostic_workers and mutation_workers
  lines,      \* how many lines the dispatcher has read
  phase,      \* the dispatcher: reading, then waiting for one lane after the other
  gone,       \* client_out is broken
  dead,       \* how many worker threads of each lane have ended by an exception
  place,      \* where each call is
  cancelled,  \* calls cancelled before they were decided
  mutex,      \* owner of _mutation_execution_lock
  inflight,   \* _inflight_ids
  responses,  \* _responses: how many answers wait under each id
  tombs,      \* _timed_out_response_ids
  latched,    \* _downstream_error
  pipe,       \* requests in the downstream's stdin, not read yet
  owed,       \* answers the downstream may still send for each request
  handled,    \* history: calls whose answer was filed while they were in flight
  written     \* history: mutations in the order they were written downstream

client   == <<input, workers, lines, phase, gone, dead>>
routing  == <<inflight, responses, tombs, latched, handled>>
backend  == <<pipe, owed>>
stdioVars == <<client, place, cancelled, mutex, routing, backend, written>>

Ended  == {"answered", "silent", "unsent"}
Places == {"unread", "put", "queued", "decides", "cleared", "locked", "sent",
           "leaving", "replies"} \cup Ended
Phases == {"reads", "joinsRead", "joinsMutation", "stopped", "aborted"}

Larger(a, b) == IF a < b THEN b ELSE a

Goto(c, from, to) == place[c] = from /\ place' = [place EXCEPT ![c] = to]

Of(lane)     == {c \in Calls : Lane[c] = lane}
Queued(lane) == {c \in Of(lane) : place[c] = "queued"}
Busy(lane)   == {c \in Of(lane) : place[c] \notin {"unread", "put", "queued"} \cup Ended}

\* The dispatcher is not blocked in put and carries no call itself.
Free == \A c \in Calls : place[c] # "put" /\ c \notin Busy("lifecycle")

Counts == [Calls -> 0..2]

\* c was sent before d.
Precedes(c, d) == \E i, j \in 1..Len(input) : i < j /\ input[i] = c /\ input[j] = d

-----------------------------------------------------------------------------
(* The dispatcher: run_stdio.                                              *)

ReadLine ==
  /\ phase = "reads" /\ Free /\ lines < Len(input)
  /\ lines' = lines + 1
  /\ LET c == input[lines + 1] IN
       Goto(c, "unread", IF Lane[c] = "lifecycle" THEN "decides" ELSE "put")
  /\ UNCHANGED <<input, workers, phase, gone, dead, cancelled, mutex, routing, backend, written>>

\* Queue.put blocks while the lane is full.
Put(c) ==
  /\ Cardinality(Queued(Lane[c])) < QueueMax
  /\ Goto(c, "put", "queued")
  /\ UNCHANGED <<client, cancelled, mutex, routing, backend, written>>

\* notifications/cancelled, handled on the dispatcher's thread.  A mutation is
\* tracked from its line on, a call of the read lane only while it waits on a card.
Cancel(c) ==
  /\ phase = "reads" /\ Free
  /\ \/ Lane[c] = "mutation" /\ place[c] \in {"queued", "decides"}
     \/ Lane[c] = "read" /\ place[c] = "decides"
  /\ cancelled' = cancelled \cup {c}
  /\ UNCHANGED <<client, place, mutex, routing, backend, written>>

\* The client exits, or closes the end it reads the answers from.
HangUp ==
  /\ ~gone /\ gone' = TRUE
  /\ UNCHANGED <<input, workers, lines, phase, dead, place, cancelled, mutex, routing, backend, written>>

CloseInput ==
  /\ phase = "reads" /\ Free
  /\ phase' = "joinsRead"
  /\ UNCHANGED <<input, workers, lines, gone, dead, place, cancelled, mutex, routing, backend, written>>

\* Faulty variant: waits until the lane's queue is empty.
JoinEmpty(lane, from, to) ==
  /\ phase = from /\ Queued(lane) = {}
  /\ phase' = to
  /\ UNCHANGED <<input, workers, lines, gone, dead, place, cancelled, mutex, routing, backend, written>>

\* Queue.join: until every line of the lane was taken and finished.
Join(lane, from, to) ==
  /\ phase = from /\ Queued(lane) \cup Busy(lane) = {}
  /\ phase' = to
  /\ UNCHANGED <<input, workers, lines, gone, dead, place, cancelled, mutex, routing, backend, written>>

Shutdown == Join("read", "joinsRead", "joinsMutation") \/ Join("mutation", "joinsMutation", "stopped")

-----------------------------------------------------------------------------
(* A worker, or the dispatcher for a lifecycle request: handle_client_line. *)

\* A free worker of the lane takes its oldest line.
Take(c) ==
  /\ c \in Queued(Lane[c])
  /\ \A d \in Queued(Lane[c]) : ~Precedes(d, c)
  /\ Cardinality(Busy(Lane[c])) + dead[Lane[c]] < workers[Lane[c]]
  /\ Goto(c, "queued", "decides")
  /\ UNCHANGED <<client, cancelled, mutex, routing, backend, written>>

\* An error response, a denial, an answer of the proxy itself.
AnswerLocally(c) ==
  /\ Goto(c, "decides", "replies")
  /\ UNCHANGED <<client, cancelled, mutex, routing, backend, written>>

\* _client_cancelled_responses: nothing is written for a cancelled call.
EndCancelled(c) ==
  /\ c \in cancelled
  /\ Goto(c, "decides", "silent")
  /\ UNCHANGED <<client, cancelled, mutex, routing, backend, written>>

\* Allowed or approved, on a route that was ready; the id is registered.  A
\* call that needs no approval never looks at its cancellation.
Clear(c) ==
  /\ ~latched
  /\ Goto(c, "decides", "cleared")
  /\ inflight' = inflight \cup {c}
  /\ UNCHANGED <<client, cancelled, mutex, responses, tombs, latched, handled, backend, written>>

\* Faulty variant: the lock is entered by every worker.
ShareLock(c) ==
  /\ Lane[c] = "mutation"
  /\ Goto(c, "cleared", "locked")
  /\ mutex' = c
  /\ UNCHANGED <<client, cancelled, routing, backend, written>>

\* Only mutations take _mutation_execution_lock.
TakeLock(c) ==
  /\ Lane[c] = "mutation" /\ mutex = None
  /\ Goto(c, "cleared", "locked")
  /\ mutex' = c
  /\ UNCHANGED <<client, cancelled, routing, backend, written>>

ReadyToWrite(c) == place[c] = IF Lane[c] = "mutation" THEN "locked" ELSE "cleared"

\* _send_downstream: the write blocks while the pipe is full.
Write(c) ==
  /\ ReadyToWrite(c)
  /\ ~latched /\ Cardinality(pipe) < PipeMax
  /\ place' = [place EXCEPT ![c] = "sent"]
  /\ pipe' = pipe \cup {c}
  /\ written' = IF Lane[c] = "mutation" THEN Append(written, c) ELSE written
  /\ UNCHANGED <<client, cancelled, mutex, routing, owed>>

\* Faulty variant: an exception leaves the lock taken.
ReleaseOnSuccess(c) == mutex' = IF mutex = c /\ responses[c] > 0 THEN None ELSE mutex

\* The lock is released on every way out of the with statement.
Release(c) == mutex' = IF mutex = c THEN None ELSE mutex

WriteFails(c) ==
  /\ ReadyToWrite(c) /\ latched
  /\ place' = [place EXCEPT ![c] = "leaving"]
  /\ Release(c)
  /\ UNCHANGED <<client, cancelled, routing, backend, written>>

\* _wait_downstream_response looks for an answer, then for an error, then at
\* its deadline.
TakeAnswer(c) ==
  /\ Goto(c, "sent", "leaving")
  /\ responses[c] > 0
  /\ responses' = [responses EXCEPT ![c] = @ - 1]
  /\ handled' = handled \ {c}
  /\ Release(c)
  /\ UNCHANGED <<client, cancelled, inflight, tombs, latched, backend, written>>

SeeError(c) ==
  /\ Goto(c, "sent", "leaving")
  /\ responses[c] = 0 /\ latched
  /\ Release(c)
  /\ UNCHANGED <<client, cancelled, routing, backend, written>>

\* Faulty variant: only a mutation's wait has a deadline.
TimeOutMutation(c) ==
  /\ Lane[c] = "mutation"
  /\ Goto(c, "sent", "leaving")
  /\ responses[c] = 0 /\ ~latched
  /\ tombs' = tombs \cup {c}
  /\ Release(c)
  /\ UNCHANGED <<client, cancelled, inflight, responses, latched, handled, backend, written>>

TimeOut(c) ==
  /\ Goto(c, "sent", "leaving")
  /\ responses[c] = 0 /\ ~latched
  /\ tombs' = tombs \cup {c}
  /\ Release(c)
  /\ UNCHANGED <<client, cancelled, inflight, responses, latched, handled, backend, written>>

\* Faulty variant: an answer somebody still waits for may be dropped as well.
PruningAny(r, live) ==
  IF SumFunction(r) <= MaxPending THEN {r}
  ELSE {q \in Counts :
          (\A c \in Calls : q[c] <= r[c]) /\ SumFunction(q) = MaxPending}

\* _prune_pending_responses_locked: what may be left of the queued answers.
\* Those of ids in flight are kept, others are dropped until the total fits.
Pruning(r, live) ==
  IF SumFunction(r) <= MaxPending THEN {r}
  ELSE {q \in Counts :
          /\ \A c \in Calls : q[c] <= r[c] /\ (c \in live => q[c] = r[c])
          /\ SumFunction(q) = Larger(MaxPending, SumFunctionOnSet(r, live))}

\* Faulty variant: what is left over is pruned when an answer arrives only.
LeaveUnpruned(c) ==
  /\ Goto(c, "leaving", "replies")
  /\ inflight' = inflight \ {c}
  /\ UNCHANGED <<client, cancelled, mutex, responses, tombs, latched, handled, backend, written>>

\* _unregister_inflight_id
Leave(c) ==
  /\ Goto(c, "leaving", "replies")
  /\ inflight' = inflight \ {c}
  /\ responses' \in Pruning(responses, inflight')
  /\ UNCHANGED <<client, cancelled, mutex, tombs, latched, handled, backend, written>>

\* _write_client, then task_done.
Reply(c) ==
  /\ ~gone
  /\ Goto(c, "replies", "answered")
  /\ UNCHANGED <<client, cancelled, mutex, routing, backend, written>>

\* The write raises, the write of the error in its except raises again, and the
\* exception ends the worker after task_done.
LoseWorker(c) ==
  /\ gone /\ Lane[c] \in Lanes
  /\ Goto(c, "replies", "unsent")
  /\ dead' = [dead EXCEPT ![Lane[c]] = @ + 1]
  /\ UNCHANGED <<input, workers, lines, phase, gone, cancelled, mutex, routing, backend, written>>

\* On the dispatcher's own thread it ends run_stdio.
Abort(c) ==
  /\ gone /\ Lane[c] = "lifecycle"
  /\ Goto(c, "replies", "unsent")
  /\ phase' = "aborted"
  /\ UNCHANGED <<input, workers, lines, gone, dead, cancelled, mutex, routing, backend, written>>

-----------------------------------------------------------------------------
(* The downstream and the reader of its stdout.                            *)

Consume(c) ==
  /\ c \in pipe
  /\ pipe' = pipe \ {c}
  /\ owed' = [owed EXCEPT ![c] = IF c \in Twice THEN 2 ELSE 1]
  /\ UNCHANGED <<client, place, cancelled, mutex, routing, written>>

\* _handle_downstream_message
Answer(c) ==
  /\ owed[c] > 0
  /\ owed' = [owed EXCEPT ![c] = @ - 1]
  /\ tombs' = tombs \ {c}
  /\ IF c \in inflight \ tombs
     THEN /\ responses' \in Pruning([responses EXCEPT ![c] = @ + 1], inflight)
          /\ handled' = IF place[c] = "sent" THEN handled \cup {c} ELSE handled
     ELSE UNCHANGED <<responses, handled>>
  /\ UNCHANGED <<client, place, cancelled, mutex, inflight, latched, pipe, written>>

\* The downstream exits or sends what the reader refuses.
Lose ==
  /\ ~latched
  /\ latched' = TRUE
  /\ pipe' = {} /\ owed' = [c \in Calls |-> 0]
  /\ UNCHANGED <<client, place, cancelled, mutex, inflight, responses, tombs, handled, written>>

\* _prune_timed_out_ids_locked, long after the call has ended.
Forget(c) ==
  /\ c \in tombs /\ place[c] \in Ended
  /\ tombs' = tombs \ {c}
  /\ UNCHANGED <<client, place, cancelled, mutex, inflight, responses, latched, handled>>
  /\ UNCHANGED <<backend, written>>

-----------------------------------------------------------------------------

StdioInit ==
  /\ \E setup \in Setups : input = setup.input /\ workers = setup.workers
  /\ lines = 0 /\ phase = "reads" /\ gone = FALSE /\ dead = [lane \in Lanes |-> 0]
  /\ place = [c \in Calls |-> "unread"]
  /\ cancelled = {} /\ mutex = None
  /\ inflight = {} /\ responses = [c \in Calls |-> 0] /\ tombs = {} /\ latched = FALSE
  /\ pipe = {} /\ owed = [c \in Calls |-> 0]
  /\ handled = {} /\ written = <<>>

\* What becomes of a call on the proxy's threads.
Decide(c) == AnswerLocally(c) \/ EndCancelled(c) \/ Clear(c)
Send(c)   == TakeLock(c) \/ Write(c) \/ WriteFails(c)
Wait(c)   == TakeAnswer(c) \/ SeeError(c) \/ TimeOut(c)
Finish(c) == Leave(c) \/ Reply(c) \/ LoseWorker(c) \/ Abort(c)
Step(c)   == Put(c) \/ Take(c) \/ Decide(c) \/ Send(c) \/ Wait(c) \/ Finish(c)

StdioNext ==
  \/ ReadLine \/ CloseInput \/ HangUp \/ Shutdown \/ Lose
  \/ \E c \in Calls : Step(c) \/ Cancel(c) \/ Consume(c) \/ Answer(c) \/ Forget(c)

StdioSpec == StdioInit /\ [][StdioNext]_stdioVars

\* The proxy's threads run.  An approval ends at its deadline and a wait at
\* its time-out; the client, the answers and the death are left to chance.
ThreadFairness == WF_stdioVars(Shutdown) /\ \A c \in Calls : WF_stdioVars(Step(c))

\* A downstream that may stop reading its stdin.
StallingSpec == StdioSpec /\ ThreadFairness

\* A downstream that reads its stdin, whatever becomes of the requests.
FairStdioSpec == StallingSpec /\ WF_stdioVars(\E c \in Calls : Consume(c))

-----------------------------------------------------------------------------

StdioTypeOK ==
  /\ \E setup \in Setups : input = setup.input /\ workers = setup.workers
  /\ lines \in 0..Len(input) /\ phase \in Phases
  /\ place \in [Calls -> Places]
  /\ \A c \in Calls : place[c] = "unread" <=> c \notin {input[i] : i \in 1..lines}
  /\ {cancelled, inflight, tombs, pipe, handled} \subseteq SUBSET Calls
  /\ {responses, owed} \subseteq Counts
  /\ latched \in BOOLEAN
  /\ mutex \in Calls \cup {None}
  /\ \A c \in Calls : mutex = c <=>
       Lane[c] = "mutation" /\ (place[c] = "locked" \/ place[c] = "sent")
  /\ \A c \in Calls : c \in inflight <=> place[c] \in {"cleared", "locked", "sent", "leaving"}
  /\ gone \in BOOLEAN /\ dead \in [Lanes -> Nat]
  /\ \A lane \in Lanes : Cardinality(Busy(lane)) + dead[lane] <= workers[lane]

\* The proxy does not exit while a line it has read is unanswered: only a
\* cancelled call, or one whose client has gone, ends without an answer, and
\* nothing is left registered.
AnsweredBeforeExit ==
  phase = "stopped" => /\ \A i \in 1..lines : \/ place[input[i]] = "answered"
                                              \/ place[input[i]] = "silent" /\ input[i] \in cancelled
                                              \/ place[input[i]] = "unsent" /\ gone
                       /\ inflight = {} /\ mutex = None

\* An answer that arrived while its call was waiting is still there when the
\* call looks, however many late and duplicated answers came in between.
FiledAnswersStay == \A c \in handled : responses[c] > 0

\* Answers nobody waits for are bounded: late and duplicated answers of a long
\* session do not pile up.
LeftoversBounded == SumFunctionOnSet(responses, Calls \ inflight) <= MaxPending

\* A line a thread has taken ends, with a call that holds the mutation lock, a
\* downstream that never answers, or a client that has gone.  While the client
\* reads its answers every line the dispatcher has taken ends, with a full lane
\* too, and when the client has closed its input the proxy stops.
EveryLineEnds ==
  /\ <>[](\A lane \in Lanes : Busy(lane) = {})
  /\ []~gone => /\ <>[](\A i \in 1..lines : place[input[i]] \in Ended)
                /\ phase = "joinsRead" ~> phase = "stopped"

\* "Everything else stays on the serial mutation lane so successive writes
\* keep arrival order" (passthrough.py:281-282).
WritesKeepArrivalOrder ==
  \A i, j \in 1..Len(written) : Precedes(written[i], written[j]) => i < j

State == [c \in Calls |->
  IF place[c] \in Ended THEN place[c] ELSE IF place[c] = "unread" THEN "unread" ELSE "open"]

Promise == INSTANCE Session WITH Mutations <- Of("mutation"), Tools <- Of("read") \cup Of("mutation"),
                                 state <- State, running <- mutex, log <- written,
                                 stopped <- (phase = "stopped")

\* Whatever the workers, the late answers and the shutdown do, every request ends
\* once, and mutations have the downstream to themselves, one after the other and
\* each once.
ImplementsSession == Promise!SessionSpec
==============================================================================
