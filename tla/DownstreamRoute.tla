-------------------------- MODULE DownstreamRoute --------------------------
(***************************************************************************)
(* The route of mutation calls to the downstream MCP server                *)
(* (passthrough.py), with the generation bookkeeping of the approval       *)
(* manager (approval/manager.py).  Worker threads carry one tools/call     *)
(* each through readiness, approval, the mutation lock and the generation  *)
(* check; the downstream may die at any time and one worker at a time      *)
(* replaces it.  Locks held across steps are variables; a block that runs  *)
(* under a lock and is seen by nobody outside it is one action.            *)
(***************************************************************************)
EXTENDS Integers, ApprovalStatus

CONSTANTS
  Calls,          \* routed mutation tools/call requests, one worker thread each
  MaxProcesses    \* bound: how often the downstream is spawned

None   == -1        \* Python None as a generation
Nobody == "nobody"  \* a free lock

ASSUME RouteAssumption == MaxProcesses \in Nat \ {0} /\ Nobody \notin Calls

VARIABLES
  process,      \* self.process: [id, alive, open (stdout)]; id 0 stands for None
  spawned,      \* how many processes were spawned so far
  reader,       \* the stdout reader thread of the process
  latched,      \* _downstream_error is set
  stopping,     \* _stopping
  responses,    \* calls with a queued response
  generation,   \* _downstream_generation of the passthrough
  reconnecting, \* holder of _reconnect_lock
  lastFailed,   \* _last_reconnect_failed
  noted,        \* _downstream_generation of the approval manager
  finalizing,   \* the worker that holds _finalize_lock to publish a generation
  closing,      \* rows closed under _finalize_lock whose prompts are not unregistered yet
  rows,         \* status of each call's evidence row
  cards,        \* calls whose prompt is registered
  bindings,     \* _approval_generations
  at,           \* where each worker is
  bound,        \* the worker's thread-local _bound_downstream_generation
  noting,       \* the argument a worker has read for note_downstream_generation
  written,      \* history: the process and generation each call was written to
  vetted,       \* history: processes that were initialized
  orphaned      \* history: the process whose death was seen while a call's card was open

downstream == <<process, spawned, reader>>
route      == <<latched, stopping, responses, generation, reconnecting, lastFailed>>
approvals  == <<noted, finalizing, closing, rows, cards, bindings>>
workers    == <<at, bound, noting>>
histories  == <<written, vetted, orphaned>>
routeVars  == <<downstream, route, approvals, workers, histories>>

NoProcess  == [id |-> 0, alive |-> FALSE, open |-> FALSE]
Running(i) == [id |-> i, alive |-> TRUE, open |-> TRUE]
Unwritten  == [to |-> 0, as |-> None]

ReaderStates == {"reading", "retiring", "gone"}
Decisions == {"approved", "denied", "cancelled"}
Places ==
  {"arrives", "retires", "checks", "binds", "reads", "notes",
   "reconnects", "stops", "joins", "spawns", "handshakes", "fails", "publishes", "invalidates", "closes",
   "rebinds", "asks", "registers", "waits", "expires", "queues", "sends", "validates", "writes", "sent", "done"}

Exited == process.id # 0 /\ ~process.alive

Goto(c, from, to) == at[c] = from /\ at' = [at EXCEPT ![c] = to]
SetRow(c, status) == rows' = [rows EXCEPT ![c] = status]

OpenCards == {c \in cards : rows[c] = "pending"}

\* _finalize_lock is free: whoever closes a row under it keeps it until the
\* prompt is unregistered.
FinalizeFree == finalizing = Nobody /\ closing = {}

-----------------------------------------------------------------------------
(* Approvals bound to a generation.                                        *)

Bound == {c \in Calls : bindings[c] # None}
Stale == {c \in Bound : bindings[c] # noted}

\* Faulty variant: the prompt stays registered.
InvalidateKeepingCard(calls) ==
  /\ rows' = [c \in Calls |-> IF c \in calls /\ rows[c] = "pending" THEN "invalidated" ELSE rows[c]]
  /\ bindings' = [c \in Calls |-> IF c \in calls THEN None ELSE bindings[c]]
  /\ UNCHANGED <<cards, closing>>

\* _invalidate_approval_locked on each call of a set: a pending row is
\* invalidated, its prompt still to be closed; any other row is only forgotten.
Invalidate(calls) ==
  /\ rows' = [c \in Calls |-> IF c \in calls /\ rows[c] = "pending" THEN "invalidated" ELSE rows[c]]
  /\ closing' = closing \cup {c \in calls : rows[c] = "pending"}
  /\ bindings' = [c \in Calls |-> IF c \in calls THEN None ELSE bindings[c]]
  /\ UNCHANGED cards

\* approval_server.unregister, by the thread that closed the rows.
CloseCards ==
  /\ closing # {}
  /\ cards' = cards \ closing
  /\ closing' = {}
  /\ UNCHANGED <<noted, finalizing, rows, bindings>>
  /\ UNCHANGED <<downstream, route, workers, histories>>

\* _set_downstream_error after an exit or EOF, and whether it is the first observation.
FirstObservation == ~latched /\ ~stopping
Orphan ==
  orphaned' = [c \in Calls |-> IF FirstObservation /\ c \in OpenCards /\ orphaned[c] = 0
                               THEN process.id ELSE orphaned[c]]
ObserveDeath ==
  /\ latched' = (latched \/ ~stopping)
  /\ Orphan

\* Faulty variant: waits for the reconnect lock instead of trying it.
RetireBlocking ==
  /\ reconnecting = Nobody
  /\ IF stopping THEN UNCHANGED approvals
     ELSE FinalizeFree /\ Invalidate(Bound) /\ UNCHANGED <<noted, finalizing>>

\* _retire_pending_approvals_after_downstream_death: only if nobody holds the
\* reconnect lock.
RetireAfterDeath ==
  IF reconnecting = Nobody /\ ~stopping
  THEN FinalizeFree /\ Invalidate(Bound) /\ UNCHANGED <<noted, finalizing>>
  ELSE UNCHANGED approvals

-----------------------------------------------------------------------------
(* The downstream and its stdout reader.                                   *)

Die ==
  /\ process.alive
  /\ process' = [process EXCEPT !.alive = FALSE, !.open = FALSE]
  /\ UNCHANGED <<spawned, reader, route, approvals, workers, histories>>

CloseStdout ==
  /\ process.alive /\ process.open
  /\ process' = [process EXCEPT !.open = FALSE]
  /\ UNCHANGED <<spawned, reader, route, approvals, workers, histories>>

\* The answer to a forwarded call reaches the queue of its waiting worker.
Answer(c) ==
  /\ at[c] = "sent" /\ c \notin responses
  /\ reader = "reading" /\ process.open /\ process.id = written[c].to
  /\ responses' = responses \cup {c}
  /\ UNCHANGED <<latched, stopping, generation, reconnecting, lastFailed>>
  /\ UNCHANGED <<downstream, approvals, workers, histories>>

ReaderSeesEof ==
  /\ reader = "reading" /\ ~process.open
  /\ ObserveDeath
  /\ reader' = IF FirstObservation THEN "retiring" ELSE "gone"
  /\ UNCHANGED <<process, spawned, stopping, responses, generation, reconnecting, lastFailed>>
  /\ UNCHANGED <<approvals, workers, written, vetted>>

ReaderRetires ==
  /\ reader = "retiring"
  /\ RetireAfterDeath
  /\ reader' = "gone"
  /\ UNCHANGED <<process, spawned, route, workers, histories>>

\* Invalid UTF-8, invalid JSON, an oversized message or a read error.
ReaderGivesUp ==
  /\ reader = "reading" /\ process.open
  /\ latched' = (latched \/ ~stopping)
  /\ reader' = "gone"
  /\ UNCHANGED <<process, spawned, stopping, responses, generation, reconnecting, lastFailed>>
  /\ UNCHANGED <<approvals, workers, histories>>

-----------------------------------------------------------------------------
(* _ensure_downstream_ready_for_routed_call.                               *)

\* _latch_downstream_unavailable_if_exited
Arrive(c) ==
  /\ Goto(c, "arrives", IF Exited /\ FirstObservation THEN "retires" ELSE "checks")
  /\ IF Exited THEN ObserveDeath ELSE UNCHANGED <<latched, orphaned>>
  /\ UNCHANGED <<stopping, responses, generation, reconnecting, lastFailed>>
  /\ UNCHANGED <<downstream, approvals, bound, noting, written, vetted>>

WorkerRetires(c) ==
  /\ Goto(c, "retires", "checks")
  /\ RetireAfterDeath
  /\ UNCHANGED <<downstream, route, bound, noting, histories>>

\* A missing process with no error counts as ready too.
Check(c) ==
  /\ Goto(c, "checks",
          IF ~latched /\ (process.alive \/ process.id = 0) THEN "binds" ELSE "reconnects")
  /\ UNCHANGED <<downstream, route, approvals, bound, noting, histories>>

Bind(c) ==
  /\ Goto(c, "binds", "reads")
  /\ bound' = [bound EXCEPT ![c] = generation]
  /\ UNCHANGED <<downstream, route, approvals, noting, histories>>

\* note_downstream_generation: the argument is read, and stored without a lock.
ReadNote(c) ==
  /\ Goto(c, "reads", "notes")
  /\ noting' = [noting EXCEPT ![c] = generation]
  /\ UNCHANGED <<downstream, route, approvals, bound, histories>>

WriteNote(c) ==
  /\ Goto(c, "notes", "asks")
  /\ noted' = noting[c]
  /\ UNCHANGED <<finalizing, closing, rows, cards, bindings>>
  /\ UNCHANGED <<downstream, route, bound, noting, histories>>

-----------------------------------------------------------------------------
(* _attempt_bounded_reconnect and _reconnect_downstream_locked.            *)

\* Takes the lock; the exit noticed here finds the lock held and retires nobody.
StartReconnect(c) ==
  LET broken == latched \/ ~process.alive IN
  /\ reconnecting = Nobody
  /\ IF Exited THEN ObserveDeath ELSE UNCHANGED <<latched, orphaned>>
  /\ \/ ~broken /\ Goto(c, "reconnects", "rebinds") /\ UNCHANGED reconnecting
     \* within the cooldown of a failed attempt
     \/ broken /\ lastFailed /\ Goto(c, "reconnects", "done") /\ UNCHANGED reconnecting
     \/ broken /\ Goto(c, "reconnects", "stops") /\ reconnecting' = c
  /\ UNCHANGED <<stopping, responses, generation, lastFailed>>
  /\ UNCHANGED <<downstream, approvals, bound, noting, written, vetted>>

\* _stop_downstream_for_replace kills the process ...
StopProcess(c) ==
  /\ Goto(c, "stops", "joins")
  /\ stopping' = TRUE
  /\ process' = [process EXCEPT !.alive = FALSE, !.open = FALSE]
  /\ UNCHANGED <<spawned, reader, latched, responses, generation, reconnecting, lastFailed>>
  /\ UNCHANGED <<approvals, bound, noting, histories>>

\* ... and joins its reader; then the responses and the error are dropped.
JoinReader(c) ==
  /\ reader = "gone"
  /\ Goto(c, "joins", "spawns")
  /\ process' = NoProcess
  /\ responses' = {}
  /\ latched' = FALSE
  /\ stopping' = FALSE
  /\ UNCHANGED <<spawned, reader, generation, reconnecting, lastFailed>>
  /\ UNCHANGED <<approvals, bound, noting, histories>>

Spawn(c) ==
  /\ \/ /\ spawned < MaxProcesses
        /\ Goto(c, "spawns", "handshakes")
        /\ spawned' = spawned + 1
        /\ process' = Running(spawned + 1)
        /\ reader' = "reading"
     \/ Goto(c, "spawns", "fails") /\ UNCHANGED downstream
  /\ UNCHANGED <<route, approvals, bound, noting, histories>>

\* initialize and tools/list are answered and the process outlives the settle
\* time, or any of that fails.
Handshake(c) ==
  /\ \/ /\ process.alive /\ ~latched
        /\ Goto(c, "handshakes", "publishes")
        /\ generation' = generation + 1
        /\ vetted' = vetted \cup {process.id}
     \/ Goto(c, "handshakes", "fails") /\ UNCHANGED <<generation, vetted>>
  /\ UNCHANGED <<latched, stopping, responses, reconnecting, lastFailed>>
  /\ UNCHANGED <<downstream, approvals, bound, noting, written, orphaned>>

\* Faulty variant: a failed reconnect leaves no error behind.
FailReconnectUnlatched(c) ==
  /\ Goto(c, "fails", "done")
  /\ lastFailed' = TRUE
  /\ reconnecting' = Nobody
  /\ UNCHANGED <<latched, stopping, responses, generation>>
  /\ UNCHANGED <<downstream, approvals, bound, noting, histories>>

\* The lock is still held, so an exit first noticed here retires nobody.
FailReconnect(c) ==
  /\ Goto(c, "fails", "done")
  /\ latched' = TRUE
  /\ IF Exited THEN Orphan ELSE UNCHANGED orphaned
  /\ lastFailed' = TRUE
  /\ reconnecting' = Nobody
  /\ UNCHANGED <<stopping, responses, generation>>
  /\ UNCHANGED <<downstream, approvals, bound, noting, written, vetted>>

\* publish_downstream_generation stores the generation ...
PublishSet(c) ==
  /\ Goto(c, "publishes", "invalidates")
  /\ FinalizeFree
  /\ finalizing' = c
  /\ noted' = generation
  /\ UNCHANGED <<closing, rows, cards, bindings>>
  /\ UNCHANGED <<downstream, route, bound, noting, histories>>

\* ... and invalidates against the stored value, which it reads again.
PublishInvalidate(c) ==
  /\ Goto(c, "invalidates", "closes")
  /\ Invalidate(Stale)
  /\ finalizing' = Nobody
  /\ UNCHANGED noted
  /\ UNCHANGED <<downstream, route, bound, noting, histories>>

\* The stale prompts are closed: the error is dropped and the lock released.
EndReconnect(c) ==
  /\ Goto(c, "closes", "rebinds")
  /\ closing = {}
  /\ latched' = FALSE
  /\ lastFailed' = FALSE
  /\ reconnecting' = Nobody
  /\ UNCHANGED <<stopping, responses, generation>>
  /\ UNCHANGED <<downstream, approvals, bound, noting, histories>>

\* After a reconnect the generation is bound without a note; the tool may have
\* disappeared from the new downstream.
Rebind(c) ==
  /\ \/ Goto(c, "rebinds", "asks") /\ bound' = [bound EXCEPT ![c] = generation]
     \/ Goto(c, "rebinds", "done") /\ UNCHANGED bound
  /\ UNCHANGED <<downstream, route, approvals, noting, histories>>

-----------------------------------------------------------------------------
(* request_approval and the decision.                                      *)

\* The row is pending, or approved without a card (a scope grant, headless).
Ask(c) ==
  /\ \/ Goto(c, "asks", "registers") /\ SetRow(c, "pending")
     \/ Goto(c, "asks", "queues") /\ SetRow(c, "approved")
  /\ UNCHANGED <<noted, finalizing, closing, cards, bindings>>
  /\ UNCHANGED <<downstream, route, bound, noting, histories>>

RegisterCard(c) ==
  /\ FinalizeFree
  /\ IF bound[c] = noted
     THEN /\ Goto(c, "registers", "waits")
          /\ cards' = cards \cup {c}
          /\ bindings' = [bindings EXCEPT ![c] = bound[c]]
          /\ UNCHANGED <<closing, rows>>
     ELSE /\ Goto(c, "registers", "done")
          /\ Invalidate({c})
  /\ UNCHANGED <<noted, finalizing>>
  /\ UNCHANGED <<downstream, route, bound, noting, histories>>

\* _approve, _deny or cancel_approval, under the finalize lock: the row first.
Decide(c, decision) ==
  /\ FinalizeFree
  /\ c \in OpenCards
  /\ SetRow(c, decision)
  /\ closing' = {c}
  /\ bindings' = [bindings EXCEPT ![c] = None]
  /\ UNCHANGED <<noted, finalizing, cards>>
  /\ UNCHANGED <<downstream, route, workers, histories>>

\* Faulty variant: the deadline is written over a decision.
ExpireRegardless(c) ==
  /\ Goto(c, "waits", "expires")
  /\ SetRow(c, "expired")
  /\ UNCHANGED <<noted, finalizing, closing, cards, bindings>>
  /\ UNCHANGED <<downstream, route, bound, noting, histories>>

\* The waiter's deadline, without the finalize lock; the binding stays.  A row
\* decided at the same moment refuses the transition.
Expire(c) ==
  /\ Goto(c, "waits", "expires")
  /\ IF rows[c] = "pending" THEN SetRow(c, "expired") ELSE UNCHANGED rows
  /\ UNCHANGED <<noted, finalizing, closing, cards, bindings>>
  /\ UNCHANGED <<downstream, route, bound, noting, histories>>

\* The waiter unregisters the prompt and reads the row once more.
Unregister(c) ==
  /\ Goto(c, "expires", IF rows[c] = "approved" THEN "queues" ELSE "done")
  /\ cards' = cards \ {c}
  /\ UNCHANGED <<noted, finalizing, closing, rows, bindings>>
  /\ UNCHANGED <<downstream, route, bound, noting, histories>>

\* Faulty variant: only a denial stops the call.
WakeUnlessDenied(c) ==
  /\ rows[c] # "pending"
  /\ Goto(c, "waits", IF rows[c] = "denied" THEN "done" ELSE "queues")
  /\ UNCHANGED <<downstream, route, approvals, bound, noting, histories>>

Wake(c) ==
  /\ rows[c] # "pending"
  /\ Goto(c, "waits", IF rows[c] = "approved" THEN "queues" ELSE "done")
  /\ UNCHANGED <<downstream, route, approvals, bound, noting, histories>>

-----------------------------------------------------------------------------
(* Sending under _mutation_execution_lock and _reconnect_lock.             *)

Mutating == {c \in Calls : at[c] \in {"sends", "validates", "writes", "sent"}}

AcquireMutation(c) ==
  /\ Mutating = {}
  /\ Goto(c, "queues", "sends")
  /\ UNCHANGED <<downstream, route, approvals, bound, noting, histories>>

\* Faulty variant: does not wait for a reconnect.
TakeSendLockAtOnce(c) ==
  /\ reconnecting' = c
  /\ Goto(c, "sends", "validates")
  /\ UNCHANGED <<latched, stopping, responses, generation, lastFailed>>
  /\ UNCHANGED <<downstream, approvals, bound, noting, histories>>

TakeSendLock(c) ==
  /\ reconnecting = Nobody
  /\ reconnecting' = c
  /\ Goto(c, "sends", "validates")
  /\ UNCHANGED <<latched, stopping, responses, generation, lastFailed>>
  /\ UNCHANGED <<downstream, approvals, bound, noting, histories>>

\* Faulty variant: the early return keeps the lock.
ValidateKeepingLock(c) ==
  /\ IF bound[c] = generation
     THEN Goto(c, "validates", "writes") /\ UNCHANGED rows
     ELSE Goto(c, "validates", "done") /\ SetRow(c, "error")
  /\ UNCHANGED <<latched, stopping, responses, generation, reconnecting, lastFailed>>
  /\ UNCHANGED <<noted, finalizing, closing, cards, bindings>>
  /\ UNCHANGED <<downstream, bound, noting, histories>>

\* _stale_downstream_generation_response
ValidateGeneration(c) ==
  /\ IF bound[c] = generation
     THEN Goto(c, "validates", "writes") /\ UNCHANGED <<rows, reconnecting>>
     ELSE Goto(c, "validates", "done") /\ SetRow(c, "error") /\ reconnecting' = Nobody
  /\ UNCHANGED <<latched, stopping, responses, generation, lastFailed>>
  /\ UNCHANGED <<noted, finalizing, closing, cards, bindings>>
  /\ UNCHANGED <<downstream, bound, noting, histories>>

\* _send_downstream looks at the process, not at the latched error.
WriteCall(c) ==
  /\ IF process.alive
     THEN /\ Goto(c, "writes", "sent")
          /\ written' = [written EXCEPT ![c] = [to |-> process.id, as |-> generation]]
          /\ UNCHANGED rows
     ELSE /\ Goto(c, "writes", "done")
          /\ SetRow(c, "error")
          /\ UNCHANGED written
  /\ reconnecting' = Nobody
  /\ UNCHANGED <<latched, stopping, responses, generation, lastFailed>>
  /\ UNCHANGED <<noted, finalizing, closing, cards, bindings>>
  /\ UNCHANGED <<downstream, bound, noting, vetted, orphaned>>

\* _wait_downstream_response takes a queued response before it looks at the
\* error; without one it fails on the error or at its deadline.
Finish(c) ==
  /\ Goto(c, "sent", "done")
  /\ SetRow(c, IF c \in responses THEN "executed" ELSE "error")
  /\ responses' = responses \ {c}
  /\ UNCHANGED <<latched, stopping, generation, reconnecting, lastFailed>>
  /\ UNCHANGED <<noted, finalizing, closing, cards, bindings>>
  /\ UNCHANGED <<downstream, bound, noting, histories>>

-----------------------------------------------------------------------------
RouteInit ==
  /\ process = Running(1) /\ spawned = 1 /\ reader = "reading"
  /\ latched = FALSE /\ stopping = FALSE /\ responses = {}
  /\ generation = 0 /\ reconnecting = Nobody /\ lastFailed = FALSE
  /\ noted = 0 /\ finalizing = Nobody /\ closing = {} /\ cards = {}
  /\ rows = [c \in Calls |-> "absent"]
  /\ bindings = [c \in Calls |-> None]
  /\ at = [c \in Calls |-> "arrives"]
  /\ bound = [c \in Calls |-> None]
  /\ noting = [c \in Calls |-> None]
  /\ written = [c \in Calls |-> Unwritten]
  /\ vetted = {1}
  /\ orphaned = [c \in Calls |-> 0]

ReaderStep == ReaderSeesEof \/ ReaderRetires

ReadyStep(c) == Arrive(c) \/ WorkerRetires(c) \/ Check(c) \/ Bind(c) \/ ReadNote(c) \/ WriteNote(c)

ReconnectStep(c) ==
  \/ StartReconnect(c) \/ StopProcess(c) \/ JoinReader(c) \/ Spawn(c) \/ Handshake(c)
  \/ FailReconnect(c) \/ PublishSet(c) \/ PublishInvalidate(c) \/ EndReconnect(c) \/ Rebind(c)

SendStep(c) == AcquireMutation(c) \/ TakeSendLock(c) \/ ValidateGeneration(c) \/ WriteCall(c) \/ Finish(c)

\* What the worker of a call does on its own; decisions are the humans'.
WorkerStep(c) ==
  \/ ReadyStep(c) \/ ReconnectStep(c) \/ Ask(c) \/ RegisterCard(c)
  \/ Expire(c) \/ Unregister(c) \/ Wake(c) \/ SendStep(c)

AllAnswered == \A c \in Calls : at[c] = "done"

RouteNext ==
  \/ Die \/ CloseStdout \/ ReaderGivesUp \/ ReaderStep \/ CloseCards
  \/ \E c \in Calls : Answer(c) \/ WorkerStep(c) \/ \E d \in Decisions : Decide(c, d)
  \/ AllAnswered /\ UNCHANGED routeVars

RouteSpec == RouteInit /\ [][RouteNext]_routeVars

\* Threads run: every wait of a worker has a deadline except the wait for a lock,
\* the reader always comes to an end of file, and whoever has closed a row under
\* the finalize lock goes on to its prompt.
FairRouteSpec ==
  /\ RouteSpec
  /\ WF_routeVars(ReaderStep) /\ WF_routeVars(CloseCards)
  /\ \A c \in Calls : WF_routeVars(WorkerStep(c))

-----------------------------------------------------------------------------
Reconnecting == {"stops", "joins", "spawns", "handshakes", "fails", "publishes", "invalidates", "closes"}

\* Every variable stays in its range, and the reconnect lock is held exactly while
\* its holder reconnects, validates or writes.
RouteTypeOK ==
  /\ process \in [id : 0..MaxProcesses, alive : BOOLEAN, open : BOOLEAN]
  /\ spawned \in 1..MaxProcesses /\ reader \in ReaderStates
  /\ latched \in BOOLEAN /\ stopping \in BOOLEAN /\ responses \subseteq Calls
  /\ \A c \in Calls : reconnecting = c <=> at[c] \in Reconnecting \cup {"validates", "writes"}
  /\ generation \in Nat /\ reconnecting \in Calls \cup {Nobody} /\ lastFailed \in BOOLEAN
  /\ noted \in Nat /\ finalizing \in Calls \cup {Nobody} /\ closing \subseteq Calls
  /\ rows \in [Calls -> Statuses \cup {"absent"}] /\ cards \subseteq Calls
  /\ bindings \in [Calls -> Nat \cup {None}]
  /\ at \in [Calls -> Places]
  /\ bound \in [Calls -> Nat \cup {None}] /\ noting \in [Calls -> Nat \cup {None}]
  /\ written \in [Calls -> [to : 0..MaxProcesses, as : Nat \cup {None}]]
  /\ vetted \subseteq 1..MaxProcesses /\ orphaned \in [Calls -> 0..MaxProcesses]

\* _send_tools_call_if_current_generation validates and writes "atomically":
\* no reconnect bumps the generation between the check and the write, so a call
\* is only written in the generation its worker bound before the approval.
SentOnBoundGeneration ==
  \A c \in Calls : written[c] # Unwritten => written[c].as = bound[c]

\* A call that was retired, denied, cancelled or expired is never written to the
\* downstream, and once written its row can only become executed or error.
WrittenWasApproved ==
  \A c \in Calls : written[c] # Unwritten => rows[c] \in {"approved", "executed", "error"}

\* With the reconnect lock free and no error latched, the process calls would be
\* written to has answered initialize and tools/list: a replacement that failed
\* its handshake stays latched unavailable.
ReadyMeansVetted ==
  reconnecting = Nobody /\ ~latched /\ process.id # 0 => process.id \in vetted

\* No prompt is left behind by whoever retires, decides or expires its row: a
\* registered prompt belongs to a pending row whose worker waits for it, or the
\* thread that closed the row is about to unregister it.
PromptsAreLive ==
  \A c \in cards : \/ rows[c] = "pending" /\ at[c] = "waits"
                   \/ c \in closing \/ at[c] = "expires"

\* Each step moves a row as the store's status machine allows; a row may also be
\* created, pending or approved at once by a grant.  Readers, reconnectors,
\* deciders and deadlines never overwrite each other's verdict.
RowsFollowMachine ==
  [][\A c \in Calls : rows'[c] # rows[c] =>
       IF rows[c] = "absent" THEN rows'[c] \in {"pending", "approved"}
       ELSE rows'[c] \in AllowedTransitions(rows[c])]_routeVars

\* Every call is answered, whatever the downstream does: the reader, the
\* reconnecting worker and the senders never wait on each other for ever.
EveryCallAnswered == \A c \in Calls : at[c] = "arrives" ~> at[c] = "done"

\* Claimed by the changelog and the EOF retirement note: an action whose approval
\* was open when its downstream was seen dead is not forwarded after a reconnect.
OrphanNeverForwarded == \A c \in Calls : orphaned[c] # 0 => written[c].to \in {0, orphaned[c]}
=============================================================================
