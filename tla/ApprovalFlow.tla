---------------------------- MODULE ApprovalFlow ----------------------------
(***************************************************************************)
(* One mutation tools/call from the client's line to its recorded result   *)
(* (passthrough.py, approval/manager.py, approval/server.py), on top of    *)
(* the evidence store.  The dispatcher tracks and cancels calls, one       *)
(* worker thread carries each call, POST handlers record decisions and     *)
(* background watchers expire cards.  Every step is a step of the store or *)
(* leaves it alone.  Left out: similar_5m grants, headless decisions and   *)
(* the downstream route.                                                   *)
(***************************************************************************)
EXTENDS EvidenceStore

CONSTANTS
  Calls,     \* mutation tools/call requests, with a JSON-RPC id each
  WaitMode   \* config.approval.wait_for_decision

ASSUME FlowAssumption ==
  /\ WaitMode \in BOOLEAN
  /\ {"denied", "expired", "cancelled", "executed"} \subseteq Outcomes

VARIABLES
  at,          \* where the worker of each call is
  asks,        \* what each call asks for
  row,         \* the evidence row of each call
  created,     \* the clock reading a worker took for its row
  tracked,     \* _tracked_client_requests
  tombstones,  \* _prebind_cancellations
  bound,       \* calls with an entry in _client_request_bindings
  prompts,     \* rows with a registered prompt
  posted,      \* _decisions of the approval server
  watched,     \* rows with a background watcher
  forwards,    \* history: pairs <<confirmed row, call>> written downstream
  aborted      \* history: calls cancelled before they were approved, unless the record lapsed

inMemory == <<tracked, tombstones, bound, prompts, posted, watched>>
worker   == <<at, row, created>>
flowVars == <<worker, asks, inMemory, forwards, aborted>>

Places == {"new", "queued", "begun", "unfunded", "funded", "written", "bound", "granted",
           "registers", "waits", "approved", "sent", "links", "done", "lost"}
Verdicts == {"none", "approve", "deny"}

Goto(c, from, to) == at[c] = from /\ at' = [at EXCEPT ![c] = to]

Status(c)  == rows[row[c]].status
Pending(r) == rows[r].status = "pending"

\* The row whose confirmation a row lives on.
Root(r) == IF rows[r].grantedBy = None THEN r ELSE rows[r].grantedBy

\* Calls whose client binding points to a row.
BoundTo(r) == {c \in bound : row[c] = r}

-----------------------------------------------------------------------------
(* The dispatcher.                                                         *)

\* run_stdio: tracks the call and queues it.
Enqueue(c) ==
  /\ Goto(c, "new", "queued")
  /\ tracked' = tracked \cup {c}
  /\ UNCHANGED <<storeVars, row, created, asks, tombstones, bound, prompts, posted, watched>>
  /\ UNCHANGED <<forwards, aborted>>

\* Faulty variant: cancels whatever the row's status is.
CancelRowRegardless(r) ==
  /\ Update(r, [rows[r] EXCEPT !.status = "cancelled", !.error = "client_cancelled"])
  /\ UNCHANGED <<grantClaims, redirectClaims, recovery, now, histories>>

\* _cancel_approval_locked
CancelRow(r) == IF Pending(r) THEN Retire(r, "cancelled") ELSE UNCHANGED storeVars

Undecided(c) == at[c] \notin {"new", "done", "lost"} /\ (row[c] = None \/ Pending(row[c]))

\* Faulty variant: a call without a binding yet is not remembered.
CancelBoundOnly(c) ==
  /\ at[c] # "new"
  /\ aborted' = IF Undecided(c) THEN aborted \cup {c} ELSE aborted
  /\ IF c \in bound
     THEN /\ CancelRow(row[c])
          /\ bound' = bound \ {c}
          /\ prompts' = IF Pending(row[c]) THEN prompts \ {row[c]} ELSE prompts
     ELSE UNCHANGED <<storeVars, bound, prompts>>
  /\ UNCHANGED <<worker, asks, tombstones, tracked, posted, watched, forwards>>

\* cancel_by_client_request_id, for notifications/cancelled.
Cancel(c) ==
  /\ at[c] # "new"
  /\ aborted' = IF Undecided(c) THEN aborted \cup {c} ELSE aborted
  /\ IF c \in bound
     THEN /\ CancelRow(row[c])
          /\ bound' = bound \ {c}
          /\ prompts' = IF Pending(row[c]) THEN prompts \ {row[c]} ELSE prompts
          /\ UNCHANGED tombstones
     ELSE /\ tombstones' = IF c \in tracked THEN tombstones \cup {c} ELSE tombstones
          /\ UNCHANGED <<storeVars, bound, prompts>>
  /\ UNCHANGED <<worker, asks, tracked, posted, watched, forwards>>

\* A tombstone lives PREBIND_CANCELLATION_TTL_SECONDS, which no queue wait bounds,
\* and is pruned before one is looked for: the cancellation is forgotten.
TombstoneLapses(c) ==
  /\ c \in tombstones
  /\ tombstones' = tombstones \ {c}
  /\ aborted' = aborted \ {c}
  /\ UNCHANGED <<storeVars, worker, asks, tracked, bound, prompts, posted, watched, forwards>>

-----------------------------------------------------------------------------
(* request_approval.                                                       *)

Answered(c, from) == Goto(c, from, "done") /\ tracked' = tracked \ {c}

\* The tombstone is consumed before anything is written.
BeginCancelled(c) ==
  /\ c \in tombstones
  /\ Answered(c, "queued")
  /\ tombstones' = tombstones \ {c}
  /\ UNCHANGED <<storeVars, row, created, asks, bound, prompts, posted, watched, forwards, aborted>>

\* find_active_exact_deny
ActiveExactDeny(q, t) ==
  \E id \in Live(rows) : /\ rows[id].status = "denied" /\ rows[id].error = "user_denied"
                         /\ rows[id].request = q
                         /\ rows[id].expires # None /\ rows[id].expires > t

\* _materialize_server_decisions runs before the lookups: no posted decision on
\* the same request is left unwritten.
Materialized(q) == \A r \in RequestIds : posted[r] # "none" /\ rows[r].request = q => ~Pending(r)

Begin(c) ==
  /\ c \notin tombstones
  /\ Materialized(asks[c])
  /\ IF ActiveExactDeny(asks[c], now)
     THEN Answered(c, "queued")
     ELSE Goto(c, "queued", "begun") /\ UNCHANGED tracked
  /\ created' = [created EXCEPT ![c] = now]
  /\ UNCHANGED <<storeVars, row, asks, tombstones, bound, prompts, posted, watched, forwards, aborted>>

\* Faulty variant: the worker keeps no row id.
SpendGrantUnnamed(c, id) ==
  /\ ConsumeExactGrant(id, asks[c], created[c], created[c] + Timeout)
  /\ Goto(c, "begun", "funded")
  /\ UNCHANGED <<row, created, asks, inMemory, forwards, aborted>>

\* consume_exact_grant_with_pending: looks and claims in one transaction.
SpendGrant(c, id) ==
  /\ ConsumeExactGrant(id, asks[c], created[c], created[c] + Timeout)
  /\ Goto(c, "begun", "funded")
  /\ row' = [row EXCEPT ![c] = id]
  /\ UNCHANGED <<created, asks, inMemory, forwards, aborted>>

FindNoGrant(c) ==
  /\ ActiveExactGrants(asks[c], created[c]) = {}
  /\ Goto(c, "begun", "unfunded")
  /\ UNCHANGED <<storeVars, row, created, asks, inMemory, forwards, aborted>>

WriteRow(c, id) ==
  /\ WritePending(id, asks[c], created[c], created[c] + Timeout, None, "none")
  /\ Goto(c, "unfunded", "written")
  /\ row' = [row EXCEPT ![c] = id]
  /\ UNCHANGED <<created, asks, inMemory, forwards, aborted>>

\* The store is full: the call is refused as approval unavailable.
StoreFull(c) ==
  /\ \/ at[c] = "unfunded"
     \/ at[c] = "begun" /\ ActiveExactGrants(asks[c], created[c]) # {}
  /\ Cardinality(Live(rows)) >= MaxRecords
  /\ Answered(c, at[c])
  /\ UNCHANGED <<storeVars, row, created, asks, tombstones, bound, prompts, posted, watched>>
  /\ UNCHANGED <<forwards, aborted>>

Bind(c, from, to) ==
  /\ Goto(c, from, to)
  /\ bound' = bound \cup {c}
  /\ UNCHANGED <<storeVars, row, created, asks, tracked, tombstones, prompts, posted, watched>>
  /\ UNCHANGED <<forwards, aborted>>

\* Consumes a tombstone left before the binding and cancels the row.
CancelBound(c) ==
  /\ at[c] \in {"bound", "granted", "registers"} /\ c \in tombstones
  /\ CancelRow(row[c])
  /\ Answered(c, at[c])
  /\ tombstones' = tombstones \ {c}
  /\ bound' = bound \ {c}
  /\ UNCHANGED <<row, created, asks, prompts, posted, watched, forwards, aborted>>

\* Whatever decided the row meanwhile is the outcome.
Settled(c) ==
  /\ at[c] \in {"bound", "granted", "registers"} /\ ~Pending(row[c])
  /\ IF Status(c) = "approved" THEN Goto(c, at[c], "approved") /\ UNCHANGED tracked
     ELSE Answered(c, at[c])
  /\ UNCHANGED <<storeVars, row, created, asks, tombstones, bound, prompts, posted, watched>>
  /\ UNCHANGED <<forwards, aborted>>

\* The grant's retry is approved at once (scope_cache_hit).
ApproveByGrant(c) ==
  /\ Goto(c, "granted", "approved")
  /\ c \notin tombstones /\ Pending(row[c])
  /\ Approve(row[c], "exact")
  /\ bound' = bound \ {c}
  /\ UNCHANGED <<row, created, asks, tracked, tombstones, prompts, posted, watched, forwards, aborted>>

PassCheck(c) ==
  /\ Goto(c, "bound", "registers")
  /\ c \notin tombstones /\ Pending(row[c])
  /\ UNCHANGED <<storeVars, row, created, asks, inMemory, forwards, aborted>>

\* Under the finalize lock: the prompt is registered for a pending row only.
Register(c) ==
  /\ at[c] = "registers"
  /\ c \notin tombstones /\ Pending(row[c])
  /\ prompts' = prompts \cup {row[c]}
  /\ \/ WaitMode /\ Goto(c, "registers", "waits") /\ UNCHANGED <<tracked, watched>>
     \* nobody waits: waiting is off, or no browser could be opened
     \/ Answered(c, "registers") /\ watched' = watched \cup {row[c]}
  /\ UNCHANGED <<storeVars, row, created, asks, tombstones, bound, posted, forwards, aborted>>

\* _await_decision returns what the evidence says.
Wake(c) ==
  /\ at[c] = "waits" /\ ~Pending(row[c])
  /\ IF Status(c) = "approved" THEN Goto(c, "waits", "approved") /\ UNCHANGED tracked
     ELSE Answered(c, "waits")
  /\ UNCHANGED <<storeVars, row, created, asks, tombstones, bound, prompts, posted, watched>>
  /\ UNCHANGED <<forwards, aborted>>

-----------------------------------------------------------------------------
(* Decisions and deadlines.                                                *)

\* submit_decision notes the decision in memory ...
Post(r, verdict) ==
  /\ r \in prompts /\ posted[r] = "none" /\ Pending(r)
  /\ now <= rows[r].expires
  /\ posted' = [posted EXCEPT ![r] = verdict]
  /\ UNCHANGED <<storeVars, worker, asks, tracked, tombstones, bound, prompts, watched, forwards, aborted>>

\* ... and its handler, a materializing retry or the waiter writes it: _approve
\* or _deny under the finalize lock, refused when the row has been decided.
Persist(r) ==
  /\ posted[r] # "none"
  /\ posted' = [posted EXCEPT ![r] = "none"]
  /\ IF Pending(r)
     THEN /\ IF posted[r] = "approve" THEN Approve(r, "exact") ELSE Deny(r, "user_denied")
          /\ prompts' = prompts \ {r}
          /\ bound' = bound \ BoundTo(r)
     ELSE UNCHANGED <<storeVars, prompts, bound>>
  /\ UNCHANGED <<worker, asks, tracked, tombstones, watched, forwards, aborted>>

\* Faulty variant: only background watchers have a deadline.
PassDeadlineWatched(r) ==
  /\ r \in watched
  /\ Pending(r)
  /\ Retire(r, "expired")
  /\ prompts' = prompts \ {r}
  /\ posted' = [posted EXCEPT ![r] = "none"]
  /\ bound' = bound \ BoundTo(r)
  /\ watched' = watched \ {r}
  /\ UNCHANGED <<worker, asks, tracked, tombstones, forwards, aborted>>

\* The monotonic deadline of a waiter or watcher, which no wall clock bounds.
PassDeadline(r) ==
  /\ r \in watched \/ \E c \in Calls : at[c] = "waits" /\ row[c] = r
  /\ Pending(r)
  /\ Retire(r, "expired")
  /\ prompts' = prompts \ {r}
  /\ posted' = [posted EXCEPT ![r] = "none"]
  /\ bound' = bound \ BoundTo(r)
  /\ watched' = watched \ {r}
  /\ UNCHANGED <<worker, asks, tracked, tombstones, forwards, aborted>>

\* A watcher ends when its row is decided.
WatcherEnds(r) ==
  /\ r \in watched /\ ~Pending(r)
  /\ watched' = watched \ {r}
  /\ UNCHANGED <<storeVars, worker, asks, tracked, tombstones, bound, prompts, posted, forwards, aborted>>

-----------------------------------------------------------------------------
(* Execution.                                                              *)

\* The call is written downstream, or the write fails and is recorded.
Forward(c) ==
  /\ Goto(c, "approved", "sent")
  /\ forwards' = forwards \cup {<<Root(row[c]), c>>}
  /\ UNCHANGED <<storeVars, row, created, asks, inMemory, aborted>>

\* record_execution_result and record_execution_error swallow a refused transition.
Record(c, status) ==
  /\ at[c] = "sent"
  /\ IF status \in AllowedTransitions(Status(c)) THEN RecordOutcome(row[c], status)
     ELSE UNCHANGED storeVars
  /\ IF status = "executed" /\ rows'[row[c]].status = "executed" /\ rows[row[c]].grantedBy # None
     THEN Goto(c, "sent", "links") /\ UNCHANGED tracked
     ELSE Answered(c, "sent")
  /\ UNCHANGED <<row, created, asks, tombstones, bound, prompts, posted, watched, forwards, aborted>>

LinkParent(c) ==
  LET parent == rows[row[c]].grantedBy IN
  /\ Answered(c, "links")
  /\ IF rows[parent].status = "approved" THEN AnnotateLinkedExecution(parent, "executed")
     ELSE UNCHANGED storeVars
  /\ UNCHANGED <<row, created, asks, tombstones, bound, prompts, posted, watched, forwards, aborted>>

\* The proxy dies with everything it kept in memory.
ProxyCrash ==
  /\ \E c \in Calls : at[c] \notin {"new", "done", "lost"}
  /\ at' = [c \in Calls |-> IF at[c] \in {"new", "done"} THEN at[c] ELSE "lost"]
  /\ tracked' = {} /\ tombstones' = {} /\ bound' = {}
  /\ prompts' = {} /\ watched' = {}
  /\ posted' = [r \in RequestIds |-> "none"]
  /\ UNCHANGED <<storeVars, row, created, asks, forwards, aborted>>

-----------------------------------------------------------------------------
FlowInit ==
  /\ StoreInit
  /\ at = [c \in Calls |-> "new"]
  /\ asks \in [Calls -> Requests]
  /\ row = [c \in Calls |-> None]
  /\ created = [c \in Calls |-> 0]
  /\ tracked = {} /\ tombstones = {} /\ bound = {}
  /\ prompts = {} /\ posted = [r \in RequestIds |-> "none"] /\ watched = {}
  /\ forwards = {} /\ aborted = {}

RequestStep(c) ==
  \/ BeginCancelled(c) \/ Begin(c) \/ FindNoGrant(c) \/ StoreFull(c)
  \/ \E id \in RequestIds : SpendGrant(c, id) \/ WriteRow(c, id)
  \/ Bind(c, "funded", "granted") \/ Bind(c, "written", "bound")
  \/ CancelBound(c) \/ Settled(c) \/ ApproveByGrant(c) \/ PassCheck(c) \/ Register(c) \/ Wake(c)

ExecuteStep(c) ==
  \/ Forward(c)
  \/ \E status \in Outcomes \cap {"executed", "blocked", "error"} : Record(c, status)
  \/ LinkParent(c)

ServerStep(r) == Persist(r) \/ PassDeadline(r) \/ WatcherEnds(r)

\* A worker reads the clock at most ClockLag before its row is written.
ClockStep ==
  /\ \A c \in Calls : at[c] \in {"begun", "unfunded"} => now - created[c] < ClockLag
  /\ Tick

FlowNext ==
  \/ \E c \in Calls : Enqueue(c) \/ Cancel(c) \/ TombstoneLapses(c) \/ RequestStep(c) \/ ExecuteStep(c)
  \/ \E r \in RequestIds : ServerStep(r) \/ \E v \in Verdicts \ {"none"} : Post(r, v)
  \/ ProxyCrash
  \/ (ClockStep \/ \E p \in Processes : RecoveryStep(p)) /\ UNCHANGED flowVars

FlowSpec == FlowInit /\ [][FlowNext]_<<storeVars, flowVars>>

\* Workers and watchers run, and every wait has a deadline; humans, clients,
\* crashes and the clock owe nothing.
FairFlowSpec ==
  /\ FlowSpec
  /\ \A c \in Calls : WF_<<storeVars, flowVars>>(RequestStep(c) \/ ExecuteStep(c))
  /\ \A r \in RequestIds : WF_<<storeVars, flowVars>>(ServerStep(r))

-----------------------------------------------------------------------------
\* Every variable of the flow stays in its range, and a worker past its insert
\* has a row.
FlowTypeOK ==
  /\ at \in [Calls -> Places] /\ asks \in [Calls -> Requests]
  /\ row \in [Calls -> RequestIds \cup {None}] /\ created \in [Calls -> Times]
  /\ tracked \cup tombstones \cup bound \cup aborted \subseteq Calls
  /\ prompts \cup watched \subseteq RequestIds /\ posted \in [RequestIds -> Verdicts]
  /\ forwards \subseteq RequestIds \X Calls
  /\ \A c \in Calls : at[c] \in Places \ {"new", "queued", "begun", "unfunded", "done", "lost"} => row[c] # None

\* A call the client cancelled before it was approved is never written downstream,
\* in whichever window of request_approval the notification lands, unless its
\* tombstone lapsed before the call's worker came to look for it.
CancelledNeverForwards == \A f \in forwards : f[2] \notin aborted

\* One human confirmation of an exact approval pays for one downstream mutation,
\* whichever calls, retries and proxies the confirmation meets.
OneForwardPerConfirmation == \A f, g \in forwards : f[1] = g[1] => f = g

\* Every call the dispatcher queued is answered unless the proxy dies.
QueuedCallsEnd == \A c \in Calls : at[c] = "queued" ~> at[c] \in {"done", "lost"}

\* The flow uses the store only through its operations.
ImplementsStore == StoreSpec
=============================================================================
