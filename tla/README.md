# Verification of the AgentVeil MCP proxy

TLA+ models of the parts of the AgentVeil repository that decide whether a tool
call of an agent may change anything: the MCP proxy's lanes and worker threads,
its approval flow with the evidence store behind it, the Approval Center, the
runtime gate and the route to the downstream MCP server. TLC checks the models on
small instances; TLAPS proves their type invariants, their safety properties and
their refinements for every instance. Paths below are relative to
`packages/agentveil-mcp-proxy/agentveil_mcp_proxy/`.

## 1. Inventory

A coding agent talks JSON-RPC over stdio to the proxy, the proxy to a downstream
MCP server it spawned. Calls that change something wait for a human, who decides
in a browser page served on the loopback interface. Every request, decision and
result is a row of an SQLite file that several processes share.

| Component | State | Operations | What is hard | What makes it correct |
|---|---|---|---|---|
| Evidence store, `evidence/store.py` | `pending_approvals`, `exact_grant_claims`, `redirect_lineage_claims`, hash chain | insert, consume a grant, transition, annotate, claim, recover, vacuum | several processes on one file; crashes between transactions; recovery that reads a list and works on it later | one status machine; one retry per confirmation; the chain verifies; claims survive their rows |
| Approval manager, `approval/manager.py` | client bindings, tombstones, tracked ids, generation bindings, finalize lock | request, cancel, approve, deny, expire, invalidate, record results | cancellations in every window of a request; decisions racing deadlines; retries | a cancelled call is not forwarded while its tombstone lasts; one forward per confirmation; every request ends |
| Approval server, `approval/server.py` | prompts, posted decisions | register, submit, unregister | a decision is in memory before it is in the store | no prompt is left behind by whoever closes its row |
| Passthrough: route, `passthrough.py` | process, reader thread, latched error, generation, reconnect and mutation locks | check readiness, reconnect, validate and write, retire | the downstream dies at any point; one thread reconnects while others decide, send and wait | an approved call goes to the generation it was approved on; cards of dead routes are closed; no thread waits for ever |
| Passthrough: dispatcher and workers | two bounded lanes, tracked calls, `_inflight_ids`, `_responses`, timed-out ids | enqueue, cancel, take, decide, write, wait, answer, shut down | full lanes, a lock held for a long time, late and duplicated answers, a client that goes away | every line ends while the client reads; an answer that is waited for is not dropped; nothing is left at exit |
| Redirect lineage, `redirect_playbooks.py` and the store | claims | claim an original | the original may be decided meanwhile | a redirected original never runs |
| Circuit breaker, `circuit_breaker.py` | state, failure window, successes | before_call, success, failure | late results of earlier calls, everyone passes a half-open circuit | it closes on successes of probes; the backend rests for the cool-down |
| Runtime gate, `runtime_gate.py` | replay cache | evaluate | a bounded cache; each step of an evaluation fails its own way | a receipt is accepted once; nothing goes on uncovered |
| Managed Approval Center, owner claims, `approval/server.py`, `approval/client.py` | claim files and their locks, prompts, noted decisions | publish, check, register, decide, retire, stop, restart | dead owners, reused process ids, probes that meet probes, retirements that overtake decisions | a live owner keeps its cards; a confirmed decision is recorded, and only an approval can be revoked |
| Policy, classification, headless policy, hooks, evidence readers, controlled alternatives, command line, installers, paid and console clients, Python SDK, MCP servers | little or none shared | pure functions, files, HTTP | | section 6 |

Components talk by calls (passthrough to manager to store), by callbacks (the
server's decision handler), by shared state (the store's file, the manager's
dictionaries, the passthrough's locks) and by messages (stdio). `PROJECT.json`
lists every component with its status, and every hazard at its line.

## 2. Modules

| Module | Role |
|---|---|
| `ApprovalStatus` | the status machine of a row, shared by the store and the route |
| `EvidenceStore` | the store, one action per transaction |
| `GrantLedger` | abstract specification: a decision opens a grant, a grant pays for one retry |
| `EvidenceStoreProofs` | theorems about the store |
| `DownstreamRoute` | the route of mutation calls with deaths and reconnects |
| `ApprovalFlow` | a mutation call from the client's line to its recorded result; EXTENDS `EvidenceStore` |
| `StdioLanes` | the client's lines on their way through dispatcher, lanes, workers and the routing of answers |
| `Session` | abstract specification: what the client of a session may rely on |
| `RuntimeGate` | the remote decision behind its circuit breaker, and the replay cache |
| `ApprovalCenter` | proxies, owner claims and the handler threads of the managed center |
| `CardLedger` | abstract specification: a card is decided once, by somebody who may |
| `MC...` | the instance of each for TLC |
| `EvidenceStoreProofs`, `ApprovalFlowProofs`, `DownstreamRouteProofs`, `StdioLanesProofs`, `RuntimeGateProofs`, `ApprovalCenterProofs` | theorems about each |
| `SumLemmas` | sums of a function over a finite set, used by `StdioLanesProofs` |

The modules meet where the components do. `ApprovalFlow` is the composition of
passthrough, manager, server and store; it extends `EvidenceStore`, whose abstract
specification is `GrantLedger`. `DownstreamRoute` refines what `ApprovalFlow`
calls `Forward`, with a row reduced to its status; `StdioLanes` refines what both
call the arrival and the answering of a call, with policy and approval reduced to
one decision; `ApprovalCenter` refines the server of `ApprovalFlow` for the mode
in which it is a process of its own. Lanes and center have abstract specifications
of their own, `Session` and `CardLedger`, which leave out how the code does it.

### EvidenceStore

One record per row keeps what the properties tell apart; the columns an exact
grant is compared on are one abstract `request`. Every method is one
`BEGIN IMMEDIATE` transaction, hence one action; a method that raises rolls back
and is no step. `recover_on_startup` is several transactions and several actions
per process (`ExpireOverdue`, `ListStale`, `InvalidateStale` for each row in the
order of the query, `RecoveryFails` when a listed row has moved, `Crash`).

| Code | Model |
|---|---|
| `write_pending`, `record_terminal_deny`, `record_allow_execution` | `WritePending`, `RecordTerminalDeny`, `RecordAllowExecution` |
| `consume_exact_grant_with_pending` | `ConsumeExactGrant` (oldest unspent grant, claim and child in one step) |
| `transition` as its callers use it | `Approve`, `Deny`, `RecordOutcome`, `Retire` |
| `annotate_*` | `AnnotateLinkedExecution`, `AnnotateMetadata`, `AnnotateDelivery` |
| `claim_redirect_lineage` | `ClaimRedirectLineage` |
| `vacuum_terminal_records` | `Vacuum` (claims stay) |
| `_compute_chain_link_for_insert_locked`, `_rebuild_chain_locked` | `LinkInserted`, `RebuildChain` |

A hash is the row it is computed from, so two rows have the same hash exactly
when they agree on the hashed columns; the genesis hash is the absent row.
`issued`, `offered` and `spent` are history variables: no action reads `offered`
or `spent`, and `issued` only says that a uuid4 is not drawn twice. A caller
reads its clock up to `ClockLag` before its insert, so rows arrive out of order.
The actions allow more than today's callers do, for instance a similar grant for
any row; the flow module narrows them down.

### DownstreamRoute

Threads are the workers of `Calls` and the stdout reader. `at[c]` is where a
worker is; a lock that is held over several steps is a variable
(`reconnecting` for `_reconnect_lock`, `finalizing` for `_finalize_lock`,
`Mutating` for `_mutation_execution_lock`), and a block under a lock that nobody
observes from outside is one step. The unlocked reads and writes that matter are
steps of their own: the check of the latched error, the binding of the
generation, the argument and the store of `note_downstream_generation`, the
check and the write of a call. `Die` and `CloseStdout` are the downstream's,
`Decide` is the human's or the client's cancellation.

Rows are closed in the store first and their prompts unregistered later. Whoever
does it under the finalize lock keeps that lock until then: `closing` is the set of
rows in between, `CloseCards` the end, and `FinalizeFree` says that nobody is in the
middle. A waiter at its deadline takes no lock (`Expire`, then `Unregister`), so it may
be overtaken, and in between a registered prompt may belong to a closed row.
`_invalidate_stale_generation_approvals_locked` and `invalidate_all_bound_approvals`
treat their calls one by one; here all rows of the list are closed in one step.
`_retire_pending_approvals_after_downstream_death` holds the reconnect lock until the
prompts are unregistered and here lets it go before, which allows more.

Simplifications: the join of the old reader succeeds within its two seconds; the
client has initialised, so a reconnect has parameters to replay; publishing a
generation does not raise; a call approved without a card stands for grants and
headless decisions; a waiter's deadline may fall at any time; the read-only lane,
`stop` and the rebuilding of tool schemas are left out.

### ApprovalFlow

On top of the store's variables: the place of each worker, its row, the clock
reading it took, and the manager's and server's memory. The windows of
`request_approval` are steps: begin (tombstone, deny lookup), consume or write,
bind, check, register under the finalize lock, wait. `Post` and `Persist` split a
human decision into the entry in `_decisions` and the transaction. A proxy crash
loses the memory and keeps the store; the calls not yet started stand for the
calls of the restarted proxy. The tombstone of a call that was cancelled before it had
a row is kept for `PREBIND_CANCELLATION_TTL_SECONDS` (300 s); `TombstoneLapses` may drop
it at any time, without the clock, which includes every time the code can. The call is
then no longer counted in `aborted`: it is prompted like any other and forwarded once it
is approved. With `WaitMode` false a call is answered at once
and the decision serves a retry; with `WaitMode` true the worker waits, unless no
browser could be opened.

Simplifications: similar_5m grants, headless decisions, the hang mode and the
route are left out; `_materialize_server_decisions` is the guard `Materialized`
of `Begin`, its writing is `Persist`; answering a call and clearing its tracking
are one step; the end of a row and of its prompt are one step, which `DownstreamRoute`
splits; stale prompts of decided rows are not pruned.

### StdioLanes

`run_stdio` is the dispatcher (`ReadLine`, `Put`, `Cancel`, `CloseInput`,
`Shutdown`); `place[c]` is where a call is on its way through
`handle_client_line`. A lane's queue is the set of calls that are `"queued"`, in
the order of the input. `_mutation_execution_lock` is `mutex`; the blocks under
the condition variable of the responses are one step each. The downstream takes
requests out of its stdin in any order (`Consume`) and answers some of them twice
(`Answer`); `Pruning` is `_prune_pending_responses_locked`. A mutation can be cancelled
from the moment its line was read, since it is tracked; a call of the read lane only
while it waits for a card, since only that binds it. Either may then end silently.

The client may go away at any time (`HangUp`). The next answer a worker writes then
raises, the write of the error in its `except` raises as well, and the thread ends
(`LoseWorker`): the call is `"unsent"`, the line counts as done, and the lane has a worker
less. On the dispatcher's thread the same exception ends `run_stdio` (`Abort`). With no
worker left the queued lines stay, and `Queue.join`, or the dispatcher in `put`, waits for
ever; the model does so too, and `EveryLineEnds` promises no more than it can: every line
a thread has taken ends, and the rest follows while the client reads its answers. The
sentinels that end the workers are put behind a join that has emptied the queues, which
hold more than there are workers, so they are left out.

Simplifications: policy and approval are one decision; a downstream that is lost
stays lost, since `DownstreamRoute` replaces it; oversized lines, requests without
an id or with the id of another one, and notifications of the server are left
out.

### RuntimeGate

Each operation of the breaker runs under its lock and is one step of the worker
that calls it; `evaluate` is several (`Call`, then an end, or `Stamp`, `Record` and
another end), so answers arrive in any order and long after the circuit has moved.
Times are ages in ticks that stop counting where the code stops looking (the
window, the cool-down, the cache's time to live), so that the state space is
finite without a bound on the clock. The replay cache maps each digest to the time
it has left. A thread reads the clock before it takes the lock of the cache (`Stamp`,
then `Record` or `Replayed`), so an entry may be recorded with an older expiry than
those it finds, and `Evict`, which removes the one that expires first, may remove it at
once; `lag` is the age of that reading, bounded by `MaxLag`. Entries of equal expiry
are evicted in any order. A request without a schema-valid wire action
(`RuntimeGateWireContractError`) ends blocked before the circuit is asked
(`BreakContract`); other failures to build a request, and an open circuit, may fall back
(`Refuse`). `heard`, `admitted`, `crowd`, `quiet` and
`probes` are histories that no action reads.

Simplifications: what is wrong with a request is a constant of it (`Defect`); signature and
schema checks are one outcome (`Distrust`); loading the identity and the control
grant, and draining events, are left out.

### ApprovalCenter

An owner claim is a file whose exclusive lock proves that the proxy is alive, and
others find out by trying to take it. A check therefore has its steps: pid and
claim content (`Identify`), the probe (`FindHeld`, or `ProbeLocks` and
`ProbeUnlocks`), the retirement (`RetireGone`). A POST is three such checks, the
note in `_decisions` and the transition with the memory that follows it. Exit is
two steps (`CloseLease`, `UnlinkClaim`); a crash releases the lock and leaves the
file; a pid is freed or reused at any time after. Hooks probe the same locks. The
proxy's threads are daemons and go on between the release of its claim and its end
(`Runs`).

A retirement is not atomic with the check before it. `_retire_if_not_actionable`
writes `invalidated` over whatever the row has become since it was read as pending,
and the store refuses that for every status but pending and approved (`Revocable`), so
a decision that came in between is overwritten when it was an approval and stands when
it was a denial. The proxy's own `invalidate_approval` has the same gap (`BeginInvalidate`,
`Invalidate`): it holds the proxy's finalize lock, which the center does not take. Only
the center's decision handler reads the row again under the lock its own decisions take.
`Recover` is `recover_on_startup` of any process: it expires rows and invalidates
approvals whoever asked for them. The shipped commands of this commit do not call it; it
belongs to the store's interface, and its tests do.

The reads of the decision handler, of the row and of the claim, are outside its `try`,
and `submit_decision` has no `finally`: when one raises (`ReadFails`) the note stays in
`_decisions`, and the card takes no further decision from this center. `jammed` records
that; `NotesAreInFlight` says that nothing else leaves a note.

Simplifications: reading the pid and the claim is one step; the evidence check of
`submit_decision` and its lock are one step; cards expire at any time; a proxy
process is one instance token; a row that is approved stands also for what
follows, which is `EvidenceStore`'s, so an invalidation of such a row may be refused; a
claim file that cannot be opened counts as no failure of its own. Windows locking, the center's own manifest
and the commands that start and stop it are left out.

What the model reaches besides, and what nothing in the repository promises to
exclude: a probe of a hook that holds the lock of a claim just created makes the
proxy fail to start (`LeaseRefused`); a center that is down when a card is
registered leaves a row that nobody waits for (`LeaveUnregistered`), and a center
that restarts has lost its prompts, which nobody registers again.
`owner_claim_lease_is_held` takes any holder of the lock for the owner, so two
probes that meet take each other for it. `NoFalseLife` states exactly that
guarantee: only a request whose probe met another probe gets past the check of a
proxy that has gone.

## 3. What the runs check

| Run | Instance | Shows |
|---|---|---|
| `store_grants` | 3 ids, capacity 2, clock 0..1, one recovering process | `SingleUse`, `ChainIntact`, `TerminalFinal`, `ClaimsDurable`, and that the store implements `GrantLedger` |
| `store_marks` | 2 ids, capacity 1, every outcome, delivery and metadata, old clock readings | `RedirectedNeverRuns`, `DeliveryMonotone`, `ClaimsDurable` |
| `store_stale` | 2 recovering processes | finding: recovery invalidates an executed approval |
| `flow_retry` | 3 identical calls, 3 rows, answered at once, tombstones that lapse, symmetry | `CancelledNeverForwards`, `OneForwardPerConfirmation` |
| `flow_wait` | 2 identical calls that wait, a store that is full after one row, a recovering process | `CancelledNeverForwards`, `QueuedCallsEnd`, and that the flow implements `StoreSpec` |
| `flow_twice` | 2 identical calls that wait, 2 rows | finding: one confirmation, two forwards in wait mode |
| `route_safety` | 2 calls, 2 downstream processes | `SentOnBoundGeneration`, `WrittenWasApproved`, `ReadyMeansVetted`, `PromptsAreLive`, `RowsFollowMachine`, `EveryCallAnswered` |
| `route_orphan` | as `route_safety` | finding: a card whose route died is forwarded |
| `stdio` | five sessions of 2 or 3 calls, queue, pipe and pending answers of 1, one or two mutation workers, a client that may go | `AnsweredBeforeExit`, `FiledAnswersStay`, `LeftoversBounded`, `EveryLineEnds`, and that the lanes implement `Session` |
| `stdio_order` | two mutations, or two reads | finding: writes overtake each other |
| `gate` | 2 workers, 4 requests (two of them cannot be put on the wire), 2 receipts, thresholds and times of 2, a cache of 1, clock readings up to 1 tick old | `ForwardsAreCovered`, `BackendRests`, `ClosesOnProbes`, `NoEarlyReplay`, `Recovers` |
| `center` | 1 proxy, 1 card, 2 handler threads (symmetric), 1 hook | `LiveOwnersKeepTheirCards`, `NoFalseLife`, `NotesAreInFlight`, `ConfirmedMeansRecorded`, and that the center implements `CardLedger` |

Each passing run of a component also checks its type invariant, except that the
store's is checked by `store_grants` and the flow's by `flow_retry`.

### Bounds

- Three ids make the shortest chain with a middle row and a grant, a retry and a
  bystander that wants the same grant. Capacity below the number of ids makes
  the store fill up and vacuum free a place that a fresh id takes.
- Clock 0..1 with a time-out of 1 lets every deadline pass; `store_marks` and
  `store_stale` go to 2, so that rows are created, decided and overdue at
  different times. `ClockLag` 1 gives inserts older than the last row.
- Two downstream processes are one reconnect, the least with two generations. Two
  workers fill the roles of the hazards: one reconnects or decides while the other
  sends or waits. A worker arriving after the second death sees a spawn that
  fails, as when the command has gone. Safety for more workers and processes is
  proved.
- All calls of the flow ask for the same thing: different requests do not meet in
  the store but for the capacity and the chain, which `store_grants` covers.
- `MaxRecords` 1 in `flow_wait` makes the second call meet a full store. A retry
  that spends a grant needs a second row: `flow_retry` has it where calls are
  answered at once, `flow_twice` where they wait. With 2 rows `flow_wait` passes as
  well, but then the store is never full.
- Queue, pipe and pending answers of 1 are full as soon as two calls of a lane
  are on their way; the sessions are the shortest that fill each of them, hold the
  mutation lock against a second mutation, and keep the dispatcher busy. Three calls
  fill a lane that has one worker, so that the dispatcher blocks in `put`; the
  sessions of the mutation lane with three calls have one worker for that reason,
  the others have two.
- Thresholds of 2 are the least that tell a count from a flag. With a cache of 1
  every second receipt evicts one. A `MaxLag` of 1 is enough for an entry that expires
  before one that was recorded earlier; the theorems take any bound.
- One card, two threads and a hook give every pair of probes on one claim.
  Owners of different cards meet in nothing but the center's threads; the theorems
  cover any number of all of them. Two threads are also a decision and the retirement
  that overtakes it.

`CHECK_DEADLOCK FALSE` stands only in `store_marks`, whose single clock end and
full store may leave no operation, and in the two stdio runs, whose sessions end.
In the route a stuttering step is allowed only when every call is answered, so a
deadlock of threads would be reported; in the flow, the gate and the center some
step is always possible.

### Fairness

Weak fairness for threads, never for humans, clients, crashes, deaths, or the
downstream's answers:

- `FairRouteSpec` and `FairFlowSpec`: each worker, the reader, whoever has closed a
  row and goes on to its prompt (`CloseCards`), and for each row its handler, waiter or
  watcher. Threads of a running process are scheduled, a
  blocking lock is held for bounded times, and waits have deadlines
  (`response_timeout_seconds`, `approval_timeout_seconds`).
- `StallingSpec` of `StdioLanes`: each call's thread, and the joins at shutdown.
  `FairStdioSpec` adds that the downstream goes on reading its stdin: the write to
  it has no deadline (`passthrough.py:5317`), so without it a mutation may hold
  the lock for ever. `EveryLineEnds` needs this assumption; a downstream that reads
  and never answers is included, since such a wait times out. Its second half is
  stated for clients that read their answers to the end (`[]~gone`).
- `FairGateSpec`: the clock runs, HTTP calls end by their timeout, and every
  worker goes on calling tools. `Recovers` is conditional on a backend that stops
  failing.
- `CenterSpec` states no fairness, and no liveness is claimed of the center.

## 4. What is proved

For every value of the constants that satisfies the module's assumption. These
are `StoreAssumption` (ids are naturals and finitely many, so that the order of
the chain is total and has a last element; times are naturals; outcomes and
deliveries are the code's), `FlowAssumption`, `StdioAssumption`, `GateAssumption`,
`CenterAssumption` and `RouteAssumption` (at least one process); each run evaluates
those of its module.

| Module | Theorem | Property |
|---|---|---|
| `EvidenceStoreProofs` | `StoreTyping` | `StoreTypeOK` |
| | `GrantSafety` | `SingleUse` |
| | `RedirectSafety` | `RedirectedNeverRuns` |
| | `ChainSafety` | `ChainIntact` |
| | `TerminalVerdicts` | `TerminalFinal` |
| | `DurableClaims` | `ClaimsDurable` |
| | `DeliveryOrder` | `DeliveryMonotone` |
| | `StoreImplementsLedger` | `ImplementsLedger` |
| `ApprovalFlowProofs` | `FlowImplementsStore` | `ImplementsStore` |
| | `FlowTyping` | `FlowTypeOK` |
| | `CancellationSafety` | `CancelledNeverForwards` |
| | `ConfirmationSafety` | `OneForwardPerConfirmation`, where calls do not wait |
| | `ConfirmationBound` | `CallAndRetryOnly`, in both modes |
| | `FlowKeepsTheStore` | `ImplementsLedger`, `TerminalFinal`, `ClaimsDurable`, `SingleUse`, `RedirectedNeverRuns`, `ChainIntact` |
| `DownstreamRouteProofs` | `RouteTyping` | `RouteTypeOK` |
| | `GenerationSafety` | `SentOnBoundGeneration` |
| | `ApprovalSafety` | `WrittenWasApproved` |
| | `HandshakeSafety` | `ReadyMeansVetted` |
| | `PromptSafety` | `PromptsAreLive` |
| | `RowMachine` | `RowsFollowMachine` |
| `StdioLanesProofs` | `StdioTyping` | `StdioTypeOK` |
| | `ShutdownSafety` | `AnsweredBeforeExit` |
| | `AnswerSafety` | `FiledAnswersStay` |
| | `LeftoverSafety` | `LeftoversBounded` |
| | `SerialLane` | `WritesKeepArrivalOrder`, with one mutation worker |
| | `LanesImplementSession` | `ImplementsSession` |
| `RuntimeGateProofs` | `GateTyping` | `GateTypeOK` |
| | `ForwardSafety` | `ForwardsAreCovered` |
| | `RestAfterFailure` | `BackendRests` |
| | `ClosedByProbes` | `ClosesOnProbes` |
| | `ReplaySafety` | `NoEarlyReplay` |
| `ApprovalCenterProofs` | `CenterTyping` | `CenterTypeOK` |
| | `OwnersAreSafe` | `LiveOwnersKeepTheirCards` |
| | `ChecksSeeTheGone` | `NoFalseLife` |
| | `NoNoteIsLeft` | `NotesAreInFlight` |
| | `ConfirmationIsTrue` | `ConfirmedMeansRecorded` |
| | `CenterImplementsCardLedger` | `ImplementsCardLedger` |

### The store

The argument has two stages. `Shapes` shows that each of the store's actions has
one of five shapes: it inserts one fresh row (and at most claims an unspent grant
for it), updates one row along the status machine or keeps its status, expires
overdue rows, deletes terminal rows, or claims a lineage. The invariant

    StoreInv == StoreTypeOK /\ IssuedInv /\ LedgerInv /\ RedirectInv

is then preserved by each shape. The properties alone are not inductive:
`SingleUse` speaks of `spent`, and only `LedgerInv` says that `spent` is what
`grantClaims` records, that every exact root that is approved was offered once,
and that claims name issued ids; a vacuum makes this necessary, because after it
the claim is all that is left. `IssuedInv` says that live rows belong to
issued ids, and the other two that claims do, so a fresh id meets no old claim. `ChainSafety` rests on
`AppendedLink`: appending a link equals rebuilding when the new row sorts last.
`StoreImplementsLedger` maps `open` to `OpenGrants`, and `LedgerSimulation` shows
each shape to be an `Offer`, a `Spend`, a `Withdraw` or a stutter.

### The flow

`FlowImplementsStore` goes through the actions once: each is a step of the store
(with the ids, readings and outcomes it chose) or leaves the store's variables
alone. With it every theorem about the store holds in the flow, and `StoreInv`
may be used in every step. Cancellation needs `CancelInv`: a call that counts as
aborted has no row that can still be approved, because the row is terminal or the
call's tombstone is still there to be consumed (one that lapses takes its call out of
the history, so the theorem is about the cancellations that last); typing strengthens it by
`WorkerInv` (which row a worker at each place has) and `MemoryTypes`.
`ConfirmationSafety` rests on `PaidInv`: where nobody waits, a worker that goes on
to forward has a row granted by a parent, the pair is in `spent`, and so each
forward is the one retry that `SingleUse` allows. With waiting calls the theorem is
false (`flow_twice`), hence its assumption `~WaitMode`. `ConfirmationBound` says how far it fails: in both modes a
confirmation is charged for the confirmed call and for one retry, never for a
third forward. Its invariant `ChargeInv` says that every forward is charged to the
worker's own row or to a grant that is in `spent` for that row; two forwards of the
second kind on one grant contradict `SingleUse`, two of the first are one call.
`FlowKeepsTheStore` draws the conclusions of `FlowImplementsStore`.

### The route

`RouteInv` is the type invariant with `LockHeld` (who holds which lock at which
place, the discipline of `_reconnect_lock` and `_finalize_lock`), `RowsMatch` (what
a worker's place says of its row), `SentOK` and `VettedOK`. Without the lock
discipline `SentOnBoundGeneration` is not inductive: a worker between the check
and the write is safe only because no other thread is in a reconnect.

### Lanes, gate and center

`StdioInv` adds to the types `LocksOK` (who is in flight, who holds the mutation
lock, that only cancelled calls end silently and only a client that has gone leaves an
answer unsent), `AnswersOK` (a handled answer belongs to a call in flight, so that `Pruning`
keeps it), `LanesOK` (past its join a lane is empty) and `WorkersOK` (the busy and the dead threads of a lane
are no more than it was given).

`LeftoverSafety` is about a sum over a fold, for which the library has no induction
that the provers can use. `SumLemmas` gets it from well-founded minimality: the
subsets of a finite set for which an equation fails have a minimal one, and that
one does not fail. It shows that the fold over a set of naturals takes its elements
in any order; from there each step changes the sum by the summand of one call, and
`Pruning` brings it back under the bound (`PruningBounds`).

`SerialLane` is the counterpart of the finding `stdio_order`. `QueueOrder` says that
of two mutations the later one is taken only when the earlier one has ended, which
is what a single worker makes of the queue, and `WrittenOK` that every mutation in
`written` is past its write; so each write is appended behind the earlier ones. The
lock gives no order.

`LanesImplementSession` maps a call to "unread", "open", or how it ended, the
mutation lock to `running` and `written` to `log`. Tool calls of both lanes may be
cancelled, and a session with a client that has gone may end calls unsent. Lanes, queues, the pipe, time-outs
and the routing of answers are stutters of `Session`. The steps need `LocksOK`, that
only one mutation runs, and `WrittenOK`, that none is written twice.

The gate has two invariants. `GateInv` is the types with `BreakerInv`, which relates the
counters of the circuit to the histories `quiet` and `probes`, `ForwardsAreCovered`, and
`SoundRequests`: only requests without a defect are on their way. `CacheInv` says that an
entry that is still good has the time left that its stamp gave it (`AsStamped`), that
every entry which expires no earlier than another is in the crowd of that one
(`InTheCrowd`), and that a receipt that was admitted and has not run out is in the cache
or has a full crowd (`Kept`). Insertion order plays no part: a thread with an old reading may be the one
whose entry goes, and then everything left in the cache expires no earlier.

`CenterInv` consists of the types, `LeaseInv` (a proxy holds its own lock exactly while
it serves, with its claim written and its pid found), `CardInv` (a card has a proxy that
had begun to serve), `RequestInv` (a request judges an owner dead only if its claim was
released) and three of the four properties. Two invariants stand on it. `NotesInv`, for
`NotesAreInFlight`, says that a note has exactly one writer or was left by a read that
failed, and never both: a request that writes has put its own note, so whoever takes a
note back takes back its own. `RetiringInv` says that a row about to be invalidated has a proxy that
still runs.

`ConfirmedMeansRecorded` is inductive because every step that overwrites a verdict
overwrites an approval with an invalidation; nothing else in it depends on what the row
was when it was read.

`CenterImplementsCardLedger` maps a proxy to "new", "live", "leaving" (its claim is
released and its threads still run) or "gone", whatever its claim file, lock and pid
look like meanwhile. A retirement is a step of the ledger because of `RequestInv`: the
check was made some steps earlier, and an owner that was found dead then has released
its claim. An invalidation needs `RetiringInv` in the same way. Both are a `Revoke` when
the row was approved in between, and that is why the ledger has this step.

Only model-checked: liveness (`EveryCallAnswered`, `QueuedCallsEnd`,
`EveryLineEnds`, `Recovers`), since the prover has no fairness, and what the
findings show.

## 5. Findings

1. `expire_stale_approvals` can invalidate an approval that was executed after the
   list of stale rows was read (`store_stale`).
2. After a failed reconnect an approved call can be written to an uninitialised
   replacement process although its route was seen dead (`route_orphan`).
3. In wait mode one confirmation can pay for two identical calls (`flow_twice`);
   with immediate answers it cannot (`flow_retry`, `ConfirmationSafety`).
4. The mutation lane has two workers, and of two writes the later can reach the
   downstream first (`stdio_order`), though a comment promises arrival order.

`PROJECT.json` quotes the text each one contradicts.

## 6. Not modelled

| Part | Why |
|---|---|
| The center's manifest, discovery, start and stop commands | process management through files and HTTP; the model takes a center that stops and starts at any time |
| Redirect precheck and follow-up | the claim transaction repeats the precheck's conditions and is modelled; what follows is an ordinary call |
| similar_5m grants and headless decisions in the flow, the hang mode | a similar grant is read once and approves like an exact one without being claimed, so it promises nothing but its age; headless decisions have no prompt and no waiter; a call that hangs has no end to state |
| Runtime ALLOW rows in the flow | their insert and outcome are actions of the store; the flow around them is straight-line code |
| Controlled alternatives, installers, launchers, `paid_install.py` | file operations; their failures are those of the file system. The staged publication and rollback of an installed package is the part that would be worth a model of its own |
| Client hooks, policy, classification, headless policy | one stateless decision each, best covered by tables of unit tests; the models take their verdicts as inputs |
| Evidence readers | projections of the store |
| Console and paid clients, Python SDK, MCP servers, Paperclip adapter | HTTP clients, signing and adapters over services that are not in the repository |

Most of the repository is of the last four kinds: command-line, HTTP and file
code. The models cover the concurrent core, which is a small part of its lines.
