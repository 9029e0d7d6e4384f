--------------------------- MODULE EvidenceStore ---------------------------
(***************************************************************************)
(* The SQLite approval evidence store (evidence/store.py).  Every process  *)
(* that opens the file - the stdio proxies, the Approval Center, the CLI - *)
(* runs its operations as BEGIN IMMEDIATE transactions, so an operation is *)
(* one action here; recover_on_startup is several transactions and is      *)
(* several actions.  An operation that raises changes nothing and is not a *)
(* step.                                                                   *)
(***************************************************************************)
EXTENDS Integers, FiniteSets, ApprovalStatus

CONSTANTS
  RequestIds,    \* uuid4 request ids; the chain orders rows by (created_at, id)
  Requests,      \* identities of tool calls, the tuple an exact grant is bound to
  Processes,     \* processes that run recover_on_startup on this file
  Metadata,      \* controlled-path metadata of a row: "none", "target_reached"
                 \* or the redirect playbook of an original
  Deliveries,    \* the delivery statuses callers report
  Outcomes,      \* the terminal statuses callers ask for
  Timeout,       \* approval_timeout_seconds
  SimilarTtl,    \* life of a similar_5m grant
  StaleGrace,    \* stale_approval_grace_seconds
  RedirectAge,   \* max_age_seconds of a redirect lineage claim
  MaxRecords,    \* max_records of the store
  ClockLag,      \* how old a caller's clock reading may be when its insert runs
  MaxTime        \* bound of the model's clock

ASSUME StoreAssumption ==
  /\ RequestIds \subseteq Nat
  /\ IsFiniteSet(RequestIds)
  /\ Timeout \in Nat \ {0}
  /\ {SimilarTtl, StaleGrace, RedirectAge, MaxRecords, ClockLag, MaxTime} \subseteq Nat
  /\ Deliveries \subseteq {"queued", "not_delivered", "delivered", "visible"}
  /\ Outcomes \subseteq {"denied", "expired", "invalidated", "executed", "blocked", "error", "cancelled"}
  /\ "none" \in Metadata

None == -1       \* SQL NULL in an integer or id column

VARIABLES
  rows,            \* pending_approvals, one row per request id
  prev,            \* column prev_event_hash: the hashed predecessor of each row
  grantClaims,     \* exact_grant_claims: grant id -> child id
  redirectClaims,  \* redirect_lineage_claims: original id -> playbook claimed
  recovery,        \* progress of recover_on_startup in each process
  now,             \* wall clock, in seconds
  issued,          \* history: ids ever inserted (uuid4 never repeats)
  offered,         \* history: ids a decision ever made an exact grant
  spent            \* history: pairs <<grant, child>> ever consumed

tables    == <<rows, prev, grantClaims, redirectClaims>>
histories == <<issued, offered, spent>>
storeVars == <<tables, recovery, now, histories>>

-----------------------------------------------------------------------------
(* Rows.                                                                   *)

Times    == 0 .. MaxTime
Results  == {"none", "executed", "blocked", "error"}
Errors   == {"none", "user_denied", "auto_denied", "approval_expired", "approval_stale",
             "client_cancelled", "retired", "failed"}
Playbooks == Metadata \ {"none", "target_reached"}

Row == [status     : Statuses \cup {"absent"},
        request    : Requests \cup {None},
        created    : Times,
        expires    : Nat \cup {None},
        decided    : Times \cup {None},
        scope      : {"none", "exact", "similar_5m"},
        scopeUntil : Nat \cup {None},
        grantedBy  : RequestIds \cup {None},
        result     : Results,
        error      : Errors,
        delivery   : {"none", "queued", "not_delivered", "delivered", "visible"},
        metadata   : Metadata]

PendingRow(q, created, expires, grantedBy, delivery, metadata) ==
  [status |-> "pending", request |-> q, created |-> created, expires |-> expires,
   decided |-> None, scope |-> "none", scopeUntil |-> None, grantedBy |-> grantedBy,
   result |-> "none", error |-> "none", delivery |-> delivery, metadata |-> metadata]

NoRow == [PendingRow(None, 0, None, None, "none", "none") EXCEPT !.status = "absent"]

Live(rs) == {id \in RequestIds : rs[id].status # "absent"}

-----------------------------------------------------------------------------
(* The hash chain.  A hash stands for the row it is computed from, and the *)
(* genesis hash for the absent row; record_hash leaves prev_event_hash     *)
(* itself out.                                                             *)

\* ORDER BY created_at, request_id, on pairs <<created_at, request_id>>
Precedes(k, l) == k[1] < l[1] \/ (k[1] = l[1] /\ k[2] < l[2])
\* Faulty variant: ORDER BY request_id, created_at.
SortKeyByIdFirst(rs, id) == <<id, rs[id].created>>
SortKey(rs, id) == <<rs[id].created, id>>
Before(rs, a, b) == Precedes(SortKey(rs, a), SortKey(rs, b))

HashOfLast(rs, ids) ==
  IF ids = {} THEN NoRow
  ELSE rs[CHOOSE a \in ids : \A b \in ids \ {a} : Before(rs, b, a)]

\* _rebuild_chain_locked over the rows rs
ChainOf(rs) ==
  [id \in RequestIds |->
     IF id \in Live(rs) THEN HashOfLast(rs, {a \in Live(rs) : Before(rs, a, id)}) ELSE NoRow]

RebuildChain == prev' = ChainOf(rows')

\* Faulty variant: always appends.
LinkAppended(id) == prev' = [prev EXCEPT ![id] = HashOfLast(rows, Live(rows))]

\* The insert appends a link when the new row sorts last, and rebuilds otherwise.
LinkInserted(id) ==
  IF \A a \in Live(rows) : Before(rows', a, id)
  THEN prev' = [prev EXCEPT ![id] = HashOfLast(rows, Live(rows))]
  ELSE RebuildChain

\* An update of one row inside a transaction that rebuilds the chain.
Update(id, row) ==
  /\ rows' = [rows EXCEPT ![id] = row]
  /\ RebuildChain

CanInsert(id) ==
  /\ Cardinality(Live(rows)) < MaxRecords
  /\ id \notin issued

Insert(id, row) ==
  /\ CanInsert(id)
  /\ rows' = [rows EXCEPT ![id] = row]
  /\ LinkInserted(id)
  /\ issued' = issued \cup {id}

-----------------------------------------------------------------------------
(* Inserts.                                                                *)

\* The instants a caller may have read as "now" before its insert ran.
CallerTimes == {t \in Times : t <= now /\ now - t <= ClockLag}

Deadlines(created) == {None, created + Timeout}

\* granted is the similar_5m grant a caller found before, or None.
WritePending(id, q, created, expires, granted, metadata) ==
  /\ granted # None => rows[granted].scope = "similar_5m"
  /\ Insert(id, PendingRow(q, created, expires, granted, "queued", metadata))
  /\ UNCHANGED <<grantClaims, redirectClaims, recovery, now, offered, spent>>

\* Inserts a pending row and closes it in the same transaction.
InsertClosed(id, q, created, status, error, metadata) ==
  /\ Insert(id, [PendingRow(q, created, None, None, "none", metadata) EXCEPT
                   !.status = status, !.result = status, !.error = error])
  /\ UNCHANGED <<grantClaims, redirectClaims, recovery, now, offered, spent>>

\* A call refused before the approval flow, and one allowed without it.
RecordTerminalDeny(id, q, created, metadata) ==
  InsertClosed(id, q, created, "blocked", "failed", metadata)

RecordAllowExecution(id, q, created, metadata) ==
  InsertClosed(id, q, created, "executed", "none", metadata)

\* Faulty variant: a retry's own scope_cache_hit approval counts as a grant.
UnspentRootOrRetry(g) ==
  /\ rows[g].status = "approved"
  /\ rows[g].scope = "exact"
  /\ \A c \in Live(rows) : rows[c].grantedBy # g
  /\ grantClaims[g] = None

\* Faulty variant: the look-up before exact_grant_claims, without the claim.
UnspentUnclaimed(g) ==
  /\ rows[g].status = "approved"
  /\ rows[g].scope = "exact"
  /\ rows[g].grantedBy = None

\* An approved exact root whose deadline is open and that nobody has used.
Unspent(g) ==
  /\ rows[g].status = "approved"
  /\ rows[g].scope = "exact"
  /\ rows[g].grantedBy = None
  /\ \A c \in Live(rows) : rows[c].grantedBy # g
  /\ grantClaims[g] = None

ActiveExactGrants(q, t) ==
  {g \in RequestIds : Unspent(g) /\ rows[g].request = q
                     /\ (rows[g].expires = None \/ rows[g].expires > t)}

ConsumeExactGrant(id, q, created, expires) ==
  \E g \in ActiveExactGrants(q, created) :
    /\ \A other \in ActiveExactGrants(q, created) \ {g} : Before(rows, g, other)
    /\ Insert(id, PendingRow(q, created, expires, g, "queued", "none"))
    /\ grantClaims' = [grantClaims EXCEPT ![g] = id]
    /\ spent' = spent \cup {<<g, id>>}
    /\ UNCHANGED <<redirectClaims, recovery, now, offered>>

-----------------------------------------------------------------------------
(* Transitions and annotations of one row.                                 *)

Transition(id, status, row) ==
  /\ status \in AllowedTransitions(rows[id].status)
  /\ Update(id, [row EXCEPT !.status = status])
  /\ UNCHANGED <<grantClaims, redirectClaims, recovery, now, issued, spent>>

Approve(id, scope) ==
  /\ Transition(id, "approved",
       [rows[id] EXCEPT !.decided = now,
                        !.scope = scope,
                        !.scopeUntil = IF scope = "similar_5m" THEN now + SimilarTtl ELSE None])
  /\ offered' = IF scope = "exact" /\ rows[id].grantedBy = None
                THEN offered \cup {id} ELSE offered

Deny(id, error) ==
  /\ Transition(id, "denied",
       [rows[id] EXCEPT !.decided = now, !.scope = "exact", !.error = error])
  /\ UNCHANGED offered

\* An execution outcome, or an execution error, of the row's own call.
RecordOutcome(id, status) ==
  /\ Transition(id, status,
       [rows[id] EXCEPT !.result = status,
                        !.error  = IF status = "executed" THEN @ ELSE "failed"])
  /\ UNCHANGED offered

\* Cancelled by the client, timed out, or retired by a reconnect, a dead
\* downstream or a dead owner.
RetireError(status) ==
  CASE status = "cancelled" -> "client_cancelled"
    [] status = "expired"   -> "approval_expired"
    [] OTHER                -> "retired"

Retire(id, status) ==
  /\ Transition(id, status, [rows[id] EXCEPT !.error = RetireError(status)])
  /\ UNCHANGED offered

Annotate(id, row) ==
  /\ id \in Live(rows)
  /\ Update(id, row)
  /\ UNCHANGED <<grantClaims, redirectClaims, recovery, now, histories>>

\* The child's outcome mirrored on an approved parent.
AnnotateLinkedExecution(parent, result) ==
  /\ rows[parent].status = "approved"
  /\ Annotate(parent, [rows[parent] EXCEPT !.result = result])

AnnotateMetadata(id, metadata) ==
  Annotate(id, [rows[id] EXCEPT !.metadata = metadata])

\* Faulty variant: the last reporter wins.
DeliveryUnordered(from, to) == from # to

DeliveryAllowed(from, to) ==
  CASE from = "queued"        -> to \in {"not_delivered", "delivered", "visible"}
    [] from = "not_delivered" -> to \in {"delivered", "visible"}
    [] from = "delivered"     -> to = "visible"
    [] from = "visible"       -> FALSE
    [] OTHER                  -> TRUE

AnnotateDelivery(id, delivery) ==
  /\ DeliveryAllowed(rows[id].delivery, delivery)
  /\ Annotate(id, [rows[id] EXCEPT !.delivery = delivery])

-----------------------------------------------------------------------------
(* Redirect lineage.                                                       *)

\* Faulty variant: any playbook may claim a pending original.
RedirectPendingAllowed(status, playbook) == status \in {"blocked", "denied", "pending"}

RedirectStatusAllowed(status, playbook) ==
  \/ status \in {"blocked", "denied"}
  \/ status = "pending" /\ playbook = "request_approval"

RedirectFresh(row, t) ==
  IF row.expires # None THEN t < row.expires ELSE t <= row.created + RedirectAge

ClaimRedirectLineage(original, playbook) ==
  LET row == rows[original] IN
  /\ original \in Live(rows)
  /\ redirectClaims[original] = "none"
  /\ playbook \in Playbooks /\ row.metadata = playbook
  /\ RedirectStatusAllowed(row.status, playbook)
  /\ RedirectFresh(row, now)
  /\ redirectClaims' = [redirectClaims EXCEPT ![original] = playbook]
  /\ UNCHANGED <<rows, prev, grantClaims, recovery, now, histories>>
-----------------------------------------------------------------------------
(* Start-up recovery, retention and the clock.                             *)

Idle == [at |-> "idle", asOf |-> 0, listed |-> {}]

\* Faulty variant: the status filter is missing.
OverdueInAnyStatus == {id \in Live(rows) : rows[id].expires # None /\ rows[id].expires <= now}

Overdue == {id \in Live(rows) : /\ rows[id].status = "pending"
                                /\ rows[id].expires # None
                                /\ rows[id].expires <= now}

ExpireOverdue(p) ==
  /\ recovery[p].at = "idle"
  /\ rows' = [id \in RequestIds |->
                 IF id \in Overdue
                 THEN [rows[id] EXCEPT !.status = "expired", !.error = "approval_expired"]
                 ELSE rows[id]]
  /\ IF Overdue = {} THEN UNCHANGED prev ELSE RebuildChain
  /\ recovery' = [recovery EXCEPT ![p] = [at |-> "expired", asOf |-> now, listed |-> {}]]
  /\ UNCHANGED <<grantClaims, redirectClaims, now, histories>>

\* t is the clock reading the whole recovery uses.
StaleApprovals(t) == {id \in Live(rows) : /\ rows[id].status = "approved"
                                          /\ rows[id].decided # None
                                          /\ rows[id].decided <= t - StaleGrace
                                          /\ rows[id].result # "executed"}

\* expire_stale_approvals reads the list first ...
ListStale(p) ==
  LET stale == StaleApprovals(recovery[p].asOf) IN
  /\ recovery[p].at = "expired"
  /\ recovery' = [recovery EXCEPT ![p] =
                    IF stale = {} THEN Idle
                    ELSE [@ EXCEPT !.at = "listed", !.listed = {SortKey(rows, id) : id \in stale}]]
  /\ UNCHANGED <<tables, now, histories>>

NextStale(p, key) ==
  /\ recovery[p].at = "listed"
  /\ key \in recovery[p].listed
  /\ \A other \in recovery[p].listed \ {key} : Precedes(key, other)

\* ... and then transitions the listed rows one transaction at a time.
InvalidateStale(p, key) ==
  LET id == key[2] IN
  /\ NextStale(p, key)
  /\ "invalidated" \in AllowedTransitions(rows[id].status)
  /\ Update(id, [rows[id] EXCEPT !.status = "invalidated", !.error = "approval_stale"])
  /\ recovery' = [recovery EXCEPT ![p] =
                    IF recovery[p].listed = {key} THEN Idle
                    ELSE [recovery[p] EXCEPT !.listed = recovery[p].listed \ {key}]]
  /\ UNCHANGED <<grantClaims, redirectClaims, now, histories>>

\* A listed row moved meanwhile: transition raises and recovery stops there.
RecoveryFails(p, key) ==
  /\ NextStale(p, key)
  /\ "invalidated" \notin AllowedTransitions(rows[key[2]].status)
  /\ recovery' = [recovery EXCEPT ![p] = Idle]
  /\ UNCHANGED <<tables, now, histories>>

Crash(p) ==
  /\ recovery[p].at # "idle"
  /\ recovery' = [recovery EXCEPT ![p] = Idle]
  /\ UNCHANGED <<tables, now, histories>>

\* Faulty variant: the claims of deleted rows are deleted with them.
VacuumWithClaims(before) ==
  LET old == {id \in Live(rows) : rows[id].status \in Terminal /\ rows[id].created < before} IN
  /\ old # {}
  /\ rows' = [id \in RequestIds |-> IF id \in old THEN NoRow ELSE rows[id]]
  /\ RebuildChain
  /\ grantClaims' = [g \in RequestIds |-> IF grantClaims[g] \in old THEN None ELSE grantClaims[g]]
  /\ redirectClaims' = [id \in RequestIds |-> IF id \in old THEN "none" ELSE redirectClaims[id]]
  /\ UNCHANGED <<recovery, now, histories>>

\* vacuum_terminal_records: the claim tables keep their rows.
Vacuum(before) ==
  LET old == {id \in Live(rows) : rows[id].status \in Terminal /\ rows[id].created < before} IN
  /\ old # {}
  /\ rows' = [id \in RequestIds |-> IF id \in old THEN NoRow ELSE rows[id]]
  /\ RebuildChain
  /\ UNCHANGED <<grantClaims, redirectClaims, recovery, now, histories>>

Tick ==
  /\ now < MaxTime
  /\ now' = now + 1
  /\ UNCHANGED <<tables, recovery, histories>>

-----------------------------------------------------------------------------

StoreInit ==
  /\ rows = [id \in RequestIds |-> NoRow]
  /\ prev = [id \in RequestIds |-> NoRow]
  /\ grantClaims = [id \in RequestIds |-> None]
  /\ redirectClaims = [id \in RequestIds |-> "none"]
  /\ recovery = [p \in Processes |-> Idle]
  /\ now = 0
  /\ issued = {} /\ offered = {} /\ spent = {}

InsertStep(id) ==
  \E q \in Requests, created \in CallerTimes :
    \/ \E expires \in Deadlines(created) :
         \/ \E granted \in RequestIds \cup {None}, m \in Metadata \ {"target_reached"} :
              WritePending(id, q, created, expires, granted, m)
         \/ ConsumeExactGrant(id, q, created, expires)
    \/ "blocked" \in Outcomes /\ \E m \in Metadata : RecordTerminalDeny(id, q, created, m)
    \/ "executed" \in Outcomes /\ \E m \in Metadata : RecordAllowExecution(id, q, created, m)

RowStep(id) ==
  \/ \E scope \in {"exact", "similar_5m"} : Approve(id, scope)
  \/ "denied" \in Outcomes /\ \E error \in {"user_denied", "auto_denied"} : Deny(id, error)
  \/ \E status \in Outcomes \cap {"executed", "blocked", "error"} :
       RecordOutcome(id, status) \/ AnnotateLinkedExecution(id, status)
  \/ \E status \in Outcomes \cap {"cancelled", "expired", "invalidated"} : Retire(id, status)
  \/ \E m \in Metadata : AnnotateMetadata(id, m)
  \/ \E delivery \in Deliveries : AnnotateDelivery(id, delivery)
  \/ \E playbook \in Playbooks : ClaimRedirectLineage(id, playbook)

RecoveryStep(p) ==
  \/ ExpireOverdue(p)
  \/ ListStale(p)
  \/ \E key \in recovery[p].listed : InvalidateStale(p, key) \/ RecoveryFails(p, key)
  \/ Crash(p)

StoreNext ==
  \/ \E id \in RequestIds : InsertStep(id) \/ RowStep(id)
  \/ \E p \in Processes : RecoveryStep(p)
  \/ \E before \in Times : Vacuum(before)
  \/ Tick

StoreSpec == StoreInit /\ [][StoreNext]_storeVars
-----------------------------------------------------------------------------
(* Properties.                                                             *)

\* Type invariant of the tables, the recovery progress and the histories.
StoreTypeOK ==
  /\ rows \in [RequestIds -> Row]
  /\ prev \in [RequestIds -> Row]
  /\ grantClaims \in [RequestIds -> RequestIds \cup {None}]
  /\ redirectClaims \in [RequestIds -> Playbooks \cup {"none"}]
  /\ recovery \in [Processes -> [at : {"idle", "expired", "listed"}, asOf : Times,
                                 listed : SUBSET (Times \X RequestIds)]]
  /\ now \in Times
  /\ issued \subseteq RequestIds
  /\ offered \subseteq RequestIds
  /\ spent \subseteq RequestIds \X RequestIds

\* One confirmation pays for at most one retry, whatever was approved,
\* expired, retired or vacuumed in between (exact_grant_claims).
SingleUse ==
  \A p1, p2 \in spent : p1[1] = p2[1] \/ p1[2] = p2[2] => p1 = p2

\* Opening the file never reports a broken hash chain: after every committed
\* operation each row carries the hash of the row sorted before it.
ChainIntact == prev = ChainOf(rows)

\* A row whose redirect was claimed for any playbook but request_approval can
\* never go on to be approved or executed itself (claim_redirect_lineage).
RedirectedNeverRuns ==
  \A id \in Live(rows) :
    redirectClaims[id] \notin {"none", "request_approval"} => rows[id].status \in {"blocked", "denied"}

\* A terminal row keeps its status, decision, result and error until it is vacuumed.
TerminalFinal ==
  [][\A id \in RequestIds :
       rows[id].status \in Terminal =>
         \/ rows'[id].status = "absent"
         \/ /\ rows'[id].status = rows[id].status
            /\ rows'[id].decided = rows[id].decided
            /\ rows'[id].result = rows[id].result
            /\ rows'[id].error = rows[id].error]_rows

\* A claim of a grant or of a redirect lineage is never taken back or moved.
ClaimsDurable ==
  [][\A id \in RequestIds :
       /\ grantClaims[id] # None => grantClaims'[id] = grantClaims[id]
       /\ redirectClaims[id] # "none" => redirectClaims'[id] = redirectClaims[id]
     ]_<<grantClaims, redirectClaims>>

\* The delivery status of a card only moves towards visible
\* (annotate_delivery_status), whichever of its reporters runs last.
DeliveryRank == [none |-> 0, queued |-> 1, not_delivered |-> 2, delivered |-> 3, visible |-> 4]
DeliveryMonotone ==
  [][\A id \in RequestIds :
       rows'[id].status # "absent" =>
         DeliveryRank[rows[id].delivery] <= DeliveryRank[rows'[id].delivery]]_rows

OpenGrants == {g \in offered : rows[g].status = "approved" /\ grantClaims[g] = None}

Ledger == INSTANCE GrantLedger WITH open <- OpenGrants

\* The store implements the ledger of exact grants.
ImplementsLedger == Ledger!LedgerSpec

\* What expire_stale_approvals says it does: it invalidates approvals that
\* never reached an execution result.
StaleMeansUnexecuted ==
  \A id \in Live(rows) : rows[id].error = "approval_stale" => rows[id].result # "executed"
=============================================================================
