------------------------ MODULE EvidenceStoreProofs ------------------------
(***************************************************************************)
(* Proofs about EvidenceStore.                                             *)
(***************************************************************************)
EXTENDS EvidenceStore, FiniteSetTheorems, FunctionTheorems, WellFoundedInduction, TLAPS

-----------------------------------------------------------------------------
(* The last row of a non-empty set of rows exists.                         *)

\* Every non-empty set of naturals has a least element.
LEMMA LeastNatural ==
  ASSUME NEW T, T \subseteq Nat, T # {}
  PROVE  \E x \in T : \A y \in T : x <= y
<1>1. PICK x \in T : \A y \in T : ~ (<<y, x>> \in OpToRel(<, Nat))
  BY WFMin, NatLessThanWellFounded
<1>2. \A y \in T : <<y, x>> \in OpToRel(<, Nat) <=> y < x
  BY DEF OpToRel
<1>3. \A y \in T : ~ (y < x)
  BY <1>1, <1>2
<1>4. QED
  BY <1>3

\* A finite set of naturals is bounded: count through it and take the
\* shortest prefix that is not.
LEMMA FiniteSetBounded ==
  ASSUME NEW S, S \subseteq Nat, IsFiniteSet(S)
  PROVE  \E b \in Nat : \A s \in S : s <= b
<1> DEFINE n == Cardinality(S)
<1>0. n \in Nat
  BY FS_CardinalityType
<1>1. PICK f \in Bijection(1 .. n, S) : TRUE
  BY FS_CardinalityType DEF ExistsBijection
<1> HIDE DEF n
<1>2. f \in [1 .. n -> Nat] /\ \A s \in S : \E k \in 1 .. n : f[k] = s
  BY <1>1 DEF Bijection, Surjection
<1> DEFINE Bounded(m) == \E b \in Nat : \A k \in 1 .. n : k <= m => f[k] <= b
           Unbounded  == {m \in Nat : ~ Bounded(m)}
<1>3. Unbounded = {}
  <2> SUFFICES ASSUME Unbounded # {}
               PROVE  FALSE
    OBVIOUS
  <2>1. PICK m \in Unbounded : \A y \in Unbounded : m <= y
    BY LeastNatural
  <2>2. m \in Nat /\ ~ Bounded(m)
    OBVIOUS
  <2>3. Bounded(0)
    BY <1>0
  <2> HIDE DEF Bounded
  <2>4. m - 1 \in Nat
    BY <2>2, <2>3
  <2>5. Bounded(m - 1)
    BY <2>1, <2>2, <2>4
  <2> USE DEF Bounded
  <2>6. PICK b \in Nat : \A k \in 1 .. n : k <= m - 1 => f[k] <= b
    BY <2>5
  <2> HIDE DEF Bounded, Unbounded
  <2>7. CASE m \in 1 .. n
    <3>1. f[m] \in Nat
      BY <1>2, <2>7
    <3>2. ASSUME NEW k \in 1 .. n, k <= m
          PROVE  f[k] <= b + f[m]
      <4>1. f[k] \in Nat /\ k \in Int
        BY <1>0, <1>2
      <4>2. CASE k = m
        BY <4>1, <4>2, <3>1
      <4>3. CASE k # m
        <5>1. k <= m - 1
          BY <3>2, <4>1, <4>3, <2>2
        <5>2. f[k] <= b
          BY <5>1, <2>6
        <5>3. QED
          BY <5>2, <4>1, <3>1
      <4>4. QED
        BY <4>2, <4>3
    <3>3. b + f[m] \in Nat
      BY <3>1
    <3>4. QED
      BY <2>2, <3>2, <3>3 DEF Bounded
  <2>8. CASE m \notin 1 .. n
    <3>1. \A k \in 1 .. n : k <= m => k <= m - 1
      BY <1>0, <2>2, <2>8
    <3>2. QED
      BY <2>2, <2>6, <3>1 DEF Bounded
  <2>9. QED
    BY <2>7, <2>8
<1>4. PICK b \in Nat : \A k \in 1 .. n : k <= n => f[k] <= b
  BY <1>0, <1>3
<1>5. ASSUME NEW s \in S
      PROVE  s <= b
  <2>1. PICK k \in 1 .. n : f[k] = s
    BY <1>2
  <2>2. k <= n
    BY <1>0
  <2>3. QED
    BY <1>4, <2>1, <2>2
<1>6. QED
  BY <1>5

\* In every non-empty set of rows one row sorts after all the others.
LEMMA LastExists ==
  ASSUME NEW rs \in [RequestIds -> Row], NEW ids, ids \subseteq RequestIds, ids # {}
  PROVE  \E a \in ids : \A b \in ids \ {a} : Before(rs, b, a)
<1>1. \A a \in ids : rs[a].created \in 0 .. MaxTime /\ a \in Nat
  BY StoreAssumption DEF Row, Times
<1>2. MaxTime \in Nat
  BY StoreAssumption
<1>3. PICK top \in Nat : \A a \in RequestIds : a <= top
  BY FiniteSetBounded, StoreAssumption
<1> DEFINE created == [a \in ids |-> rs[a].created]
<1>4. /\ \A a \in ids : created[a] \in 0 .. MaxTime /\ a \in Nat /\ a <= top
      /\ \A a, b \in ids : Before(rs, b, a) <=>
           created[b] < created[a] \/ (created[b] = created[a] /\ b < a)
  BY <1>1, <1>3 DEF Before, Precedes, SortKey
<1> HIDE DEF created
<1>5. PICK newest \in ids : \A b \in ids : created[b] <= created[newest]
  <2> DEFINE ages == {MaxTime - created[a] : a \in ids}
  <2>1. ages \subseteq Nat /\ ages # {}
    BY <1>2, <1>4
  <2>2. PICK age \in ages : \A other \in ages : age <= other
    BY <2>1, LeastNatural
  <2>3. PICK a \in ids : age = MaxTime - created[a]
    BY <2>2
  <2>4. \A b \in ids : MaxTime - created[b] \in ages
    OBVIOUS
  <2> HIDE DEF ages
  <2>5. \A b \in ids : MaxTime - created[a] <= MaxTime - created[b]
    BY <2>2, <2>3, <2>4
  <2>6. \A b \in ids : created[b] <= created[a]
    BY <1>2, <1>4, <2>5
  <2>7. QED
    BY <2>6
<1>6. PICK last \in ids : /\ created[last] = created[newest]
                          /\ \A b \in ids : created[b] = created[newest] => b <= last
  <2> DEFINE ties == {a \in ids : created[a] = created[newest]}
             gaps == {top - a : a \in ties}
  <2>1. newest \in ties /\ \A a \in ties : a \in ids /\ a \in Nat /\ a <= top
    BY <1>4
  <2>2. gaps \subseteq Nat /\ gaps # {}
    BY <1>3, <2>1
  <2>3. PICK gap \in gaps : \A other \in gaps : gap <= other
    BY <2>2, LeastNatural
  <2>4. PICK a \in ties : gap = top - a
    BY <2>3
  <2>5. \A b \in ties : top - b \in gaps
    OBVIOUS
  <2> HIDE DEF gaps
  <2>6. \A b \in ties : top - a <= top - b
    BY <2>3, <2>4, <2>5
  <2>7. \A b \in ties : b <= a
    BY <1>3, <2>1, <2>6
  <2>8. QED
    BY <2>1, <2>7
<1>7. ASSUME NEW b \in ids \ {last}
      PROVE  created[b] < created[last] \/ (created[b] = created[last] /\ b < last)
  BY <1>4, <1>5, <1>6
<1>8. QED
  BY <1>4, <1>7

\* Hence HashOfLast reads a row of the set.
LEMMA HashOfLastIs ==
  ASSUME NEW rs \in [RequestIds -> Row], NEW ids, ids \subseteq RequestIds, ids # {}
  PROVE  \E a \in ids : /\ HashOfLast(rs, ids) = rs[a]
                        /\ \A b \in ids \ {a} : Before(rs, b, a)
<1> DEFINE a == CHOOSE x \in ids : \A b \in ids \ {x} : Before(rs, b, x)
<1>1. a \in ids /\ \A b \in ids \ {a} : Before(rs, b, a)
  BY LastExists
<1>2. HashOfLast(rs, ids) = rs[a]
  BY DEF HashOfLast
<1>3. QED
  BY <1>1, <1>2

-----------------------------------------------------------------------------
(* Types.                                                                  *)

\* The rows the inserts build, and the absent row, are rows.
LEMMA RowTypes ==
  /\ NoRow \in Row
  /\ \A q \in Requests, created \in Times, expires \in Nat \cup {None},
        granted \in RequestIds \cup {None},
        delivery \in {"none", "queued", "not_delivered", "delivered", "visible"},
        metadata \in Metadata :
       PendingRow(q, created, expires, granted, delivery, metadata) \in Row
BY StoreAssumption DEF NoRow, PendingRow, Row, Statuses, Times, Results, Errors

\* Every update of a row by the store's operations yields a row.
LEMMA RowUpdates ==
  ASSUME NEW row \in Row, NEW status \in Statuses, NEW result \in Results, NEW error \in Errors
  PROVE  /\ [row EXCEPT !.status = status] \in Row
         /\ [row EXCEPT !.status = status, !.error = error] \in Row
         /\ [row EXCEPT !.result = result, !.error = error] \in Row
         /\ [row EXCEPT !.status = status, !.result = result, !.error = error] \in Row
<1>1. [row EXCEPT !.status = status] \in Row
  BY DEF Row
<1>2. [row EXCEPT !.status = status, !.error = error] \in Row
  BY DEF Row
<1>3. [row EXCEPT !.result = result, !.error = error] \in Row
  BY DEF Row
<1>4. [row EXCEPT !.status = status, !.result = result, !.error = error] \in Row
  BY DEF Row
<1>5. QED
  BY <1>1, <1>2, <1>3, <1>4

\* A denial stamps its decision time and reason, and yields a row.
LEMMA RowDenied ==
  ASSUME NEW row \in Row, NEW t \in Times, NEW error \in {"user_denied", "auto_denied"}
  PROVE  [row EXCEPT !.decided = t, !.scope = "exact", !.error = error] \in Row
<1>1. [row EXCEPT !.decided = t] \in Row
  BY DEF Row
<1>2. [[row EXCEPT !.decided = t] EXCEPT !.scope = "exact"] \in Row
  BY <1>1 DEF Row
<1>3. error \in Errors
  BY DEF Errors
<1>4. [[[row EXCEPT !.decided = t] EXCEPT !.scope = "exact"] EXCEPT !.error = error] \in Row
  BY <1>2, <1>3 DEF Row
<1>5. QED
  BY <1>4

\* The hashed predecessor (or the genesis hash) is a row.
LEMMA HashOfLastType ==
  ASSUME NEW rs \in [RequestIds -> Row], NEW ids, ids \subseteq RequestIds
  PROVE  HashOfLast(rs, ids) \in Row
<1>1. CASE ids = {}
  BY <1>1, RowTypes DEF HashOfLast
<1>2. CASE ids # {}
  BY <1>2, HashOfLastIs
<1>3. QED
  BY <1>1, <1>2

\* _rebuild_chain_locked yields a well-typed column prev_event_hash.
LEMMA ChainOfType ==
  ASSUME NEW rs \in [RequestIds -> Row]
  PROVE  ChainOf(rs) \in [RequestIds -> Row]
<1>1. ASSUME NEW id \in RequestIds
      PROVE  HashOfLast(rs, {a \in Live(rs) : Before(rs, a, id)}) \in Row
  BY HashOfLastType DEF Live
<1>2. QED
  BY <1>1, RowTypes DEF ChainOf

\* An update transaction keeps the row and chain columns typed.
LEMMA UpdateType ==
  ASSUME rows \in [RequestIds -> Row], NEW id \in RequestIds, NEW row \in Row, Update(id, row)
  PROVE  rows' \in [RequestIds -> Row] /\ prev' \in [RequestIds -> Row]
<1>1. rows' \in [RequestIds -> Row]
  BY DEF Update
<1>2. QED
  BY <1>1, ChainOfType DEF Update, RebuildChain

\* An insert transaction keeps the row, chain and id columns typed.
LEMMA InsertType ==
  ASSUME StoreTypeOK, NEW id \in RequestIds, NEW row \in Row, Insert(id, row)
  PROVE  /\ rows' \in [RequestIds -> Row]
         /\ prev' \in [RequestIds -> Row]
         /\ issued' \subseteq RequestIds
<1>1. rows' \in [RequestIds -> Row] /\ issued' \subseteq RequestIds
  BY DEF Insert, StoreTypeOK
<1>2. HashOfLast(rows, Live(rows)) \in Row
  BY HashOfLastType DEF StoreTypeOK, Live
<1>3. ChainOf(rows') \in [RequestIds -> Row]
  BY <1>1, ChainOfType
<1>4. QED
  BY <1>1, <1>2, <1>3 DEF Insert, LinkInserted, RebuildChain, StoreTypeOK

\* Every insert keeps the types.
LEMMA InsertStepType ==
  ASSUME StoreTypeOK, NEW id \in RequestIds, InsertStep(id)
  PROVE  StoreTypeOK'
<1>1. \A t \in CallerTimes : t \in Times /\ Deadlines(t) \subseteq Nat \cup {None}
  BY StoreAssumption DEF CallerTimes, Deadlines, Times
<1>2. ASSUME NEW q \in Requests, NEW created \in CallerTimes, NEW expires \in Deadlines(created),
             NEW granted \in RequestIds \cup {None}, NEW m \in Metadata,
             WritePending(id, q, created, expires, granted, m)
      PROVE  StoreTypeOK'
  <2>1. PendingRow(q, created, expires, granted, "queued", m) \in Row
    BY <1>1, RowTypes
  <2>2. QED
    BY <1>2, <2>1, InsertType DEF WritePending, StoreTypeOK
<1>3. ASSUME NEW q \in Requests, NEW created \in CallerTimes, NEW expires \in Deadlines(created),
             ConsumeExactGrant(id, q, created, expires)
      PROVE  StoreTypeOK'
  <2>1. PICK g \in ActiveExactGrants(q, created) :
          /\ Insert(id, PendingRow(q, created, expires, g, "queued", "none"))
          /\ grantClaims' = [grantClaims EXCEPT ![g] = id]
          /\ spent' = spent \cup {<<g, id>>}
          /\ UNCHANGED <<redirectClaims, recovery, now, offered>>
    BY <1>3 DEF ConsumeExactGrant
  <2>2. g \in RequestIds
    BY DEF ActiveExactGrants
  <2>3. PendingRow(q, created, expires, g, "queued", "none") \in Row
    BY <1>1, <2>2, RowTypes, StoreAssumption
  <2>4. QED
    BY <2>1, <2>2, <2>3, InsertType DEF StoreTypeOK
<1>4. ASSUME NEW q \in Requests, NEW created \in CallerTimes, NEW m \in Metadata,
             NEW status \in {"blocked", "executed"}, NEW error \in {"failed", "none"},
             InsertClosed(id, q, created, status, error, m)
      PROVE  StoreTypeOK'
  <2>1. [PendingRow(q, created, None, None, "none", m) EXCEPT
           !.status = status, !.result = status, !.error = error] \in Row
    <3>1. PendingRow(q, created, None, None, "none", m) \in Row
      BY <1>1, RowTypes
    <3>2. status \in Statuses /\ status \in Results /\ error \in Errors
      BY DEF Statuses, Terminal, Results, Errors
    <3>3. QED
      BY <3>1, <3>2, RowUpdates
  <2>2. QED
    BY <1>4, <2>1, InsertType DEF InsertClosed, StoreTypeOK
<1>5. QED
  BY <1>2, <1>3, <1>4 DEF InsertStep, RecordTerminalDeny, RecordAllowExecution

\* Every operation on one row keeps the types.
LEMMA RowStepType ==
  ASSUME StoreTypeOK, NEW id \in RequestIds, RowStep(id)
  PROVE  StoreTypeOK'
<1>1. rows[id] \in Row /\ rows \in [RequestIds -> Row] /\ now \in Nat /\ now \in Times
  BY StoreAssumption DEF StoreTypeOK, Times
<1>2. ASSUME NEW row \in Row, NEW status \in Statuses, Transition(id, status, row),
             offered' \subseteq RequestIds
      PROVE  StoreTypeOK'
  <2>1. [row EXCEPT !.status = status] \in Row
    BY <1>2 DEF Row
  <2>2. QED
    BY <1>1, <1>2, <2>1, UpdateType DEF Transition, StoreTypeOK
<1>3. ASSUME NEW row \in Row, Annotate(id, row)
      PROVE  StoreTypeOK'
  BY <1>1, <1>3, UpdateType DEF Annotate, StoreTypeOK, histories
<1>4. ASSUME NEW scope \in {"exact", "similar_5m"}, Approve(id, scope)
      PROVE  StoreTypeOK'
  <2>1. [rows[id] EXCEPT !.decided = now, !.scope = scope,
           !.scopeUntil = IF scope = "similar_5m" THEN now + SimilarTtl ELSE None] \in Row
    <3> DEFINE until == IF scope = "similar_5m" THEN now + SimilarTtl ELSE None
    <3>1. until \in Nat \cup {None}
      BY <1>1, StoreAssumption
    <3> HIDE DEF until
    <3>2. [rows[id] EXCEPT !.decided = now, !.scope = scope, !.scopeUntil = until] \in Row
      BY <1>1, <3>1 DEF Row
    <3>3. QED
      BY <3>2 DEF until
  <2>2. QED
    BY <1>2, <1>4, <2>1 DEF Approve, Statuses, StoreTypeOK
<1>5. ASSUME NEW error \in {"user_denied", "auto_denied"}, Deny(id, error)
      PROVE  StoreTypeOK'
  <2>1. [rows[id] EXCEPT !.decided = now, !.scope = "exact", !.error = error] \in Row
    BY <1>1, RowDenied
  <2>2. QED
    BY <1>2, <1>5, <2>1 DEF Deny, Statuses, Terminal, StoreTypeOK
<1>6. ASSUME NEW status \in {"executed", "blocked", "error"}, RecordOutcome(id, status)
      PROVE  StoreTypeOK'
  <2>1. [rows[id] EXCEPT !.result = status,
           !.error  = IF status = "executed" THEN @ ELSE "failed"] \in Row
    <3>1. /\ status \in Results
          /\ (IF status = "executed" THEN rows[id].error ELSE "failed") \in Errors
      BY <1>1 DEF Row, Errors, Results
    <3>2. QED
      BY <1>1, <3>1, RowUpdates DEF Statuses
  <2>2. QED
    BY <1>2, <1>6, <2>1 DEF RecordOutcome, Statuses, Terminal, StoreTypeOK
<1>7. ASSUME NEW status \in {"executed", "blocked", "error"}, AnnotateLinkedExecution(id, status)
      PROVE  StoreTypeOK'
  <2>1. [rows[id] EXCEPT !.result = status] \in Row
    BY <1>1 DEF Row, Results
  <2>2. QED
    BY <1>3, <1>7, <2>1 DEF AnnotateLinkedExecution
<1>8. ASSUME NEW status \in {"cancelled", "expired", "invalidated"}, Retire(id, status)
      PROVE  StoreTypeOK'
  <2>1. [rows[id] EXCEPT !.error = RetireError(status)] \in Row
    BY <1>1 DEF Row, Errors, RetireError
  <2>2. QED
    BY <1>2, <1>8, <2>1 DEF Retire, Statuses, Terminal, StoreTypeOK
<1>9. ASSUME NEW m \in Metadata, AnnotateMetadata(id, m)
      PROVE  StoreTypeOK'
  <2>1. [rows[id] EXCEPT !.metadata = m] \in Row
    BY <1>1 DEF Row
  <2>2. QED
    BY <1>3, <1>9, <2>1 DEF AnnotateMetadata
<1>10. ASSUME NEW delivery \in Deliveries, AnnotateDelivery(id, delivery)
       PROVE  StoreTypeOK'
  <2>1. [rows[id] EXCEPT !.delivery = delivery] \in Row
    BY <1>1, StoreAssumption DEF Row
  <2>2. QED
    BY <1>3, <1>10, <2>1 DEF AnnotateDelivery
<1>11. ASSUME NEW playbook \in Playbooks, ClaimRedirectLineage(id, playbook)
       PROVE  StoreTypeOK'
  BY <1>11 DEF ClaimRedirectLineage, StoreTypeOK, histories
<1>12. QED
  BY <1>4, <1>5, <1>6, <1>7, <1>8, <1>9, <1>10, <1>11 DEF RowStep

\* So do recovery, retention and the clock.
LEMMA RecoveryStepType ==
  ASSUME StoreTypeOK, NEW p \in Processes, RecoveryStep(p)
  PROVE  StoreTypeOK'
<1>1. /\ rows \in [RequestIds -> Row]
      /\ recovery[p].asOf \in Times /\ now \in Times /\ 0 \in Times
      /\ recovery[p].listed \subseteq Times \X RequestIds
  BY StoreAssumption DEF StoreTypeOK, Times
<1>2. ASSUME ExpireOverdue(p)
      PROVE  StoreTypeOK'
  <2>1. \A id \in RequestIds :
          [rows[id] EXCEPT !.status = "expired", !.error = "approval_expired"] \in Row
    BY <1>1, RowUpdates DEF Statuses, Terminal, Errors, Results
  <2>2. rows' \in [RequestIds -> Row]
    BY <1>1, <1>2, <2>1 DEF ExpireOverdue
  <2>3. prev' \in [RequestIds -> Row]
    BY <1>2, <2>2, ChainOfType DEF ExpireOverdue, RebuildChain, StoreTypeOK
  <2>4. QED
    BY <1>1, <1>2, <2>2, <2>3 DEF ExpireOverdue, StoreTypeOK, histories
<1>3. ASSUME ListStale(p)
      PROVE  StoreTypeOK'
  <2>1. {SortKey(rows, id) : id \in StaleApprovals(recovery[p].asOf)} \subseteq Times \X RequestIds
    <3>1. \A id \in RequestIds : SortKey(rows, id) \in Times \X RequestIds
      BY <1>1 DEF Row, SortKey
    <3>2. StaleApprovals(recovery[p].asOf) \subseteq RequestIds
      BY DEF StaleApprovals, Live
    <3>3. QED
      BY ONLY <3>1, <3>2
  <2> DEFINE Recovery == [at : {"idle", "expired", "listed"}, asOf : Times,
                          listed : SUBSET (Times \X RequestIds)]
  <2>2. recovery' \in [Processes -> Recovery]
    <3>1. Idle \in Recovery /\ recovery[p] \in Recovery /\ recovery \in [Processes -> Recovery]
      BY <1>1 DEF Idle, StoreTypeOK
    <3>2. [recovery[p] EXCEPT !.at = "listed",
             !.listed = {SortKey(rows, id) : id \in StaleApprovals(recovery[p].asOf)}] \in Recovery
      BY <2>1, <3>1
    <3> HIDE DEF Recovery
    <3>3. QED
      BY <1>3, <3>1, <3>2 DEF ListStale
  <2>3. QED
    BY <1>1, <1>3, <2>2 DEF ListStale, StoreTypeOK, tables, histories
<1>4. ASSUME NEW key \in recovery[p].listed, InvalidateStale(p, key)
      PROVE  StoreTypeOK'
  <2>1. key[2] \in RequestIds
    BY <1>1
  <2>2. [rows[key[2]] EXCEPT !.status = "invalidated", !.error = "approval_stale"] \in Row
    BY <1>1, <2>1, RowUpdates DEF Statuses, Terminal, Errors, Results
  <2>3. rows' \in [RequestIds -> Row] /\ prev' \in [RequestIds -> Row]
    BY <1>1, <1>4, <2>1, <2>2, UpdateType DEF InvalidateStale
  <2>4. QED
    BY <1>1, <1>4, <2>3 DEF InvalidateStale, Idle, StoreTypeOK, histories
<1>5. ASSUME NEW key \in recovery[p].listed, RecoveryFails(p, key)
      PROVE  StoreTypeOK'
  BY <1>1, <1>5 DEF RecoveryFails, Idle, StoreTypeOK, tables, histories
<1>6. ASSUME Crash(p)
      PROVE  StoreTypeOK'
  BY <1>1, <1>6 DEF Crash, Idle, StoreTypeOK, tables, histories
<1>7. QED
  BY <1>2, <1>3, <1>4, <1>5, <1>6 DEF RecoveryStep

\* StoreTypeOK for every set of ids, requests and processes and every timeout.
THEOREM StoreTyping == StoreSpec => []StoreTypeOK
<1>1. StoreInit => StoreTypeOK
  BY RowTypes, StoreAssumption DEF StoreInit, StoreTypeOK, Idle, Times
<1>2. StoreTypeOK /\ [StoreNext]_storeVars => StoreTypeOK'
  <2> SUFFICES ASSUME StoreTypeOK, [StoreNext]_storeVars
               PROVE  StoreTypeOK'
    OBVIOUS
  <2>1. ASSUME NEW id \in RequestIds, InsertStep(id)
        PROVE  StoreTypeOK'
    BY <2>1, InsertStepType
  <2>2. ASSUME NEW id \in RequestIds, RowStep(id)
        PROVE  StoreTypeOK'
    BY <2>2, RowStepType
  <2>3. ASSUME NEW p \in Processes, RecoveryStep(p)
        PROVE  StoreTypeOK'
    BY <2>3, RecoveryStepType
  <2>4. ASSUME NEW before \in Times, Vacuum(before)
        PROVE  StoreTypeOK'
    <3>1. rows' \in [RequestIds -> Row]
      BY <2>4, RowTypes DEF Vacuum, StoreTypeOK
    <3>2. prev' \in [RequestIds -> Row]
      BY <2>4, <3>1, ChainOfType DEF Vacuum, RebuildChain
    <3>3. QED
      BY <2>4, <3>1, <3>2 DEF Vacuum, StoreTypeOK, histories
  <2>5. CASE Tick
    BY <2>5, StoreAssumption DEF Tick, StoreTypeOK, Times, tables, histories
  <2>6. CASE UNCHANGED storeVars
    BY <2>6 DEF storeVars, StoreTypeOK, tables, histories
  <2>7. QED
    BY <2>1, <2>2, <2>3, <2>4, <2>5, <2>6 DEF StoreNext
<1>3. QED
  BY <1>1, <1>2, PTL DEF StoreSpec

-----------------------------------------------------------------------------
(* What a step can do to the tables.  Each action has one of five shapes,  *)
(* and the proofs below go through the shapes.                             *)

Inserts(id, row) ==
  /\ Insert(id, row)
  /\ row.status \in Terminal \cup {"pending"}
  /\ UNCHANGED <<redirectClaims, offered>>
  /\ \/ UNCHANGED <<grantClaims, spent>>
     \/ \E g \in RequestIds : /\ Unspent(g)
                              /\ grantClaims' = [grantClaims EXCEPT ![g] = id]
                              /\ spent' = spent \cup {<<g, id>>}

\* A transition of the status state machine.
Moves(id, row) ==
  /\ row.status \in AllowedTransitions(rows[id].status)
  /\ row.delivery = rows[id].delivery
  /\ offered' = IF row.status = "approved" /\ row.scope = "exact" /\ row.grantedBy = None
                THEN offered \cup {id} ELSE offered

\* An annotation: it keeps the status and, of a terminal row, all but metadata and delivery.
Annotates(id, row) ==
  /\ id \in Live(rows)
  /\ row.status = rows[id].status /\ row.scope = rows[id].scope
  /\ row.decided = rows[id].decided /\ row.error = rows[id].error
  /\ rows[id].status \in Terminal => row.result = rows[id].result
  /\ DeliveryRank[rows[id].delivery] <= DeliveryRank[row.delivery]
  /\ UNCHANGED offered

Updates(id, row) ==
  /\ Update(id, row)
  /\ row.grantedBy = rows[id].grantedBy
  /\ Moves(id, row) \/ Annotates(id, row)
  /\ UNCHANGED <<grantClaims, redirectClaims, issued, spent>>

Expires ==
  /\ rows' = [id \in RequestIds |->
                 IF id \in Overdue
                 THEN [rows[id] EXCEPT !.status = "expired", !.error = "approval_expired"]
                 ELSE rows[id]]
  /\ IF Overdue = {} THEN UNCHANGED prev ELSE RebuildChain
  /\ UNCHANGED <<grantClaims, redirectClaims, histories>>

Deletes(old) ==
  /\ \A id \in old : rows[id].status \in Terminal
  /\ rows' = [id \in RequestIds |-> IF id \in old THEN NoRow ELSE rows[id]]
  /\ RebuildChain
  /\ UNCHANGED <<grantClaims, redirectClaims, histories>>

Claims(id, playbook) ==
  /\ id \in Live(rows) /\ redirectClaims[id] = "none"
  /\ RedirectStatusAllowed(rows[id].status, playbook)
  /\ redirectClaims' = [redirectClaims EXCEPT ![id] = playbook]
  /\ UNCHANGED <<rows, prev, grantClaims, histories>>

StepShape ==
  \/ \E id \in RequestIds, row \in Row : Inserts(id, row) \/ Updates(id, row)
  \/ Expires
  \/ \E old \in SUBSET RequestIds : Deletes(old)
  \/ \E id \in RequestIds, playbook \in Playbooks : Claims(id, playbook)
  \/ UNCHANGED <<tables, histories>>

\* Each of the three inserting operations inserts one fresh row, and at
\* most a claim for it.
LEMMA InsertShape ==
  ASSUME StoreTypeOK, NEW id \in RequestIds, InsertStep(id)
  PROVE  \E row \in Row : Inserts(id, row)
<1>1. \A t \in CallerTimes : t \in Times /\ Deadlines(t) \subseteq Nat \cup {None}
  BY StoreAssumption DEF CallerTimes, Deadlines, Times
<1>2. ASSUME NEW q \in Requests, NEW created \in CallerTimes, NEW expires \in Deadlines(created),
             NEW granted \in RequestIds \cup {None}, NEW m \in Metadata,
             WritePending(id, q, created, expires, granted, m)
      PROVE  \E row \in Row : Inserts(id, row)
  <2>1. PendingRow(q, created, expires, granted, "queued", m) \in Row
    BY <1>1, RowTypes
  <2>2. PendingRow(q, created, expires, granted, "queued", m).status = "pending"
    BY DEF PendingRow
  <2>3. QED
    BY <1>2, <2>1, <2>2 DEF WritePending, Inserts
<1>3. ASSUME NEW q \in Requests, NEW created \in CallerTimes, NEW expires \in Deadlines(created),
             ConsumeExactGrant(id, q, created, expires)
      PROVE  \E row \in Row : Inserts(id, row)
  <2>1. PICK g \in ActiveExactGrants(q, created) :
          /\ Insert(id, PendingRow(q, created, expires, g, "queued", "none"))
          /\ grantClaims' = [grantClaims EXCEPT ![g] = id]
          /\ spent' = spent \cup {<<g, id>>}
          /\ UNCHANGED <<redirectClaims, recovery, now, offered>>
    BY <1>3 DEF ConsumeExactGrant
  <2>2. g \in RequestIds /\ Unspent(g)
    BY DEF ActiveExactGrants
  <2>3. PendingRow(q, created, expires, g, "queued", "none") \in Row
    BY <1>1, <2>2, RowTypes, StoreAssumption
  <2>4. PendingRow(q, created, expires, g, "queued", "none").status = "pending"
    BY DEF PendingRow
  <2>5. QED
    BY <2>1, <2>2, <2>3, <2>4 DEF Inserts
<1>4. ASSUME NEW q \in Requests, NEW created \in CallerTimes, NEW m \in Metadata,
             NEW status \in {"blocked", "executed"}, NEW error \in {"failed", "none"},
             InsertClosed(id, q, created, status, error, m)
      PROVE  \E row \in Row : Inserts(id, row)
  <2> DEFINE closed == [PendingRow(q, created, None, None, "none", m) EXCEPT
                          !.status = status, !.result = status, !.error = error]
  <2>1. PendingRow(q, created, None, None, "none", m) \in Row
    BY <1>1, RowTypes
  <2>2. status \in Statuses /\ status \in Results /\ status \in Terminal /\ error \in Errors
    BY DEF Statuses, Terminal, Results, Errors
  <2>3. closed \in Row
    BY <2>1, <2>2, RowUpdates
  <2>4. closed.status = status
    BY DEF PendingRow
  <2>5. QED
    BY <1>4, <2>2, <2>3, <2>4 DEF InsertClosed, Inserts
<1>5. QED
  BY <1>2, <1>3, <1>4 DEF InsertStep, RecordTerminalDeny, RecordAllowExecution

\* Each operation on one row either updates that row along the status
\* machine or claims its redirect lineage.
LEMMA RowShape ==
  ASSUME StoreTypeOK, NEW id \in RequestIds, RowStep(id)
  PROVE  \/ \E row \in Row : Updates(id, row)
         \/ \E playbook \in Playbooks : Claims(id, playbook)
<1>1. /\ rows[id] \in Row /\ rows \in [RequestIds -> Row]
      /\ now \in Nat /\ now \in Times
      /\ rows[id].error \in Errors
  BY StoreAssumption DEF StoreTypeOK, Times, Row
<1>2. ASSUME NEW row \in Row, NEW status \in Statuses, Transition(id, status, row),
             row.grantedBy = rows[id].grantedBy, row.delivery = rows[id].delivery,
             offered' = IF status = "approved" /\ row.scope = "exact" /\ row.grantedBy = None
                        THEN offered \cup {id} ELSE offered
      PROVE  \E moved \in Row : Updates(id, moved)
  <2> DEFINE moved == [row EXCEPT !.status = status]
  <2>1. moved \in Row
    BY <1>2 DEF Row
  <2>2. /\ moved.status = status /\ moved.scope = row.scope
        /\ moved.grantedBy = row.grantedBy /\ moved.delivery = row.delivery
    BY DEF Row
  <2>3. Update(id, moved) /\ UNCHANGED <<grantClaims, redirectClaims, issued, spent>>
    BY <1>2 DEF Transition
  <2>4. status \in AllowedTransitions(rows[id].status)
    BY <1>2 DEF Transition
  <2> HIDE DEF moved
  <2>5. Moves(id, moved)
    BY <1>2, <2>2, <2>4 DEF Moves
  <2>6. QED
    BY <1>2, <2>1, <2>2, <2>3, <2>5 DEF Updates
<1>3. ASSUME NEW row \in Row, Annotate(id, row), row.grantedBy = rows[id].grantedBy,
             row.status = rows[id].status, row.scope = rows[id].scope,
             row.decided = rows[id].decided, row.error = rows[id].error,
             rows[id].status \in Terminal => row.result = rows[id].result,
             DeliveryRank[rows[id].delivery] <= DeliveryRank[row.delivery]
      PROVE  Updates(id, row)
  BY <1>3 DEF Annotate, Updates, Annotates, histories
<1>4. DeliveryRank[rows[id].delivery] <= DeliveryRank[rows[id].delivery]
  BY <1>1 DEF Row, DeliveryRank
<1>5. ASSUME NEW scope \in {"exact", "similar_5m"}, Approve(id, scope)
      PROVE  \E row \in Row : Updates(id, row)
  <2> DEFINE until == IF scope = "similar_5m" THEN now + SimilarTtl ELSE None
             row   == [rows[id] EXCEPT !.decided = now, !.scope = scope, !.scopeUntil = until]
  <2>1. until \in Nat \cup {None}
    BY <1>1, StoreAssumption
  <2>2. Transition(id, "approved", row)
    BY <1>5 DEF Approve
  <2>3. offered' = IF scope = "exact" /\ rows[id].grantedBy = None
                   THEN offered \cup {id} ELSE offered
    BY <1>5 DEF Approve
  <2> HIDE DEF until
  <2>4. row \in Row
    BY <1>1, <2>1 DEF Row
  <2>5. /\ row.grantedBy = rows[id].grantedBy /\ row.delivery = rows[id].delivery
        /\ row.scope = scope
    BY <1>1 DEF Row
  <2> HIDE DEF row
  <2>6. "approved" \in Statuses
    BY DEF Statuses
  <2>7. QED
    BY <1>2, <2>2, <2>3, <2>4, <2>5, <2>6
<1>6. ASSUME NEW error \in {"user_denied", "auto_denied"}, Deny(id, error)
      PROVE  \E row \in Row : Updates(id, row)
  <2> DEFINE row == [rows[id] EXCEPT !.decided = now, !.scope = "exact", !.error = error]
  <2>1. row \in Row
    BY <1>1, RowDenied
  <2>2. row.grantedBy = rows[id].grantedBy /\ row.delivery = rows[id].delivery
    BY <1>1 DEF Row
  <2>3. Transition(id, "denied", row) /\ UNCHANGED offered
    BY <1>6 DEF Deny
  <2> HIDE DEF row
  <2>4. QED
    BY <1>2, <2>1, <2>2, <2>3 DEF Statuses, Terminal
<1>7. ASSUME NEW status \in {"executed", "blocked", "error"}, RecordOutcome(id, status)
      PROVE  \E row \in Row : Updates(id, row)
  <2> DEFINE error == IF status = "executed" THEN rows[id].error ELSE "failed"
             row   == [rows[id] EXCEPT !.result = status, !.error = error]
  <2>1. status \in Results /\ error \in Errors /\ status \in Statuses
    BY <1>1 DEF Results, Errors, Statuses, Terminal
  <2>2. Transition(id, status, row) /\ UNCHANGED offered
    BY <1>7 DEF RecordOutcome
  <2> HIDE DEF error
  <2>3. row \in Row
    BY <1>1, <2>1, RowUpdates
  <2>4. row.grantedBy = rows[id].grantedBy /\ row.delivery = rows[id].delivery
    BY <1>1 DEF Row
  <2> HIDE DEF row
  <2>5. QED
    BY <1>2, <2>1, <2>2, <2>3, <2>4
<1>8. ASSUME NEW status \in {"executed", "blocked", "error"}, AnnotateLinkedExecution(id, status)
      PROVE  \E row \in Row : Updates(id, row)
  <2> DEFINE row == [rows[id] EXCEPT !.result = status]
  <2>1. row \in Row
    BY <1>1 DEF Row, Results
  <2>2. /\ row.grantedBy = rows[id].grantedBy /\ row.status = rows[id].status
        /\ row.scope = rows[id].scope /\ row.decided = rows[id].decided
        /\ row.error = rows[id].error /\ row.delivery = rows[id].delivery
    BY <1>1 DEF Row
  <2>3. Annotate(id, row) /\ rows[id].status \notin Terminal
    BY <1>8 DEF AnnotateLinkedExecution, Terminal
  <2> HIDE DEF row
  <2>4. QED
    BY <1>3, <1>4, <2>1, <2>2, <2>3
<1>9. ASSUME NEW status \in {"cancelled", "expired", "invalidated"}, Retire(id, status)
      PROVE  \E row \in Row : Updates(id, row)
  <2> DEFINE row == [rows[id] EXCEPT !.error = RetireError(status)]
  <2>1. row \in Row
    BY <1>1 DEF Row, Errors, RetireError
  <2>2. row.grantedBy = rows[id].grantedBy /\ row.delivery = rows[id].delivery
    BY <1>1 DEF Row
  <2>3. Transition(id, status, row) /\ UNCHANGED offered
    BY <1>9 DEF Retire
  <2> HIDE DEF row
  <2>4. QED
    BY <1>2, <2>1, <2>2, <2>3 DEF Statuses, Terminal
<1>10. ASSUME NEW m \in Metadata, AnnotateMetadata(id, m)
       PROVE  \E row \in Row : Updates(id, row)
  <2> DEFINE row == [rows[id] EXCEPT !.metadata = m]
  <2>1. row \in Row
    BY <1>1 DEF Row
  <2>2. /\ row.grantedBy = rows[id].grantedBy /\ row.status = rows[id].status
        /\ row.scope = rows[id].scope /\ row.decided = rows[id].decided
        /\ row.error = rows[id].error /\ row.result = rows[id].result
        /\ row.delivery = rows[id].delivery
    BY <1>1 DEF Row
  <2>3. Annotate(id, row)
    BY <1>10 DEF AnnotateMetadata
  <2> HIDE DEF row
  <2>4. QED
    BY <1>3, <1>4, <2>1, <2>2, <2>3
<1>11. ASSUME NEW delivery \in Deliveries, AnnotateDelivery(id, delivery)
       PROVE  \E row \in Row : Updates(id, row)
  <2> DEFINE row == [rows[id] EXCEPT !.delivery = delivery]
  <2>1. row \in Row
    BY <1>1, StoreAssumption DEF Row
  <2>2. /\ row.grantedBy = rows[id].grantedBy /\ row.status = rows[id].status
        /\ row.scope = rows[id].scope /\ row.decided = rows[id].decided
        /\ row.error = rows[id].error /\ row.result = rows[id].result
        /\ row.delivery = delivery
    BY <1>1 DEF Row
  <2>3. DeliveryRank[rows[id].delivery] <= DeliveryRank[delivery]
    BY <1>1, <1>11, StoreAssumption DEF AnnotateDelivery, DeliveryAllowed, DeliveryRank, Row
  <2>4. Annotate(id, row)
    BY <1>11 DEF AnnotateDelivery
  <2> HIDE DEF row
  <2>5. QED
    BY <1>3, <2>1, <2>2, <2>3, <2>4
<1>12. ASSUME NEW playbook \in Playbooks, ClaimRedirectLineage(id, playbook)
       PROVE  Claims(id, playbook)
  BY <1>12 DEF ClaimRedirectLineage, Claims
<1>13. QED
  BY <1>5, <1>6, <1>7, <1>8, <1>9, <1>10, <1>11, <1>12 DEF RowStep

\* The steps of recover_on_startup change rows only along the status machine.
LEMMA RecoveryShape ==
  ASSUME StoreTypeOK, NEW p \in Processes, RecoveryStep(p)
  PROVE  StepShape
<1>1. rows \in [RequestIds -> Row] /\ recovery[p].listed \subseteq Times \X RequestIds
  BY DEF StoreTypeOK
<1>2. ASSUME ExpireOverdue(p)
      PROVE  Expires
  BY <1>2 DEF ExpireOverdue, Expires
<1>3. ASSUME NEW key \in recovery[p].listed, InvalidateStale(p, key)
      PROVE  \E id \in RequestIds, row \in Row : Updates(id, row)
  <2> DEFINE id  == key[2]
             row == [rows[id] EXCEPT !.status = "invalidated", !.error = "approval_stale"]
  <2>1. id \in RequestIds /\ rows[id] \in Row
    BY <1>1
  <2>2. row \in Row
    BY <2>1, RowUpdates DEF Statuses, Terminal, Errors, Results
  <2>3. /\ row.grantedBy = rows[id].grantedBy /\ row.delivery = rows[id].delivery
        /\ row.status = "invalidated"
    BY <2>1 DEF Row
  <2>4. /\ "invalidated" \in AllowedTransitions(rows[id].status)
        /\ Update(id, row)
        /\ UNCHANGED <<grantClaims, redirectClaims, histories>>
    BY <1>3 DEF InvalidateStale
  <2> HIDE DEF row, id
  <2>5. Updates(id, row)
    BY <2>3, <2>4 DEF Updates, Moves, histories
  <2>6. QED
    BY <2>1, <2>2, <2>5
<1>4. (\E key \in recovery[p].listed : RecoveryFails(p, key)) \/ ListStale(p) \/ Crash(p)
        => UNCHANGED <<tables, histories>>
  BY DEF RecoveryFails, ListStale, Crash
<1>5. QED
  BY <1>2, <1>3, <1>4 DEF RecoveryStep, StepShape

\* Every step has one of the shapes.
LEMMA Shapes == StoreTypeOK /\ [StoreNext]_storeVars => StepShape
<1> SUFFICES ASSUME StoreTypeOK, [StoreNext]_storeVars
             PROVE  StepShape
  OBVIOUS
<1>1. ASSUME NEW id \in RequestIds, InsertStep(id)
      PROVE  StepShape
  BY <1>1, InsertShape DEF StepShape
<1>2. ASSUME NEW id \in RequestIds, RowStep(id)
      PROVE  StepShape
  BY <1>2, RowShape DEF StepShape
<1>3. ASSUME NEW p \in Processes, RecoveryStep(p)
      PROVE  StepShape
  BY <1>3, RecoveryShape
<1>4. ASSUME NEW before \in Times, Vacuum(before)
      PROVE  StepShape
  <2> DEFINE old == {id \in Live(rows) : rows[id].status \in Terminal /\ rows[id].created < before}
  <2>1. old \in SUBSET RequestIds
    BY DEF Live
  <2>2. Deletes(old)
    BY <1>4 DEF Vacuum, Deletes
  <2>3. QED
    BY <2>1, <2>2 DEF StepShape
<1>5. CASE Tick
  BY <1>5 DEF Tick, StepShape
<1>6. CASE UNCHANGED storeVars
  BY <1>6 DEF storeVars, StepShape
<1>7. QED
  BY <1>1, <1>2, <1>3, <1>4, <1>5, <1>6 DEF StoreNext

-----------------------------------------------------------------------------
(* The inductive invariant.                                                *)

\* A row exists only under an issued id, and a deleted row leaves nothing.
IssuedInv ==
  \A id \in RequestIds :
    /\ id \notin issued => rows[id].status = "absent"
    /\ rows[id].status = "absent" => rows[id] = NoRow

\* Every usable grant was offered, an offered grant has been decided, and the
\* claim table holds what was spent, also for rows that no longer exist.
LedgerInv ==
  /\ \A g \in RequestIds : grantClaims[g] # None => g \in offered
  /\ \A g \in offered : g \in issued /\ rows[g].status # "pending"
  /\ \A g \in RequestIds :
       rows[g].status = "approved" /\ rows[g].scope = "exact" /\ rows[g].grantedBy = None
         => g \in offered
  /\ \A p \in spent : grantClaims[p[1]] = p[2] /\ p[2] \in issued

\* A claimed original exists or existed, and is out of the reach of a transition.
RedirectInv ==
  \A id \in RequestIds :
    /\ redirectClaims[id] # "none" => id \in issued
    /\ redirectClaims[id] \notin {"none", "request_approval"}
         => rows[id].status \in {"blocked", "denied", "absent"}

StoreInv == StoreTypeOK /\ IssuedInv /\ LedgerInv /\ RedirectInv

\* No operation revives an id that was never inserted.
LEMMA IssuedStep == StoreInv /\ StepShape => IssuedInv'
<1> SUFFICES ASSUME StoreInv, StepShape
             PROVE  IssuedInv'
  OBVIOUS
<1> USE DEF StoreInv, IssuedInv
<1>1. rows \in [RequestIds -> Row]
  BY DEF StoreTypeOK
<1>2. ASSUME NEW id \in RequestIds, NEW row \in Row, Inserts(id, row)
      PROVE  IssuedInv'
  BY <1>1, <1>2 DEF Inserts, Insert, Terminal
<1>3. ASSUME NEW id \in RequestIds, NEW row \in Row, Updates(id, row)
      PROVE  IssuedInv'
  <2>1. rows[id].status # "absent" /\ row.status # "absent"
    BY <1>3 DEF Updates, Moves, Annotates, AllowedTransitions, Live, Statuses, Terminal
  <2>2. QED
    BY <1>1, <1>3, <2>1 DEF Updates, Update
<1>4. CASE Expires
  <2>1. \A id \in RequestIds :
          /\ id \in Overdue => rows[id].status = "pending" /\ rows'[id].status = "expired"
          /\ id \notin Overdue => rows'[id] = rows[id]
    BY <1>1, <1>4 DEF Expires, Overdue, Row
  <2>2. issued' = issued
    BY <1>4 DEF Expires, histories
  <2>3. QED
    BY <2>1, <2>2
<1>5. ASSUME NEW old \in SUBSET RequestIds, Deletes(old)
      PROVE  IssuedInv'
  <2>1. \A id \in RequestIds : rows'[id] = IF id \in old THEN NoRow ELSE rows[id]
    BY <1>5 DEF Deletes
  <2>2. NoRow.status = "absent"
    BY DEF NoRow, PendingRow
  <2>3. QED
    BY <1>5, <2>1, <2>2 DEF Deletes, histories
<1>6. ASSUME NEW id \in RequestIds, NEW playbook \in Playbooks, Claims(id, playbook)
      PROVE  IssuedInv'
  BY <1>6 DEF Claims, histories
<1>7. CASE UNCHANGED <<tables, histories>>
  BY <1>7 DEF tables, histories
<1>8. QED
  BY <1>2, <1>3, <1>4, <1>5, <1>6, <1>7 DEF StepShape

\* No operation breaks the tie between grants, claims and confirmations.
LEMMA LedgerStep == StoreInv /\ StepShape => LedgerInv'
<1> SUFFICES ASSUME StoreInv, StepShape
             PROVE  LedgerInv'
  OBVIOUS
<1>1. /\ rows \in [RequestIds -> Row] /\ issued \subseteq RequestIds
      /\ grantClaims \in [RequestIds -> RequestIds \cup {None}]
      /\ spent \subseteq RequestIds \X RequestIds /\ offered \subseteq RequestIds
  BY DEF StoreInv, StoreTypeOK
<1>2. IssuedInv /\ LedgerInv
  BY DEF StoreInv
<1>3. ASSUME NEW id \in RequestIds, NEW row \in Row, Inserts(id, row)
      PROVE  LedgerInv'
  <2>1. /\ id \notin issued /\ issued' = issued \cup {id} /\ offered' = offered
        /\ rows' = [rows EXCEPT ![id] = row] /\ row.status # "approved"
        /\ id \notin offered
    BY <1>2, <1>3 DEF Inserts, Insert, CanInsert, Terminal, LedgerInv
  <2>2. CASE UNCHANGED <<grantClaims, spent>>
    BY <1>1, <1>2, <2>1, <2>2 DEF LedgerInv
  <2>3. ASSUME NEW g \in RequestIds, Unspent(g), grantClaims' = [grantClaims EXCEPT ![g] = id],
               spent' = spent \cup {<<g, id>>}
        PROVE  LedgerInv'
    <3>1. g \in offered /\ grantClaims[g] = None
      BY <1>2, <2>3 DEF Unspent, LedgerInv
    <3>2. \A p \in spent : p[1] # g
      BY <1>1, <1>2, <3>1, StoreAssumption DEF LedgerInv, None
    <3>3. \A p \in spent' : grantClaims'[p[1]] = p[2] /\ p[2] \in issued'
      <4>1. grantClaims'[g] = id
        BY <1>1, <2>3
      <4>2. \A p \in spent : p[1] \in RequestIds /\ grantClaims'[p[1]] = grantClaims[p[1]]
        BY <1>1, <2>3, <3>2
      <4>3. QED
        BY <1>2, <2>1, <2>3, <4>1, <4>2 DEF LedgerInv
    <3>4. \A h \in RequestIds : grantClaims'[h] # None => h \in offered'
      BY <1>1, <1>2, <2>1, <2>3, <3>1 DEF LedgerInv
    <3>5. QED
      BY <1>1, <1>2, <2>1, <3>3, <3>4 DEF LedgerInv
  <2>4. QED
    BY <1>3, <2>2, <2>3 DEF Inserts
<1>4. ASSUME NEW id \in RequestIds, NEW row \in Row, Updates(id, row)
      PROVE  LedgerInv'
  <2>1. /\ rows' = [rows EXCEPT ![id] = row] /\ row.grantedBy = rows[id].grantedBy
        /\ grantClaims' = grantClaims /\ issued' = issued /\ spent' = spent
    BY <1>4 DEF Updates, Update
  <2>2. CASE Moves(id, row)
    <3>1. row.status # "pending" /\ rows[id].status # "absent"
      BY <2>2 DEF Moves, AllowedTransitions, Statuses, Terminal
    <3>2. id \in issued
      BY <1>2, <3>1 DEF IssuedInv
    <3>3. offered \subseteq offered' /\ offered' \subseteq offered \cup {id}
      BY <2>2 DEF Moves
    <3>4. row.status = "approved" /\ row.scope = "exact" /\ row.grantedBy = None => id \in offered'
      BY <2>2 DEF Moves
    <3>5. QED
      BY <1>1, <1>2, <2>1, <3>1, <3>2, <3>3, <3>4 DEF LedgerInv
  <2>3. CASE Annotates(id, row)
    BY <1>1, <1>2, <2>1, <2>3 DEF LedgerInv, Annotates
  <2>4. QED
    BY <1>4, <2>2, <2>3 DEF Updates
<1>5. CASE Expires
  <2>1. \A id \in RequestIds :
          /\ id \in Overdue => rows[id].status = "pending" /\ rows'[id].status = "expired"
          /\ id \notin Overdue => rows'[id] = rows[id]
    BY <1>1, <1>5 DEF Expires, Overdue, Row
  <2>2. UNCHANGED <<grantClaims, issued, offered, spent>>
    BY <1>5 DEF Expires, histories
  <2>3. QED
    BY <1>1, <1>2, <2>1, <2>2 DEF LedgerInv
<1>6. ASSUME NEW old \in SUBSET RequestIds, Deletes(old)
      PROVE  LedgerInv'
  <2>1. \A id \in RequestIds : rows'[id] = IF id \in old THEN NoRow ELSE rows[id]
    BY <1>6 DEF Deletes
  <2>2. NoRow.status = "absent"
    BY DEF NoRow, PendingRow
  <2>3. UNCHANGED <<grantClaims, issued, offered, spent>>
    BY <1>6 DEF Deletes, histories
  <2>4. QED
    BY <1>1, <1>2, <2>1, <2>2, <2>3 DEF LedgerInv
<1>7. ASSUME NEW id \in RequestIds, NEW playbook \in Playbooks, Claims(id, playbook)
      PROVE  LedgerInv'
  BY <1>2, <1>7 DEF Claims, histories, LedgerInv
<1>8. CASE UNCHANGED <<tables, histories>>
  BY <1>2, <1>8 DEF tables, histories, LedgerInv
<1>9. QED
  BY <1>3, <1>4, <1>5, <1>6, <1>7, <1>8 DEF StepShape

\* No operation lets a claimed original leave blocked or denied.
LEMMA RedirectStep == StoreInv /\ StepShape => RedirectInv'
<1> SUFFICES ASSUME StoreInv, StepShape
             PROVE  RedirectInv'
  OBVIOUS
<1>1. /\ rows \in [RequestIds -> Row] /\ issued \subseteq RequestIds
      /\ redirectClaims \in [RequestIds -> Playbooks \cup {"none"}]
  BY DEF StoreInv, StoreTypeOK
<1>2. IssuedInv /\ RedirectInv
  BY DEF StoreInv
<1>3. ASSUME NEW id \in RequestIds, NEW row \in Row, Inserts(id, row)
      PROVE  RedirectInv'
  <2>1. /\ id \notin issued /\ issued' = issued \cup {id} /\ redirectClaims' = redirectClaims
        /\ rows' = [rows EXCEPT ![id] = row]
    BY <1>3 DEF Inserts, Insert, CanInsert
  <2>2. QED
    BY <1>1, <1>2, <2>1 DEF RedirectInv
<1>4. ASSUME NEW id \in RequestIds, NEW row \in Row, Updates(id, row)
      PROVE  RedirectInv'
  <2>1. rows' = [rows EXCEPT ![id] = row] /\ UNCHANGED <<redirectClaims, issued>>
    BY <1>4 DEF Updates, Update
  <2>2. row.status = rows[id].status \/ rows[id].status \in {"pending", "approved"}
    BY <1>4 DEF Updates, Moves, Annotates, AllowedTransitions
  <2>3. QED
    BY <1>1, <1>2, <2>1, <2>2 DEF RedirectInv
<1>5. CASE Expires
  <2>1. \A id \in RequestIds :
          /\ id \in Overdue => rows[id].status = "pending"
          /\ id \notin Overdue => rows'[id] = rows[id]
    BY <1>1, <1>5 DEF Expires, Overdue
  <2>2. UNCHANGED <<redirectClaims, issued>>
    BY <1>5 DEF Expires, histories
  <2>3. QED
    BY <1>1, <1>2, <2>1, <2>2 DEF RedirectInv
<1>6. ASSUME NEW old \in SUBSET RequestIds, Deletes(old)
      PROVE  RedirectInv'
  <2>1. \A id \in RequestIds : rows'[id] = IF id \in old THEN NoRow ELSE rows[id]
    BY <1>6 DEF Deletes
  <2>2. NoRow.status = "absent"
    BY DEF NoRow, PendingRow
  <2>3. UNCHANGED <<redirectClaims, issued>>
    BY <1>6 DEF Deletes, histories
  <2>4. QED
    BY <1>2, <2>1, <2>2, <2>3 DEF RedirectInv
<1>7. ASSUME NEW id \in RequestIds, NEW playbook \in Playbooks, Claims(id, playbook)
      PROVE  RedirectInv'
  <2>1. /\ redirectClaims' = [redirectClaims EXCEPT ![id] = playbook]
        /\ UNCHANGED <<rows, issued>>
        /\ rows[id].status # "absent"
    BY <1>7 DEF Claims, histories, Live
  <2>2. playbook = "request_approval" \/ rows[id].status \in {"blocked", "denied"}
    BY <1>7 DEF Claims, RedirectStatusAllowed
  <2>3. QED
    BY <1>1, <1>2, <2>1, <2>2 DEF RedirectInv, IssuedInv
<1>8. CASE UNCHANGED <<tables, histories>>
  BY <1>2, <1>8 DEF tables, histories, RedirectInv
<1>9. QED
  BY <1>3, <1>4, <1>5, <1>6, <1>7, <1>8 DEF StepShape

\* The inductive invariant of the store.
LEMMA StoreInvariant == StoreSpec => []StoreInv
<1>1. StoreInit => IssuedInv /\ LedgerInv /\ RedirectInv
  <2>1. NoRow.status = "absent"
    BY DEF NoRow, PendingRow
  <2>2. QED
    BY <2>1 DEF StoreInit, IssuedInv, LedgerInv, RedirectInv
<1>2. StoreTypeOK /\ StoreTypeOK' /\ StoreInv /\ [StoreNext]_storeVars => StoreInv'
  BY Shapes, IssuedStep, LedgerStep, RedirectStep DEF StoreInv
<1>3. StoreTypeOK /\ IssuedInv /\ LedgerInv /\ RedirectInv <=> StoreInv
  BY DEF StoreInv
<1>4. QED
  BY <1>1, <1>2, <1>3, StoreTyping, PTL DEF StoreSpec

-----------------------------------------------------------------------------
(* The safety theorems.                                                    *)

\* RedirectedNeverRuns: no schedule of transitions, recovery and vacuum lets a
\* row run whose redirect was claimed.
THEOREM RedirectSafety == StoreSpec => []RedirectedNeverRuns
<1>1. StoreInv => RedirectedNeverRuns
  BY DEF StoreInv, RedirectInv, RedirectedNeverRuns, Live
<1>2. QED
  BY <1>1, StoreInvariant, PTL

\* SingleUse: a confirmation pays for at most one retry, for any number of
\* retries, processes and vacuums.
THEOREM GrantSafety == StoreSpec => []SingleUse
<1>1. StoreInit => SingleUse
  BY DEF StoreInit, SingleUse
<1>2. StoreInv /\ SingleUse /\ [StoreNext]_storeVars => SingleUse'
  <2> SUFFICES ASSUME StoreInv, SingleUse, StepShape
               PROVE  SingleUse'
    BY Shapes DEF StoreInv
  <2>1. ASSUME NEW id \in RequestIds, NEW row \in Row, Inserts(id, row)
        PROVE  SingleUse'
    <3>1. CASE UNCHANGED spent
      BY <3>1 DEF SingleUse
    <3>2. ASSUME NEW g \in RequestIds, Unspent(g), spent' = spent \cup {<<g, id>>}
          PROVE  SingleUse'
      <4>1. \A p \in spent : p[1] # g /\ p[2] # id
        <5>1. id \notin issued /\ grantClaims[g] = None
          BY <2>1, <3>2 DEF Inserts, Insert, CanInsert, Unspent
        <5>2. \A p \in spent : p[2] \in Nat
          BY StoreAssumption DEF StoreInv, StoreTypeOK
        <5>3. QED
          BY <5>1, <5>2 DEF StoreInv, LedgerInv, None
      <4>2. QED
        BY <3>2, <4>1 DEF SingleUse
    <3>3. QED
      BY <2>1, <3>1, <3>2 DEF Inserts
  <2>2. CASE UNCHANGED spent
    BY <2>2 DEF SingleUse
  <2>3. QED
    BY <2>1, <2>2 DEF StepShape, Updates, Expires, Deletes, Claims, histories
<1>3. QED
  BY <1>1, <1>2, StoreInvariant, PTL DEF StoreSpec

\* Two tables that agree on a set of rows have the same last hash on it.
LEMMA SameHash ==
  ASSUME NEW rs \in [RequestIds -> Row], NEW ss \in [RequestIds -> Row],
         NEW ids, ids \subseteq RequestIds, \A a \in ids : rs[a] = ss[a]
  PROVE  HashOfLast(rs, ids) = HashOfLast(ss, ids)
<1>1. CASE ids = {}
  BY <1>1 DEF HashOfLast
<1>2. CASE ids # {}
  <2>1. PICK a \in ids : HashOfLast(rs, ids) = rs[a] /\ \A x \in ids \ {a} : Before(rs, x, a)
    BY <1>2, HashOfLastIs
  <2>2. PICK b \in ids : HashOfLast(ss, ids) = ss[b] /\ \A x \in ids \ {b} : Before(ss, x, b)
    BY <1>2, HashOfLastIs
  <2>3. a = b
    <3>1. SUFFICES ASSUME a # b
                   PROVE  FALSE
      OBVIOUS
    <3>2. Before(rs, b, a) /\ Before(ss, a, b)
      BY <2>1, <2>2, <3>1
    <3>3. /\ rs[a] = ss[a] /\ rs[b] = ss[b] /\ a \in Nat /\ b \in Nat
          /\ rs[a].created \in Int /\ rs[b].created \in Int
      BY StoreAssumption DEF Row, Times
    <3>4. QED
      BY <3>2, <3>3 DEF Before, Precedes, SortKey
  <2>4. QED
    BY <2>1, <2>2, <2>3
<1>3. QED
  BY <1>1, <1>2

\* Appending a link is as good as rebuilding when the new row sorts last.
LEMMA AppendedLink ==
  ASSUME StoreInv, ChainIntact, NEW id \in RequestIds, NEW row \in Row,
         Insert(id, row), row.status # "absent",
         \A a \in Live(rows) : Before(rows', a, id),
         prev' = [prev EXCEPT ![id] = HashOfLast(rows, Live(rows))]
  PROVE  prev' = ChainOf(rows')
<1>1. /\ rows \in [RequestIds -> Row] /\ prev \in [RequestIds -> Row]
      /\ rows' = [rows EXCEPT ![id] = row] /\ rows' \in [RequestIds -> Row]
      /\ rows[id].status = "absent"
  BY DEF StoreInv, StoreTypeOK, IssuedInv, Insert, CanInsert
<1> DEFINE Tables == [RequestIds -> Row]
<1>a. rows' \in Tables /\ rows \in Tables
  BY <1>1
<1>b. \A rs, ss \in Tables : \A ids \in SUBSET RequestIds :
        (\A a \in ids : rs[a] = ss[a]) => HashOfLast(rs, ids) = HashOfLast(ss, ids)
  BY SameHash
<1> HIDE DEF Tables
<1>2. Live(rows') = Live(rows) \cup {id} /\ id \notin Live(rows)
  BY <1>1 DEF Live
<1>3. \A a \in RequestIds : /\ a \in Nat /\ rows'[a].created \in Int
                            /\ a # id => rows'[a] = rows[a]
  BY <1>1, StoreAssumption DEF Row, Times
<1>4. \A a \in Live(rows) \cup {id} : ~ Before(rows', id, a)
  BY <1>2, <1>3 DEF Before, Precedes, SortKey, Live
<1>5. {a \in Live(rows') : Before(rows', a, id)} = Live(rows)
  BY <1>2, <1>4
<1>6. HashOfLast(rows', Live(rows)) = HashOfLast(rows, Live(rows))
  <2>1. Live(rows) \subseteq RequestIds /\ \A a \in Live(rows) : rows'[a] = rows[a]
    BY <1>2, <1>3 DEF Live
  <2>2. QED
    BY ONLY <1>a, <1>b, <2>1
<1>7. ASSUME NEW x \in RequestIds, x # id
      PROVE  prev[x] = ChainOf(rows')[x]
  <2>1. CASE x \in Live(rows)
    <3> DEFINE earlier == {a \in Live(rows) : Before(rows, a, x)}
    <3>1. \A a \in Live(rows) : Before(rows', a, x) <=> Before(rows, a, x)
      BY <1>2, <1>3, <1>7 DEF Before, SortKey, Live
    <3>2. {a \in Live(rows') : Before(rows', a, x)} = earlier
      BY <1>2, <1>4, <2>1, <3>1
    <3>3. earlier \subseteq RequestIds /\ \A a \in earlier : rows'[a] = rows[a]
      BY <1>2, <1>3 DEF Live
    <3> HIDE DEF earlier
    <3>4. HashOfLast(rows', earlier) = HashOfLast(rows, earlier)
      BY ONLY <1>a, <1>b, <3>3
    <3>5. ChainOf(rows')[x] = HashOfLast(rows', earlier)
      BY <1>2, <2>1, <3>2 DEF ChainOf
    <3>6. ChainOf(rows)[x] = HashOfLast(rows, earlier)
      BY <2>1 DEF ChainOf, earlier
    <3>7. QED
      BY <3>4, <3>5, <3>6 DEF ChainIntact
  <2>2. CASE x \notin Live(rows)
    BY <1>2, <1>7, <2>2 DEF ChainIntact, ChainOf
  <2>3. QED
    BY <2>1, <2>2
<1>8. prev'[id] = ChainOf(rows')[id]
  BY <1>1, <1>2, <1>5, <1>6 DEF ChainOf
<1>9. ChainOf(rows') \in [RequestIds -> Row] /\ prev' \in [RequestIds -> Row]
  <2>1. HashOfLast(rows, Live(rows)) \in Row
    BY <1>1, HashOfLastType DEF Live
  <2>2. QED
    BY <1>1, <2>1, ChainOfType
<1>10. \A x \in RequestIds : prev'[x] = ChainOf(rows')[x]
  BY <1>1, <1>7, <1>8
<1>11. QED
  BY <1>9, <1>10

\* ChainIntact: the store never commits a table whose hash chain fails to
\* verify, whichever row is inserted, changed or deleted in the middle of it.
THEOREM ChainSafety == StoreSpec => []ChainIntact
<1>1. StoreInit => ChainIntact
  <2>1. NoRow.status = "absent"
    BY DEF NoRow, PendingRow
  <2>2. StoreInit => Live(rows) = {}
    BY <2>1 DEF StoreInit, Live
  <2>3. QED
    BY <2>2 DEF StoreInit, ChainIntact, ChainOf
<1>2. StoreInv /\ ChainIntact /\ [StoreNext]_storeVars => ChainIntact'
  <2> SUFFICES ASSUME StoreInv, ChainIntact, StepShape
               PROVE  ChainIntact'
    BY Shapes DEF StoreInv
  <2>1. ASSUME NEW id \in RequestIds, NEW row \in Row, Inserts(id, row)
        PROVE  ChainIntact'
    <3>1. Insert(id, row) /\ row.status # "absent"
      BY <2>1 DEF Inserts, Terminal
    <3>2. CASE \A a \in Live(rows) : Before(rows', a, id)
      BY <3>1, <3>2, AppendedLink DEF Insert, LinkInserted, ChainIntact
    <3>3. CASE ~ \A a \in Live(rows) : Before(rows', a, id)
      BY <3>1, <3>3 DEF Insert, LinkInserted, RebuildChain, ChainIntact
    <3>4. QED
      BY <3>2, <3>3
  <2>2. ASSUME NEW id \in RequestIds, NEW row \in Row, Updates(id, row)
        PROVE  ChainIntact'
    BY <2>2 DEF Updates, Update, RebuildChain, ChainIntact
  <2>3. CASE Expires
    <3>1. CASE Overdue = {}
      <4>1. rows' = rows
        BY <2>3, <3>1 DEF Expires, StoreInv, StoreTypeOK
      <4>2. QED
        BY <2>3, <3>1, <4>1 DEF Expires, ChainIntact
    <3>2. CASE Overdue # {}
      BY <2>3, <3>2 DEF Expires, RebuildChain, ChainIntact
    <3>3. QED
      BY <3>1, <3>2
  <2>4. ASSUME NEW old \in SUBSET RequestIds, Deletes(old)
        PROVE  ChainIntact'
    BY <2>4 DEF Deletes, RebuildChain, ChainIntact
  <2>5. ASSUME NEW id \in RequestIds, NEW playbook \in Playbooks, Claims(id, playbook)
        PROVE  ChainIntact'
    BY <2>5 DEF Claims, ChainIntact
  <2>6. CASE UNCHANGED <<tables, histories>>
    BY <2>6 DEF tables, ChainIntact
  <2>7. QED
    BY <2>1, <2>2, <2>3, <2>4, <2>5, <2>6 DEF StepShape
<1>3. QED
  BY <1>1, <1>2, StoreInvariant, PTL DEF StoreSpec

\* A step never moves a terminal row.
LEMMA TerminalStep ==
  ASSUME StoreInv, StepShape, NEW id \in RequestIds, rows[id].status \in Terminal
  PROVE  \/ rows'[id].status = "absent"
         \/ /\ rows'[id].status = rows[id].status
            /\ rows'[id].decided = rows[id].decided
            /\ rows'[id].result = rows[id].result
            /\ rows'[id].error = rows[id].error
<1> DEFINE Kept == \/ rows'[id].status = "absent"
                   \/ /\ rows'[id].status = rows[id].status
                      /\ rows'[id].decided = rows[id].decided
                      /\ rows'[id].result = rows[id].result
                      /\ rows'[id].error = rows[id].error
<1>1. rows \in [RequestIds -> Row] /\ rows[id].status \notin {"absent", "pending", "approved"}
  BY DEF StoreInv, StoreTypeOK, Terminal
<1>2. ASSUME NEW other \in RequestIds, NEW row \in Row, Inserts(other, row)
      PROVE  Kept
  <2>1. other # id /\ rows' = [rows EXCEPT ![other] = row]
    BY <1>1, <1>2 DEF Inserts, Insert, CanInsert, StoreInv, IssuedInv
  <2>2. QED
    BY <1>1, <2>1
<1>3. ASSUME NEW other \in RequestIds, NEW row \in Row, Updates(other, row)
      PROVE  Kept
  <2>1. rows' = [rows EXCEPT ![other] = row]
    BY <1>3 DEF Updates, Update
  <2>2. CASE other # id
    BY <1>1, <2>1, <2>2
  <2>3. CASE other = id
    <3>1. Annotates(id, row)
      BY <1>1, <1>3, <2>3 DEF Updates, Moves, AllowedTransitions
    <3>2. QED
      BY <1>1, <2>1, <2>3, <3>1 DEF Annotates
  <2>4. QED
    BY <2>2, <2>3
<1>4. CASE Expires
  <2>1. id \notin Overdue
    BY <1>1 DEF Overdue
  <2>2. QED
    BY <1>4, <2>1 DEF Expires
<1>5. ASSUME NEW old \in SUBSET RequestIds, Deletes(old)
      PROVE  Kept
  <2>1. rows'[id] = IF id \in old THEN NoRow ELSE rows[id]
    BY <1>5 DEF Deletes
  <2>2. NoRow.status = "absent"
    BY DEF NoRow, PendingRow
  <2>3. QED
    BY <2>1, <2>2
<1>6. CASE UNCHANGED rows
  BY <1>6
<1>7. QED
  BY <1>2, <1>3, <1>4, <1>5, <1>6 DEF StepShape, Claims, tables

\* TerminalFinal: a terminal verdict is never rewritten, in any interleaving
\* of deciders, recovery and retries.
THEOREM TerminalVerdicts == StoreSpec => TerminalFinal
<1> DEFINE Kept(id) == \/ rows'[id].status = "absent"
                       \/ /\ rows'[id].status = rows[id].status
                          /\ rows'[id].decided = rows[id].decided
                          /\ rows'[id].result = rows[id].result
                          /\ rows'[id].error = rows[id].error
<1>1. StoreInv /\ [StoreNext]_storeVars
        => [\A id \in RequestIds : rows[id].status \in Terminal => Kept(id)]_rows
  BY Shapes, TerminalStep DEF StoreInv
<1>2. QED
  BY <1>1, StoreInvariant, PTL DEF StoreSpec, TerminalFinal

\* ClaimsDurable: a claim outlives its rows, whatever runs afterwards.
THEOREM DurableClaims == StoreSpec => ClaimsDurable
<1> DEFINE Kept(id) == /\ grantClaims[id] # None => grantClaims'[id] = grantClaims[id]
                       /\ redirectClaims[id] # "none" => redirectClaims'[id] = redirectClaims[id]
<1>1. StoreInv /\ StepShape => \A id \in RequestIds : Kept(id)
  <2> SUFFICES ASSUME StoreInv, StepShape, NEW id \in RequestIds
               PROVE  Kept(id)
    OBVIOUS
  <2>1. /\ grantClaims \in [RequestIds -> RequestIds \cup {None}]
        /\ redirectClaims \in [RequestIds -> Playbooks \cup {"none"}]
    BY DEF StoreInv, StoreTypeOK
  <2>2. ASSUME NEW child \in RequestIds, NEW row \in Row, Inserts(child, row)
        PROVE  Kept(id)
    BY <2>1, <2>2 DEF Inserts, Unspent
  <2>3. ASSUME NEW original \in RequestIds, NEW playbook \in Playbooks, Claims(original, playbook)
        PROVE  Kept(id)
    BY <2>1, <2>3 DEF Claims
  <2>4. CASE UNCHANGED <<grantClaims, redirectClaims>>
    BY <2>4
  <2>5. QED
    BY <2>2, <2>3, <2>4 DEF StepShape, Updates, Expires, Deletes, tables
<1>2. StoreInv /\ [StoreNext]_storeVars
        => [\A id \in RequestIds : Kept(id)]_<<grantClaims, redirectClaims>>
  BY <1>1, Shapes DEF StoreInv
<1>3. QED
  BY <1>2, StoreInvariant, PTL DEF StoreSpec, ClaimsDurable

\* DeliveryMonotone: reports of a card's delivery that arrive in any order
\* leave the furthest one in the row.
THEOREM DeliveryOrder == StoreSpec => DeliveryMonotone
<1> DEFINE Kept(id) == rows'[id].status # "absent" =>
                         DeliveryRank[rows[id].delivery] <= DeliveryRank[rows'[id].delivery]
<1>1. StoreInv /\ StepShape => \A id \in RequestIds : Kept(id)
  <2> SUFFICES ASSUME StoreInv, StepShape, NEW id \in RequestIds
               PROVE  Kept(id)
    OBVIOUS
  <2>1. rows \in [RequestIds -> Row]
    BY DEF StoreInv, StoreTypeOK
  <2>2. \A row \in Row : /\ DeliveryRank[row.delivery] \in Nat
                         /\ DeliveryRank["none"] = 0
    BY DEF Row, DeliveryRank
  <2>3. DeliveryRank[rows[id].delivery] <= DeliveryRank[rows[id].delivery]
    BY <2>1, <2>2
  <2>4. ASSUME NEW other \in RequestIds, NEW row \in Row, Inserts(other, row)
        PROVE  Kept(id)
    <3>1. rows' = [rows EXCEPT ![other] = row] /\ rows[other] = NoRow
      BY <2>4 DEF Inserts, Insert, CanInsert, StoreInv, IssuedInv
    <3>2. NoRow.delivery = "none"
      BY DEF NoRow, PendingRow
    <3>3. CASE other = id
      BY <2>1, <2>2, <3>1, <3>2, <3>3
    <3>4. CASE other # id
      BY <2>1, <2>3, <3>1, <3>4
    <3>5. QED
      BY <3>3, <3>4
  <2>5. ASSUME NEW other \in RequestIds, NEW row \in Row, Updates(other, row)
        PROVE  Kept(id)
    <3>1. rows' = [rows EXCEPT ![other] = row]
      BY <2>5 DEF Updates, Update
    <3>2. CASE other = id
      BY <2>1, <2>3, <2>5, <3>1, <3>2 DEF Updates, Moves, Annotates
    <3>3. CASE other # id
      BY <2>1, <2>3, <3>1, <3>3
    <3>4. QED
      BY <3>2, <3>3
  <2>6. CASE Expires
    <3>1. rows'[id].delivery = rows[id].delivery
      BY <2>1, <2>6 DEF Expires, Row
    <3>2. QED
      BY <2>3, <3>1
  <2>7. ASSUME NEW old \in SUBSET RequestIds, Deletes(old)
        PROVE  Kept(id)
    <3>1. rows'[id] = IF id \in old THEN NoRow ELSE rows[id]
      BY <2>7 DEF Deletes
    <3>2. NoRow.status = "absent"
      BY DEF NoRow, PendingRow
    <3>3. QED
      BY <2>3, <3>1, <3>2
  <2>8. CASE UNCHANGED rows
    BY <2>3, <2>8
  <2>9. QED
    BY <2>4, <2>5, <2>6, <2>7, <2>8 DEF StepShape, Claims, tables
<1>2. StoreInv /\ [StoreNext]_storeVars => [\A id \in RequestIds : Kept(id)]_rows
  BY <1>1, Shapes DEF StoreInv
<1>3. QED
  BY <1>2, StoreInvariant, PTL DEF StoreSpec, DeliveryMonotone

-----------------------------------------------------------------------------
(* The store implements the ledger of grants.                              *)

\* Each shape is an Offer, a Spend, a Withdraw or a stutter of the ledger.
LEMMA LedgerSimulation ==
  ASSUME StoreInv, LedgerInv', StepShape
  PROVE  [Ledger!LedgerNext]_(Ledger!ledgerVars)
<1>1. /\ rows \in [RequestIds -> Row] /\ offered \subseteq RequestIds
      /\ grantClaims \in [RequestIds -> RequestIds \cup {None}]
      /\ LedgerInv
  BY DEF StoreInv, StoreTypeOK
<1> DEFINE Stutter == UNCHANGED <<offered, spent>> /\ OpenGrants' = OpenGrants
<1>2. Stutter => [Ledger!LedgerNext]_(Ledger!ledgerVars)
  BY DEF Ledger!ledgerVars
<1>3. ASSUME NEW id \in RequestIds, NEW row \in Row, Inserts(id, row)
      PROVE  [Ledger!LedgerNext]_(Ledger!ledgerVars)
  <2>1. /\ id \notin issued /\ id \notin offered /\ offered' = offered
        /\ rows' = [rows EXCEPT ![id] = row]
    BY <1>1, <1>3 DEF Inserts, Insert, CanInsert, LedgerInv
  <2>2. CASE UNCHANGED <<grantClaims, spent>>
    <3>1. \A g \in offered : rows'[g] = rows[g] /\ grantClaims'[g] = grantClaims[g]
      BY <1>1, <2>1, <2>2
    <3>2. Stutter
      BY <2>1, <2>2, <3>1 DEF OpenGrants
    <3>3. QED
      BY <1>2, <3>2
  <2>3. ASSUME NEW g \in RequestIds, Unspent(g), grantClaims' = [grantClaims EXCEPT ![g] = id],
               spent' = spent \cup {<<g, id>>}
        PROVE  [Ledger!LedgerNext]_(Ledger!ledgerVars)
    <3>1. g \in OpenGrants
      BY <1>1, <2>3 DEF Unspent, LedgerInv, OpenGrants
    <3>2. \A p \in spent : p[2] # id
      BY <1>1, <2>1 DEF LedgerInv
    <3>3. /\ \A h \in offered : rows'[h] = rows[h]
          /\ \A h \in offered \ {g} : grantClaims'[h] = grantClaims[h]
          /\ grantClaims'[g] # None
      BY <1>1, <2>1, <2>3, StoreAssumption DEF None
    <3>4. OpenGrants' = OpenGrants \ {g}
      BY <2>1, <3>1, <3>3 DEF OpenGrants
    <3>5. Ledger!Spend(g, id)
      BY <2>1, <2>3, <3>1, <3>2, <3>4 DEF Ledger!Spend
    <3>6. QED
      BY <3>5 DEF Ledger!LedgerNext
  <2>4. QED
    BY <1>3, <2>2, <2>3 DEF Inserts
<1>4. ASSUME NEW id \in RequestIds, NEW row \in Row, Updates(id, row)
      PROVE  [Ledger!LedgerNext]_(Ledger!ledgerVars)
  <2>1. /\ rows' = [rows EXCEPT ![id] = row]
        /\ UNCHANGED <<grantClaims, issued, spent>>
    BY <1>4 DEF Updates, Update
  <2>2. \A g \in offered \ {id} : rows'[g] = rows[g]
    BY <1>1, <2>1
  <2>3. rows'[id].status = row.status
    BY <1>1, <2>1
  <2>4. CASE UNCHANGED offered /\ (id \in offered => row.status = rows[id].status)
    <3>1. Stutter
      BY <1>1, <2>1, <2>2, <2>3, <2>4 DEF OpenGrants
    <3>2. QED
      BY <1>2, <3>1
  <2>5. CASE UNCHANGED offered /\ id \in offered /\ row.status # rows[id].status
    <3>1. Moves(id, row)
      BY <1>4, <2>5 DEF Updates, Annotates
    <3>2. rows[id].status = "approved" /\ row.status # "approved"
      BY <1>1, <2>5, <3>1 DEF Moves, LedgerInv, AllowedTransitions
    <3>3. CASE grantClaims[id] = None
      <4>1. id \in OpenGrants
        BY <2>5, <3>2, <3>3 DEF OpenGrants
      <4>2. OpenGrants' = OpenGrants \ {id}
        BY <2>1, <2>2, <2>3, <2>5, <3>2 DEF OpenGrants
      <4>3. Ledger!Withdraw(id)
        BY <2>1, <2>5, <4>1, <4>2 DEF Ledger!Withdraw
      <4>4. QED
        BY <4>3 DEF Ledger!LedgerNext
    <3>4. CASE grantClaims[id] # None
      <4>1. Stutter
        BY <2>1, <2>2, <2>3, <2>5, <3>4 DEF OpenGrants
      <4>2. QED
        BY <1>2, <4>1
    <3>5. QED
      BY <3>3, <3>4
  <2>6. CASE offered' # offered
    <3>1. Moves(id, row) /\ row.status = "approved" /\ offered' = offered \cup {id}
      BY <1>4, <2>6 DEF Updates, Moves, Annotates
    <3>2. id \notin offered
      BY <2>6, <3>1
    <3>3. grantClaims[id] = None
      BY <1>1, <3>2 DEF LedgerInv
    <3>4. OpenGrants' = OpenGrants \cup {id}
      BY <2>1, <2>2, <2>3, <3>1, <3>2, <3>3 DEF OpenGrants
    <3>5. Ledger!Offer(id)
      BY <2>1, <3>1, <3>2, <3>4 DEF Ledger!Offer
    <3>6. QED
      BY <3>5 DEF Ledger!LedgerNext
  <2>7. QED
    BY <2>4, <2>5, <2>6
<1>5. CASE Expires
  <2>1. \A id \in offered : rows'[id] = rows[id]
    BY <1>1, <1>5 DEF Expires, Overdue, LedgerInv
  <2>2. Stutter
    BY <1>5, <2>1 DEF Expires, histories, OpenGrants
  <2>3. QED
    BY <1>2, <2>2
<1>6. ASSUME NEW old \in SUBSET RequestIds, Deletes(old)
      PROVE  [Ledger!LedgerNext]_(Ledger!ledgerVars)
  <2>1. \A id \in RequestIds : rows'[id].status = "approved" <=> rows[id].status = "approved"
    BY <1>1, <1>6 DEF Deletes, Terminal, NoRow, PendingRow
  <2>2. Stutter
    BY <1>1, <1>6, <2>1 DEF Deletes, histories, OpenGrants
  <2>3. QED
    BY <1>2, <2>2
<1>7. CASE UNCHANGED <<rows, grantClaims, histories>>
  <2>1. Stutter
    BY <1>7 DEF histories, OpenGrants
  <2>2. QED
    BY <1>2, <2>1
<1>8. QED
  BY <1>3, <1>4, <1>5, <1>6, <1>7 DEF StepShape, Claims, tables

\* ImplementsLedger: read through OpenGrants, every behaviour of the store is a
\* behaviour of the ledger of single-use grants.
THEOREM StoreImplementsLedger == StoreSpec => ImplementsLedger
<1>1. StoreInit => Ledger!LedgerInit
  BY DEF StoreInit, Ledger!LedgerInit, OpenGrants
<1>2. StoreInv /\ StoreInv' /\ [StoreNext]_storeVars => [Ledger!LedgerNext]_(Ledger!ledgerVars)
  BY Shapes, LedgerSimulation DEF StoreInv
<1>3. QED
  BY <1>1, <1>2, StoreInvariant, PTL DEF StoreSpec, ImplementsLedger, Ledger!LedgerSpec
=============================================================================
