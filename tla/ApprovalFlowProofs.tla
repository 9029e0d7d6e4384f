-------------------------- MODULE ApprovalFlowProofs --------------------------
(***************************************************************************)
(* Proofs about ApprovalFlow.  The flow implements the store, so what      *)
(* EvidenceStoreProofs says of the store holds of the flow's rows as well; *)
(* the rest is an invariant about workers, prompts and cancellations.      *)
(***************************************************************************)
EXTENDS ApprovalFlow, EvidenceStoreProofs

-----------------------------------------------------------------------------
(* The workers.                                                            *)

\* Where a worker has no row yet, has one that no decision can reach, or has one.
Rowless == {"new", "queued", "begun", "unfunded"}
Fresh   == {"funded", "written", "bound", "granted", "registers"}
Holding == Places \ (Rowless \cup {"done", "lost"})

\* A worker's clock reading is not older than ClockLag when its insert runs.
ReadingFresh(c) ==
  at[c] \in {"begun", "unfunded"} => created[c] <= now /\ now - created[c] <= ClockLag

WorkerInv ==
  /\ at \in [Calls -> Places] /\ asks \in [Calls -> Requests]
  /\ row \in [Calls -> RequestIds \cup {None}] /\ created \in [Calls -> Times]
  /\ now \in Times
  /\ \A c \in Calls : at[c] \in Holding => row[c] # None
  /\ \A c \in Calls : at[c] \in Rowless => row[c] = None
  /\ \A c \in bound : c \in Calls /\ row[c] # None
  /\ \A c \in Calls : ReadingFresh(c)

\* The steps of a control place that lead anywhere.
Edges ==
  {<<"new", "queued">>, <<"queued", "begun">>, <<"queued", "done">>, <<"begun", "funded">>,
   <<"begun", "unfunded">>, <<"begun", "done">>, <<"unfunded", "written">>, <<"unfunded", "done">>,
   <<"funded", "granted">>, <<"written", "bound">>, <<"bound", "registers">>, <<"bound", "approved">>,
   <<"bound", "done">>, <<"granted", "approved">>, <<"granted", "done">>, <<"registers", "approved">>,
   <<"registers", "done">>, <<"registers", "waits">>, <<"waits", "approved">>, <<"waits", "done">>,
   <<"approved", "sent">>, <<"sent", "links">>, <<"sent", "done">>, <<"links", "done">>}

\* c alone moves, along an edge.
Walks(c) ==
  /\ <<at[c], at'[c]>> \in Edges
  /\ at' = [at EXCEPT ![c] = at'[c]]

\* Goto along an edge is a walk.
LEMMA GotoWalks ==
  ASSUME at \in [Calls -> Places], NEW c \in Calls, NEW from, NEW to,
         Goto(c, from, to), <<from, to>> \in Edges
  PROVE  Walks(c) /\ at[c] = from /\ at'[c] = to
BY DEF Goto, Walks

\* No operation of the store that a call uses moves the clock.
LEMMA ClockKept ==
  ASSUME NEW id,
         \/ \E status \in Outcomes : Retire(id, status) \/ RecordOutcome(id, status)
         \/ Approve(id, "exact")
         \/ Deny(id, "user_denied")
         \/ AnnotateLinkedExecution(id, "executed")
         \/ \E q, t, u : ConsumeExactGrant(id, q, t, u) \/ WritePending(id, q, t, u, None, "none")
         \/ \E p \in Processes : RecoveryStep(p)
         \/ UNCHANGED storeVars
  PROVE  now' = now
<1>1. \A status : Retire(id, status) => now' = now
  BY DEF Retire, Transition
<1>2. \A status : RecordOutcome(id, status) => now' = now
  BY DEF RecordOutcome, Transition
<1>3. Approve(id, "exact") \/ Deny(id, "user_denied") => now' = now
  BY DEF Approve, Deny, Transition
<1>4. AnnotateLinkedExecution(id, "executed") => now' = now
  BY DEF AnnotateLinkedExecution, Annotate
<1>5. \A q, t, u : ConsumeExactGrant(id, q, t, u) => now' = now
  BY DEF ConsumeExactGrant
<1>6. \A q, t, u : WritePending(id, q, t, u, None, "none") => now' = now
  BY DEF WritePending
<1>7. ASSUME NEW p \in Processes, RecoveryStep(p)
      PROVE  now' = now
  BY <1>7 DEF RecoveryStep, ExpireOverdue, ListStale, InvalidateStale, RecoveryFails, Crash
<1>8. UNCHANGED storeVars => now' = now
  BY DEF storeVars
<1>9. QED
  BY <1>1, <1>2, <1>3, <1>4, <1>5, <1>6, <1>7, <1>8

\* The clock alone moves, and no reading becomes too old by it.
ClockMoves ==
  /\ now' \in Times /\ now' = now + 1
  /\ \A c \in Calls : at[c] \in {"begun", "unfunded"} => now - created[c] < ClockLag

\* Only the clock's own step moves the clock.
LEMMA ClockFrame ==
  ASSUME now \in Times, FlowNext
  PROVE  \/ now' = now
         \/ ClockMoves /\ UNCHANGED flowVars
<1>1. ASSUME NEW c \in Calls, Enqueue(c) \/ Cancel(c) \/ TombstoneLapses(c)
      PROVE  now' = now
  BY <1>1, ClockKept, FlowAssumption DEF Enqueue, Cancel, TombstoneLapses, CancelRow
<1>2. ASSUME NEW c \in Calls, RequestStep(c)
      PROVE  now' = now
  <2>1. \A id \in RequestIds : SpendGrant(c, id) \/ WriteRow(c, id) => now' = now
    BY ClockKept DEF SpendGrant, WriteRow
  <2>2. CancelBound(c) \/ ApproveByGrant(c) => now' = now
    BY ClockKept, FlowAssumption DEF CancelBound, CancelRow, ApproveByGrant
  <2>3. BeginCancelled(c) \/ Begin(c) \/ FindNoGrant(c) \/ StoreFull(c) => now' = now
    BY ClockKept DEF BeginCancelled, Begin, FindNoGrant, StoreFull
  <2>4. \A from, to : Bind(c, from, to) => now' = now
    BY ClockKept DEF Bind
  <2>5. Settled(c) \/ PassCheck(c) \/ Register(c) \/ Wake(c) => now' = now
    BY ClockKept DEF Settled, PassCheck, Register, Wake
  <2>6. QED
    BY <1>2, <2>1, <2>2, <2>3, <2>4, <2>5 DEF RequestStep
<1>3. ASSUME NEW c \in Calls, ExecuteStep(c)
      PROVE  now' = now
  BY <1>3, ClockKept DEF ExecuteStep, Forward, Record, LinkParent
<1>4. ASSUME NEW r \in RequestIds, ServerStep(r) \/ \E v \in Verdicts \ {"none"} : Post(r, v)
      PROVE  now' = now
  <2>1. Persist(r) => now' = now
    BY ClockKept DEF Persist
  <2>2. PassDeadline(r) => now' = now
    BY ClockKept, FlowAssumption DEF PassDeadline
  <2>3. WatcherEnds(r) => now' = now
    BY ClockKept DEF WatcherEnds
  <2>4. \A v : Post(r, v) => now' = now
    BY ClockKept DEF Post
  <2>5. QED
    BY <1>4, <2>1, <2>2, <2>3, <2>4 DEF ServerStep
<1>5. ProxyCrash => now' = now
  BY ClockKept DEF ProxyCrash
<1>6. ClockStep => ClockMoves
  BY StoreAssumption DEF ClockStep, Tick, ClockMoves, Times
<1>7. \A p \in Processes : RecoveryStep(p) => now' = now
  BY ClockKept
<1>8. QED
  BY <1>1, <1>2, <1>3, <1>4, <1>5, <1>6, <1>7 DEF FlowNext

\* A call takes a row, which is the only way it comes to have one.
Opens(c, id) ==
  /\ c \in Calls /\ id \in RequestIds
  /\ SpendGrant(c, id) \/ WriteRow(c, id)


\* What a step does to the workers and their rows.
WorkerStep ==
  \/ UNCHANGED <<at, row>>
  \/ \E c \in Calls : Walks(c) /\ at'[c] \notin {"funded", "written"} /\ UNCHANGED row
  \/ \E c \in Calls, id \in RequestIds : Opens(c, id)
  \/ ProxyCrash

\* One worker walks, or opens its row, or all die.
LEMMA WorkerFrame ==
  ASSUME at \in [Calls -> Places], FlowNext
  PROVE  WorkerStep
<1> DEFINE Walk(c) == Walks(c) /\ at'[c] \notin {"funded", "written"} /\ UNCHANGED row
<1>1. ASSUME NEW c \in Calls, NEW from, NEW to, Goto(c, from, to),
             <<from, to>> \in Edges, to \notin {"funded", "written"}, UNCHANGED row
      PROVE  WorkerStep
  BY <1>1, GotoWalks DEF WorkerStep
<1>2. ASSUME NEW c \in Calls, Enqueue(c) \/ Cancel(c) \/ TombstoneLapses(c)
      PROVE  WorkerStep
  <2>1. CASE Enqueue(c)
    BY <1>1, <2>1 DEF Enqueue, Edges
  <2>2. CASE Cancel(c) \/ TombstoneLapses(c)
    BY <2>2 DEF Cancel, TombstoneLapses, worker, WorkerStep
  <2>3. QED
    BY <1>2, <2>1, <2>2
<1>3. ASSUME NEW c \in Calls, RequestStep(c)
      PROVE  WorkerStep
  <2>1. ASSUME NEW id \in RequestIds, SpendGrant(c, id) \/ WriteRow(c, id)
        PROVE  WorkerStep
    BY <2>1 DEF WorkerStep, Opens
  <2>2. CASE BeginCancelled(c)
    BY <1>1, <2>2 DEF BeginCancelled, Answered, Edges
  <2>3. CASE Begin(c)
    BY <1>1, <2>3 DEF Begin, Answered, Edges
  <2>4. CASE FindNoGrant(c)
    BY <1>1, <2>4 DEF FindNoGrant, Edges
  <2>5. CASE StoreFull(c)
    BY <1>1, <2>5 DEF StoreFull, Answered, Edges
  <2>6. CASE Bind(c, "funded", "granted") \/ Bind(c, "written", "bound")
    BY <1>1, <2>6 DEF Bind, Edges
  <2>7. CASE CancelBound(c)
    BY <1>1, <2>7 DEF CancelBound, Answered, Edges
  <2>8. CASE Settled(c)
    BY <1>1, <2>8 DEF Settled, Answered, Edges
  <2>9. CASE ApproveByGrant(c)
    BY <1>1, <2>9 DEF ApproveByGrant, Edges
  <2>10. CASE PassCheck(c)
    BY <1>1, <2>10 DEF PassCheck, Edges
  <2>11. CASE Register(c)
    BY <1>1, <2>11 DEF Register, Answered, Edges
  <2>12. CASE Wake(c)
    BY <1>1, <2>12 DEF Wake, Answered, Edges
  <2>13. QED
    BY <1>3, <2>1, <2>2, <2>3, <2>4, <2>5, <2>6, <2>7, <2>8, <2>9, <2>10, <2>11, <2>12
       DEF RequestStep
<1>4. ASSUME NEW c \in Calls, ExecuteStep(c)
      PROVE  WorkerStep
  <2>1. CASE Forward(c)
    BY <1>1, <2>1 DEF Forward, Edges
  <2>2. ASSUME NEW status, Record(c, status)
        PROVE  WorkerStep
    BY <1>1, <2>2 DEF Record, Answered, Edges
  <2>3. CASE LinkParent(c)
    BY <1>1, <2>3 DEF LinkParent, Answered, Edges
  <2>4. QED
    BY <1>4, <2>1, <2>2, <2>3 DEF ExecuteStep
<1>5. ASSUME NEW r \in RequestIds, ServerStep(r) \/ \E v \in Verdicts \ {"none"} : Post(r, v)
      PROVE  WorkerStep
  BY <1>5 DEF ServerStep, Persist, PassDeadline, WatcherEnds, Post, worker, WorkerStep
<1>6. ASSUME UNCHANGED flowVars
      PROVE  WorkerStep
  BY <1>6 DEF flowVars, worker, WorkerStep
<1>7. QED
  BY <1>2, <1>3, <1>4, <1>5, <1>6 DEF FlowNext, WorkerStep

\* A worker that takes its row.
LEMMA OpensWalks ==
  ASSUME at \in [Calls -> Places], NEW c, NEW id, Opens(c, id)
  PROVE  /\ Walks(c) /\ at[c] \in Rowless /\ at'[c] \in {"funded", "written"}
         /\ row' = [row EXCEPT ![c] = id]
         /\ UNCHANGED <<created, asks, inMemory, forwards, aborted>>
<1>1. CASE SpendGrant(c, id)
  BY <1>1, GotoWalks DEF Opens, SpendGrant, Edges, Rowless
<1>2. CASE WriteRow(c, id)
  BY <1>2, GotoWalks DEF Opens, WriteRow, Edges, Rowless
<1>3. QED
  BY <1>1, <1>2 DEF Opens

\* The places of the workers keep their types, and a worker has a row exactly
\* from its insert on.
LEMMA PlacesStep ==
  ASSUME WorkerInv, WorkerStep
  PROVE  /\ at' \in [Calls -> Places] /\ row' \in [Calls -> RequestIds \cup {None}]
         /\ \A c \in Calls : at'[c] \in Holding => row'[c] # None
         /\ \A c \in Calls : at'[c] \in Rowless => row'[c] = None
         /\ \A c \in Calls : row[c] # None => row'[c] = row[c]
<1> USE DEF WorkerInv
<1>1. CASE UNCHANGED <<at, row>>
  BY <1>1
<1>2. ASSUME NEW c \in Calls, Walks(c), at'[c] \notin {"funded", "written"}, UNCHANGED row
      PROVE  /\ at' \in [Calls -> Places]
             /\ \A d \in Calls : at'[d] \in Holding => row'[d] # None
             /\ \A d \in Calls : at'[d] \in Rowless => row'[d] = None
  <2>1. /\ at'[c] \in Places
        /\ at'[c] \in Holding => at[c] \in Holding
        /\ at'[c] \in Rowless => at[c] \in Rowless
    BY <1>2 DEF Walks, Edges, Places, Rowless, Holding
  <2>2. \A d \in Calls \ {c} : at'[d] = at[d]
    BY <1>2 DEF Walks
  <2>3. at' \in [Calls -> Places]
    BY <1>2, <2>1 DEF Walks
  <2>4. QED
    BY <1>2, <2>1, <2>2, <2>3
<1>3. ASSUME NEW c \in Calls, NEW id \in RequestIds, Opens(c, id)
      PROVE  /\ at' \in [Calls -> Places] /\ row' \in [Calls -> RequestIds \cup {None}]
             /\ \A d \in Calls : at'[d] \in Holding => row'[d] # None
             /\ \A d \in Calls : at'[d] \in Rowless => row'[d] = None
             /\ \A d \in Calls : row[d] # None => row'[d] = row[d]
  <2>1. /\ Walks(c) /\ at[c] \in Rowless /\ at'[c] \in {"funded", "written"}
        /\ row' = [row EXCEPT ![c] = id]
    BY <1>3, OpensWalks
  <2>2. id # None
    BY StoreAssumption DEF None
  <2>3. \A d \in Calls \ {c} : at'[d] = at[d] /\ row'[d] = row[d]
    BY <2>1 DEF Walks
  <2>4. at' \in [Calls -> Places] /\ row' \in [Calls -> RequestIds \cup {None}] /\ row'[c] = id
    BY <2>1 DEF Walks, Places
  <2>5. at'[c] \notin Rowless
    BY <2>1 DEF Rowless
  <2>6. QED
    BY <2>1, <2>2, <2>3, <2>4, <2>5
<1>4. CASE ProxyCrash
  <2>1. \A c \in Calls : at'[c] = IF at[c] \in {"new", "done"} THEN at[c] ELSE "lost"
    BY <1>4 DEF ProxyCrash
  <2>2. at' \in [Calls -> Places] /\ row' = row
    BY <1>4 DEF ProxyCrash, Places
  <2>3. QED
    BY <2>1, <2>2 DEF Holding, Rowless
<1>5. QED
  BY <1>1, <1>2, <1>3, <1>4 DEF WorkerStep

\* What a step does to the clock readings.
ReadingStep ==
  \/ UNCHANGED created /\ \A c \in Calls :
       at'[c] \in {"begun", "unfunded"} => at[c] \in {"begun", "unfunded"}
  \/ \E c \in Calls : Walks(c) /\ created' = [created EXCEPT ![c] = now]

\* A reading is taken when a call begins and at no other time.
LEMMA ReadingFrame ==
  ASSUME at \in [Calls -> Places], FlowNext
  PROVE  ReadingStep /\ UNCHANGED asks
<1>1. ASSUME NEW c \in Calls, NEW from, NEW to, Goto(c, from, to),
             from \in {"begun", "unfunded"} \/ to \notin {"begun", "unfunded"}, UNCHANGED created
      PROVE  ReadingStep
  BY <1>1 DEF Goto, ReadingStep
<1>2. UNCHANGED <<at, created>> => ReadingStep
  BY DEF ReadingStep
<1>3. ASSUME NEW c \in Calls, Enqueue(c) \/ Cancel(c) \/ TombstoneLapses(c)
      PROVE  ReadingStep /\ UNCHANGED asks
  BY <1>1, <1>2, <1>3 DEF Enqueue, Cancel, TombstoneLapses, worker
<1>4. ASSUME NEW c \in Calls, RequestStep(c)
      PROVE  ReadingStep /\ UNCHANGED asks
  <2>1. ASSUME NEW id \in RequestIds, SpendGrant(c, id) \/ WriteRow(c, id)
        PROVE  ReadingStep /\ UNCHANGED asks
    BY <1>1, <2>1 DEF SpendGrant, WriteRow
  <2>2. CASE BeginCancelled(c) \/ FindNoGrant(c) \/ StoreFull(c)
    BY <1>1, <2>2 DEF BeginCancelled, FindNoGrant, StoreFull, Answered
  <2>3. CASE Begin(c)
    <3>1. \/ Goto(c, "queued", "begun")
          \/ Goto(c, "queued", "done")
      BY <2>3 DEF Begin, Answered
    <3>2. Walks(c)
      BY <3>1, GotoWalks DEF Edges
    <3>3. QED
      BY <2>3, <3>2 DEF Begin, ReadingStep
  <2>4. CASE Bind(c, "funded", "granted") \/ Bind(c, "written", "bound")
    BY <1>1, <2>4 DEF Bind
  <2>5. CASE CancelBound(c) \/ Settled(c) \/ ApproveByGrant(c)
    BY <1>1, <2>5 DEF CancelBound, Settled, ApproveByGrant, Answered
  <2>6. CASE PassCheck(c) \/ Register(c) \/ Wake(c)
    BY <1>1, <2>6 DEF PassCheck, Register, Wake, Answered
  <2>7. QED
    BY <1>4, <2>1, <2>2, <2>3, <2>4, <2>5, <2>6 DEF RequestStep
<1>5. ASSUME NEW c \in Calls, ExecuteStep(c)
      PROVE  ReadingStep /\ UNCHANGED asks
  BY <1>1, <1>5 DEF ExecuteStep, Forward, Record, LinkParent, Answered
<1>6. ASSUME NEW r \in RequestIds, ServerStep(r) \/ \E v \in Verdicts \ {"none"} : Post(r, v)
      PROVE  ReadingStep /\ UNCHANGED asks
  BY <1>2, <1>6 DEF ServerStep, Persist, PassDeadline, WatcherEnds, Post, worker
<1>7. ASSUME UNCHANGED flowVars
      PROVE  ReadingStep /\ UNCHANGED asks
  BY <1>2, <1>7 DEF flowVars, worker
<1>8. CASE ProxyCrash
  BY <1>8 DEF ProxyCrash, ReadingStep
<1>9. QED
  BY <1>3, <1>4, <1>5, <1>6, <1>7, <1>8 DEF FlowNext

\* What a step does to the bindings.
BindingStep == bound' \subseteq bound \/ \E c \in Calls : at[c] \in Holding /\ bound' = bound \cup {c}

\* A binding appears for a call that has its row.
LEMMA BindingFrame ==
  ASSUME FlowNext
  PROVE  BindingStep
<1>1. UNCHANGED bound => BindingStep
  BY DEF BindingStep
<1>2. \A S : bound' = bound \ S => BindingStep
  BY DEF BindingStep
<1>3. ASSUME NEW c \in Calls, Enqueue(c) \/ Cancel(c) \/ TombstoneLapses(c)
      PROVE  BindingStep
  BY <1>1, <1>2, <1>3 DEF Enqueue, Cancel, TombstoneLapses
<1>4. ASSUME NEW c \in Calls, RequestStep(c)
      PROVE  BindingStep
  <2>1. CASE Bind(c, "funded", "granted") \/ Bind(c, "written", "bound")
    BY <2>1 DEF Bind, Goto, BindingStep, Holding, Places, Rowless
  <2>2. CASE CancelBound(c) \/ ApproveByGrant(c)
    BY <1>2, <2>2 DEF CancelBound, ApproveByGrant
  <2>3. ASSUME NEW id \in RequestIds, SpendGrant(c, id) \/ WriteRow(c, id)
        PROVE  BindingStep
    BY <1>1, <2>3 DEF SpendGrant, WriteRow, inMemory
  <2>4. CASE BeginCancelled(c) \/ Begin(c) \/ FindNoGrant(c) \/ StoreFull(c)
    BY <1>1, <2>4 DEF BeginCancelled, Begin, FindNoGrant, StoreFull, inMemory
  <2>5. CASE Settled(c) \/ PassCheck(c) \/ Register(c) \/ Wake(c)
    BY <1>1, <2>5 DEF Settled, PassCheck, Register, Wake, inMemory
  <2>6. QED
    BY <1>4, <2>1, <2>2, <2>3, <2>4, <2>5 DEF RequestStep
<1>5. ASSUME NEW c \in Calls, ExecuteStep(c)
      PROVE  BindingStep
  BY <1>1, <1>5 DEF ExecuteStep, Forward, Record, LinkParent, inMemory
<1>6. ASSUME NEW r \in RequestIds, ServerStep(r) \/ \E v \in Verdicts \ {"none"} : Post(r, v)
      PROVE  BindingStep
  BY <1>1, <1>2, <1>6 DEF ServerStep, Persist, PassDeadline, WatcherEnds, Post
<1>7. ASSUME UNCHANGED flowVars
      PROVE  BindingStep
  BY <1>1, <1>7 DEF flowVars, inMemory
<1>8. CASE ProxyCrash
  BY <1>8 DEF ProxyCrash, BindingStep
<1>9. QED
  BY <1>3, <1>4, <1>5, <1>6, <1>7, <1>8 DEF FlowNext

\* WorkerInv is inductive.
LEMMA WorkerStepOK == WorkerInv /\ [FlowNext]_<<storeVars, flowVars>> => WorkerInv'
<1> SUFFICES ASSUME WorkerInv, [FlowNext]_<<storeVars, flowVars>>
             PROVE  WorkerInv'
  OBVIOUS
<1>1. CASE UNCHANGED <<storeVars, flowVars>>
  BY <1>1 DEF storeVars, flowVars, worker, inMemory, WorkerInv, ReadingFresh
<1>2. CASE FlowNext
  <2>1. /\ at' \in [Calls -> Places] /\ row' \in [Calls -> RequestIds \cup {None}]
        /\ \A c \in Calls : at'[c] \in Holding => row'[c] # None
        /\ \A c \in Calls : at'[c] \in Rowless => row'[c] = None
        /\ \A c \in Calls : row[c] # None => row'[c] = row[c]
    BY <1>2, WorkerFrame, PlacesStep DEF WorkerInv
  <2>2. BindingStep
    BY <1>2, BindingFrame
  <2>3. \A c \in bound' : c \in Calls /\ row'[c] # None
    BY <2>1, <2>2 DEF BindingStep, WorkerInv
  <2>4. ReadingStep /\ asks' = asks
    BY <1>2, ReadingFrame DEF WorkerInv
  <2>5. created' \in [Calls -> Times]
    BY <2>4 DEF ReadingStep, WorkerInv
  <2>6. \/ now' = now
        \/ ClockMoves /\ UNCHANGED flowVars
    BY <1>2, ClockFrame DEF WorkerInv
  <2>7. now' \in Times
    BY <2>6 DEF ClockMoves, WorkerInv
  <2>8. ASSUME NEW c \in Calls
        PROVE  ReadingFresh(c)'
    <3>1. /\ now \in Nat /\ created[c] \in Nat /\ ClockLag \in Nat
          /\ ReadingFresh(c)
      BY StoreAssumption DEF WorkerInv, Times
    <3>2. CASE now' = now
      <4>1. ASSUME NEW d \in Calls, Walks(d), created' = [created EXCEPT ![d] = now]
            PROVE  ReadingFresh(c)'
        <5>1. CASE c = d
          BY <3>1, <3>2, <4>1, <5>1 DEF ReadingFresh, WorkerInv
        <5>2. CASE c # d
          <6>1. at'[c] = at[c] /\ created'[c] = created[c]
            BY <4>1, <5>2 DEF WorkerInv, Walks
          <6>2. QED
            BY <3>1, <3>2, <6>1 DEF ReadingFresh
        <5>3. QED
          BY <5>1, <5>2
      <4>2. QED
        BY <2>4, <3>1, <3>2, <4>1 DEF ReadingStep, ReadingFresh
    <3>3. CASE ClockMoves /\ UNCHANGED flowVars
      BY <3>1, <3>3 DEF ClockMoves, flowVars, worker, ReadingFresh
    <3>4. QED
      BY <2>6, <3>2, <3>3
  <2>9. QED
    BY <2>1, <2>3, <2>4, <2>5, <2>7, <2>8 DEF WorkerInv
<1>3. QED
  BY <1>1, <1>2

\* WorkerInv holds in every reachable state.
LEMMA WorkerInvariant == FlowSpec => []WorkerInv
<1>1. FlowInit => WorkerInv
  <2> SUFFICES ASSUME FlowInit
               PROVE  WorkerInv
    OBVIOUS
  <2>1. now = 0 /\ 0 \in Times
    BY StoreAssumption DEF FlowInit, StoreInit, Times
  <2>2. \A c \in Calls : at[c] = "new" /\ row[c] = None
    BY DEF FlowInit
  <2>3. at \in [Calls -> Places] /\ row \in [Calls -> RequestIds \cup {None}]
    BY DEF FlowInit, Places
  <2>4. asks \in [Calls -> Requests] /\ created \in [Calls -> Times] /\ bound = {}
    BY <2>1 DEF FlowInit
  <2>5. QED
    BY <2>1, <2>2, <2>3, <2>4 DEF WorkerInv, ReadingFresh, Holding, Rowless
<1>2. QED
  BY <1>1, WorkerStepOK, PTL DEF FlowSpec

-----------------------------------------------------------------------------
(* The flow implements the store.                                          *)

\* The operations of the flow on one row are operations of the store.
LEMMA RowOperations ==
  ASSUME NEW r \in RequestIds
  PROVE  /\ CancelRow(r) => RowStep(r) \/ UNCHANGED storeVars
         /\ Retire(r, "expired") => RowStep(r)
         /\ Approve(r, "exact") => RowStep(r)
         /\ Deny(r, "user_denied") => RowStep(r)
         /\ \A status \in Outcomes \cap {"executed", "blocked", "error"} :
              RecordOutcome(r, status) => RowStep(r)
         /\ AnnotateLinkedExecution(r, "executed") => RowStep(r)
BY FlowAssumption DEF CancelRow, RowStep

\* So are its two inserts.
LEMMA InsertOperations ==
  ASSUME WorkerInv, NEW c \in Calls, NEW id \in RequestIds, SpendGrant(c, id) \/ WriteRow(c, id)
  PROVE  InsertStep(id)
<1>1. asks[c] \in Requests
  BY DEF WorkerInv
<1>2. at[c] \in {"begun", "unfunded"}
  BY DEF SpendGrant, WriteRow, Goto
<1>3. created[c] \in CallerTimes
  BY <1>2 DEF WorkerInv, ReadingFresh, CallerTimes
<1>4. created[c] + Timeout \in Deadlines(created[c])
  BY DEF Deadlines
<1>5. "none" \in Metadata \ {"target_reached"} /\ None \in RequestIds \cup {None}
  BY StoreAssumption
<1>6. CASE SpendGrant(c, id)
  BY <1>1, <1>3, <1>4, <1>6 DEF SpendGrant, InsertStep
<1>7. CASE WriteRow(c, id)
  <2>1. WritePending(id, asks[c], created[c], created[c] + Timeout, None, "none")
    BY <1>7 DEF WriteRow
  <2>2. QED
    BY <1>1, <1>3, <1>4, <1>5, <2>1 DEF InsertStep
<1>8. QED
  BY <1>6, <1>7

\* Every step of the flow is a step of the store or leaves it alone.
LEMMA StoreSimulation == WorkerInv /\ [FlowNext]_<<storeVars, flowVars>> => [StoreNext]_storeVars
<1> SUFFICES ASSUME WorkerInv, [FlowNext]_<<storeVars, flowVars>>
             PROVE  [StoreNext]_storeVars
  OBVIOUS
<1>1. \A r \in RequestIds : RowStep(r) \/ InsertStep(r) => StoreNext
  BY DEF StoreNext
<1>2. \A c \in Calls : c \in bound \/ at[c] \in Holding => row[c] \in RequestIds
  BY DEF WorkerInv
<1>3. ASSUME NEW c \in Calls, Enqueue(c) \/ Cancel(c) \/ TombstoneLapses(c)
      PROVE  [StoreNext]_storeVars
  BY <1>1, <1>2, <1>3, RowOperations DEF Enqueue, Cancel, TombstoneLapses
<1>4. ASSUME NEW c \in Calls, RequestStep(c)
      PROVE  [StoreNext]_storeVars
  <2>1. ASSUME NEW id \in RequestIds, SpendGrant(c, id) \/ WriteRow(c, id)
        PROVE  [StoreNext]_storeVars
    BY <1>1, <2>1, InsertOperations
  <2>2. CASE CancelBound(c) \/ ApproveByGrant(c)
    <3>1. at[c] \in Holding
      BY <2>2 DEF CancelBound, ApproveByGrant, Goto, Holding, Places, Rowless
    <3>2. QED
      BY <1>1, <1>2, <2>2, <3>1, RowOperations DEF CancelBound, ApproveByGrant
  <2>3. CASE BeginCancelled(c) \/ Begin(c) \/ FindNoGrant(c) \/ StoreFull(c)
    BY <2>3 DEF BeginCancelled, Begin, FindNoGrant, StoreFull
  <2>4. CASE Bind(c, "funded", "granted") \/ Bind(c, "written", "bound")
    BY <2>4 DEF Bind
  <2>5. CASE Settled(c) \/ PassCheck(c) \/ Register(c) \/ Wake(c)
    BY <2>5 DEF Settled, PassCheck, Register, Wake
  <2>6. QED
    BY <1>4, <2>1, <2>2, <2>3, <2>4, <2>5 DEF RequestStep
<1>5. ASSUME NEW c \in Calls, ExecuteStep(c)
      PROVE  [StoreNext]_storeVars
  <2>1. CASE Forward(c)
    BY <2>1 DEF Forward
  <2>2. ASSUME NEW status \in Outcomes \cap {"executed", "blocked", "error"}, Record(c, status)
        PROVE  [StoreNext]_storeVars
    <3>1. at[c] \in Holding
      BY <2>2 DEF Record, Holding, Places, Rowless
    <3>2. RecordOutcome(row[c], status) \/ UNCHANGED storeVars
      BY <2>2 DEF Record
    <3>3. QED
      BY <1>1, <1>2, <3>1, <3>2, RowOperations
  <2>3. CASE LinkParent(c)
    <3> DEFINE parent == rows[row[c]].grantedBy
    <3>1. CASE UNCHANGED storeVars
      BY <3>1
    <3>2. CASE AnnotateLinkedExecution(parent, "executed")
      <4>1. parent \in RequestIds
        BY <3>2 DEF AnnotateLinkedExecution, Annotate, Live
      <4>2. QED
        BY <1>1, <3>2, <4>1, RowOperations
    <3>3. QED
      BY <2>3, <3>1, <3>2 DEF LinkParent
  <2>4. QED
    BY <1>5, <2>1, <2>2, <2>3 DEF ExecuteStep
<1>6. ASSUME NEW r \in RequestIds, ServerStep(r) \/ \E v \in Verdicts \ {"none"} : Post(r, v)
      PROVE  [StoreNext]_storeVars
  <2>1. Persist(r) => [StoreNext]_storeVars
    BY <1>1, RowOperations DEF Persist
  <2>2. PassDeadline(r) => [StoreNext]_storeVars
    BY <1>1, RowOperations DEF PassDeadline
  <2>3. WatcherEnds(r) \/ (\E v : Post(r, v)) => [StoreNext]_storeVars
    BY DEF WatcherEnds, Post
  <2>4. QED
    BY <1>6, <2>1, <2>2, <2>3 DEF ServerStep
<1>7. ProxyCrash => [StoreNext]_storeVars
  BY DEF ProxyCrash
<1>8. ClockStep \/ (\E p \in Processes : RecoveryStep(p)) => StoreNext
  BY DEF ClockStep, StoreNext
<1>9. CASE UNCHANGED <<storeVars, flowVars>>
  BY <1>9
<1>10. QED
  BY <1>3, <1>4, <1>5, <1>6, <1>7, <1>8, <1>9 DEF FlowNext

\* The flow uses the store only through its operations, for any number of
\* calls, crashes and retries.
THEOREM FlowImplementsStore == FlowSpec => ImplementsStore
<1>1. FlowInit => StoreInit
  BY DEF FlowInit
<1>2. QED
  BY <1>1, StoreSimulation, WorkerInvariant, PTL DEF FlowSpec, StoreSpec, ImplementsStore

-----------------------------------------------------------------------------
(* What a step of the flow does to the rows.                               *)

\* A row can only be approved by a posted decision or by the call whose grant pays for it.
MayApprove(id) ==
  \/ posted[id] # "none"
  \/ \E c \in Calls : row[c] = id /\ at[c] = "granted" /\ at'[c] = "approved"

\* The status of a row stays or moves on.
StatusStep(id) ==
  \/ rows'[id].status = rows[id].status
  \/ rows[id].status \in {"pending", "approved"} /\ rows'[id].status \in Terminal
  \/ rows[id].status = "pending" /\ rows'[id].status = "approved" /\ MayApprove(id)

RowsSettle ==
  /\ UNCHANGED <<row, issued, spent>>
  /\ \A id \in RequestIds : rows'[id].grantedBy = rows[id].grantedBy /\ StatusStep(id)

\* Call c takes the fresh row id, paid for by a grant or not.
RowsOpen(c, id) ==
  /\ Opens(c, id)
  /\ id \notin issued /\ issued' = issued \cup {id}
  /\ rows'[id].status = "pending"
  /\ \A other \in RequestIds \ {id} : rows'[other] = rows[other]
  /\ \/ rows'[id].grantedBy = None /\ UNCHANGED spent /\ at'[c] = "written"
     \/ rows'[id].grantedBy # None /\ spent' = spent \cup {<<rows'[id].grantedBy, id>>}
        /\ at'[c] = "funded"

\* A transition moves its own row only.
LEMMA TransitionEffect ==
  ASSUME StoreTypeOK, NEW r \in RequestIds, NEW status, NEW new \in Row,
         new.grantedBy = rows[r].grantedBy, Transition(r, status, new)
  PROVE  /\ UNCHANGED <<issued, spent>>
         /\ status \in AllowedTransitions(rows[r].status)
         /\ rows'[r].status = status /\ rows'[r].grantedBy = rows[r].grantedBy
         /\ \A id \in RequestIds \ {r} : rows'[id] = rows[id]
<1>1. rows' = [rows EXCEPT ![r] = [new EXCEPT !.status = status]]
  BY DEF Transition, Update
<1>2. rows \in [RequestIds -> Row]
  BY DEF StoreTypeOK
<1>3. /\ [new EXCEPT !.status = status].status = status
      /\ [new EXCEPT !.status = status].grantedBy = new.grantedBy
  BY DEF Row
<1>4. QED
  BY <1>1, <1>2, <1>3 DEF Transition

\* The status a row operation leaves behind.
Moved(r, status) ==
  /\ UNCHANGED <<issued, spent>>
  /\ status \in AllowedTransitions(rows[r].status)
  /\ rows'[r].status = status /\ rows'[r].grantedBy = rows[r].grantedBy
  /\ \A id \in RequestIds \ {r} : rows'[id] = rows[id]

\* The effect of each operation the flow uses on a row of its own.
LEMMA OperationEffects ==
  ASSUME StoreTypeOK, NEW r \in RequestIds
  PROVE  /\ \A status \in {"cancelled", "expired"} : Retire(r, status) => Moved(r, status)
         /\ Approve(r, "exact") => Moved(r, "approved")
         /\ Deny(r, "user_denied") => Moved(r, "denied")
         /\ \A status \in {"executed", "blocked", "error"} :
              RecordOutcome(r, status) => Moved(r, status)
<1>1. rows[r] \in Row /\ now \in Times /\ rows[r].error \in Errors
  BY DEF StoreTypeOK, Row
<1>2. ASSUME NEW status \in {"cancelled", "expired"}, Retire(r, status)
      PROVE  Moved(r, status)
  <2> DEFINE new == [rows[r] EXCEPT !.error = RetireError(status)]
  <2>1. new \in Row /\ new.grantedBy = rows[r].grantedBy
    BY <1>1 DEF Row, RetireError, Errors
  <2>2. Transition(r, status, new)
    BY <1>2 DEF Retire
  <2> HIDE DEF new
  <2>3. QED
    BY <2>1, <2>2, TransitionEffect DEF Moved
<1>3. ASSUME Approve(r, "exact")
      PROVE  Moved(r, "approved")
  <2> DEFINE new == [rows[r] EXCEPT !.decided = now, !.scope = "exact", !.scopeUntil = None]
  <2>1. new \in Row /\ new.grantedBy = rows[r].grantedBy
    BY <1>1 DEF Row
  <2>2. Transition(r, "approved", new)
    BY <1>3 DEF Approve
  <2> HIDE DEF new
  <2>3. QED
    BY <2>1, <2>2, TransitionEffect DEF Moved
<1>4. ASSUME Deny(r, "user_denied")
      PROVE  Moved(r, "denied")
  <2> DEFINE new == [rows[r] EXCEPT !.decided = now, !.scope = "exact", !.error = "user_denied"]
  <2>1. new \in Row
    BY <1>1, RowDenied
  <2>2. new.grantedBy = rows[r].grantedBy
    BY <1>1 DEF Row
  <2>3. Transition(r, "denied", new)
    BY <1>4 DEF Deny
  <2> HIDE DEF new
  <2>4. QED
    BY <2>1, <2>2, <2>3, TransitionEffect DEF Moved
<1>5. ASSUME NEW status \in {"executed", "blocked", "error"}, RecordOutcome(r, status)
      PROVE  Moved(r, status)
  <2> DEFINE error == IF status = "executed" THEN rows[r].error ELSE "failed"
             new   == [rows[r] EXCEPT !.result = status, !.error = error]
  <2>1. status \in Results /\ error \in Errors
    BY <1>1 DEF Results, Errors
  <2>2. Transition(r, status, new)
    BY <1>5 DEF RecordOutcome
  <2> HIDE DEF error
  <2>3. new \in Row
    BY <1>1, <2>1, RowUpdates DEF Statuses
  <2>4. new.grantedBy = rows[r].grantedBy
    BY <1>1 DEF Row
  <2> HIDE DEF new
  <2>5. QED
    BY <2>2, <2>3, <2>4, TransitionEffect DEF Moved
<1>6. QED
  BY <1>2, <1>3, <1>4, <1>5

\* A row that moves to a terminal status, or is approved as it may be, settles.
LEMMA MovedSettles ==
  ASSUME NEW r \in RequestIds, NEW status, Moved(r, status), UNCHANGED row,
         status \in Terminal \/ (status = "approved" /\ MayApprove(r))
  PROVE  RowsSettle
<1>1. StatusStep(r)
  BY DEF Moved, StatusStep, AllowedTransitions, Statuses, Terminal
<1>2. QED
  BY <1>1 DEF Moved, RowsSettle, StatusStep

\* A step that leaves the store's rows alone settles them.
LEMMA QuietSettles ==
  ASSUME UNCHANGED <<row, rows, issued, spent>>
  PROVE  RowsSettle
BY DEF RowsSettle, StatusStep

\* An annotation keeps every status.
LEMMA AnnotateSettles ==
  ASSUME StoreTypeOK, NEW r \in RequestIds, AnnotateLinkedExecution(r, "executed"), UNCHANGED row
  PROVE  RowsSettle
<1>1. /\ rows' = [rows EXCEPT ![r] = [rows[r] EXCEPT !.result = "executed"]]
      /\ UNCHANGED <<issued, spent>>
  BY DEF AnnotateLinkedExecution, Annotate, Update, histories
<1>2. rows[r] \in Row /\ rows \in [RequestIds -> Row]
  BY DEF StoreTypeOK
<1>3. /\ [rows[r] EXCEPT !.result = "executed"].status = rows[r].status
      /\ [rows[r] EXCEPT !.result = "executed"].grantedBy = rows[r].grantedBy
  BY <1>2 DEF Row
<1>4. QED
  BY <1>1, <1>2, <1>3 DEF RowsSettle, StatusStep

\* The recovery of another process closes rows.
LEMMA RecoverySettles ==
  ASSUME StoreTypeOK, NEW p \in Processes, RecoveryStep(p), UNCHANGED row
  PROVE  RowsSettle
<1>1. rows \in [RequestIds -> Row] /\ recovery[p].listed \subseteq Times \X RequestIds
  BY DEF StoreTypeOK
<1>2. CASE ExpireOverdue(p)
  <2>1. ASSUME NEW id \in RequestIds
        PROVE  rows'[id].grantedBy = rows[id].grantedBy /\ StatusStep(id)
    <3>1. rows[id] \in Row
      BY <1>1
    <3>2. rows'[id] = IF id \in Overdue
                      THEN [rows[id] EXCEPT !.status = "expired", !.error = "approval_expired"]
                      ELSE rows[id]
      BY <1>2 DEF ExpireOverdue
    <3>3. id \in Overdue => rows[id].status = "pending"
      BY DEF Overdue
    <3>4. QED
      BY <3>1, <3>2, <3>3 DEF StatusStep, Row, Terminal
  <2>2. QED
    BY <1>2, <2>1 DEF ExpireOverdue, RowsSettle, histories
<1>3. ASSUME NEW key \in recovery[p].listed, InvalidateStale(p, key)
      PROVE  RowsSettle
  <2> DEFINE id  == key[2]
             new == [rows[id] EXCEPT !.status = "invalidated", !.error = "approval_stale"]
  <2>1. id \in RequestIds
    BY <1>1
  <2>2. new.status = "invalidated" /\ new.grantedBy = rows[id].grantedBy
    BY <1>1, <2>1 DEF Row
  <2>3. /\ rows' = [rows EXCEPT ![id] = new] /\ UNCHANGED <<issued, spent>>
        /\ "invalidated" \in AllowedTransitions(rows[id].status)
    BY <1>3 DEF InvalidateStale, Update, histories
  <2> HIDE DEF id, new
  <2>4. Moved(id, "invalidated")
    BY <1>1, <2>1, <2>2, <2>3 DEF Moved
  <2>5. "invalidated" \in Terminal
    BY DEF Terminal
  <2>6. QED
    BY <2>1, <2>4, <2>5, MovedSettles
<1>4. CASE UNCHANGED <<tables, now, histories>>
  BY <1>4, QuietSettles DEF tables, histories
<1>5. ListStale(p) \/ Crash(p) \/ (\E key \in recovery[p].listed : RecoveryFails(p, key))
        => UNCHANGED <<tables, now, histories>>
  BY DEF ListStale, RecoveryFails, Crash
<1>6. QED
  BY <1>2, <1>3, <1>4, <1>5 DEF RecoveryStep

\* An insert of the flow opens a row.
LEMMA OpensRow ==
  ASSUME StoreTypeOK, WorkerInv, NEW c \in Calls, NEW id \in RequestIds, Opens(c, id)
  PROVE  RowsOpen(c, id)
<1>1. rows \in [RequestIds -> Row]
  BY DEF StoreTypeOK
<1>2. ASSUME NEW g, NEW q, NEW t, NEW u,
             Insert(id, PendingRow(q, t, u, g, "queued", "none"))
      PROVE  /\ id \notin issued /\ issued' = issued \cup {id}
             /\ rows'[id].status = "pending" /\ rows'[id].grantedBy = g
             /\ \A other \in RequestIds \ {id} : rows'[other] = rows[other]
  BY <1>1, <1>2 DEF Insert, CanInsert, PendingRow
<1>3. CASE SpendGrant(c, id)
  <2>1. PICK g \in ActiveExactGrants(asks[c], created[c]) :
          /\ Insert(id, PendingRow(asks[c], created[c], created[c] + Timeout, g, "queued", "none"))
          /\ spent' = spent \cup {<<g, id>>}
    BY <1>3 DEF SpendGrant, ConsumeExactGrant
  <2>2. g # None
    BY StoreAssumption DEF ActiveExactGrants, None
  <2>3. at'[c] = "funded"
    BY <1>3 DEF SpendGrant, Goto, WorkerInv
  <2>4. QED
    BY <1>2, <2>1, <2>2, <2>3 DEF RowsOpen
<1>4. CASE WriteRow(c, id)
  <2>1. /\ Insert(id, PendingRow(asks[c], created[c], created[c] + Timeout, None, "queued", "none"))
        /\ spent' = spent
    BY <1>4 DEF WriteRow, WritePending
  <2>2. at'[c] = "written"
    BY <1>4 DEF WriteRow, Goto, WorkerInv
  <2>3. QED
    BY <1>2, <2>1, <2>2 DEF RowsOpen
<1>5. QED
  BY <1>3, <1>4 DEF Opens

\* Every step settles the rows or opens one.
LEMMA RowsFrame ==
  ASSUME StoreTypeOK, WorkerInv, FlowNext
  PROVE  RowsSettle \/ \E c \in Calls, id \in RequestIds : RowsOpen(c, id)
<1>1. UNCHANGED <<storeVars, row>> => RowsSettle
  BY QuietSettles DEF storeVars, tables, histories
<1>2. \A c \in Calls : c \in bound \/ at[c] \in Holding => row[c] \in RequestIds
  BY DEF WorkerInv
<1>3. ASSUME NEW r \in RequestIds, UNCHANGED row, CancelRow(r) \/ Retire(r, "expired")
      PROVE  RowsSettle
  <2>1. "cancelled" \in Terminal /\ "expired" \in Terminal
    BY DEF Terminal
  <2>2. QED
    BY <1>1, <1>3, <2>1, OperationEffects, MovedSettles DEF CancelRow
<1>4. ASSUME NEW c \in Calls, Enqueue(c) \/ Cancel(c) \/ TombstoneLapses(c)
      PROVE  RowsSettle
  BY <1>1, <1>2, <1>3, <1>4 DEF Enqueue, Cancel, TombstoneLapses, worker
<1>5. ASSUME NEW c \in Calls, RequestStep(c)
      PROVE  RowsSettle \/ \E d \in Calls, id \in RequestIds : RowsOpen(d, id)
  <2>1. ASSUME NEW id \in RequestIds, SpendGrant(c, id) \/ WriteRow(c, id)
        PROVE  RowsOpen(c, id)
    BY <2>1, OpensRow DEF Opens
  <2>2. CASE CancelBound(c)
    <3>1. at[c] \in Holding
      BY <2>2 DEF CancelBound, Holding, Places, Rowless
    <3>2. QED
      BY <1>2, <1>3, <2>2, <3>1 DEF CancelBound
  <2>3. CASE ApproveByGrant(c)
    <3>1. at[c] = "granted" /\ at'[c] = "approved"
      BY <2>3 DEF ApproveByGrant, Goto, WorkerInv
    <3>2. row[c] \in RequestIds
      BY <1>2, <3>1 DEF Holding, Places, Rowless
    <3>3. MayApprove(row[c])
      BY <3>1 DEF MayApprove
    <3>4. Moved(row[c], "approved") /\ UNCHANGED row
      BY <2>3, <3>2, OperationEffects DEF ApproveByGrant
    <3>5. QED
      BY <3>2, <3>3, <3>4, MovedSettles
  <2>4. CASE BeginCancelled(c) \/ Begin(c) \/ FindNoGrant(c) \/ StoreFull(c)
    BY <1>1, <2>4 DEF BeginCancelled, Begin, FindNoGrant, StoreFull
  <2>5. CASE Bind(c, "funded", "granted") \/ Bind(c, "written", "bound")
    BY <1>1, <2>5 DEF Bind
  <2>6. CASE Settled(c) \/ PassCheck(c) \/ Register(c) \/ Wake(c)
    BY <1>1, <2>6 DEF Settled, PassCheck, Register, Wake
  <2>7. QED
    BY <1>5, <2>1, <2>2, <2>3, <2>4, <2>5, <2>6 DEF RequestStep
<1>6. ASSUME NEW c \in Calls, ExecuteStep(c)
      PROVE  RowsSettle
  <2>1. CASE Forward(c)
    BY <1>1, <2>1 DEF Forward
  <2>2. ASSUME NEW status \in Outcomes \cap {"executed", "blocked", "error"}, Record(c, status)
        PROVE  RowsSettle
    <3>1. at[c] \in Holding
      BY <2>2 DEF Record, Holding, Places, Rowless
    <3>2. RecordOutcome(row[c], status) \/ UNCHANGED storeVars
      BY <2>2 DEF Record
    <3>3. status \in Terminal /\ UNCHANGED row
      BY <2>2 DEF Record, Terminal
    <3>4. QED
      BY <1>1, <1>2, <3>1, <3>2, <3>3, OperationEffects, MovedSettles
  <2>3. CASE LinkParent(c)
    <3> DEFINE parent == rows[row[c]].grantedBy
    <3>1. UNCHANGED row /\ (UNCHANGED storeVars \/ AnnotateLinkedExecution(parent, "executed"))
      BY <2>3 DEF LinkParent
    <3>2. AnnotateLinkedExecution(parent, "executed") => parent \in RequestIds
      BY DEF AnnotateLinkedExecution, Annotate, Live
    <3> HIDE DEF parent
    <3>3. QED
      BY <1>1, <3>1, <3>2, AnnotateSettles
  <2>4. QED
    BY <1>6, <2>1, <2>2, <2>3 DEF ExecuteStep
<1>7. ASSUME NEW r \in RequestIds, ServerStep(r) \/ \E v \in Verdicts \ {"none"} : Post(r, v)
      PROVE  RowsSettle
  <2>1. CASE Persist(r)
    <3>1. MayApprove(r) /\ UNCHANGED row /\ "denied" \in Terminal
      BY <2>1 DEF Persist, MayApprove, worker, Terminal
    <3>2. Approve(r, "exact") \/ Deny(r, "user_denied") \/ UNCHANGED storeVars
      BY <2>1 DEF Persist
    <3>3. QED
      BY <1>1, <3>1, <3>2, OperationEffects, MovedSettles
  <2>2. CASE PassDeadline(r)
    BY <1>3, <2>2 DEF PassDeadline, worker
  <2>3. CASE WatcherEnds(r) \/ \E v : Post(r, v)
    BY <1>1, <2>3 DEF WatcherEnds, Post, worker
  <2>4. QED
    BY <1>7, <2>1, <2>2, <2>3 DEF ServerStep
<1>8. CASE ProxyCrash
  BY <1>1, <1>8 DEF ProxyCrash
<1>9. CASE ClockStep /\ UNCHANGED flowVars
  BY <1>9, QuietSettles DEF ClockStep, Tick, tables, histories, flowVars, worker
<1>10. ASSUME NEW p \in Processes, RecoveryStep(p), UNCHANGED flowVars
       PROVE  RowsSettle
  BY <1>10, RecoverySettles DEF flowVars, worker
<1>11. QED
  BY <1>4, <1>5, <1>6, <1>7, <1>8, <1>9, <1>10 DEF FlowNext

-----------------------------------------------------------------------------
(* Types.                                                                  *)

\* The ranges of what the manager, the server and the histories keep.
MemoryTypes ==
  /\ tracked \cup tombstones \cup aborted \subseteq Calls
  /\ prompts \cup watched \subseteq RequestIds /\ posted \in [RequestIds -> Verdicts]
  /\ forwards \subseteq RequestIds \X Calls

\* The memory keeps its types.
LEMMA MemoryTypesStep ==
  ASSUME StoreTypeOK, WorkerInv, MemoryTypes, FlowNext
  PROVE  MemoryTypes'
<1> USE DEF MemoryTypes
<1>1. \A c \in Calls : at[c] \in Holding => row[c] \in RequestIds
  BY DEF WorkerInv
<1>2. ASSUME NEW c \in Calls, Enqueue(c) \/ Cancel(c) \/ TombstoneLapses(c)
      PROVE  MemoryTypes'
  <2>1. CASE Enqueue(c)
    BY <2>1 DEF Enqueue
  <2>2. CASE Cancel(c)
    <3>1. /\ tombstones' \subseteq tombstones \cup {c} /\ aborted' \subseteq aborted \cup {c}
          /\ prompts' \subseteq prompts
      BY <2>2 DEF Cancel
    <3>2. UNCHANGED <<tracked, watched, posted, forwards>>
      BY <2>2 DEF Cancel
    <3>3. QED
      BY <3>1, <3>2
  <2>3. CASE TombstoneLapses(c)
    BY <2>3 DEF TombstoneLapses
  <2>4. QED
    BY <1>2, <2>1, <2>2, <2>3
<1>3. ASSUME NEW c \in Calls, RequestStep(c)
      PROVE  MemoryTypes'
  <2>1. ASSUME NEW id \in RequestIds, SpendGrant(c, id) \/ WriteRow(c, id)
        PROVE  MemoryTypes'
    BY <2>1 DEF SpendGrant, WriteRow, inMemory
  <2>2. CASE BeginCancelled(c) \/ Begin(c)
    BY <2>2 DEF BeginCancelled, Begin, Answered
  <2>3. CASE FindNoGrant(c) \/ StoreFull(c)
    BY <2>3 DEF FindNoGrant, StoreFull, Answered, inMemory
  <2>4. CASE Bind(c, "funded", "granted") \/ Bind(c, "written", "bound")
    BY <2>4 DEF Bind
  <2>5. CASE CancelBound(c) \/ Settled(c)
    BY <2>5 DEF CancelBound, Settled, Answered
  <2>6. CASE ApproveByGrant(c) \/ PassCheck(c)
    BY <2>6 DEF ApproveByGrant, PassCheck, inMemory
  <2>7. CASE Register(c)
    <3>1. row[c] \in RequestIds
      BY <1>1, <2>7 DEF Register, Holding, Places, Rowless
    <3>2. QED
      BY <2>7, <3>1 DEF Register, Answered
  <2>8. CASE Wake(c)
    BY <2>8 DEF Wake, Answered
  <2>9. QED
    BY <1>3, <2>1, <2>2, <2>3, <2>4, <2>5, <2>6, <2>7, <2>8 DEF RequestStep
<1>4. ASSUME NEW c \in Calls, ExecuteStep(c)
      PROVE  MemoryTypes'
  <2>1. CASE Forward(c)
    <3>1. row[c] \in RequestIds
      BY <1>1, <2>1 DEF Forward, Goto, Holding, Places, Rowless
    <3>2. rows[row[c]].grantedBy \in RequestIds \cup {None}
      BY <3>1 DEF StoreTypeOK, Row
    <3>3. <<Root(row[c]), c>> \in RequestIds \X Calls
      BY <3>1, <3>2 DEF Root
    <3>4. forwards' = forwards \cup {<<Root(row[c]), c>>}
      BY <2>1 DEF Forward
    <3>5. UNCHANGED <<inMemory, aborted>>
      BY <2>1 DEF Forward
    <3>6. QED
      BY <3>3, <3>4, <3>5 DEF inMemory
  <2>2. ASSUME NEW status, Record(c, status)
        PROVE  MemoryTypes'
    BY <2>2 DEF Record, Answered
  <2>3. CASE LinkParent(c)
    BY <2>3 DEF LinkParent, Answered
  <2>4. QED
    BY <1>4, <2>1, <2>2, <2>3 DEF ExecuteStep
<1>5. ASSUME NEW r \in RequestIds, ServerStep(r) \/ \E v \in Verdicts \ {"none"} : Post(r, v)
      PROVE  MemoryTypes'
  <2>1. "none" \in Verdicts
    BY DEF Verdicts
  <2>2. Persist(r) => MemoryTypes'
    BY <2>1 DEF Persist
  <2>3. PassDeadline(r) => MemoryTypes'
    BY <2>1 DEF PassDeadline
  <2>4. WatcherEnds(r) => MemoryTypes'
    BY DEF WatcherEnds
  <2>5. ASSUME NEW v \in Verdicts, Post(r, v)
        PROVE  MemoryTypes'
    BY <2>5 DEF Post
  <2>6. QED
    BY <1>5, <2>2, <2>3, <2>4, <2>5 DEF ServerStep
<1>6. ProxyCrash => MemoryTypes'
  BY DEF ProxyCrash, Verdicts
<1>7. UNCHANGED flowVars => MemoryTypes'
  BY DEF flowVars, inMemory
<1>8. QED
  BY <1>2, <1>3, <1>4, <1>5, <1>6, <1>7 DEF FlowNext

\* The invariant the type correctness rests on.
TypesInv == StoreTypeOK /\ WorkerInv /\ MemoryTypes

\* StoreTypeOK, and the rest of StoreInv, hold in the flow.
LEMMA FlowStoreInv == FlowSpec => [](StoreInv /\ StoreTypeOK)
<1>1. StoreInv => StoreTypeOK
  BY DEF StoreInv
<1>2. QED
  BY <1>1, FlowImplementsStore, StoreInvariant, PTL DEF ImplementsStore

\* TypesInv holds in every reachable state.
LEMMA TypesInvariant == FlowSpec => []TypesInv
<1>1. FlowInit => MemoryTypes
  BY DEF FlowInit, MemoryTypes, Verdicts
<1>2. StoreTypeOK /\ WorkerInv /\ MemoryTypes /\ [FlowNext]_<<storeVars, flowVars>> => MemoryTypes'
  <2>1. UNCHANGED flowVars /\ MemoryTypes => MemoryTypes'
    BY DEF flowVars, inMemory, MemoryTypes
  <2>2. QED
    BY <2>1, MemoryTypesStep
<1>3. QED
  BY <1>1, <1>2, FlowStoreInv, WorkerInvariant, PTL DEF FlowSpec, TypesInv

\* FlowTypeOK: the workers, the memory of the proxy and the histories keep their
\* types, and a worker past its insert has its row.
THEOREM FlowTyping == FlowSpec => []FlowTypeOK
<1>1. TypesInv => FlowTypeOK
  BY DEF TypesInv, WorkerInv, MemoryTypes, FlowTypeOK, Holding, Rowless
<1>2. QED
  BY <1>1, TypesInvariant, PTL

-----------------------------------------------------------------------------
(* Cancellation.                                                           *)

\* A decision can be posted, or has been, for a row.
Reachable(r) == r \in prompts \/ posted[r] # "none"

\* What a call's place says of its memory and of its row.
CallOK(c) ==
  /\ c \in tracked <=> at[c] \notin {"new", "done", "lost"}
  /\ row[c] # None => row[c] \in issued
  /\ at[c] \in {"funded", "written"} => c \notin bound
  /\ at[c] \in {"bound", "granted", "registers", "waits"} /\ Pending(row[c]) => c \in bound
  /\ at[c] \in Fresh => ~Reachable(row[c]) /\ Status(c) # "approved"
  /\ at[c] \in {"approved", "sent", "links"} => ~Pending(row[c])

\* A cancelled call meets its tombstone, or a row that ended otherwise.
AbortOK(c) ==
  c \in aborted =>
    /\ at[c] \notin {"new", "approved", "sent", "links"}
    /\ at[c] \in {"queued", "begun", "unfunded", "funded", "written"} => c \in tombstones
    /\ at[c] \in {"bound", "granted", "registers"}
         => c \in tombstones \/ Status(c) \notin {"pending", "approved"}
    /\ at[c] = "waits" => Status(c) \notin {"pending", "approved"}

CardsIssued == \A r \in RequestIds : Reachable(r) => r \in issued
OwnRows     == \A c, d \in Calls : row[c] = row[d] /\ row[c] # None => c = d
ForwardsOK  == \A f \in forwards : /\ f[2] \notin aborted
                                   /\ at[f[2]] \in {"sent", "links", "done", "lost"}

CancelInv ==
  /\ TypesInv
  /\ \A c \in Calls : CallOK(c) /\ AbortOK(c)
  /\ CardsIssued /\ OwnRows /\ ForwardsOK

\* Only a registration makes a row reachable.
LEMMA CardFrame ==
  ASSUME TypesInv, FlowNext, NEW r \in RequestIds, Reachable(r)'
  PROVE  \/ Reachable(r)
         \/ \E c \in Calls : row[c] = r /\ at[c] = "registers" /\ at'[c] \notin Fresh
<1>1. posted \in [RequestIds -> Verdicts] /\ at \in [Calls -> Places]
  BY DEF TypesInv, MemoryTypes, WorkerInv
<1>2. prompts' \subseteq prompts /\ posted' = posted => Reachable(r)
  BY DEF Reachable
<1>3. ASSUME NEW c \in Calls, Enqueue(c) \/ Cancel(c) \/ TombstoneLapses(c)
      PROVE  Reachable(r)
  BY <1>2, <1>3 DEF Enqueue, Cancel, TombstoneLapses
<1>4. ASSUME NEW c \in Calls, RequestStep(c), ~Register(c)
      PROVE  Reachable(r)
  <2>1. ASSUME NEW id \in RequestIds, SpendGrant(c, id) \/ WriteRow(c, id)
        PROVE  Reachable(r)
    BY <1>2, <2>1 DEF SpendGrant, WriteRow, inMemory
  <2>2. CASE BeginCancelled(c) \/ Begin(c) \/ FindNoGrant(c) \/ StoreFull(c)
    BY <1>2, <2>2 DEF BeginCancelled, Begin, FindNoGrant, StoreFull, inMemory
  <2>3. CASE Bind(c, "funded", "granted") \/ Bind(c, "written", "bound")
    BY <1>2, <2>3 DEF Bind
  <2>4. CASE CancelBound(c) \/ Settled(c) \/ ApproveByGrant(c) \/ PassCheck(c) \/ Wake(c)
    BY <1>2, <2>4 DEF CancelBound, Settled, ApproveByGrant, PassCheck, Wake, inMemory
  <2>5. QED
    BY <1>4, <2>1, <2>2, <2>3, <2>4 DEF RequestStep
<1>5. ASSUME NEW c \in Calls, Register(c), ~Reachable(r)
      PROVE  row[c] = r /\ at[c] = "registers" /\ at'[c] \notin Fresh
  <2>1. prompts' = prompts \cup {row[c]} /\ posted' = posted /\ at[c] = "registers"
    BY <1>5 DEF Register
  <2>2. at'[c] \in {"waits", "done"}
    BY <1>1, <1>5 DEF Register, Goto, Answered
  <2>3. QED
    BY <1>5, <2>1, <2>2 DEF Reachable, Fresh
<1>6. ASSUME NEW c \in Calls, ExecuteStep(c)
      PROVE  Reachable(r)
  BY <1>2, <1>6 DEF ExecuteStep, Forward, Record, LinkParent, inMemory
<1>7. ASSUME NEW q \in RequestIds, ServerStep(q) \/ \E v \in Verdicts \ {"none"} : Post(q, v)
      PROVE  Reachable(r)
  <2>1. ASSUME prompts' \subseteq prompts, posted' = [posted EXCEPT ![q] = "none"]
        PROVE  Reachable(r)
    BY <1>1, <2>1 DEF Reachable
  <2>2. Persist(q) \/ PassDeadline(q) => Reachable(r)
    BY <2>1 DEF Persist, PassDeadline
  <2>3. WatcherEnds(q) => Reachable(r)
    BY <1>2 DEF WatcherEnds
  <2>4. ASSUME NEW v \in Verdicts, Post(q, v)
        PROVE  Reachable(r)
    BY <1>1, <2>4 DEF Post, Reachable
  <2>5. QED
    BY <1>7, <2>2, <2>3, <2>4 DEF ServerStep
<1>8. ProxyCrash => Reachable(r)
  BY DEF ProxyCrash, Reachable
<1>9. UNCHANGED flowVars => Reachable(r)
  BY <1>2 DEF flowVars, inMemory
<1>10. QED
  BY <1>3, <1>4, <1>5, <1>6, <1>7, <1>8, <1>9 DEF FlowNext

\* A row of a call keeps its owner and moves only along the status machine.
LEMMA RowMoves ==
  ASSUME CancelInv, FlowNext, NEW c \in Calls, row[c] # None
  PROVE  /\ row'[c] = row[c] /\ row[c] \in RequestIds /\ row[c] \in issued'
         /\ StatusStep(row[c]) /\ Status(c)' = rows'[row[c]].status
<1>1. row[c] \in RequestIds /\ row[c] \in issued
  BY DEF CancelInv, TypesInv, WorkerInv, CallOK
<1>2. row'[c] = row[c]
  BY WorkerFrame, PlacesStep DEF CancelInv, TypesInv, WorkerInv
<1>3. CASE RowsSettle
  BY <1>1, <1>2, <1>3 DEF RowsSettle, Status
<1>4. ASSUME NEW d \in Calls, NEW id \in RequestIds, RowsOpen(d, id)
      PROVE  row[c] \in issued' /\ StatusStep(row[c])
  BY <1>1, <1>4 DEF RowsOpen, StatusStep
<1>5. QED
  BY <1>1, <1>2, <1>3, <1>4, RowsFrame DEF CancelInv, TypesInv, Status

\* A call that keeps a row nobody can decide keeps it undecided.
LEMMA FreshStays ==
  ASSUME CancelInv, FlowNext, NEW c \in Calls, at[c] \in Fresh, at'[c] \in Fresh
  PROVE  ~Reachable(row[c])' /\ Status(c)' # "approved"
<1>1. row[c] # None
  BY DEF CancelInv, TypesInv, WorkerInv, Fresh, Holding, Rowless, Places
<1>2. /\ row'[c] = row[c] /\ row[c] \in RequestIds
      /\ StatusStep(row[c]) /\ Status(c)' = rows'[row[c]].status
  BY <1>1, RowMoves
<1>3. ~Reachable(row[c]) /\ rows[row[c]].status # "approved"
  BY DEF CancelInv, CallOK, Status
<1>4. \A d \in Calls : row[d] = row[c] => d = c
  BY <1>1 DEF CancelInv, OwnRows
<1>5. ASSUME Reachable(row[c])'
      PROVE  FALSE
  <2>1. /\ row[c] \in RequestIds
        /\ ~Reachable(row[c])
        /\ TypesInv
    BY <1>2, <1>3 DEF CancelInv
  <2>2. PICK r \in RequestIds : r = row[c]
    BY <2>1
  <2>3. Reachable(r)'
    BY <1>2, <1>5, <2>2 DEF Reachable
  <2>4. QED
    BY <1>4, <2>1, <2>2, <2>3, CardFrame
<1>6. ~MayApprove(row[c])
  BY <1>3, <1>4 DEF MayApprove, Reachable, Fresh
<1>7. Status(c)' # "approved"
  BY <1>2, <1>3, <1>6 DEF StatusStep, Terminal
<1>8. QED
  BY <1>5, <1>7

\* The step leaves call c alone, but for a binding it takes when it settles the row.
Still(c) ==
  /\ at'[c] = at[c]
  /\ c \in tracked' <=> c \in tracked
  /\ c \in tombstones => c \in tombstones'
  /\ c \in bound' => c \in bound
  /\ c \in bound /\ c \notin bound' => ~Pending(row[c])'
  /\ c \in aborted' => c \in aborted

\* What holds of a call that a step leaves alone goes on holding.
LEMMA StillOK ==
  ASSUME CancelInv, FlowNext, NEW c \in Calls, Still(c)
  PROVE  CallOK(c)' /\ AbortOK(c)'
<1> USE DEF Still
<1>1. /\ TypesInv /\ CallOK(c) /\ AbortOK(c) /\ at[c] \in Places
      /\ at[c] \in Holding => row[c] # None
      /\ at[c] \in Rowless => row'[c] = None
  <2>1. at'[c] \in Rowless => row'[c] = None
    BY WorkerFrame, PlacesStep DEF CancelInv, TypesInv, WorkerInv
  <2>2. QED
    BY <2>1 DEF CancelInv, TypesInv, WorkerInv
<1>2. CASE row[c] = None
  <2>1. at[c] \in Rowless \cup {"done", "lost"}
    BY <1>1, <1>2 DEF Holding
  <2>2. row'[c] # None => row'[c] \in issued'
    <3>1. CASE RowsSettle
      BY <1>2, <3>1 DEF RowsSettle
    <3>2. ASSUME NEW d \in Calls, NEW id \in RequestIds, RowsOpen(d, id)
          PROVE  row'[c] # None => row'[c] \in issued'
      <4>1. row' = [row EXCEPT ![d] = id] /\ issued' = issued \cup {id}
        BY <1>1, <3>2, OpensWalks DEF RowsOpen, TypesInv, WorkerInv
      <4>2. QED
        BY <1>1, <1>2, <4>1 DEF TypesInv, WorkerInv
    <3>3. QED
      BY <1>1, <3>1, <3>2, RowsFrame DEF TypesInv
  <2>3. CallOK(c)'
    BY <1>1, <2>1, <2>2 DEF CallOK, Rowless, Fresh
  <2>4. AbortOK(c)'
    BY <1>1, <2>1 DEF AbortOK, Rowless
  <2>5. QED
    BY <2>3, <2>4
<1>3. CASE row[c] # None
  <2>1. /\ row'[c] = row[c] /\ row[c] \in issued' /\ StatusStep(row[c])
        /\ Status(c) = rows[row[c]].status /\ Status(c)' = rows'[row[c]].status
        /\ Pending(row[c]) <=> Status(c) = "pending"
        /\ Pending(row[c])' <=> Status(c)' = "pending"
    BY <1>3, RowMoves DEF Status, Pending
  <2>2. /\ Status(c)' = "pending" => Status(c) = "pending"
        /\ Status(c) \notin {"pending", "approved"} => Status(c)' \notin {"pending", "approved"}
    BY <2>1 DEF StatusStep, Terminal
  <2>3. at'[c] \in Fresh => ~Reachable(row[c])' /\ Status(c)' # "approved"
    BY FreshStays
  <2>4. CallOK(c)'
    BY <1>1, <2>1, <2>2, <2>3 DEF CallOK
  <2>5. AbortOK(c)'
    BY <1>1, <2>1, <2>2 DEF AbortOK
  <2>6. QED
    BY <2>4, <2>5
<1>4. QED
  BY <1>2, <1>3

\* A call that has gone needs nothing but that it is no longer tracked.
LEMMA GoneOK ==
  ASSUME CancelInv, FlowNext, NEW c \in Calls, at'[c] \in {"done", "lost"}, c \notin tracked'
  PROVE  CallOK(c)' /\ AbortOK(c)'
<1>1. row'[c] # None => row'[c] \in issued'
  <2>1. CASE row[c] # None
    BY <2>1, RowMoves
  <2>2. CASE row[c] = None
    <3>1. CASE RowsSettle
      BY <2>2, <3>1 DEF RowsSettle
    <3>2. ASSUME NEW d \in Calls, NEW id \in RequestIds, RowsOpen(d, id)
          PROVE  row'[c] # None => row'[c] \in issued'
      <4>1. row' = [row EXCEPT ![d] = id] /\ issued' = issued \cup {id}
        BY <3>2, OpensWalks DEF RowsOpen, CancelInv, TypesInv, WorkerInv
      <4>2. QED
        BY <2>2, <4>1 DEF CancelInv, TypesInv, WorkerInv
    <3>3. QED
      BY <3>1, <3>2, RowsFrame DEF CancelInv, TypesInv
  <2>3. QED
    BY <2>1, <2>2
<1>2. QED
  BY <1>1 DEF CallOK, AbortOK, Fresh

\* The step touches no call but c.
Alone(c) ==
  \A d \in Calls \ {c} :
    /\ at'[d] = at[d]
    /\ d \in tracked' <=> d \in tracked
    /\ d \in tombstones' <=> d \in tombstones
    /\ d \in bound' <=> d \in bound
    /\ d \in aborted' <=> d \in aborted

CallsOK == \A c \in Calls : CallOK(c) /\ AbortOK(c)

\* Such a step has to be checked for c alone.
LEMMA AloneOK ==
  ASSUME CancelInv, FlowNext, NEW c \in Calls, Alone(c), CallOK(c)', AbortOK(c)'
  PROVE  CallsOK'
<1>1. \A d \in Calls \ {c} : Still(d)
  BY DEF Alone, Still
<1>2. QED
  BY <1>1, StillOK DEF CallsOK

\* A call that is answered or lost needs no check.
LEMMA AnsweredOK ==
  ASSUME CancelInv, FlowNext, NEW c \in Calls, NEW from, Answered(c, from), UNCHANGED aborted,
         \/ UNCHANGED <<tombstones, bound>>
         \/ tombstones' = tombstones \ {c} /\ UNCHANGED bound
         \/ tombstones' = tombstones \ {c} /\ bound' = bound \ {c}
  PROVE  CallsOK'
<1>1. at \in [Calls -> Places]
  BY DEF CancelInv, TypesInv, WorkerInv
<1>2. Alone(c) /\ at'[c] = "done" /\ c \notin tracked'
  BY <1>1 DEF Answered, Goto, Alone
<1>3. QED
  BY <1>2, GoneOK, AloneOK

\* A call that walks on, keeping its row and its tombstone.
LEMMA WalksOK ==
  ASSUME CancelInv, FlowNext, NEW c \in Calls, NEW from, NEW to, Goto(c, from, to),
         <<from, to>> \in Edges, from \in Holding, to \in Holding,
         UNCHANGED <<row, tracked, tombstones, aborted>>,
         \/ UNCHANGED bound
         \/ bound' = bound \cup {c} /\ to \in {"bound", "granted"}
         \/ bound' = bound \ {c} /\ to = "approved",
         to \in {"bound", "granted"} => c \in bound',
         to \in {"registers", "waits"} => c \notin tombstones /\ Pending(row[c]),
         to = "approved" => /\ ~Pending(row[c])'
                            /\ Status(c) \in {"pending", "approved"}
                            /\ c \in tombstones => from = "waits"
  PROVE  CallsOK'
<1>1. /\ at \in [Calls -> Places] /\ at[c] = from /\ at'[c] = to /\ CallOK(c) /\ AbortOK(c)
      /\ row[c] # None
  BY DEF CancelInv, TypesInv, WorkerInv, Goto
<1>2. Alone(c)
  BY <1>1 DEF Goto, Alone
<1>3. /\ row'[c] = row[c] /\ row[c] \in issued' /\ StatusStep(row[c])
      /\ Status(c) = rows[row[c]].status /\ Status(c)' = rows'[row[c]].status
      /\ Pending(row[c]) <=> Status(c) = "pending"
      /\ Pending(row[c])' <=> Status(c)' = "pending"
  BY <1>1, RowMoves DEF Status, Pending
<1>4. /\ Status(c)' = "pending" => Status(c) = "pending"
      /\ Status(c) \notin {"pending", "approved"} => Status(c)' \notin {"pending", "approved"}
  BY <1>3 DEF StatusStep, Terminal
<1>5. to \in Fresh => ~Reachable(row[c])' /\ Status(c)' # "approved"
  <2>1. to \in Fresh => from \in Fresh
    BY DEF Edges, Fresh, Holding, Rowless
  <2>2. QED
    BY <1>1, <2>1, FreshStays
<1>6. CallOK(c)'
  <2>1. c \in tracked' /\ to \notin {"new", "done", "lost"}
    BY <1>1 DEF CallOK, Holding, Rowless
  <2>2. to \notin {"funded", "written"}
    BY DEF Edges, Holding, Rowless
  <2>3. to \in {"bound", "granted", "registers", "waits"} /\ Pending(row[c])' => c \in bound'
    BY <1>1, <1>3, <1>4 DEF CallOK, Edges
  <2>4. to \in {"approved", "sent", "links"} => ~Pending(row[c])'
    BY <1>1, <1>3, <1>4 DEF CallOK, Edges
  <2>5. QED
    BY <1>1, <1>3, <1>5, <2>1, <2>2, <2>3, <2>4 DEF CallOK
<1>7. AbortOK(c)'
  <2>1. SUFFICES ASSUME c \in aborted
                 PROVE  /\ to \notin {"approved", "sent", "links"}
                        /\ to \in {"bound", "granted", "registers"}
                             => c \in tombstones \/ Status(c)' \notin {"pending", "approved"}
                        /\ to = "waits" => Status(c)' \notin {"pending", "approved"}
    BY <1>1, <2>1 DEF AbortOK, Holding, Rowless, Edges
  <2>2. to # "approved"
    BY <1>1, <1>3, <2>1 DEF AbortOK, Edges
  <2>3. QED
    BY <1>1, <1>3, <1>4, <2>1, <2>2 DEF AbortOK, Edges
<1>8. QED
  BY <1>2, <1>6, <1>7, AloneOK

\* The cancellation of a call leaves a tombstone, or a row that has ended.
LEMMA CancelOK ==
  ASSUME CancelInv, FlowNext, NEW c \in Calls, Cancel(c)
  PROVE  CallsOK'
<1>1. /\ TypesInv /\ CallOK(c) /\ AbortOK(c) /\ at[c] \in Places
      /\ c \in bound => row[c] # None
      /\ at[c] \in Holding => row[c] # None
      /\ at[c] \in Rowless => row[c] = None
  BY DEF CancelInv, TypesInv, WorkerInv
<1>2. at' = at /\ row' = row /\ tracked' = tracked
  BY DEF Cancel, worker
<1>3. aborted' = IF Undecided(c) THEN aborted \cup {c} ELSE aborted
  BY DEF Cancel
<1>4. CASE c \in bound
  <2>1. CancelRow(row[c]) /\ bound' = bound \ {c} /\ tombstones' = tombstones
    BY <1>4 DEF Cancel
  <2>2. row[c] \in RequestIds /\ row[c] # None
    BY <1>1, <1>4 DEF TypesInv, WorkerInv
  <2>3. Pending(row[c]) => rows'[row[c]].status = "cancelled"
    BY <1>1, <2>1, <2>2, OperationEffects DEF CancelRow, TypesInv, Moved
  <2>4. ~Pending(row[c]) => UNCHANGED storeVars
    BY <2>1 DEF CancelRow
  <2>5. ~Pending(row[c])'
    BY <1>2, <2>3, <2>4 DEF Pending, storeVars, tables
  <2>6. Alone(c)
    BY <1>2, <1>3, <2>1 DEF Alone
  <2>7. CASE c \notin aborted'
    <3>1. Still(c)
      BY <1>2, <2>1, <2>5, <2>7 DEF Still
    <3>2. QED
      BY <2>6, <3>1, StillOK, AloneOK
  <2>8. CASE c \in aborted
    <3>1. Still(c)
      BY <1>2, <2>1, <2>5, <2>8 DEF Still
    <3>2. QED
      BY <2>6, <3>1, StillOK, AloneOK
  <2>9. CASE c \in aborted' /\ c \notin aborted
    <3>1. Undecided(c)
      BY <1>3, <2>9
    <3>2. Pending(row[c]) /\ at[c] \notin {"new", "done", "lost"}
      BY <2>2, <3>1 DEF Undecided
    <3>3. at[c] \notin {"approved", "sent", "links", "queued", "begun", "unfunded", "funded", "written"}
      BY <1>1, <1>4, <2>2, <3>2 DEF CallOK, Rowless
    <3>4. Status(c)' = "cancelled"
      BY <1>2, <2>3, <3>2 DEF Status
    <3>5. CallOK(c)'
      <4>1. row'[c] \in issued'
        BY <2>2, RowMoves
      <4>2. at'[c] \in Fresh => ~Reachable(row[c])'
        BY <1>2, FreshStays
      <4>3. QED
        BY <1>1, <1>2, <2>5, <3>2, <3>3, <3>4, <4>1, <4>2 DEF CallOK
    <3>6. AbortOK(c)'
      BY <1>2, <3>2, <3>3, <3>4 DEF AbortOK
    <3>7. QED
      BY <2>6, <3>5, <3>6, AloneOK
  <2>10. QED
    BY <2>7, <2>8, <2>9
<1>5. CASE c \notin bound
  <2>1. /\ tombstones' = IF c \in tracked THEN tombstones \cup {c} ELSE tombstones
        /\ UNCHANGED <<storeVars, bound, prompts, posted>>
    BY <1>5 DEF Cancel
  <2>2. Alone(c)
    BY <1>2, <1>3, <2>1 DEF Alone
  <2>3. CASE c \in aborted' /\ c \notin aborted
    <3>1. Undecided(c)
      BY <1>3, <2>3
    <3>2. at[c] \notin {"new", "done", "lost"} /\ (row[c] = None \/ Pending(row[c]))
      BY <3>1 DEF Undecided
    <3>3. c \in tombstones'
      BY <1>1, <2>1, <3>2 DEF CallOK
    <3>4. at[c] \notin {"waits", "approved", "sent", "links"}
      BY <1>1, <1>5, <3>2 DEF CallOK, Holding, Rowless
    <3>5. AbortOK(c)'
      BY <1>2, <3>2, <3>3, <3>4 DEF AbortOK
    <3>6. CallOK(c)'
      BY <1>1, <1>2, <2>1 DEF CallOK, storeVars, tables, histories, Status, Pending, Reachable
    <3>7. QED
      BY <2>2, <3>5, <3>6, AloneOK
  <2>4. CASE c \in aborted \/ c \notin aborted'
    <3>1. Still(c)
      BY <1>2, <2>1, <2>4 DEF Still
    <3>2. QED
      BY <2>2, <3>1, StillOK, AloneOK
  <2>5. QED
    BY <2>3, <2>4
<1>6. QED
  BY <1>4, <1>5

\* A call that takes its row has left no tombstone and no card behind.
LEMMA OpensOK ==
  ASSUME CancelInv, FlowNext, NEW c \in Calls, NEW id \in RequestIds, Opens(c, id)
  PROVE  CallsOK'
<1>1. /\ TypesInv /\ WorkerInv /\ StoreTypeOK /\ CallOK(c) /\ AbortOK(c)
      /\ c \in bound => row[c] # None
      /\ at[c] \in Rowless => row[c] = None
  BY DEF CancelInv, TypesInv, WorkerInv
<1>2. /\ Walks(c) /\ at[c] \in {"begun", "unfunded"} /\ at'[c] \in {"funded", "written"}
      /\ row' = [row EXCEPT ![c] = id] /\ row'[c] = id
      /\ UNCHANGED <<created, asks, inMemory, forwards, aborted>>
  <2>1. at[c] \in {"begun", "unfunded"}
    BY DEF Opens, SpendGrant, WriteRow, Goto
  <2>2. QED
    BY <1>1, <2>1, OpensWalks DEF WorkerInv
<1>3. id \notin issued /\ id \in issued' /\ rows'[id].status = "pending"
  BY <1>1, OpensRow DEF RowsOpen
<1>4. UNCHANGED <<tracked, tombstones, bound, prompts, posted, aborted>>
  BY <1>2 DEF inMemory
<1>5. Alone(c)
  BY <1>1, <1>2, <1>4 DEF Walks, Alone, WorkerInv
<1>6. ~Reachable(id)'
  BY <1>3, <1>4 DEF CancelInv, CardsIssued, Reachable
<1>7. CallOK(c)'
  <2>1. c \in tracked' /\ c \notin bound'
    BY <1>1, <1>2, <1>4 DEF CallOK, Rowless
  <2>2. ~Reachable(row[c])' /\ Status(c)' # "approved"
    BY <1>2, <1>3, <1>6 DEF Status, Reachable
  <2>3. QED
    BY <1>2, <1>3, <2>1, <2>2 DEF CallOK
<1>8. AbortOK(c)'
  BY <1>1, <1>2, <1>4 DEF AbortOK
<1>9. QED
  BY <1>5, <1>7, <1>8, AloneOK

\* Every step of request_approval keeps the calls in order.
LEMMA RequestOK ==
  ASSUME CancelInv, FlowNext, NEW c \in Calls, RequestStep(c)
  PROVE  CallsOK'
<1>1. /\ TypesInv /\ WorkerInv /\ StoreTypeOK /\ CallOK(c) /\ AbortOK(c)
      /\ at \in [Calls -> Places]
      /\ at[c] \in Rowless => row[c] = None
      /\ at[c] \in Holding => row[c] \in RequestIds
  BY DEF CancelInv, TypesInv, WorkerInv
<1>2. ASSUME NEW id \in RequestIds, SpendGrant(c, id) \/ WriteRow(c, id)
      PROVE  CallsOK'
  BY <1>2, OpensOK DEF Opens
<1>3. CASE BeginCancelled(c) \/ StoreFull(c)
  BY <1>3, AnsweredOK DEF BeginCancelled, StoreFull
<1>4. ASSUME NEW from, NEW to, Goto(c, from, to), <<from, to>> \in {<<"queued", "begun">>, <<"begun", "unfunded">>},
             c \notin tombstones \/ from = "begun",
             UNCHANGED <<row, tracked, tombstones, bound, aborted>>
      PROVE  CallsOK'
  <2>1. at[c] = from /\ at'[c] = to
    BY <1>1, <1>4 DEF Goto
  <2>2. row[c] = None /\ row'[c] = None
    BY <1>1, <1>4, <2>1 DEF Rowless
  <2>3. CallOK(c)'
    BY <1>1, <1>4, <2>1, <2>2 DEF CallOK, Fresh
  <2>4. AbortOK(c)'
    BY <1>1, <1>4, <2>1 DEF AbortOK
  <2>5. Alone(c)
    BY <1>1, <1>4 DEF Goto, Alone
  <2>6. QED
    BY <2>3, <2>4, <2>5, AloneOK
<1>5. CASE Begin(c)
  <2>1. CASE Answered(c, "queued")
    BY <1>5, <2>1, AnsweredOK DEF Begin
  <2>2. CASE Goto(c, "queued", "begun") /\ UNCHANGED tracked
    BY <1>4, <1>5, <2>2 DEF Begin
  <2>3. QED
    BY <1>5, <2>1, <2>2 DEF Begin
<1>6. CASE FindNoGrant(c)
  BY <1>4, <1>6 DEF FindNoGrant, inMemory
<1>7. CASE Bind(c, "funded", "granted") \/ Bind(c, "written", "bound")
  BY <1>7, WalksOK DEF Bind, Edges, Holding, Rowless, Places
<1>8. CASE CancelBound(c)
  BY <1>8, AnsweredOK DEF CancelBound
<1>9. CASE Settled(c)
  <2>1. Status(c) # "approved"
    BY <1>1, <1>9 DEF Settled, CallOK, Fresh
  <2>2. QED
    BY <1>9, <2>1, AnsweredOK DEF Settled
<1>10. CASE ApproveByGrant(c)
  <2>1. Goto(c, "granted", "approved") /\ row[c] \in RequestIds /\ UNCHANGED row
    BY <1>1, <1>10 DEF ApproveByGrant, Goto, Holding, Rowless, Places
  <2>2. Moved(row[c], "approved")
    BY <1>1, <1>10, <2>1, OperationEffects DEF ApproveByGrant
  <2>3. ~Pending(row[c])' /\ Status(c) = "pending"
    BY <1>10, <2>1, <2>2 DEF ApproveByGrant, Moved, Pending, Status
  <2>4. <<"granted", "approved">> \in Edges /\ {"granted", "approved"} \subseteq Holding
    BY DEF Edges, Holding, Rowless, Places
  <2>5. QED
    BY <1>10, <2>1, <2>3, <2>4, WalksOK DEF ApproveByGrant
<1>11. CASE PassCheck(c)
  BY <1>11, WalksOK DEF PassCheck, inMemory, Edges, Holding, Rowless, Places
<1>12. CASE Register(c)
  <2>1. CASE Goto(c, "registers", "waits") /\ UNCHANGED <<tracked, watched>>
    BY <1>12, <2>1, WalksOK DEF Register, Edges, Holding, Rowless, Places
  <2>2. CASE Answered(c, "registers")
    BY <1>12, <2>2, AnsweredOK DEF Register
  <2>3. QED
    BY <1>12, <2>1, <2>2 DEF Register
<1>13. CASE Wake(c)
  <2>1. CASE Goto(c, "waits", "approved") /\ UNCHANGED tracked /\ Status(c) = "approved"
    <3>1. ~Pending(row[c])'
      BY <1>13, <2>1 DEF Wake, Pending, Status, storeVars, tables
    <3>2. <<"waits", "approved">> \in Edges /\ {"waits", "approved"} \subseteq Holding
      BY DEF Edges, Holding, Rowless, Places
    <3>3. QED
      BY <1>13, <2>1, <3>1, <3>2, WalksOK DEF Wake
  <2>2. CASE Answered(c, "waits")
    BY <1>13, <2>2, AnsweredOK DEF Wake
  <2>3. QED
    BY <1>13, <2>1, <2>2 DEF Wake
<1>14. QED
  BY <1>2, <1>3, <1>5, <1>6, <1>7, <1>8, <1>9, <1>10, <1>11, <1>12, <1>13 DEF RequestStep

\* So does every step of its execution.
LEMMA ExecuteOK ==
  ASSUME CancelInv, FlowNext, NEW c \in Calls, ExecuteStep(c)
  PROVE  CallsOK'
<1>1. {<<"approved", "sent">>, <<"sent", "links">>} \subseteq Edges /\ {"approved", "sent", "links"} \subseteq Holding
  BY DEF Edges, Holding, Rowless, Places
<1>2. CASE Forward(c)
  BY <1>1, <1>2, WalksOK DEF Forward, inMemory
<1>3. ASSUME NEW status, Record(c, status)
      PROVE  CallsOK'
  <2>1. CASE Goto(c, "sent", "links") /\ UNCHANGED tracked
    BY <1>1, <1>3, <2>1, WalksOK DEF Record
  <2>2. CASE Answered(c, "sent")
    BY <1>3, <2>2, AnsweredOK DEF Record
  <2>3. QED
    BY <1>3, <2>1, <2>2 DEF Record
<1>4. CASE LinkParent(c)
  BY <1>4, AnsweredOK DEF LinkParent
<1>5. QED
  BY <1>2, <1>3, <1>4 DEF ExecuteStep

\* A decision or a deadline takes the bindings of the row it decides.
LEMMA ServerOK ==
  ASSUME CancelInv, FlowNext, NEW r \in RequestIds,
         ServerStep(r) \/ \E v \in Verdicts \ {"none"} : Post(r, v)
  PROVE  CallsOK'
<1>1. /\ StoreTypeOK /\ bound \subseteq Calls
  BY DEF CancelInv, TypesInv, WorkerInv
<1>2. ASSUME UNCHANGED <<worker, tracked, tombstones, aborted>>,
             bound' = bound \/ (bound' = bound \ BoundTo(r) /\ rows'[r].status # "pending")
      PROVE  CallsOK'
  <2>1. \A c \in Calls : Still(c)
    BY <1>2 DEF Still, worker, BoundTo, Pending
  <2>2. QED
    BY <2>1, StillOK DEF CallsOK
<1>3. CASE Persist(r)
  <2>1. Pending(r) => rows'[r].status # "pending"
    BY <1>1, <1>3, OperationEffects DEF Persist, Moved
  <2>2. QED
    BY <1>2, <1>3, <2>1 DEF Persist
<1>4. CASE PassDeadline(r)
  <2>1. rows'[r].status # "pending"
    BY <1>1, <1>4, OperationEffects DEF PassDeadline, Moved
  <2>2. QED
    BY <1>2, <1>4, <2>1 DEF PassDeadline
<1>5. CASE WatcherEnds(r) \/ \E v : Post(r, v)
  BY <1>2, <1>5 DEF WatcherEnds, Post
<1>6. QED
  BY <1>3, <1>4, <1>5 DEF ServerStep

\* Every step keeps the calls in order.
LEMMA CallsStep ==
  ASSUME CancelInv, FlowNext
  PROVE  CallsOK'
<1>1. at \in [Calls -> Places] /\ CallsOK
  BY DEF CancelInv, TypesInv, WorkerInv, CallsOK
<1>2. ASSUME NEW c \in Calls, Enqueue(c)
      PROVE  CallsOK'
  <2>1. at[c] = "new" /\ at'[c] = "queued" /\ Alone(c)
    BY <1>1, <1>2 DEF Enqueue, Goto, Alone
  <2>2. row[c] = None /\ row'[c] = None
    BY <1>2, <2>1 DEF Enqueue, CancelInv, TypesInv, WorkerInv, Rowless
  <2>3. CallOK(c)' /\ AbortOK(c)'
    BY <1>1, <1>2, <2>1, <2>2 DEF Enqueue, CallsOK, CallOK, AbortOK, Fresh
  <2>4. QED
    BY <2>1, <2>3, AloneOK
<1>3. ASSUME NEW c \in Calls, TombstoneLapses(c)
      PROVE  CallsOK'
  <2>1. /\ UNCHANGED <<storeVars, at, row, tracked, bound, prompts, posted>>
        /\ tombstones' = tombstones \ {c} /\ aborted' = aborted \ {c}
    BY <1>3 DEF TombstoneLapses, worker
  <2>2. Alone(c)
    BY <2>1 DEF Alone
  <2>3. CallOK(c)' /\ AbortOK(c)'
    BY <1>1, <2>1 DEF CallsOK, CallOK, AbortOK, storeVars, tables, histories, Status, Pending, Reachable
  <2>4. QED
    BY <2>2, <2>3, AloneOK
<1>4. CASE ProxyCrash
  <2>1. ASSUME NEW c \in Calls
        PROVE  CallOK(c)' /\ AbortOK(c)'
    <3>1. tracked' = {} /\ aborted' = aborted /\ row' = row
      BY <1>4 DEF ProxyCrash
    <3>2. CASE at[c] = "new"
      <4>1. at'[c] = "new" /\ row[c] = None
        BY <1>4, <3>2 DEF ProxyCrash, CancelInv, TypesInv, WorkerInv, Rowless
      <4>2. QED
        BY <1>1, <3>1, <3>2, <4>1 DEF CallsOK, CallOK, AbortOK, Fresh
    <3>3. CASE at[c] # "new"
      <4>1. at'[c] \in {"done", "lost"}
        BY <1>4, <3>3 DEF ProxyCrash
      <4>2. QED
        BY <3>1, <4>1, GoneOK
    <3>4. QED
      BY <3>2, <3>3
  <2>2. QED
    BY <2>1 DEF CallsOK
<1>5. CASE UNCHANGED flowVars
  <2>1. \A c \in Calls : Still(c)
    BY <1>5 DEF flowVars, worker, inMemory, Still
  <2>2. QED
    BY <2>1, StillOK DEF CallsOK
<1>6. QED
  BY <1>2, <1>3, <1>4, <1>5, CancelOK, RequestOK, ExecuteOK, ServerOK DEF FlowNext

\* A call joins the cancelled ones while it is undecided.
LEMMA AbortedFrame ==
  ASSUME FlowNext
  PROVE  aborted' \subseteq aborted \/ \E c \in Calls : Undecided(c) /\ aborted' = aborted \cup {c}
<1>1. ASSUME NEW c \in Calls, Enqueue(c) \/ Cancel(c) \/ TombstoneLapses(c)
      PROVE  aborted' \subseteq aborted \/ (Undecided(c) /\ aborted' = aborted \cup {c})
  BY <1>1 DEF Enqueue, Cancel, TombstoneLapses
<1>2. ASSUME NEW c \in Calls, RequestStep(c)
      PROVE  aborted' = aborted
  <2>1. \A id \in RequestIds : SpendGrant(c, id) \/ WriteRow(c, id) => aborted' = aborted
    BY DEF SpendGrant, WriteRow
  <2>2. BeginCancelled(c) \/ Begin(c) \/ FindNoGrant(c) \/ StoreFull(c) => aborted' = aborted
    BY DEF BeginCancelled, Begin, FindNoGrant, StoreFull
  <2>3. \A from, to : Bind(c, from, to) => aborted' = aborted
    BY DEF Bind
  <2>4. CancelBound(c) \/ Settled(c) \/ ApproveByGrant(c) => aborted' = aborted
    BY DEF CancelBound, Settled, ApproveByGrant
  <2>5. PassCheck(c) \/ Register(c) \/ Wake(c) => aborted' = aborted
    BY DEF PassCheck, Register, Wake
  <2>6. QED
    BY <1>2, <2>1, <2>2, <2>3, <2>4, <2>5 DEF RequestStep
<1>3. \A c \in Calls : ExecuteStep(c) => aborted' = aborted
  BY DEF ExecuteStep, Forward, Record, LinkParent
<1>4. \A r \in RequestIds : ServerStep(r) \/ (\E v : Post(r, v)) => aborted' = aborted
  BY DEF ServerStep, Persist, PassDeadline, WatcherEnds, Post
<1>5. ProxyCrash \/ UNCHANGED flowVars => aborted' = aborted
  BY DEF ProxyCrash, flowVars
<1>6. QED
  BY <1>1, <1>2, <1>3, <1>4, <1>5 DEF FlowNext

\* Only Forward writes a call downstream.
LEMMA ForwardFrame ==
  ASSUME FlowNext
  PROVE  forwards' = forwards \/ \E c \in Calls : Forward(c)
<1>1. ASSUME NEW c \in Calls, Enqueue(c) \/ Cancel(c) \/ TombstoneLapses(c)
      PROVE  forwards' = forwards
  BY <1>1 DEF Enqueue, Cancel, TombstoneLapses
<1>2. ASSUME NEW c \in Calls, RequestStep(c)
      PROVE  forwards' = forwards
  <2>1. \A id \in RequestIds : SpendGrant(c, id) \/ WriteRow(c, id) => forwards' = forwards
    BY DEF SpendGrant, WriteRow
  <2>2. BeginCancelled(c) \/ Begin(c) \/ FindNoGrant(c) \/ StoreFull(c) => forwards' = forwards
    BY DEF BeginCancelled, Begin, FindNoGrant, StoreFull
  <2>3. \A from, to : Bind(c, from, to) => forwards' = forwards
    BY DEF Bind
  <2>4. CancelBound(c) \/ Settled(c) \/ ApproveByGrant(c) => forwards' = forwards
    BY DEF CancelBound, Settled, ApproveByGrant
  <2>5. PassCheck(c) \/ Register(c) \/ Wake(c) => forwards' = forwards
    BY DEF PassCheck, Register, Wake
  <2>6. QED
    BY <1>2, <2>1, <2>2, <2>3, <2>4, <2>5 DEF RequestStep
<1>3. \A c \in Calls : ExecuteStep(c) => forwards' = forwards \/ Forward(c)
  BY DEF ExecuteStep, Record, LinkParent
<1>4. \A r \in RequestIds : ServerStep(r) \/ (\E v : Post(r, v)) => forwards' = forwards
  BY DEF ServerStep, Persist, PassDeadline, WatcherEnds, Post
<1>5. ProxyCrash \/ UNCHANGED flowVars => forwards' = forwards
  BY DEF ProxyCrash, flowVars
<1>6. QED
  BY <1>1, <1>2, <1>3, <1>4, <1>5 DEF FlowNext

\* A call that was written downstream stays where it can end only.
LEMMA SentStays ==
  ASSUME WorkerInv, FlowNext, NEW c \in Calls, at[c] \in {"sent", "links", "done", "lost"}
  PROVE  at'[c] \in {"sent", "links", "done", "lost"}
<1>1. at \in [Calls -> Places]
  BY DEF WorkerInv
<1>2. ASSUME NEW d \in Calls, Walks(d)
      PROVE  at'[c] \in {"sent", "links", "done", "lost"}
  BY <1>1, <1>2 DEF Walks, Edges
<1>3. ProxyCrash => at'[c] \in {"sent", "links", "done", "lost"}
  BY DEF ProxyCrash
<1>4. QED
  BY <1>1, <1>2, <1>3, WorkerFrame, OpensWalks DEF WorkerStep

\* CancelInv is inductive, next to the types.
LEMMA CancelStep == CancelInv /\ TypesInv' /\ [FlowNext]_<<storeVars, flowVars>> => CancelInv'
<1> SUFFICES ASSUME CancelInv, TypesInv', [FlowNext]_<<storeVars, flowVars>>
             PROVE  CancelInv'
  OBVIOUS
<1>1. CASE UNCHANGED <<storeVars, flowVars>>
  BY <1>1 DEF storeVars, tables, histories, flowVars, worker, inMemory, CancelInv, CallOK, AbortOK,
     CardsIssued, OwnRows, ForwardsOK, Reachable, Pending, Status
<1>2. CASE FlowNext
  <2>1. TypesInv /\ StoreTypeOK /\ WorkerInv /\ MemoryTypes
    BY DEF CancelInv, TypesInv
  <2>2. CallsOK'
    BY <1>2, CallsStep
  <2>3. CardsIssued'
    <3>1. issued \subseteq issued'
      BY <1>2, <2>1, RowsFrame DEF RowsSettle, RowsOpen
    <3>2. ASSUME NEW r \in RequestIds, Reachable(r)'
          PROVE  r \in issued
      <4>1. CASE Reachable(r)
        BY <4>1 DEF CancelInv, CardsIssued
      <4>2. ASSUME NEW c \in Calls, row[c] = r
            PROVE  r \in issued
        BY <4>2, StoreAssumption DEF CancelInv, CallOK, None
      <4>3. QED
        BY <1>2, <2>1, <3>2, <4>1, <4>2, CardFrame
    <3>3. QED
      BY <3>1, <3>2 DEF CardsIssued
  <2>4. OwnRows'
    <3>1. CASE RowsSettle
      BY <3>1 DEF CancelInv, OwnRows, RowsSettle
    <3>2. ASSUME NEW c \in Calls, NEW id \in RequestIds, RowsOpen(c, id)
          PROVE  OwnRows'
      <4>1. row' = [row EXCEPT ![c] = id] /\ id \notin issued
        BY <2>1, <3>2, OpensWalks DEF RowsOpen, WorkerInv
      <4>2. \A d \in Calls : row[d] # id
        BY <4>1, StoreAssumption DEF CancelInv, CallOK, None
      <4>3. QED
        BY <2>1, <4>1, <4>2 DEF CancelInv, OwnRows, WorkerInv
    <3>3. QED
      BY <1>2, <2>1, <3>1, <3>2, RowsFrame
  <2>5. ForwardsOK'
    <3>1. ASSUME NEW f \in forwards
          PROVE  f[2] \notin aborted' /\ at'[f[2]] \in {"sent", "links", "done", "lost"}
      <4>1. f[2] \in Calls /\ f[2] \notin aborted /\ at[f[2]] \in {"sent", "links", "done", "lost"}
        BY <2>1 DEF CancelInv, ForwardsOK, MemoryTypes
      <4>2. ~Undecided(f[2])
        BY <2>1, <4>1 DEF Undecided, CancelInv, CallOK, WorkerInv, Holding, Rowless, Places
      <4>3. QED
        BY <1>2, <2>1, <4>1, <4>2, AbortedFrame, SentStays
    <3>2. ASSUME NEW c \in Calls, Forward(c)
          PROVE  c \notin aborted' /\ at'[c] = "sent" /\ forwards' = forwards \cup {<<Root(row[c]), c>>}
      BY <2>1, <3>2 DEF Forward, Goto, CancelInv, AbortOK, WorkerInv
    <3>3. QED
      BY <1>2, <3>1, <3>2, ForwardFrame DEF ForwardsOK
  <2>6. QED
    BY <2>2, <2>3, <2>4, <2>5 DEF CancelInv, CallsOK
<1>3. QED
  BY <1>1, <1>2

\* CancelInv holds in every reachable state.
LEMMA CancelInvariant == FlowSpec => []CancelInv
<1>1. FlowInit /\ TypesInv => CancelInv
  BY DEF FlowInit, CancelInv, CallOK, AbortOK, CardsIssued, OwnRows, ForwardsOK, Fresh, Reachable
<1>2. QED
  BY <1>1, CancelStep, TypesInvariant, PTL DEF FlowSpec

\* CancelledNeverForwards: a call the client cancelled before it was approved is
\* never written downstream, in whichever window of request_approval the
\* notification lands, unless its tombstone lapsed before its worker looked for it,
\* for any number of calls, decisions, lapses and crashes.
THEOREM CancellationSafety == FlowSpec => []CancelledNeverForwards
<1>1. CancelInv => CancelledNeverForwards
  BY DEF CancelInv, ForwardsOK, CancelledNeverForwards
<1>2. QED
  BY <1>1, CancelInvariant, PTL

-----------------------------------------------------------------------------
(* One forward for one confirmation, when no call waits for its decision.  *)

\* A child row is paid for, a call that goes on has a child row, and what was
\* forwarded was a child of the confirmed row.
PaidInv ==
  /\ \A r \in RequestIds : rows[r].grantedBy # None => <<rows[r].grantedBy, r>> \in spent
  /\ \A c \in Calls : at[c] # "waits"
  /\ \A c \in Calls : at[c] \in {"funded", "granted", "approved", "sent", "links"}
                        => rows[row[c]].grantedBy # None
  /\ \A f \in forwards : row[f[2]] # None /\ <<f[1], row[f[2]]>> \in spent

\* Without waiting calls a call is approved by its grant only.
LEMMA GrantedOnly ==
  ASSUME ~WaitMode, CancelInv, FlowNext, NEW c \in Calls, at[c] # "waits"
  PROVE  at'[c] # "waits" /\ (at'[c] = "approved" => at[c] \in {"granted", "approved"})
<1> DEFINE Good == at'[c] # "waits" /\ (at'[c] = "approved" => at[c] \in {"granted", "approved"})
<1>1. at \in [Calls -> Places]
  BY DEF CancelInv, TypesInv, WorkerInv
<1>2. ASSUME NEW d \in Calls, NEW from, NEW to, Goto(d, from, to), to \notin {"waits", "approved"}
      PROVE  Good
  BY <1>1, <1>2 DEF Goto
<1>3. UNCHANGED at => Good
  OBVIOUS
<1>4. ASSUME NEW d \in Calls, Enqueue(d) \/ Cancel(d) \/ TombstoneLapses(d)
      PROVE  Good
  BY <1>2, <1>3, <1>4 DEF Enqueue, Cancel, TombstoneLapses, worker
<1>5. ASSUME NEW d \in Calls, RequestStep(d)
      PROVE  Good
  <2>1. ASSUME NEW id \in RequestIds, SpendGrant(d, id) \/ WriteRow(d, id)
        PROVE  Good
    BY <1>2, <2>1 DEF SpendGrant, WriteRow
  <2>2. CASE BeginCancelled(d) \/ Begin(d) \/ FindNoGrant(d) \/ StoreFull(d)
    BY <1>2, <2>2 DEF BeginCancelled, Begin, FindNoGrant, StoreFull, Answered
  <2>3. CASE Bind(d, "funded", "granted") \/ Bind(d, "written", "bound")
    BY <1>2, <2>3 DEF Bind
  <2>4. CASE CancelBound(d) \/ PassCheck(d) \/ Register(d)
    BY <1>2, <2>4 DEF CancelBound, PassCheck, Register, Answered
  <2>5. CASE Settled(d)
    <3>1. Status(d) # "approved"
      BY <2>5 DEF Settled, CancelInv, CallOK, Fresh
    <3>2. QED
      BY <1>2, <2>5, <3>1 DEF Settled, Answered
  <2>6. CASE ApproveByGrant(d)
    BY <1>1, <2>6 DEF ApproveByGrant, Goto
  <2>7. CASE Wake(d)
    <3>1. d # c
      BY <2>7 DEF Wake
    <3>2. at'[c] = at[c]
      BY <1>1, <2>7, <3>1 DEF Wake, Goto, Answered
    <3>3. QED
      BY <3>2
  <2>8. QED
    BY <1>5, <2>1, <2>2, <2>3, <2>4, <2>5, <2>6, <2>7 DEF RequestStep
<1>6. ASSUME NEW d \in Calls, ExecuteStep(d)
      PROVE  Good
  BY <1>2, <1>6 DEF ExecuteStep, Forward, Record, LinkParent, Answered
<1>7. \A r \in RequestIds : ServerStep(r) \/ (\E v : Post(r, v)) => Good
  BY <1>3 DEF ServerStep, Persist, PassDeadline, WatcherEnds, Post, worker
<1>8. ProxyCrash => Good
  BY DEF ProxyCrash
<1>9. UNCHANGED flowVars => Good
  BY <1>3 DEF flowVars, worker
<1>10. QED
  BY <1>4, <1>5, <1>6, <1>7, <1>8, <1>9 DEF FlowNext

\* PaidInv is inductive where nobody waits.
LEMMA PaidStep ==
  ASSUME ~WaitMode, CancelInv, PaidInv, FlowNext
  PROVE  PaidInv'
<1> USE DEF PaidInv
<1>1. TypesInv /\ StoreTypeOK /\ WorkerInv /\ MemoryTypes /\ at \in [Calls -> Places]
  BY DEF CancelInv, TypesInv, WorkerInv
<1>2. /\ spent \subseteq spent'
      /\ \A r \in issued : rows'[r].grantedBy = rows[r].grantedBy
      /\ \A r \in RequestIds : rows'[r].grantedBy # None => <<rows'[r].grantedBy, r>> \in spent'
  <2>1. issued \subseteq RequestIds
    BY <1>1 DEF StoreTypeOK
  <2>2. CASE RowsSettle
    BY <2>1, <2>2 DEF RowsSettle
  <2>3. ASSUME NEW c \in Calls, NEW id \in RequestIds, RowsOpen(c, id)
        PROVE  /\ spent \subseteq spent'
               /\ \A r \in issued : rows'[r].grantedBy = rows[r].grantedBy
               /\ \A r \in RequestIds :
                    rows'[r].grantedBy # None => <<rows'[r].grantedBy, r>> \in spent'
    BY <2>1, <2>3 DEF RowsOpen
  <2>4. QED
    BY <1>1, <2>2, <2>3, RowsFrame
<1>3. \A c \in Calls : at'[c] # "waits" /\ (at'[c] = "approved" => at[c] \in {"granted", "approved"})
  BY GrantedOnly
<1>4. ASSUME NEW c \in Calls, row[c] # None
      PROVE  row'[c] = row[c] /\ rows'[row[c]].grantedBy = rows[row[c]].grantedBy
  BY <1>2, <1>4, RowMoves DEF CancelInv, CallOK
<1>5. ASSUME NEW c \in Calls, at'[c] \in {"funded", "granted", "approved", "sent", "links"}
      PROVE  rows'[row'[c]].grantedBy # None
  <2>1. CASE at[c] \in {"funded", "granted", "approved", "sent", "links"}
    <3>1. row[c] # None
      BY <1>1, <2>1 DEF WorkerInv, Holding, Rowless, Places
    <3>2. QED
      BY <1>4, <2>1, <3>1
  <2>2. CASE at[c] \notin {"funded", "granted", "approved", "sent", "links"}
    <3>1. at'[c] = "funded"
      <4>1. \A d \in Calls : Walks(d) => at'[c] = at[c] \/ <<at[c], at'[c]>> \in Edges
        BY <1>1 DEF Walks
      <4>2. ProxyCrash => at'[c] = at[c] \/ at'[c] = "lost"
        BY DEF ProxyCrash
      <4>3. at'[c] = at[c] \/ <<at[c], at'[c]>> \in Edges \/ at'[c] = "lost"
        BY <1>1, <4>1, <4>2, WorkerFrame, OpensWalks DEF WorkerStep
      <4>4. QED
        BY <1>3, <1>5, <2>2, <4>3 DEF Edges
    <3>2. PICK d \in Calls, id \in RequestIds : Opens(d, id)
      <4>1. ASSUME NEW d \in Calls, Walks(d), at'[d] \notin {"funded", "written"}
            PROVE  FALSE
        BY <1>1, <2>2, <3>1, <4>1 DEF Walks
      <4>2. ~ProxyCrash
        BY <2>2, <3>1 DEF ProxyCrash
      <4>3. QED
        BY <1>1, <2>2, <3>1, <4>1, <4>2, WorkerFrame DEF WorkerStep
    <3>3. Walks(d) /\ row' = [row EXCEPT ![d] = id]
      BY <1>1, <3>2, OpensWalks
    <3>4. d = c
      BY <1>1, <2>2, <3>1, <3>3 DEF Walks
    <3>5. rows'[id].grantedBy # None
      BY <1>1, <3>1, <3>2, <3>4, OpensRow DEF RowsOpen
    <3>6. QED
      BY <1>1, <3>3, <3>4, <3>5 DEF WorkerInv
  <2>3. QED
    BY <2>1, <2>2
<1>6. ASSUME NEW f \in forwards'
      PROVE  row'[f[2]] # None /\ <<f[1], row'[f[2]]>> \in spent'
  <2>1. CASE f \in forwards
    BY <1>1, <1>2, <1>4, <2>1 DEF MemoryTypes
  <2>2. ASSUME NEW c \in Calls, Forward(c), f = <<Root(row[c]), c>>
        PROVE  row'[f[2]] # None /\ <<f[1], row'[f[2]]>> \in spent'
    <3>1. at[c] = "approved" /\ row' = row
      BY <2>2 DEF Forward, Goto
    <3>2. row[c] \in RequestIds /\ row[c] # None
      BY <1>1, <3>1 DEF WorkerInv, Holding, Rowless, Places
    <3>3. rows[row[c]].grantedBy # None
      BY <3>1
    <3>4. Root(row[c]) = rows[row[c]].grantedBy
      BY <3>3 DEF Root
    <3>5. QED
      BY <1>2, <2>2, <3>1, <3>2, <3>3, <3>4
  <2>3. QED
    BY <1>6, <2>1, <2>2, ForwardFrame DEF Forward
<1>7. QED
  BY <1>2, <1>3, <1>5, <1>6

\* OneForwardPerConfirmation, where calls are answered at once: one confirmation
\* pays for one downstream mutation, for any number of retries, crashes and proxies
\* on the store. Where calls wait it does not hold.
THEOREM ConfirmationSafety ==
  ASSUME ~WaitMode
  PROVE  FlowSpec => []OneForwardPerConfirmation
<1>1. FlowInit => PaidInv
  <2> SUFFICES ASSUME FlowInit
               PROVE  PaidInv
    OBVIOUS
  <2>1. \A r \in RequestIds : rows[r].grantedBy = None
    BY DEF FlowInit, StoreInit, NoRow, PendingRow
  <2>2. (\A c \in Calls : at[c] = "new") /\ forwards = {}
    BY DEF FlowInit
  <2>3. QED
    BY <2>1, <2>2 DEF PaidInv
<1>2. CancelInv /\ PaidInv /\ [FlowNext]_<<storeVars, flowVars>> => PaidInv'
  <2>1. PaidInv /\ UNCHANGED <<storeVars, flowVars>> => PaidInv'
    BY DEF storeVars, tables, histories, flowVars, worker, PaidInv
  <2>2. QED
    BY <2>1, PaidStep
<1>3. CancelInv /\ PaidInv /\ SingleUse => OneForwardPerConfirmation
  <2> SUFFICES ASSUME CancelInv, PaidInv, SingleUse, NEW f \in forwards, NEW g \in forwards, f[1] = g[1]
               PROVE  f = g
    BY DEF OneForwardPerConfirmation
  <2>1. f \in RequestIds \X Calls /\ g \in RequestIds \X Calls
    BY DEF CancelInv, TypesInv, MemoryTypes
  <2>2. row[f[2]] # None /\ <<f[1], row[f[2]]>> \in spent /\ <<g[1], row[g[2]]>> \in spent
    BY DEF PaidInv
  <2>3. row[f[2]] = row[g[2]]
    BY <2>2 DEF SingleUse
  <2>4. f[2] = g[2]
    BY <2>1, <2>2, <2>3 DEF CancelInv, OwnRows
  <2>5. QED
    BY <2>1, <2>4
<1>4. FlowSpec => []SingleUse
  BY FlowImplementsStore, GrantSafety, PTL DEF ImplementsStore
<1>5. QED
  BY <1>1, <1>2, <1>3, <1>4, CancelInvariant, PTL DEF FlowSpec

-----------------------------------------------------------------------------
(* What a confirmation pays for when calls wait.                           *)

\* A forward is charged to the row of its own call, or to the grant that row was
\* paid with.
ChargeInv ==
  /\ \A r \in RequestIds : rows[r].grantedBy # None => <<rows[r].grantedBy, r>> \in spent
  /\ \A f \in forwards : /\ row[f[2]] # None
                         /\ f[1] = row[f[2]] \/ <<f[1], row[f[2]]>> \in spent

\* The forward of the very call whose card was confirmed.
OwnForward(f) == row[f[2]] = f[1]

\* Two forwards that live on one confirmation are the confirmed call and its one
\* retry: the grant is not withdrawn when a waiting call takes it along, and it
\* pays for nothing else.
CallAndRetryOnly ==
  \A f, g \in forwards : f[1] = g[1] /\ f # g => (OwnForward(f) <=> ~OwnForward(g))

\* ChargeInv is inductive, whether calls wait or not.
LEMMA ChargeStep ==
  ASSUME CancelInv, ChargeInv, FlowNext
  PROVE  ChargeInv'
<1> USE DEF ChargeInv
<1>1. TypesInv /\ StoreTypeOK /\ WorkerInv /\ MemoryTypes /\ at \in [Calls -> Places]
  BY DEF CancelInv, TypesInv, WorkerInv
<1>2. /\ spent \subseteq spent'
      /\ \A r \in RequestIds : rows'[r].grantedBy # None => <<rows'[r].grantedBy, r>> \in spent'
  <2>1. issued \subseteq RequestIds
    BY <1>1 DEF StoreTypeOK
  <2>2. CASE RowsSettle
    BY <2>1, <2>2 DEF RowsSettle
  <2>3. ASSUME NEW c \in Calls, NEW id \in RequestIds, RowsOpen(c, id)
        PROVE  /\ spent \subseteq spent'
               /\ \A r \in RequestIds :
                    rows'[r].grantedBy # None => <<rows'[r].grantedBy, r>> \in spent'
    BY <2>1, <2>3 DEF RowsOpen
  <2>4. QED
    BY <1>1, <2>2, <2>3, RowsFrame
<1>3. ASSUME NEW c \in Calls, row[c] # None
      PROVE  row'[c] = row[c]
  BY <1>3, RowMoves DEF CancelInv, CallOK
<1>4. ASSUME NEW f \in forwards'
      PROVE  row'[f[2]] # None /\ (f[1] = row'[f[2]] \/ <<f[1], row'[f[2]]>> \in spent')
  <2>1. CASE f \in forwards
    BY <1>1, <1>2, <1>3, <2>1 DEF MemoryTypes
  <2>2. ASSUME NEW c \in Calls, Forward(c), f = <<Root(row[c]), c>>
        PROVE  row'[f[2]] # None /\ (f[1] = row'[f[2]] \/ <<f[1], row'[f[2]]>> \in spent')
    <3>1. at[c] = "approved" /\ row' = row
      BY <2>2 DEF Forward, Goto
    <3>2. row[c] \in RequestIds /\ row[c] # None
      BY <1>1, <3>1 DEF WorkerInv, Holding, Rowless, Places
    <3>3. Root(row[c]) = row[c] \/ (Root(row[c]) = rows[row[c]].grantedBy /\ rows[row[c]].grantedBy # None)
      BY DEF Root
    <3>4. QED
      BY <1>2, <2>2, <3>1, <3>2, <3>3
  <2>3. QED
    BY <1>4, <2>1, <2>2, ForwardFrame DEF Forward
<1>5. QED
  BY <1>2, <1>4

\* CallAndRetryOnly, in both modes: whatever calls, retries, crashes and proxies a
\* confirmation meets, it is charged for the confirmed call and for one retry, so
\* for two downstream mutations at most.
THEOREM ConfirmationBound == FlowSpec => []CallAndRetryOnly
<1>1. FlowInit => ChargeInv
  BY DEF FlowInit, StoreInit, NoRow, PendingRow, ChargeInv
<1>2. CancelInv /\ ChargeInv /\ [FlowNext]_<<storeVars, flowVars>> => ChargeInv'
  <2>1. ChargeInv /\ UNCHANGED <<storeVars, flowVars>> => ChargeInv'
    BY DEF storeVars, tables, histories, flowVars, worker, ChargeInv
  <2>2. QED
    BY <2>1, ChargeStep
<1>3. CancelInv /\ ChargeInv /\ SingleUse => CallAndRetryOnly
  <2> SUFFICES ASSUME CancelInv, ChargeInv, SingleUse, NEW f \in forwards, NEW g \in forwards,
                      f[1] = g[1], f # g
               PROVE  OwnForward(f) <=> ~OwnForward(g)
    BY DEF CallAndRetryOnly
  <2>1. f \in RequestIds \X Calls /\ g \in RequestIds \X Calls
    BY DEF CancelInv, TypesInv, MemoryTypes
  <2>2. f[2] # g[2]
    BY <2>1
  <2>3. row[f[2]] # row[g[2]]
    BY <2>1, <2>2 DEF CancelInv, OwnRows, ChargeInv
  <2>4. CASE OwnForward(f) /\ OwnForward(g)
    BY <2>3, <2>4 DEF OwnForward
  <2>5. CASE ~OwnForward(f) /\ ~OwnForward(g)
    <3>1. <<f[1], row[f[2]]>> \in spent /\ <<g[1], row[g[2]]>> \in spent
      BY <2>5 DEF ChargeInv, OwnForward
    <3>2. QED
      BY <2>3, <3>1 DEF SingleUse
  <2>6. QED
    BY <2>4, <2>5
<1>4. FlowSpec => []SingleUse
  BY FlowImplementsStore, GrantSafety, PTL DEF ImplementsStore
<1>5. QED
  BY <1>1, <1>2, <1>3, <1>4, CancelInvariant, PTL DEF FlowSpec

\* What the store promises holds in the flow as well: under calls, cancellations
\* and crashes the grants are the ledger's, terminal verdicts stand, claims stay,
\* a redirected row never runs and the chain verifies.
THEOREM FlowKeepsTheStore ==
  FlowSpec => /\ ImplementsLedger /\ TerminalFinal /\ ClaimsDurable
              /\ [](SingleUse /\ RedirectedNeverRuns /\ ChainIntact)
<1>1. FlowSpec => StoreSpec
  BY FlowImplementsStore DEF ImplementsStore
<1>2. QED
  BY <1>1, StoreImplementsLedger, TerminalVerdicts, DurableClaims, GrantSafety, RedirectSafety,
     ChainSafety, PTL
=============================================================================
