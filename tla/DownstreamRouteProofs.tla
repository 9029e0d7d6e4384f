------------------------ MODULE DownstreamRouteProofs ------------------------
(***************************************************************************)
(* What the route promises for every set of calls and every number of      *)
(* downstream processes: the values of the variables and the holder of the *)
(* reconnect lock, the rows and prompts of the approvals, the generation a *)
(* call is written in, and what a replacement must have done before it is  *)
(* used.  Each part of the invariant depends on few variables, so the      *)
(* frame lemmas first say which steps touch which variables.               *)
(***************************************************************************)
EXTENDS DownstreamRoute, TLAPS

-----------------------------------------------------------------------------
(* Frames.                                                                 *)

LEMMA DownstreamMoves ==
  ASSUME RouteNext
  PROVE  \/ UNCHANGED downstream
         \/ Die \/ CloseStdout \/ ReaderGivesUp \/ ReaderSeesEof \/ ReaderRetires
         \/ \E c \in Calls : StopProcess(c) \/ JoinReader(c) \/ Spawn(c)
<1>1. ASSUME NEW c \in Calls, ReadyStep(c) PROVE UNCHANGED downstream
  BY <1>1 DEF ReadyStep, Arrive, WorkerRetires, Check, Bind, ReadNote, WriteNote
<1>2. ASSUME NEW c \in Calls, ReconnectStep(c)
      PROVE  UNCHANGED downstream \/ StopProcess(c) \/ JoinReader(c) \/ Spawn(c)
  BY <1>2 DEF ReconnectStep, StartReconnect, Handshake, FailReconnect, PublishSet, PublishInvalidate,
              EndReconnect, Rebind
<1>3. ASSUME NEW c \in Calls, SendStep(c) PROVE UNCHANGED downstream
  BY <1>3 DEF SendStep, AcquireMutation, TakeSendLock, ValidateGeneration, WriteCall, Finish
<1>4. ASSUME NEW c \in Calls,
             Ask(c) \/ RegisterCard(c) \/ Expire(c) \/ Unregister(c) \/ Wake(c) \/ Answer(c)
      PROVE  UNCHANGED downstream
  BY <1>4 DEF Ask, RegisterCard, Expire, Unregister, Wake, Answer
<1>5. ASSUME CloseCards \/ \E c \in Calls : \E d \in Decisions : Decide(c, d) PROVE UNCHANGED downstream
  BY <1>5 DEF CloseCards, Decide
<1> QED
  BY <1>1, <1>2, <1>3, <1>4, <1>5 DEF RouteNext, ReaderStep, WorkerStep, routeVars

LEMMA RouteMoves ==
  ASSUME RouteNext
  PROVE  \/ UNCHANGED route
         \/ ReaderGivesUp \/ ReaderSeesEof
         \/ \E c \in Calls : \/ Answer(c) \/ Arrive(c) \/ StartReconnect(c) \/ StopProcess(c)
                             \/ JoinReader(c) \/ Handshake(c) \/ FailReconnect(c)
                             \/ EndReconnect(c) \/ TakeSendLock(c)
                             \/ ValidateGeneration(c) \/ WriteCall(c) \/ Finish(c)
<1>1. ASSUME NEW c \in Calls, ReadyStep(c) PROVE UNCHANGED route \/ Arrive(c)
  BY <1>1 DEF ReadyStep, WorkerRetires, Check, Bind, ReadNote, WriteNote
<1>2. ASSUME NEW c \in Calls, ReconnectStep(c)
      PROVE  \/ UNCHANGED route \/ StartReconnect(c) \/ StopProcess(c) \/ JoinReader(c)
             \/ Handshake(c) \/ FailReconnect(c) \/ EndReconnect(c)
  BY <1>2 DEF ReconnectStep, Spawn, PublishSet, PublishInvalidate, Rebind
<1>3. ASSUME NEW c \in Calls, SendStep(c)
      PROVE  \/ UNCHANGED route \/ TakeSendLock(c) \/ ValidateGeneration(c)
             \/ WriteCall(c) \/ Finish(c)
  BY <1>3 DEF SendStep, AcquireMutation
<1>4. ASSUME NEW c \in Calls, Ask(c) \/ RegisterCard(c) \/ Expire(c) \/ Unregister(c) \/ Wake(c)
      PROVE  UNCHANGED route
  BY <1>4 DEF Ask, RegisterCard, Expire, Unregister, Wake
<1>5. ASSUME CloseCards \/ \E c \in Calls : \E d \in Decisions : Decide(c, d) PROVE UNCHANGED route
  BY <1>5 DEF CloseCards, Decide
<1>6. ASSUME Die \/ CloseStdout \/ ReaderRetires PROVE UNCHANGED route
  BY <1>6 DEF Die, CloseStdout, ReaderRetires
<1> QED
  BY <1>1, <1>2, <1>3, <1>4, <1>5, <1>6 DEF RouteNext, ReaderStep, WorkerStep, routeVars

LEMMA ApprovalsMove ==
  ASSUME RouteNext
  PROVE  \/ UNCHANGED approvals
         \/ ReaderRetires \/ CloseCards
         \/ \E c \in Calls : \/ WorkerRetires(c) \/ WriteNote(c) \/ PublishSet(c)
                             \/ PublishInvalidate(c) \/ Ask(c) \/ RegisterCard(c)
                             \/ Expire(c) \/ Unregister(c)
                             \/ ValidateGeneration(c) \/ WriteCall(c) \/ Finish(c)
         \/ \E c \in Calls : \E d \in Decisions : Decide(c, d)
<1>1. ASSUME NEW c \in Calls, ReadyStep(c)
      PROVE  UNCHANGED approvals \/ WorkerRetires(c) \/ WriteNote(c)
  BY <1>1 DEF ReadyStep, Arrive, Check, Bind, ReadNote
<1>2. ASSUME NEW c \in Calls, ReconnectStep(c)
      PROVE  UNCHANGED approvals \/ PublishSet(c) \/ PublishInvalidate(c)
  BY <1>2 DEF ReconnectStep, StartReconnect, StopProcess, JoinReader, Spawn, Handshake,
              FailReconnect, EndReconnect, Rebind
<1>3. ASSUME NEW c \in Calls, SendStep(c)
      PROVE  UNCHANGED approvals \/ ValidateGeneration(c) \/ WriteCall(c) \/ Finish(c)
  BY <1>3 DEF SendStep, AcquireMutation, TakeSendLock
<1>4. ASSUME NEW c \in Calls, Wake(c) \/ Answer(c) PROVE UNCHANGED approvals
  BY <1>4 DEF Wake, Answer
<1>5. ASSUME Die \/ CloseStdout \/ ReaderGivesUp \/ ReaderSeesEof PROVE UNCHANGED approvals
  BY <1>5 DEF Die, CloseStdout, ReaderGivesUp, ReaderSeesEof
<1> QED
  BY <1>1, <1>2, <1>3, <1>4, <1>5 DEF RouteNext, ReaderStep, WorkerStep, routeVars

LEMMA HistoriesMove ==
  ASSUME RouteNext
  PROVE  \/ UNCHANGED histories
         \/ ReaderSeesEof
         \/ \E c \in Calls : \/ Arrive(c) \/ StartReconnect(c) \/ Handshake(c)
                             \/ FailReconnect(c) \/ WriteCall(c)
<1>1. ASSUME NEW c \in Calls, ReadyStep(c) PROVE UNCHANGED histories \/ Arrive(c)
  BY <1>1 DEF ReadyStep, WorkerRetires, Check, Bind, ReadNote, WriteNote
<1>2. ASSUME NEW c \in Calls, ReconnectStep(c)
      PROVE  UNCHANGED histories \/ StartReconnect(c) \/ Handshake(c) \/ FailReconnect(c)
  BY <1>2 DEF ReconnectStep, StopProcess, JoinReader, Spawn, PublishSet, PublishInvalidate,
              EndReconnect, Rebind
<1>3. ASSUME NEW c \in Calls, SendStep(c) PROVE UNCHANGED histories \/ WriteCall(c)
  BY <1>3 DEF SendStep, AcquireMutation, TakeSendLock, ValidateGeneration, Finish
<1>4. ASSUME NEW c \in Calls,
             Ask(c) \/ RegisterCard(c) \/ Expire(c) \/ Unregister(c) \/ Wake(c) \/ Answer(c)
      PROVE  UNCHANGED histories
  BY <1>4 DEF Ask, RegisterCard, Expire, Unregister, Wake, Answer
<1>5. ASSUME CloseCards \/ \E c \in Calls : \E d \in Decisions : Decide(c, d) PROVE UNCHANGED histories
  BY <1>5 DEF CloseCards, Decide
<1>6. ASSUME Die \/ CloseStdout \/ ReaderGivesUp \/ ReaderRetires PROVE UNCHANGED histories
  BY <1>6 DEF Die, CloseStdout, ReaderGivesUp, ReaderRetires
<1> QED
  BY <1>1, <1>2, <1>3, <1>4, <1>5, <1>6 DEF RouteNext, ReaderStep, WorkerStep, routeVars

LEMMA BindingMoves ==
  ASSUME RouteNext
  PROVE  UNCHANGED <<bound, noting>> \/ \E c \in Calls : Bind(c) \/ ReadNote(c) \/ Rebind(c)
<1>1. ASSUME NEW c \in Calls, ReadyStep(c)
      PROVE  UNCHANGED <<bound, noting>> \/ Bind(c) \/ ReadNote(c)
  BY <1>1 DEF ReadyStep, Arrive, WorkerRetires, Check, WriteNote
<1>2. ASSUME NEW c \in Calls, ReconnectStep(c) PROVE UNCHANGED <<bound, noting>> \/ Rebind(c)
  BY <1>2 DEF ReconnectStep, StartReconnect, StopProcess, JoinReader, Spawn, Handshake,
              FailReconnect, PublishSet, PublishInvalidate, EndReconnect
<1>3. ASSUME NEW c \in Calls, SendStep(c) PROVE UNCHANGED <<bound, noting>>
  BY <1>3 DEF SendStep, AcquireMutation, TakeSendLock, ValidateGeneration, WriteCall, Finish
<1>4. ASSUME NEW c \in Calls,
             Ask(c) \/ RegisterCard(c) \/ Expire(c) \/ Unregister(c) \/ Wake(c) \/ Answer(c)
      PROVE  UNCHANGED <<bound, noting>>
  BY <1>4 DEF Ask, RegisterCard, Expire, Unregister, Wake, Answer, workers
<1>5. ASSUME CloseCards \/ \E c \in Calls : \E d \in Decisions : Decide(c, d)
      PROVE  UNCHANGED <<bound, noting>>
  BY <1>5 DEF CloseCards, Decide, workers
<1>6. ASSUME Die \/ CloseStdout \/ ReaderGivesUp \/ ReaderSeesEof \/ ReaderRetires
      PROVE  UNCHANGED <<bound, noting>>
  BY <1>6 DEF Die, CloseStdout, ReaderGivesUp, ReaderSeesEof, ReaderRetires, workers
<1> QED
  BY <1>1, <1>2, <1>3, <1>4, <1>5, <1>6
     DEF RouteNext, ReaderStep, WorkerStep, routeVars, workers

\* Where a worker may go but by the steps the invariants name: reading a
\* generation, ending a reconnect, comparing a generation, and writing.
Edges ==
  {<<"arrives", "retires">>, <<"arrives", "checks">>, <<"retires", "checks">>,
   <<"checks", "binds">>, <<"checks", "reconnects">>, <<"binds", "reads">>,
   <<"notes", "asks">>,
   <<"reconnects", "rebinds">>, <<"reconnects", "done">>, <<"reconnects", "stops">>,
   <<"stops", "joins">>, <<"joins", "spawns">>, <<"spawns", "handshakes">>,
   <<"spawns", "fails">>, <<"publishes", "invalidates">>, <<"invalidates", "closes">>,
   <<"closes", "rebinds">>,
   <<"rebinds", "asks">>, <<"rebinds", "done">>,
   <<"asks", "registers">>, <<"asks", "queues">>, <<"registers", "waits">>,
   <<"registers", "done">>, <<"waits", "queues">>, <<"waits", "done">>,
   <<"waits", "expires">>, <<"expires", "queues">>, <<"expires", "done">>,
   <<"queues", "sends">>, <<"sends", "validates">>, <<"sent", "done">>}

LEMMA PlacesMove ==
  ASSUME RouteNext
  PROVE  \/ UNCHANGED at
         \/ \E c \in Calls : \/ ReadNote(c) \/ Handshake(c) \/ FailReconnect(c)
                             \/ ValidateGeneration(c) \/ WriteCall(c)
                             \/ \E e \in Edges : Goto(c, e[1], e[2])
<1>1. ASSUME NEW c \in Calls, ReadyStep(c) PROVE ReadNote(c) \/ \E e \in Edges : Goto(c, e[1], e[2])
  BY <1>1 DEF ReadyStep, Arrive, WorkerRetires, Check, Bind, WriteNote, Edges
<1>2. ASSUME NEW c \in Calls, ReconnectStep(c)
      PROVE  Handshake(c) \/ FailReconnect(c) \/ \E e \in Edges : Goto(c, e[1], e[2])
  BY <1>2 DEF ReconnectStep, StartReconnect, StopProcess, JoinReader, Spawn,
              PublishSet, PublishInvalidate, EndReconnect, Rebind, Edges
<1>3. ASSUME NEW c \in Calls, SendStep(c)
      PROVE  ValidateGeneration(c) \/ WriteCall(c) \/ \E e \in Edges : Goto(c, e[1], e[2])
  BY <1>3 DEF SendStep, AcquireMutation, TakeSendLock, Finish, Edges
<1>4. ASSUME NEW c \in Calls, Ask(c) \/ RegisterCard(c) \/ Expire(c) \/ Unregister(c) \/ Wake(c)
      PROVE  \E e \in Edges : Goto(c, e[1], e[2])
  BY <1>4 DEF Ask, RegisterCard, Expire, Unregister, Wake, Edges
<1>5. ASSUME NEW c \in Calls, Answer(c) \/ \E d \in Decisions : Decide(c, d)
      PROVE  UNCHANGED at
  BY <1>5 DEF Answer, Decide, workers
<1>6. ASSUME Die \/ CloseStdout \/ ReaderGivesUp \/ ReaderSeesEof \/ ReaderRetires \/ CloseCards
      PROVE  UNCHANGED at
  BY <1>6 DEF Die, CloseStdout, ReaderGivesUp, ReaderSeesEof, ReaderRetires, CloseCards, workers
<1> QED
  BY <1>1, <1>2, <1>3, <1>4, <1>5, <1>6
     DEF RouteNext, ReaderStep, WorkerStep, routeVars, workers

LEMMA GoesTo ==
  ASSUME at \in [Calls -> Places], NEW c \in Calls, NEW p, NEW q \in Places, Goto(c, p, q)
  PROVE  /\ at' \in [Calls -> Places]
         /\ at[c] = p /\ at'[c] = q
         /\ \A d \in Calls \ {c} : at'[d] = at[d]
  BY DEF Goto

-----------------------------------------------------------------------------
(* Types.                                                                  *)

DownstreamOK ==
  /\ process \in [id : 0..MaxProcesses, alive : BOOLEAN, open : BOOLEAN]
  /\ process.alive => process.id # 0
  /\ spawned \in 1..MaxProcesses /\ reader \in ReaderStates

RouteOK ==
  /\ latched \in BOOLEAN /\ stopping \in BOOLEAN /\ responses \subseteq Calls
  /\ generation \in Nat /\ reconnecting \in Calls \cup {Nobody} /\ lastFailed \in BOOLEAN

ApprovalsOK ==
  /\ noted \in Nat /\ finalizing \in Calls \cup {Nobody} /\ closing \subseteq Calls
  /\ rows \in [Calls -> Statuses \cup {"absent"}] /\ cards \subseteq Calls
  /\ bindings \in [Calls -> Nat \cup {None}]

\* A worker that is about to store a generation has read one.
BindingsOK ==
  /\ bound \in [Calls -> Nat \cup {None}] /\ noting \in [Calls -> Nat \cup {None}]
  /\ \A c \in Calls : at[c] = "notes" => noting[c] \in Nat

HistoriesOK ==
  /\ written \in [Calls -> [to : 0..MaxProcesses, as : Nat \cup {None}]]
  /\ vetted \subseteq 1..MaxProcesses /\ orphaned \in [Calls -> 0..MaxProcesses]

TypesOK ==
  DownstreamOK /\ RouteOK /\ ApprovalsOK /\ at \in [Calls -> Places] /\ BindingsOK /\ HistoriesOK

LEMMA EdgeEnds == \A e \in Edges : e[1] \in Places /\ e[2] \in Places
  BY DEF Edges, Places

LEMMA DownstreamStep ==
  ASSUME DownstreamOK, RouteNext
  PROVE  DownstreamOK'
<1>1. CASE UNCHANGED downstream
  BY <1>1 DEF downstream, DownstreamOK
<1>2. CASE Die
  BY <1>2 DEF Die, DownstreamOK
<1>3. CASE CloseStdout
  BY <1>3 DEF CloseStdout, DownstreamOK
<1>4. CASE ReaderGivesUp \/ ReaderSeesEof \/ ReaderRetires
  BY <1>4 DEF ReaderGivesUp, ReaderSeesEof, ReaderRetires, DownstreamOK, ReaderStates
<1>5. ASSUME NEW c \in Calls, StopProcess(c) PROVE DownstreamOK'
  BY <1>5 DEF StopProcess, DownstreamOK
<1>6. ASSUME NEW c \in Calls, JoinReader(c) PROVE DownstreamOK'
  BY <1>6, RouteAssumption DEF JoinReader, NoProcess, DownstreamOK
<1>7. ASSUME NEW c \in Calls, Spawn(c) PROVE DownstreamOK'
  <2>1. CASE UNCHANGED downstream
    BY <2>1, <1>1
  <2>2. CASE /\ spawned < MaxProcesses /\ spawned' = spawned + 1
             /\ process' = Running(spawned + 1) /\ reader' = "reading"
    BY <2>2, RouteAssumption DEF Running, DownstreamOK, ReaderStates
  <2> QED BY <1>7, <2>1, <2>2 DEF Spawn
<1> QED
  BY <1>1, <1>2, <1>3, <1>4, <1>5, <1>6, <1>7, DownstreamMoves

LEMMA RouteStep ==
  ASSUME RouteOK, RouteNext
  PROVE  RouteOK'
<1> USE DEF RouteOK
<1>1. CASE UNCHANGED route
  BY <1>1 DEF route
<1>2. CASE ReaderGivesUp \/ ReaderSeesEof
  BY <1>2 DEF ReaderGivesUp, ReaderSeesEof, ObserveDeath
<1>3. ASSUME NEW c \in Calls, Answer(c) \/ Finish(c) PROVE RouteOK'
  <2>1. /\ responses' \subseteq Calls
        /\ UNCHANGED <<latched, stopping, generation, reconnecting, lastFailed>>
    BY <1>3 DEF Answer, Finish
  <2> QED BY <2>1
<1>4. ASSUME NEW c \in Calls, Arrive(c) \/ StartReconnect(c) PROVE RouteOK'
  BY <1>4 DEF Arrive, StartReconnect, ObserveDeath
<1>5. ASSUME NEW c \in Calls, StopProcess(c) \/ JoinReader(c) PROVE RouteOK'
  BY <1>5 DEF StopProcess, JoinReader
<1>7. ASSUME NEW c \in Calls, Handshake(c) PROVE RouteOK'
  BY <1>7 DEF Handshake
<1>8. ASSUME NEW c \in Calls, FailReconnect(c) PROVE RouteOK'
  BY <1>8 DEF FailReconnect
<1>6. ASSUME NEW c \in Calls, \/ EndReconnect(c) \/ TakeSendLock(c)
                              \/ ValidateGeneration(c) \/ WriteCall(c)
      PROVE  RouteOK'
  BY <1>6 DEF EndReconnect, TakeSendLock, ValidateGeneration, WriteCall
<1> QED
  BY <1>1, <1>2, <1>3, <1>4, <1>5, <1>6, <1>7, <1>8, RouteMoves

LEMMA InvalidateTypes ==
  ASSUME ApprovalsOK, NEW calls \in SUBSET Calls, Invalidate(calls)
  PROVE  /\ rows' \in [Calls -> Statuses \cup {"absent"}]
         /\ cards' \subseteq Calls /\ closing' \subseteq Calls
         /\ bindings' \in [Calls -> Nat \cup {None}]
  BY DEF ApprovalsOK, Invalidate, Statuses, Terminal

LEMMA SetRowTypes ==
  ASSUME ApprovalsOK, NEW c \in Calls, NEW status \in Statuses, SetRow(c, status)
  PROVE  rows' \in [Calls -> Statuses \cup {"absent"}]
  BY DEF ApprovalsOK, SetRow

LEMMA ApprovalsStep ==
  ASSUME ApprovalsOK, RouteOK, BindingsOK, RouteNext
  PROVE  ApprovalsOK'
<1>0. {"pending", "approved", "invalidated", "expired", "error", "executed"} \cup Decisions
        \subseteq Statuses
  BY DEF Statuses, Terminal, Decisions
<1>1. CASE UNCHANGED approvals
  BY <1>1 DEF approvals, ApprovalsOK
<1>2. ASSUME ReaderRetires \/ \E c \in Calls : WorkerRetires(c) PROVE ApprovalsOK'
  <2>1. RetireAfterDeath
    BY <1>2 DEF ReaderRetires, WorkerRetires
  <2> QED BY <2>1, <1>1, InvalidateTypes DEF RetireAfterDeath, ApprovalsOK, Bound
<1>3. ASSUME NEW c \in Calls, WriteNote(c) PROVE ApprovalsOK'
  BY <1>3 DEF WriteNote, Goto, ApprovalsOK, BindingsOK
<1>4. ASSUME NEW c \in Calls, PublishSet(c) PROVE ApprovalsOK'
  BY <1>4 DEF PublishSet, ApprovalsOK, RouteOK
<1>5. ASSUME NEW c \in Calls, PublishInvalidate(c) PROVE ApprovalsOK'
  BY <1>5, InvalidateTypes DEF PublishInvalidate, ApprovalsOK, Stale, Bound
<1>6. ASSUME NEW c \in Calls, Ask(c) PROVE ApprovalsOK'
  BY <1>6, <1>0, SetRowTypes DEF Ask, ApprovalsOK
<1>7. ASSUME NEW c \in Calls, RegisterCard(c) PROVE ApprovalsOK'
  <2>1. CASE Invalidate({c})
    BY <1>7, <2>1, InvalidateTypes DEF RegisterCard, ApprovalsOK
  <2>2. CASE /\ cards' = cards \cup {c} /\ UNCHANGED <<closing, rows>>
             /\ bindings' = [bindings EXCEPT ![c] = bound[c]]
    BY <1>7, <2>2 DEF RegisterCard, ApprovalsOK, BindingsOK
  <2> QED BY <1>7, <2>1, <2>2 DEF RegisterCard
<1>8. ASSUME NEW c \in Calls, NEW d \in Decisions, Decide(c, d) PROVE ApprovalsOK'
  <2>1. d \in Statuses
    BY <1>0
  <2> QED BY <1>8, <2>1, SetRowTypes DEF Decide, ApprovalsOK
<1>9. ASSUME NEW c \in Calls, Expire(c) PROVE ApprovalsOK'
  <2>1. "expired" \in Statuses
    BY <1>0
  <2>2. rows' \in [Calls -> Statuses \cup {"absent"}]
    BY <1>9, <2>1, SetRowTypes DEF Expire, ApprovalsOK
  <2> QED BY <1>9, <2>2 DEF Expire, ApprovalsOK
<1>11. ASSUME CloseCards \/ \E c \in Calls : Unregister(c) PROVE ApprovalsOK'
  BY <1>11 DEF CloseCards, Unregister, ApprovalsOK
<1>10. ASSUME NEW c \in Calls, ValidateGeneration(c) \/ WriteCall(c) \/ Finish(c)
       PROVE  ApprovalsOK'
  <2>1. UNCHANGED rows \/ SetRow(c, "error") \/ SetRow(c, "executed")
    BY <1>10 DEF ValidateGeneration, WriteCall, Finish
  <2>2. rows' \in [Calls -> Statuses \cup {"absent"}]
    BY <2>1, <1>0, SetRowTypes DEF ApprovalsOK
  <2> QED BY <1>10, <2>2 DEF ValidateGeneration, WriteCall, Finish, ApprovalsOK
<1> QED
  BY <1>1, <1>2, <1>3, <1>4, <1>5, <1>6, <1>7, <1>8, <1>9, <1>10, <1>11, ApprovalsMove

LEMMA PlacesStep ==
  ASSUME at \in [Calls -> Places], RouteNext
  PROVE  at' \in [Calls -> Places]
<1>1. ASSUME NEW c \in Calls, \/ ReadNote(c) \/ Handshake(c) \/ FailReconnect(c)
                              \/ ValidateGeneration(c) \/ WriteCall(c)
      PROVE  at' \in [Calls -> Places]
  BY <1>1 DEF ReadNote, Handshake, FailReconnect, ValidateGeneration, WriteCall, Goto, Places
<1> QED
  BY <1>1, PlacesMove, EdgeEnds, GoesTo

\* Nobody comes to "notes" but by reading a generation.
LEMMA BindingsStep ==
  ASSUME BindingsOK, RouteOK, at \in [Calls -> Places], RouteNext
  PROVE  BindingsOK'
<1>1. ASSUME NEW c \in Calls, ReadNote(c) PROVE BindingsOK'
  BY <1>1 DEF ReadNote, Goto, BindingsOK, RouteOK
<1>2. ASSUME NEW c \in Calls, Bind(c) PROVE BindingsOK'
  BY <1>2 DEF Bind, Goto, BindingsOK, RouteOK
<1>3. ASSUME NEW c \in Calls, Rebind(c) PROVE BindingsOK'
  BY <1>3 DEF Rebind, Goto, BindingsOK, RouteOK
<1>4. CASE UNCHANGED <<bound, noting>> /\ \A c \in Calls : ~ReadNote(c)
  <2>1. ASSUME NEW c \in Calls, NEW e \in Edges, Goto(c, e[1], e[2])
        PROVE  \A d \in Calls : at'[d] = "notes" => at[d] = "notes"
    <3>1. e[2] # "notes"
      BY DEF Edges
    <3> QED BY <2>1, <3>1, GoesTo, EdgeEnds
  <2>2. ASSUME NEW c \in Calls, \/ Handshake(c) \/ FailReconnect(c)
                                \/ ValidateGeneration(c) \/ WriteCall(c)
        PROVE  \A d \in Calls : at'[d] = "notes" => at[d] = "notes"
    BY <2>2 DEF Handshake, FailReconnect, ValidateGeneration, WriteCall, Goto
  <2>3. \A d \in Calls : at'[d] = "notes" => at[d] = "notes"
    BY <1>4, <2>1, <2>2, PlacesMove
  <2> QED BY <1>4, <2>3 DEF BindingsOK
<1> QED
  BY <1>1, <1>2, <1>3, <1>4, BindingMoves

LEMMA HistoriesStep ==
  ASSUME HistoriesOK, DownstreamOK, RouteOK, RouteNext
  PROVE  HistoriesOK'
<1>1. CASE UNCHANGED histories
  BY <1>1 DEF histories, HistoriesOK
<1>2. ASSUME Orphan \/ UNCHANGED orphaned PROVE orphaned' \in [Calls -> 0..MaxProcesses]
  <2>1. process.id \in 0..MaxProcesses
    BY DEF DownstreamOK
  <2> QED BY <1>2, <2>1 DEF Orphan, HistoriesOK
<1>3. CASE ReaderSeesEof
  BY <1>2, <1>3 DEF ReaderSeesEof, ObserveDeath, HistoriesOK
<1>4. ASSUME NEW c \in Calls, Arrive(c) \/ StartReconnect(c) PROVE HistoriesOK'
  BY <1>2, <1>4 DEF Arrive, StartReconnect, ObserveDeath, HistoriesOK
<1>5. ASSUME NEW c \in Calls, FailReconnect(c) PROVE HistoriesOK'
  BY <1>2, <1>5 DEF FailReconnect, HistoriesOK
<1>6. ASSUME NEW c \in Calls, Handshake(c) PROVE HistoriesOK'
  <2>1. process.alive => process.id \in 1..MaxProcesses
    BY RouteAssumption DEF DownstreamOK
  <2>2. vetted' \subseteq 1..MaxProcesses
    BY <1>6, <2>1 DEF Handshake, HistoriesOK
  <2> QED BY <1>6, <2>2 DEF Handshake, HistoriesOK
<1>7. ASSUME NEW c \in Calls, WriteCall(c) PROVE HistoriesOK'
  <2>1. process.id \in 0..MaxProcesses /\ generation \in Nat
    BY DEF DownstreamOK, RouteOK
  <2> QED BY <1>7, <2>1 DEF WriteCall, HistoriesOK
<1> QED
  BY <1>1, <1>3, <1>4, <1>5, <1>6, <1>7, HistoriesMove

LEMMA TypesStep ==
  ASSUME TypesOK, RouteNext
  PROVE  TypesOK'
  BY DownstreamStep, RouteStep, ApprovalsStep, PlacesStep, BindingsStep, HistoriesStep DEF TypesOK

-----------------------------------------------------------------------------
(* The reconnect lock has one holder, and it is where the lock is held.    *)

Locked == Reconnecting \cup {"validates", "writes"}

LockHeld == \A c \in Calls : reconnecting = c <=> at[c] \in Locked

LEMMA LockKept ==
  ASSUME LockHeld, at \in [Calls -> Places], UNCHANGED reconnecting,
         NEW c \in Calls, NEW p, NEW q \in Places, Goto(c, p, q), p \in Locked <=> q \in Locked
  PROVE  LockHeld'
  BY GoesTo DEF LockHeld

LEMMA LockTaken ==
  ASSUME LockHeld, at \in [Calls -> Places], reconnecting = Nobody,
         NEW c \in Calls, reconnecting' = c, NEW p, NEW q \in Places, Goto(c, p, q), q \in Locked
  PROVE  LockHeld'
  BY GoesTo, RouteAssumption DEF LockHeld

LEMMA LockReleased ==
  ASSUME LockHeld, at \in [Calls -> Places], reconnecting' = Nobody,
         NEW c \in Calls, NEW p, NEW q \in Places, Goto(c, p, q), p \in Locked, q \notin Locked
  PROVE  LockHeld'
  BY GoesTo, RouteAssumption DEF LockHeld

LEMMA LockStep ==
  ASSUME LockHeld, at \in [Calls -> Places], RouteNext
  PROVE  LockHeld'
<1>0. /\ {"stops", "joins", "spawns", "handshakes", "fails", "publishes", "invalidates", "closes",
          "validates", "writes"} \subseteq Locked \cap Places
      /\ {"arrives", "retires", "checks", "binds", "reads", "notes", "reconnects", "rebinds",
          "asks", "registers", "waits", "expires", "queues", "sends", "sent", "done"} \subseteq Places \ Locked
  BY DEF Locked, Reconnecting, Places
<1>1. CASE UNCHANGED <<at, reconnecting>>
  BY <1>1 DEF LockHeld
<1>2. ASSUME NEW c \in Calls, ReadyStep(c) PROVE LockHeld'
  BY <1>2, <1>0, LockKept DEF ReadyStep, Arrive, WorkerRetires, Check, Bind, ReadNote, WriteNote, route
<1>3. ASSUME NEW c \in Calls, StartReconnect(c) PROVE LockHeld'
  BY <1>3, <1>0, LockKept, LockTaken DEF StartReconnect
<1>4. ASSUME NEW c \in Calls, \/ StopProcess(c) \/ JoinReader(c) \/ Spawn(c) \/ Handshake(c) \/ PublishSet(c)
                              \/ PublishInvalidate(c)
      PROVE  LockHeld'
  BY <1>4, <1>0, LockKept DEF StopProcess, JoinReader, Spawn, Handshake, PublishSet, PublishInvalidate, route
<1>5. ASSUME NEW c \in Calls, FailReconnect(c) \/ EndReconnect(c) PROVE LockHeld'
  BY <1>5, <1>0, LockReleased DEF FailReconnect, EndReconnect
<1>6. ASSUME NEW c \in Calls, Rebind(c) \/ Ask(c) \/ RegisterCard(c) \/ Expire(c) \/ Unregister(c) \/ Wake(c)
      PROVE  LockHeld'
  BY <1>6, <1>0, LockKept DEF Rebind, Ask, RegisterCard, Expire, Unregister, Wake, route
<1>7. ASSUME NEW c \in Calls, AcquireMutation(c) \/ Finish(c) PROVE LockHeld'
  BY <1>7, <1>0, LockKept DEF AcquireMutation, Finish, route
<1>8. ASSUME NEW c \in Calls, TakeSendLock(c) PROVE LockHeld'
  BY <1>8, <1>0, LockTaken DEF TakeSendLock
<1>9. ASSUME NEW c \in Calls, ValidateGeneration(c) PROVE LockHeld'
  BY <1>9, <1>0, LockKept, LockReleased DEF ValidateGeneration
<1>10. ASSUME NEW c \in Calls, WriteCall(c) PROVE LockHeld'
  BY <1>10, <1>0, LockReleased DEF WriteCall
<1>11. ASSUME NEW c \in Calls, Answer(c) \/ \E d \in Decisions : Decide(c, d)
       PROVE  UNCHANGED <<at, reconnecting>>
  BY <1>11 DEF Answer, Decide, workers, route
<1>12. ASSUME Die \/ CloseStdout \/ ReaderGivesUp \/ ReaderStep \/ CloseCards \/ UNCHANGED routeVars
       PROVE  UNCHANGED <<at, reconnecting>>
  BY <1>12 DEF Die, CloseStdout, ReaderGivesUp, ReaderStep, ReaderSeesEof, ReaderRetires, CloseCards,
               routeVars, workers, route
<1> QED
  BY <1>1, <1>2, <1>3, <1>4, <1>5, <1>6, <1>7, <1>8, <1>9, <1>10, <1>11, <1>12
     DEF RouteNext, WorkerStep, ReconnectStep, SendStep

-----------------------------------------------------------------------------
(* The rows and the prompts follow the workers.                            *)

\* Places a worker passes before its row exists.
Unasked ==
  {"arrives", "retires", "checks", "binds", "reads", "notes", "reconnects", "stops", "joins",
   "spawns", "handshakes", "fails", "publishes", "invalidates", "closes", "rebinds", "asks"}

\* Places of a call that was approved and has no result yet.
Cleared == {"queues", "sends", "validates", "writes", "sent"}

\* A pending row belongs to a worker that registers its card or waits; until
\* the card is registered no generation is bound to it, so no retirement meets
\* the row in between.
RowMatches(c) ==
  /\ at[c] \in Unasked => rows[c] = "absent" /\ bindings[c] = None
  /\ at[c] = "registers" => rows[c] = "pending" /\ bindings[c] = None
  /\ at[c] \in Cleared => rows[c] = "approved"
  /\ rows[c] = "pending" => at[c] \in {"registers", "waits"}

RowsMatch == (\A c \in Calls : RowMatches(c)) /\ PromptsAreLive

\* A step that walks on and leaves the approvals alone.
LEMMA RowsKept ==
  ASSUME RowsMatch, ApprovalsOK, at \in [Calls -> Places], UNCHANGED <<rows, cards, closing, bindings>>,
         NEW c \in Calls, NEW p, NEW q \in Places, Goto(c, p, q),
         \/ p \in Unasked /\ q \in Unasked \cup {"done"}
         \/ p \in Cleared /\ q \in Cleared
  PROVE  RowsMatch'
<1>1. ASSUME NEW d \in Calls PROVE RowMatches(d)'
  <2>1. CASE d = c
    BY <2>1, GoesTo DEF RowsMatch, RowMatches, Unasked, Cleared
  <2>2. CASE d # c
    BY <2>2, GoesTo DEF RowsMatch, RowMatches
  <2> QED BY <2>1, <2>2
<1>2. c \in cards => c \in closing
  BY GoesTo DEF RowsMatch, PromptsAreLive, Unasked, Cleared
<1>3. PromptsAreLive'
  BY <1>2, GoesTo DEF RowsMatch, PromptsAreLive, ApprovalsOK
<1> QED BY <1>1, <1>3 DEF RowsMatch

\* A retirement of bound calls, next to a worker that has not asked yet.
LEMMA RowsRetired ==
  ASSUME RowsMatch, ApprovalsOK, at \in [Calls -> Places],
         NEW calls, calls \subseteq Bound, Invalidate(calls),
         \/ UNCHANGED at
         \/ \E c \in Calls : \E p, q \in Unasked \cap Places : Goto(c, p, q)
  PROVE  RowsMatch'
<1>1. \A c \in Calls : at'[c] = at[c] \/ (at[c] \in Unasked /\ at'[c] \in Unasked)
  BY GoesTo
<1>2. ASSUME NEW c \in Calls PROVE RowMatches(c)'
  <2>1. /\ rows'[c] = IF c \in calls /\ rows[c] = "pending" THEN "invalidated" ELSE rows[c]
        /\ bindings'[c] = IF c \in calls THEN None ELSE bindings[c]
        /\ c \in calls => bindings[c] # None
    BY DEF Invalidate, Bound
  <2> QED BY <2>1, <1>1 DEF RowsMatch, RowMatches, Unasked, Cleared
<1>3. PromptsAreLive'
  <2>1. ASSUME NEW c \in cards'
        PROVE  (rows'[c] = "pending" /\ at'[c] = "waits") \/ c \in closing' \/ at'[c] = "expires"
    <3>1. c \in cards /\ c \in Calls
      BY <2>1 DEF Invalidate, ApprovalsOK
    <3>2. (rows[c] = "pending" /\ at[c] = "waits") \/ c \in closing \/ at[c] = "expires"
      BY <3>1 DEF RowsMatch, PromptsAreLive
    <3> QED BY <3>1, <3>2, <1>1 DEF Invalidate, Unasked, ApprovalsOK
  <2> QED BY <2>1 DEF PromptsAreLive
<1> QED BY <1>2, <1>3 DEF RowsMatch

LEMMA RowsRegistered ==
  ASSUME RowsMatch, ApprovalsOK, at \in [Calls -> Places], NEW c \in Calls, RegisterCard(c)
  PROVE  RowsMatch'
<1>1. at[c] = "registers" /\ rows[c] = "pending"
  BY DEF RegisterCard, Goto, RowsMatch, RowMatches
<1>2. CASE /\ Goto(c, "registers", "waits") /\ cards' = cards \cup {c} /\ UNCHANGED <<closing, rows>>
           /\ bindings' = [bindings EXCEPT ![c] = bound[c]]
  BY <1>1, <1>2 DEF Goto, RowsMatch, RowMatches, PromptsAreLive, ApprovalsOK, Unasked, Cleared
<1>3. CASE Goto(c, "registers", "done") /\ Invalidate({c})
  BY <1>1, <1>3 DEF Goto, Invalidate, RowsMatch, RowMatches, PromptsAreLive, ApprovalsOK,
                    Unasked, Cleared
<1> QED BY <1>2, <1>3 DEF RegisterCard

\* A decision on a waiting call, its prompt still to be closed.
LEMMA RowsDecided ==
  ASSUME RowsMatch, ApprovalsOK, UNCHANGED <<at, cards>>, NEW c \in Calls, at[c] = "waits",
         NEW status \in Statuses \ {"pending"}, SetRow(c, status), closing = {}, closing' = {c},
         \A d \in Calls \ {c} : bindings'[d] = bindings[d]
  PROVE  RowsMatch'
<1>1. ASSUME NEW d \in Calls PROVE RowMatches(d)'
  BY DEF SetRow, RowsMatch, RowMatches, ApprovalsOK, Unasked, Cleared
<1>2. PromptsAreLive'
  BY DEF SetRow, RowsMatch, PromptsAreLive, ApprovalsOK
<1> QED BY <1>1, <1>2 DEF RowsMatch

\* The deadline, and the prompt it unregisters.
LEMMA RowsExpired ==
  ASSUME RowsMatch, ApprovalsOK, at \in [Calls -> Places], NEW c \in Calls, Expire(c) \/ Unregister(c)
  PROVE  RowsMatch'
<1>1. CASE Expire(c)
  <2>1. /\ at[c] = "waits" /\ at' = [at EXCEPT ![c] = "expires"]
        /\ UNCHANGED <<closing, cards, bindings>>
        /\ rows' = [rows EXCEPT ![c] = IF rows[c] = "pending" THEN "expired" ELSE rows[c]]
    BY <1>1 DEF Expire, Goto, SetRow, ApprovalsOK
  <2>2. ASSUME NEW d \in Calls PROVE RowMatches(d)'
    BY <2>1 DEF RowsMatch, RowMatches, ApprovalsOK, Unasked, Cleared
  <2>3. PromptsAreLive'
    BY <2>1 DEF RowsMatch, PromptsAreLive, ApprovalsOK
  <2> QED BY <2>2, <2>3 DEF RowsMatch
<1>2. CASE Unregister(c)
  <2>1. /\ at[c] = "expires" /\ UNCHANGED <<closing, rows, bindings>> /\ cards' = cards \ {c}
        /\ at' = [at EXCEPT ![c] = IF rows[c] = "approved" THEN "queues" ELSE "done"]
    BY <1>2 DEF Unregister, Goto
  <2>2. ASSUME NEW d \in Calls PROVE RowMatches(d)'
    BY <2>1 DEF RowsMatch, RowMatches, ApprovalsOK, Unasked, Cleared
  <2>3. PromptsAreLive'
    BY <2>1 DEF RowsMatch, PromptsAreLive, ApprovalsOK
  <2> QED BY <2>2, <2>3 DEF RowsMatch
<1> QED BY <1>1, <1>2

\* A result on a call that leaves.
LEMMA RowsClosed ==
  ASSUME RowsMatch, ApprovalsOK, at \in [Calls -> Places], NEW c \in Calls, NEW p \in Cleared,
         Goto(c, p, "done"), NEW status \in {"executed", "error"}, SetRow(c, status),
         UNCHANGED <<cards, closing, bindings>>
  PROVE  RowsMatch'
<1>1. ASSUME NEW d \in Calls PROVE RowMatches(d)'
  BY DEF Goto, SetRow, RowsMatch, RowMatches, ApprovalsOK, Unasked, Cleared
<1>2. PromptsAreLive'
  BY DEF Goto, SetRow, RowsMatch, PromptsAreLive, ApprovalsOK, Cleared
<1> QED BY <1>1, <1>2 DEF RowsMatch

LEMMA RowsStep ==
  ASSUME RowsMatch, ApprovalsOK, at \in [Calls -> Places], RouteNext
  PROVE  RowsMatch'
<1>0. Unasked \subseteq Places /\ Cleared \subseteq Places /\ {"done", "waits"} \subseteq Places
  BY DEF Unasked, Cleared, Places
<1>1. ASSUME UNCHANGED approvals PROVE UNCHANGED <<rows, cards, closing, bindings>>
  BY <1>1 DEF approvals
<1>2. ASSUME UNCHANGED <<at, approvals>> PROVE RowsMatch'
  BY <1>1, <1>2 DEF RowsMatch, RowMatches, PromptsAreLive
<1>3. ASSUME NEW c \in Calls,
             Arrive(c) \/ Check(c) \/ Bind(c) \/ ReadNote(c) \/ WriteNote(c)
      PROVE  RowsMatch'
  BY <1>3, <1>0, <1>1, RowsKept DEF Arrive, Check, Bind, ReadNote, WriteNote, Unasked
<1>4. ASSUME NEW c \in Calls, \/ StartReconnect(c) \/ StopProcess(c) \/ JoinReader(c) \/ Spawn(c)
                              \/ Handshake(c) \/ FailReconnect(c) \/ PublishSet(c) \/ EndReconnect(c) \/ Rebind(c)
      PROVE  RowsMatch'
  <2>1. UNCHANGED <<rows, cards, closing, bindings>>
    BY <1>4, <1>1 DEF StartReconnect, StopProcess, JoinReader, Spawn, Handshake, FailReconnect,
                      PublishSet, EndReconnect, Rebind
  <2>2. \E p \in Unasked, q \in Unasked \cup {"done"} : Goto(c, p, q)
    BY <1>4 DEF StartReconnect, StopProcess, JoinReader, Spawn, Handshake, FailReconnect,
                PublishSet, EndReconnect, Rebind, Unasked
  <2> QED BY <2>1, <2>2, <1>0, RowsKept
<1>5. ASSUME NEW c \in Calls, AcquireMutation(c) \/ TakeSendLock(c) PROVE RowsMatch'
  BY <1>5, <1>0, <1>1, RowsKept DEF AcquireMutation, TakeSendLock, Cleared
<1>6. ASSUME NEW c \in Calls, Ask(c) PROVE RowsMatch'
  <2>1. at[c] = "asks" /\ rows[c] = "absent" /\ bindings[c] = None
    BY <1>6 DEF Ask, Goto, RowsMatch, RowMatches, Unasked
  <2>2. c \in cards => c \in closing
    BY <2>1 DEF RowsMatch, PromptsAreLive
  <2>3. ASSUME NEW d \in Calls PROVE RowMatches(d)'
    BY <1>6, <2>1 DEF Ask, Goto, SetRow, RowsMatch, RowMatches, ApprovalsOK, Unasked, Cleared
  <2>4. PromptsAreLive'
    BY <1>6, <2>2 DEF Ask, Goto, SetRow, RowsMatch, PromptsAreLive, ApprovalsOK
  <2> QED BY <2>3, <2>4 DEF RowsMatch
<1>7. ASSUME ReaderRetires \/ \E c \in Calls : WorkerRetires(c) \/ PublishInvalidate(c)
      PROVE  RowsMatch'
  <2>1. \/ UNCHANGED at
        \/ \E c \in Calls : \E p, q \in Unasked \cap Places : Goto(c, p, q)
    BY <1>7, <1>0 DEF ReaderRetires, WorkerRetires, PublishInvalidate, Unasked, workers
  <2>2. CASE Invalidate(Bound) \/ Invalidate(Stale)
    BY <2>1, <2>2, RowsRetired DEF Stale
  <2>3. CASE UNCHANGED approvals
    <3>1. CASE UNCHANGED at
      BY <3>1, <2>3, <1>2
    <3>2. CASE \E c \in Calls : \E p, q \in Unasked \cap Places : Goto(c, p, q)
      BY <3>2, <2>3, <1>1, RowsKept
    <3> QED BY <3>1, <3>2, <2>1
  <2> QED BY <1>7, <2>2, <2>3 DEF ReaderRetires, WorkerRetires, PublishInvalidate, RetireAfterDeath
<1>8. ASSUME NEW c \in Calls, NEW d \in Decisions, Decide(c, d) PROVE RowsMatch'
  <2>1. at[c] = "waits" /\ d \in Statuses \ {"pending"} /\ UNCHANGED <<at, cards>>
    <3>1. c \in cards /\ rows[c] = "pending" /\ closing = {} /\ UNCHANGED <<at, cards>>
      BY <1>8 DEF Decide, OpenCards, FinalizeFree, workers
    <3>2. at[c] = "waits"
      BY <3>1 DEF RowsMatch, RowMatches, PromptsAreLive
    <3> QED BY <3>1, <3>2 DEF Decisions, Statuses, Terminal
  <2> QED BY <1>8, <2>1, RowsDecided DEF Decide, FinalizeFree, ApprovalsOK
<1>9. CASE CloseCards
  BY <1>9 DEF CloseCards, RowsMatch, RowMatches, PromptsAreLive, workers
<1>10. ASSUME NEW c \in Calls, Wake(c) PROVE RowsMatch'
  <2>1. at[c] = "waits" /\ rows[c] # "pending" /\ (c \in cards => c \in closing)
    BY <1>10 DEF Wake, Goto, RowsMatch, PromptsAreLive
  <2>2. ASSUME NEW d \in Calls PROVE RowMatches(d)'
    BY <1>10, <1>1, <2>1 DEF Wake, Goto, RowsMatch, RowMatches, Unasked, Cleared
  <2>3. PromptsAreLive'
    BY <1>10, <1>1, <2>1 DEF Wake, Goto, RowsMatch, PromptsAreLive, ApprovalsOK
  <2> QED BY <2>2, <2>3 DEF RowsMatch
<1>11. ASSUME NEW c \in Calls, ValidateGeneration(c) \/ WriteCall(c) \/ Finish(c) PROVE RowsMatch'
  <2>1. UNCHANGED <<cards, closing, bindings>>
    BY <1>11 DEF ValidateGeneration, WriteCall, Finish
  <2>2. \/ UNCHANGED rows /\ \E p, q \in Cleared : Goto(c, p, q)
        \/ \E p \in Cleared, status \in {"executed", "error"} : Goto(c, p, "done") /\ SetRow(c, status)
    BY <1>11 DEF ValidateGeneration, WriteCall, Finish, Cleared
  <2> QED BY <2>1, <2>2, <1>0, RowsKept, RowsClosed
<1>12. ASSUME NEW c \in Calls, Answer(c) PROVE UNCHANGED <<at, approvals>>
  BY <1>12 DEF Answer, workers
<1>13. ASSUME Die \/ CloseStdout \/ ReaderGivesUp \/ ReaderSeesEof \/ UNCHANGED routeVars
       PROVE  UNCHANGED <<at, approvals>>
  BY <1>13 DEF Die, CloseStdout, ReaderGivesUp, ReaderSeesEof, routeVars, workers
<1> QED
  BY <1>2, <1>3, <1>4, <1>5, <1>6, <1>7, <1>8, <1>9, <1>10, <1>11, <1>12, <1>13, RowsRegistered,
     RowsExpired
     DEF RouteNext, ReaderStep, WorkerStep, ReadyStep, ReconnectStep, SendStep

\* One verdict per row: what a step may do to it.
RowMoves(c) ==
  rows'[c] # rows[c] =>
    IF rows[c] = "absent" THEN rows'[c] \in {"pending", "approved"}
    ELSE rows'[c] \in AllowedTransitions(rows[c])

LEMMA RowsMove ==
  ASSUME RowsMatch, ApprovalsOK, RouteNext
  PROVE  \A c \in Calls : RowMoves(c)
<1>0. /\ AllowedTransitions("pending") = Statuses \ {"pending"}
      /\ {"executed", "error"} \subseteq AllowedTransitions("approved")
      /\ {"approved", "expired", "invalidated"} \cup Decisions \subseteq Statuses \ {"pending"}
      /\ "absent" \notin Statuses
  BY DEF AllowedTransitions, Statuses, Terminal, Decisions
<1>1. CASE UNCHANGED rows
  BY <1>1 DEF RowMoves
<1>2. ASSUME NEW calls, Invalidate(calls) PROVE \A c \in Calls : RowMoves(c)
  BY <1>0, <1>2 DEF Invalidate, RowMoves
<1>3. ASSUME NEW c \in Calls, NEW status, SetRow(c, status),
             \/ rows[c] = "absent" /\ status \in {"pending", "approved"}
             \/ rows[c] = "pending" /\ status \in {"expired"} \cup Decisions
             \/ rows[c] = "approved" /\ status \in {"executed", "error"}
      PROVE  \A d \in Calls : RowMoves(d)
  BY <1>0, <1>3 DEF SetRow, RowMoves, ApprovalsOK
<1>4. ASSUME NEW c \in Calls, Ask(c) PROVE \A d \in Calls : RowMoves(d)
  <2>1. rows[c] = "absent"
    BY <1>4 DEF Ask, Goto, RowsMatch, RowMatches, Unasked
  <2> QED BY <1>4, <2>1, <1>3 DEF Ask
<1>5. ASSUME NEW c \in Calls, RegisterCard(c) PROVE \A d \in Calls : RowMoves(d)
  BY <1>5, <1>1, <1>2 DEF RegisterCard
<1>6. ASSUME NEW c \in Calls, NEW d \in Decisions, Decide(c, d) PROVE \A x \in Calls : RowMoves(x)
  BY <1>6, <1>3 DEF Decide, OpenCards
<1>7. ASSUME NEW c \in Calls, Expire(c) \/ Unregister(c) PROVE \A d \in Calls : RowMoves(d)
  BY <1>7, <1>1, <1>3 DEF Expire, Unregister
<1>8. ASSUME NEW c \in Calls, ValidateGeneration(c) \/ WriteCall(c) \/ Finish(c)
      PROVE  \A d \in Calls : RowMoves(d)
  <2>1. rows[c] = "approved"
    BY <1>8 DEF ValidateGeneration, WriteCall, Finish, Goto, RowsMatch, RowMatches, Cleared
  <2>2. UNCHANGED rows \/ SetRow(c, "error") \/ SetRow(c, "executed")
    BY <1>8 DEF ValidateGeneration, WriteCall, Finish
  <2> QED BY <2>1, <2>2, <1>1, <1>3
<1>9. ASSUME \/ UNCHANGED approvals \/ ReaderRetires \/ CloseCards
             \/ \E c \in Calls : \/ WorkerRetires(c) \/ WriteNote(c)
                                 \/ PublishSet(c) \/ PublishInvalidate(c)
      PROVE  \A d \in Calls : RowMoves(d)
  <2>1. UNCHANGED rows \/ \E calls : Invalidate(calls)
    BY <1>9 DEF ReaderRetires, WorkerRetires, WriteNote, PublishSet, PublishInvalidate,
                RetireAfterDeath, CloseCards, approvals
  <2> QED BY <2>1, <1>1, <1>2
<1> QED
  BY <1>4, <1>5, <1>6, <1>7, <1>8, <1>9, ApprovalsMove

-----------------------------------------------------------------------------
(* What is written downstream.                                             *)

\* A worker about to write has compared its binding; a written call is not
\* written again, keeps its binding and was approved.
SentRight(c) ==
  /\ at[c] = "writes" => bound[c] = generation
  /\ written[c] # Unwritten => /\ at[c] \in {"sent", "done"}
                               /\ written[c].as = bound[c]
                               /\ rows[c] \in {"approved", "executed", "error"}

SentOK == \A c \in Calls : SentRight(c)

\* The generation moves under the reconnect lock, which a writer holds.
LEMMA GenerationStays ==
  ASSUME TypesOK, LockHeld, RouteNext, NEW c \in Calls, at[c] = "writes"
  PROVE  generation' = generation
<1>1. ASSUME NEW d \in Calls, Handshake(d) PROVE FALSE
  <2>1. at[d] = "handshakes"
    BY <1>1 DEF Handshake, Goto
  <2>2. reconnecting = d /\ reconnecting = c
    BY <2>1 DEF LockHeld, Locked, Reconnecting
  <2> QED BY <2>1, <2>2
<1>2. ASSUME UNCHANGED route \/ ReaderGivesUp \/ ReaderSeesEof PROVE generation' = generation
  BY <1>2 DEF route, ReaderGivesUp, ReaderSeesEof
<1>3. ASSUME NEW d \in Calls, \/ Answer(d) \/ Arrive(d) \/ StartReconnect(d) \/ StopProcess(d)
                              \/ JoinReader(d) \/ FailReconnect(d) \/ EndReconnect(d)
      PROVE  generation' = generation
  BY <1>3 DEF Answer, Arrive, StartReconnect, StopProcess, JoinReader, FailReconnect,
              EndReconnect
<1>4. ASSUME NEW d \in Calls, \/ TakeSendLock(d) \/ ValidateGeneration(d) \/ WriteCall(d)
                              \/ Finish(d)
      PROVE  generation' = generation
  BY <1>4 DEF TakeSendLock, ValidateGeneration, WriteCall, Finish
<1> QED
  BY <1>1, <1>2, <1>3, <1>4, RouteMoves

LEMMA WrittenMoves ==
  ASSUME RouteNext
  PROVE  UNCHANGED written \/ \E c \in Calls : WriteCall(c)
<1>1. ASSUME NEW c \in Calls, Arrive(c) \/ StartReconnect(c) \/ Handshake(c) \/ FailReconnect(c)
      PROVE  UNCHANGED written
  BY <1>1 DEF Arrive, StartReconnect, Handshake, FailReconnect
<1>2. ASSUME UNCHANGED histories \/ ReaderSeesEof PROVE UNCHANGED written
  BY <1>2 DEF histories, ReaderSeesEof
<1> QED BY <1>1, <1>2, HistoriesMove

\* A row whose call was approved stays so, or gets its result.
LEMMA ApprovedRowsStay ==
  ASSUME TypesOK, RowsMatch, RouteNext, NEW c \in Calls,
         at[c] \in {"sent", "done"}, rows[c] \in {"approved", "executed", "error"}
  PROVE  rows'[c] \in {"approved", "executed", "error"}
<1>1. ASSUME \/ UNCHANGED approvals \/ ReaderRetires \/ CloseCards
             \/ \E d \in Calls : \/ WorkerRetires(d) \/ WriteNote(d) \/ Unregister(d)
                                 \/ PublishSet(d) \/ PublishInvalidate(d)
      PROVE  rows'[c] = rows[c]
  <2>1. UNCHANGED rows \/ \E calls : Invalidate(calls)
    BY <1>1 DEF ReaderRetires, WorkerRetires, WriteNote, Unregister, PublishSet, PublishInvalidate,
                RetireAfterDeath, CloseCards, approvals
  <2> QED BY <2>1 DEF Invalidate
<1>2. ASSUME NEW d \in Calls, \/ Ask(d) \/ RegisterCard(d) \/ Expire(d)
                              \/ \E x \in Decisions : Decide(d, x)
      PROVE  rows'[c] = rows[c]
  <2>1. d # c
    BY <1>2 DEF Ask, RegisterCard, Expire, Decide, OpenCards, Goto
  <2>2. UNCHANGED rows \/ Invalidate({d}) \/ \E status : SetRow(d, status)
    BY <1>2 DEF Ask, RegisterCard, Expire, Decide
  <2> QED BY <2>1, <2>2 DEF Invalidate, SetRow, TypesOK, ApprovalsOK
<1>3. ASSUME NEW d \in Calls, ValidateGeneration(d) \/ WriteCall(d) \/ Finish(d)
      PROVE  rows'[c] \in {rows[c], "executed", "error"}
  <2>1. UNCHANGED rows \/ SetRow(d, "error") \/ SetRow(d, "executed")
    BY <1>3 DEF ValidateGeneration, WriteCall, Finish
  <2> QED BY <2>1 DEF SetRow, TypesOK, ApprovalsOK
<1> QED
  BY <1>1, <1>2, <1>3, ApprovalsMove

LEMMA SentStep ==
  ASSUME SentOK, TypesOK, LockHeld, RowsMatch, RouteNext
  PROVE  SentOK'
<1> SUFFICES ASSUME NEW d \in Calls PROVE SentRight(d)'
  BY DEF SentOK
<1>0. SentRight(d) /\ at \in [Calls -> Places]
  BY DEF SentOK, TypesOK
<1>1. at[d] \in {"validates", "writes", "sent", "done"} => bound'[d] = bound[d]
  BY BindingMoves DEF Bind, ReadNote, Rebind, Goto, TypesOK, BindingsOK
<1>2. CASE WriteCall(d)
  <2>1. at[d] = "writes" /\ rows[d] = "approved" /\ written[d] = Unwritten /\ bound[d] = generation
    BY <1>2, <1>0 DEF WriteCall, Goto, SentRight, RowsMatch, RowMatches, Cleared
  <2>2. CASE process.alive
    <3>1. /\ at'[d] = "sent" /\ rows'[d] = "approved"
          /\ written'[d] = [to |-> process.id, as |-> generation]
      BY <1>2, <1>0, <2>1, <2>2 DEF WriteCall, Goto, TypesOK, HistoriesOK
    <3> QED BY <3>1, <2>1, <1>1 DEF SentRight
  <2>3. CASE ~process.alive
    <3>1. at'[d] = "done" /\ written'[d] = Unwritten
      BY <1>2, <1>0, <2>1, <2>3 DEF WriteCall, Goto
    <3> QED BY <3>1 DEF SentRight
  <2> QED BY <2>2, <2>3
<1>3. CASE ValidateGeneration(d)
  <2>1. at[d] = "validates" /\ written' = written /\ UNCHANGED <<bound, generation>>
    BY <1>3 DEF ValidateGeneration, Goto, histories
  <2>2. \/ at'[d] = "writes" /\ bound[d] = generation
        \/ at'[d] = "done"
    BY <1>3, <1>0 DEF ValidateGeneration, Goto
  <2> QED BY <2>1, <2>2, <1>0 DEF SentRight
<1>4. CASE ~WriteCall(d) /\ ~ValidateGeneration(d)
  <2>1. /\ at'[d] = "writes" => at[d] = "writes"
        /\ at[d] \in {"sent", "done"} => at'[d] \in {"sent", "done"}
    <3>1. ASSUME NEW c \in Calls, NEW e \in Edges, Goto(c, e[1], e[2])
          PROVE  <2>1!1 /\ <2>1!2
      BY <3>1, <1>0, GoesTo, EdgeEnds DEF Edges
    <3>2. ASSUME NEW c \in Calls, \/ ReadNote(c) \/ Handshake(c) \/ FailReconnect(c)
                                  \/ c # d /\ (ValidateGeneration(c) \/ WriteCall(c))
          PROVE  <2>1!1 /\ <2>1!2
      BY <3>2, <1>0 DEF ReadNote, Handshake, FailReconnect, ValidateGeneration, WriteCall, Goto
    <3> QED BY <3>1, <3>2, <1>4, PlacesMove
  <2>2. written'[d] = written[d]
    BY <1>4, WrittenMoves DEF WriteCall, TypesOK, HistoriesOK
  <2>3. CASE at'[d] = "writes"
    BY <2>1, <2>2, <2>3, <1>0, <1>1, GenerationStays DEF SentRight
  <2>4. CASE at'[d] # "writes"
    BY <2>1, <2>2, <2>4, <1>0, <1>1, ApprovedRowsStay DEF SentRight
  <2> QED BY <2>3, <2>4
<1> QED BY <1>2, <1>3, <1>4

-----------------------------------------------------------------------------
(* A process that did not finish its handshake is latched, or its reconnect *)
(* is not over.                                                             *)

Vetted == process.id \in vetted \cup {0}

VettedOK ==
  /\ Vetted \/ latched \/ \E c \in Calls : at[c] \in {"handshakes", "fails"}
  /\ \A c \in Calls : at[c] \in {"publishes", "invalidates", "closes"} => Vetted

\* Whoever ends a reconnect is the only one in it.
LEMMA OneReconnect ==
  ASSUME LockHeld, NEW c \in Calls, NEW d \in Calls, at[c] \in Locked, at[d] \in Locked
  PROVE  c = d
  BY DEF LockHeld

LEMMA VettedGrows ==
  ASSUME RouteNext
  PROVE  vetted \subseteq vetted'
<1>1. ASSUME NEW c \in Calls, Arrive(c) \/ StartReconnect(c) \/ Handshake(c) \/ FailReconnect(c) \/ WriteCall(c)
      PROVE  vetted \subseteq vetted'
  BY <1>1 DEF Arrive, StartReconnect, Handshake, FailReconnect, WriteCall
<1>2. ASSUME UNCHANGED histories \/ ReaderSeesEof PROVE vetted \subseteq vetted'
  BY <1>2 DEF histories, ReaderSeesEof
<1> QED BY <1>1, <1>2, HistoriesMove

LEMMA SameProcess ==
  ASSUME DownstreamOK, RouteNext, \A c \in Calls : ~JoinReader(c) /\ ~Spawn(c)
  PROVE  process'.id = process.id
<1>1. ASSUME NEW c \in Calls, StopProcess(c) PROVE process'.id = process.id
  BY <1>1 DEF StopProcess, DownstreamOK
<1>2. ASSUME Die \/ CloseStdout \/ ReaderGivesUp \/ ReaderSeesEof \/ ReaderRetires
      PROVE  process'.id = process.id
  BY <1>2 DEF Die, CloseStdout, ReaderGivesUp, ReaderSeesEof, ReaderRetires, DownstreamOK
<1>3. ASSUME UNCHANGED downstream PROVE process'.id = process.id
  BY <1>3 DEF downstream
<1> QED BY <1>1, <1>2, <1>3, DownstreamMoves

LEMMA LatchStays ==
  ASSUME RouteNext, latched, \A c \in Calls : ~JoinReader(c) /\ ~EndReconnect(c)
  PROVE  latched'
<1>1. ASSUME UNCHANGED route \/ ReaderGivesUp \/ ReaderSeesEof PROVE latched'
  BY <1>1 DEF route, ReaderGivesUp, ReaderSeesEof, ObserveDeath
<1>2. ASSUME NEW c \in Calls, Arrive(c) \/ StartReconnect(c) PROVE latched'
  BY <1>2 DEF Arrive, StartReconnect, ObserveDeath
<1>3. ASSUME NEW c \in Calls, \/ Answer(c) \/ StopProcess(c) \/ Handshake(c) \/ FailReconnect(c)
                              \/ TakeSendLock(c) \/ ValidateGeneration(c) \/ WriteCall(c) \/ Finish(c)
      PROVE  latched'
  BY <1>3 DEF Answer, StopProcess, Handshake, FailReconnect, TakeSendLock, ValidateGeneration,
              WriteCall, Finish
<1> QED BY <1>1, <1>2, <1>3, RouteMoves

LEMMA VettedStep ==
  ASSUME VettedOK, TypesOK, LockHeld, RouteNext
  PROVE  VettedOK'
<1>0. /\ at \in [Calls -> Places] /\ DownstreamOK
      /\ {"joins", "spawns", "handshakes", "fails", "publishes", "invalidates", "closes"}
           \subseteq Locked
  BY DEF TypesOK, Locked, Reconnecting
<1>1. ASSUME NEW c \in Calls, JoinReader(c) PROVE VettedOK'
  BY <1>1 DEF JoinReader, NoProcess, VettedOK, Vetted
<1>2. ASSUME NEW c \in Calls, Spawn(c) PROVE VettedOK'
  <2>1. at[c] = "spawns" /\ at'[c] \in {"handshakes", "fails"} /\ \A d \in Calls \ {c} : at'[d] = at[d]
    BY <1>2, <1>0 DEF Spawn, Goto
  <2> QED BY <2>1, <1>0, OneReconnect DEF VettedOK
<1>3. ASSUME NEW c \in Calls, Handshake(c) PROVE VettedOK'
  <2>1. at[c] = "handshakes" /\ \A d \in Calls \ {c} : at'[d] = at[d]
    BY <1>3, <1>0 DEF Handshake, Goto
  <2>2. \/ at'[c] = "publishes" /\ Vetted'
        \/ at'[c] = "fails"
    BY <1>3, <1>0 DEF Handshake, Goto, Vetted, downstream
  <2> QED BY <2>1, <2>2, <1>0, OneReconnect DEF VettedOK
<1>4. ASSUME NEW c \in Calls, FailReconnect(c) PROVE VettedOK'
  <2>1. /\ at[c] = "fails" /\ at'[c] = "done" /\ latched'
        /\ \A d \in Calls \ {c} : at'[d] = at[d]
    BY <1>4, <1>0 DEF FailReconnect, Goto
  <2> QED BY <2>1, <1>0, OneReconnect DEF VettedOK
<1>5. ASSUME NEW c \in Calls, EndReconnect(c) PROVE VettedOK'
  <2>1. at[c] = "closes" /\ UNCHANGED <<process, vetted>>
    BY <1>5 DEF EndReconnect, Goto, downstream, histories
  <2> QED BY <2>1 DEF VettedOK, Vetted
<1>6. CASE \A c \in Calls : /\ ~JoinReader(c) /\ ~Spawn(c) /\ ~Handshake(c)
                            /\ ~FailReconnect(c) /\ ~EndReconnect(c)
  <2>1. Vetted => Vetted'
    BY <1>6, <1>0, SameProcess, VettedGrows DEF Vetted
  <2>2. \A d \in Calls : /\ at[d] \in {"handshakes", "fails"} => at'[d] = at[d]
                         /\ at'[d] \in {"publishes", "invalidates", "closes"}
                              => at[d] \in {"publishes", "invalidates", "closes"}
    <3>1. ASSUME NEW c \in Calls, NEW e \in Edges, Goto(c, e[1], e[2]) PROVE <2>2
      BY <3>1, <1>0, GoesTo, EdgeEnds DEF Edges
    <3>2. ASSUME NEW c \in Calls, ReadNote(c) \/ ValidateGeneration(c) \/ WriteCall(c) PROVE <2>2
      BY <3>2, <1>0 DEF ReadNote, ValidateGeneration, WriteCall, Goto
    <3> QED BY <3>1, <3>2, <1>6, PlacesMove
  <2>3. latched => latched'
    BY <1>6, LatchStays
  <2> QED BY <2>1, <2>2, <2>3 DEF VettedOK
<1> QED BY <1>1, <1>2, <1>3, <1>4, <1>5, <1>6

-----------------------------------------------------------------------------
(* The invariant and the theorems.                                         *)

RouteInv == TypesOK /\ LockHeld /\ RowsMatch /\ SentOK /\ VettedOK

LEMMA RouteInvInit == RouteInit => RouteInv
<1> SUFFICES ASSUME RouteInit PROVE RouteInv
  OBVIOUS
<1>1. TypesOK
  <2>1. DownstreamOK
    <3>1. 1 \in 0..MaxProcesses /\ 1 \in 1..MaxProcesses
      BY RouteAssumption
    <3>2. Running(1) \in [id : 0..MaxProcesses, alive : BOOLEAN, open : BOOLEAN] /\ Running(1).id # 0
      BY <3>1 DEF Running
    <3> QED BY <3>1, <3>2 DEF RouteInit, DownstreamOK, ReaderStates
  <2>5. RouteOK
    BY DEF RouteInit, RouteOK
  <2>2. ApprovalsOK
    BY DEF RouteInit, ApprovalsOK
  <2>3. at \in [Calls -> Places] /\ BindingsOK
    BY DEF RouteInit, BindingsOK, Places
  <2>4. HistoriesOK
    BY RouteAssumption DEF RouteInit, HistoriesOK, Unwritten
  <2> QED BY <2>1, <2>2, <2>3, <2>4, <2>5 DEF TypesOK
<1>2. LockHeld
  BY RouteAssumption DEF RouteInit, LockHeld, Locked, Reconnecting
<1>3. RowsMatch
  BY DEF RouteInit, RowsMatch, RowMatches, PromptsAreLive, Unasked, Cleared
<1>4. SentOK
  BY DEF RouteInit, SentOK, SentRight
<1>5. VettedOK
  BY DEF RouteInit, VettedOK, Vetted, Running
<1> QED BY <1>1, <1>2, <1>3, <1>4, <1>5 DEF RouteInv

LEMMA RouteInvStep == RouteInv /\ [RouteNext]_routeVars => RouteInv'
<1>1. ASSUME RouteInv, RouteNext PROVE RouteInv'
  <2>1. ApprovalsOK /\ at \in [Calls -> Places]
    BY <1>1 DEF RouteInv, TypesOK
  <2> QED
    BY <1>1, <2>1, TypesStep, LockStep, RowsStep, SentStep, VettedStep DEF RouteInv
<1>2. ASSUME RouteInv, UNCHANGED routeVars PROVE RouteInv'
  <2>1. TypesOK'
    BY <1>2 DEF RouteInv, TypesOK, DownstreamOK, RouteOK, ApprovalsOK, BindingsOK, HistoriesOK,
                routeVars, downstream, route, approvals, workers, histories
  <2>2. LockHeld' /\ SentOK' /\ VettedOK'
    BY <1>2 DEF RouteInv, LockHeld, SentOK, SentRight, VettedOK, Vetted,
                routeVars, downstream, route, approvals, workers, histories
  <2>3. RowsMatch'
    BY <1>2 DEF RouteInv, RowsMatch, RowMatches, PromptsAreLive,
                routeVars, approvals, workers
  <2> QED BY <2>1, <2>2, <2>3 DEF RouteInv
<1> QED BY <1>1, <1>2

LEMMA RouteInvariant == RouteSpec => []RouteInv
<1> QED BY RouteInvInit, RouteInvStep, PTL DEF RouteSpec

\* Every variable stays in its range, and the reconnect lock is held exactly
\* while its holder reconnects, validates or writes.
THEOREM RouteTyping == RouteSpec => []RouteTypeOK
<1>1. RouteInv => RouteTypeOK
  BY DEF RouteInv, TypesOK, DownstreamOK, RouteOK, ApprovalsOK, BindingsOK, HistoriesOK,
         LockHeld, Locked, RouteTypeOK
<1> QED BY <1>1, RouteInvariant, PTL

\* A call is written only in the generation its worker bound before the approval.
THEOREM GenerationSafety == RouteSpec => []SentOnBoundGeneration
<1>1. RouteInv => SentOnBoundGeneration
  BY DEF RouteInv, SentOK, SentRight, SentOnBoundGeneration
<1> QED BY <1>1, RouteInvariant, PTL

\* A call that was retired, denied, cancelled or expired is never written.
THEOREM ApprovalSafety == RouteSpec => []WrittenWasApproved
<1>1. RouteInv => WrittenWasApproved
  BY DEF RouteInv, SentOK, SentRight, WrittenWasApproved
<1> QED BY <1>1, RouteInvariant, PTL

\* With the reconnect lock free and no error latched, the process calls are
\* written to has finished its handshake.
THEOREM HandshakeSafety == RouteSpec => []ReadyMeansVetted
<1>1. RouteInv => ReadyMeansVetted
  <2> SUFFICES ASSUME RouteInv, reconnecting = Nobody, ~latched, process.id # 0
               PROVE  process.id \in vetted
    BY DEF ReadyMeansVetted
  <2>1. ASSUME NEW c \in Calls, at[c] \in {"handshakes", "fails"} PROVE FALSE
    BY <2>1, RouteAssumption DEF RouteInv, LockHeld, Locked, Reconnecting
  <2> QED BY <2>1 DEF RouteInv, VettedOK, Vetted
<1> QED BY <1>1, RouteInvariant, PTL

\* A registered prompt belongs to a pending row whose worker waits for it, or the
\* thread that closed its row is about to unregister it.
THEOREM PromptSafety == RouteSpec => []PromptsAreLive
<1>1. RouteInv => PromptsAreLive
  BY DEF RouteInv, RowsMatch
<1> QED BY <1>1, RouteInvariant, PTL

\* Readers, reconnectors, deciders and deadlines never overwrite each other's
\* verdict on a row.
THEOREM RowMachine == RouteSpec => RowsFollowMachine
<1> DEFINE Moves == \A c \in Calls : RowMoves(c)
<1>1. RouteInv /\ [RouteNext]_routeVars => [Moves]_routeVars
  BY RowsMove DEF RouteInv, TypesOK
<1> HIDE DEF Moves
<1>2. RouteSpec => [][Moves]_routeVars
  BY <1>1, RouteInvariant, PTL DEF RouteSpec
<1>3. RowsFollowMachine <=> [][Moves]_routeVars
  BY DEF RowsFollowMachine, Moves, RowMoves
<1> QED BY <1>2, <1>3
=============================================================================
