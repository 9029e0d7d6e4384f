--------------------------- MODULE StdioLanesProofs ---------------------------
(***************************************************************************)
(* What the lanes promise for every session, every number of workers and   *)
(* every bound: the states of the calls, of the locks and of the lanes,    *)
(* that the proxy stops only when what it read is answered, and that an    *)
(* answer that was filed for a waiting call is still there when it looks,  *)
(* that the answers nobody waits for stay bounded, and that one worker on  *)
(* the mutation lane is what keeps the order of the writes.                *)
(***************************************************************************)
EXTENDS StdioLanes, SumLemmas, TLAPS

-----------------------------------------------------------------------------
(* Types.                                                                  *)

ClientOK ==
  /\ \E setup \in Setups : input = setup.input /\ workers = setup.workers
  /\ lines \in 0..Len(input) /\ phase \in Phases
  /\ gone \in BOOLEAN /\ dead \in [Lanes -> Nat]
  /\ written \in Seq(Calls)

LEMMA SetupTypes ==
  ASSUME ClientOK
  PROVE  /\ input \in Seq(Calls) /\ IsInjective(input) /\ Len(input) \in Nat
         /\ workers \in [Lanes -> Nat \ {0}]
  BY StdioAssumption DEF ClientOK

SetsOK ==
  /\ cancelled \subseteq Calls /\ inflight \subseteq Calls /\ tombs \subseteq Calls
  /\ pipe \subseteq Calls /\ handled \subseteq Calls

TypesOK ==
  /\ ClientOK /\ SetsOK
  /\ place \in [Calls -> Places]
  /\ responses \in [Calls -> Nat] /\ owed \in Counts
  /\ latched \in BOOLEAN /\ mutex \in Calls \cup {None}

LEMMA PruningTypes ==
  ASSUME NEW r \in [Calls -> Nat], NEW live, NEW q \in Pruning(r, live)
  PROVE  /\ q \in [Calls -> Nat]
         /\ \A c \in Calls : q[c] <= r[c] /\ (c \in live => q[c] = r[c])
  BY DEF Pruning, Counts

LEMMA TypesStep ==
  ASSUME TypesOK, StdioNext
  PROVE  TypesOK'
<1> USE DEF TypesOK, ClientOK, SetsOK
<1>0. /\ {"put", "queued", "decides", "cleared", "locked", "sent", "leaving", "replies",
          "answered", "silent", "unsent"} \subseteq Places
      /\ {"joinsRead", "joinsMutation", "stopped", "aborted"} \subseteq Phases
  BY DEF Places, Ended, Phases
<1>1. CASE ReadLine
  <2>1. lines' \in 0..Len(input) /\ UNCHANGED <<input, workers>>
    BY <1>1, SetupTypes DEF ReadLine
  <2>2. place' \in [Calls -> Places]
    BY <1>1, <1>0 DEF ReadLine, Goto
  <2> QED BY <1>1, <2>1, <2>2 DEF ReadLine, routing, backend
<1>2. CASE CloseInput \/ HangUp \/ Shutdown
  BY <1>2, <1>0 DEF CloseInput, HangUp, Shutdown, Join, routing, backend
<1>3. CASE Lose
  BY <1>3 DEF Lose, client, Counts
<1>4. ASSUME NEW c \in Calls, Put(c) \/ Take(c) \/ AnswerLocally(c) \/ EndCancelled(c) \/ Reply(c)
      PROVE  TypesOK'
  BY <1>4, <1>0 DEF Put, Take, AnswerLocally, EndCancelled, Reply, Goto, client, routing, backend
<1>5. ASSUME NEW c \in Calls, Clear(c) \/ TakeLock(c) PROVE TypesOK'
  BY <1>5, <1>0 DEF Clear, TakeLock, Goto, client, routing, backend
<1>6. ASSUME NEW c \in Calls, Write(c) PROVE TypesOK'
  BY <1>6, <1>0 DEF Write, client, routing
<1>7. ASSUME NEW c \in Calls, WriteFails(c) \/ SeeError(c) PROVE TypesOK'
  BY <1>7, <1>0 DEF WriteFails, SeeError, Goto, Release, client, routing, backend
<1>8. ASSUME NEW c \in Calls, TakeAnswer(c) PROVE TypesOK'
  BY <1>8, <1>0 DEF TakeAnswer, Goto, Release, client, backend
<1>9. ASSUME NEW c \in Calls, TimeOut(c) PROVE TypesOK'
  BY <1>9, <1>0 DEF TimeOut, Goto, Release, client, backend
<1>10. ASSUME NEW c \in Calls, Leave(c) PROVE TypesOK'
  <2>1. responses' \in [Calls -> Nat]
    BY <1>10, PruningTypes DEF Leave
  <2> QED BY <1>10, <1>0, <2>1 DEF Leave, Goto, client, backend
<1>11. ASSUME NEW c \in Calls, Answer(c) PROVE TypesOK'
  <2>1. [responses EXCEPT ![c] = @ + 1] \in [Calls -> Nat]
    OBVIOUS
  <2>2. responses' \in [Calls -> Nat] /\ handled' \subseteq Calls
    BY <1>11, <2>1, PruningTypes DEF Answer
  <2>3. owed' \in Counts
    BY <1>11 DEF Answer, Counts
  <2> QED BY <1>11, <2>2, <2>3 DEF Answer, client
<1>12. ASSUME NEW c \in Calls, Cancel(c) \/ Forget(c) PROVE TypesOK'
  BY <1>12 DEF Cancel, Forget, client, routing, backend
<1>13. ASSUME NEW c \in Calls, Consume(c) PROVE TypesOK'
  <2>1. owed' \in Counts
    BY <1>13 DEF Consume, Counts
  <2> QED BY <1>13, <2>1 DEF Consume, client, routing
<1>14. ASSUME NEW c \in Calls, LoseWorker(c) \/ Abort(c) PROVE TypesOK'
  <2>1. dead' \in [Lanes -> Nat]
    BY <1>14 DEF LoseWorker, Abort
  <2> QED BY <1>14, <1>0, <2>1 DEF LoseWorker, Abort, Goto, routing, backend
<1> QED
  BY <1>1, <1>2, <1>3, <1>4, <1>5, <1>6, <1>7, <1>8, <1>9, <1>10, <1>11, <1>12, <1>13, <1>14
     DEF StdioNext, Step, Decide, Send, Wait, Finish

-----------------------------------------------------------------------------
(* The ways of a call.                                                     *)

\* What each action does to the place of its call, and to no other.
Starts == {<<"unread", "put">>, <<"unread", "decides">>, <<"queued", "decides">>}
Onwards ==
  {<<"put", "queued">>,
   <<"decides", "replies">>, <<"decides", "silent">>, <<"decides", "cleared">>,
   <<"cleared", "locked">>, <<"cleared", "sent">>, <<"locked", "sent">>,
   <<"cleared", "leaving">>, <<"locked", "leaving">>, <<"sent", "leaving">>,
   <<"leaving", "replies">>, <<"replies", "answered">>, <<"replies", "unsent">>}
Edges == Starts \cup Onwards

Walk(c, from, to) ==
  /\ place[c] = from /\ place'[c] = to
  /\ \A d \in Calls \ {c} : place'[d] = place[d]

LEMMA GotoWalks ==
  ASSUME TypesOK, NEW c \in Calls, NEW p, NEW q, Goto(c, p, q)
  PROVE  Walk(c, p, q)
  BY DEF TypesOK, Goto, Walk

LEMMA PlacesMove ==
  ASSUME TypesOK, StdioNext
  PROVE  \/ UNCHANGED place \/ ReadLine
         \/ \E c \in Calls : Take(c) \/ \E e \in Onwards : Walk(c, e[1], e[2])
<1> DEFINE Walks(c) == \E e \in Onwards : Walk(c, e[1], e[2])
<1>1. ASSUME CloseInput \/ HangUp \/ Shutdown \/ Lose PROVE UNCHANGED place
  BY <1>1 DEF CloseInput, HangUp, Shutdown, Join, Lose
<1>2. ASSUME NEW c \in Calls, Cancel(c) \/ Consume(c) \/ Answer(c) \/ Forget(c)
      PROVE  UNCHANGED place
  BY <1>2 DEF Cancel, Consume, Answer, Forget
<1>3. ASSUME NEW c \in Calls, Write(c) \/ WriteFails(c) PROVE Walks(c)
  <2>1. /\ place[c] = "locked" \/ place[c] = "cleared"
        /\ Walk(c, place[c], "sent") \/ Walk(c, place[c], "leaving")
    BY <1>3 DEF Write, WriteFails, ReadyToWrite, Walk, TypesOK
  <2> QED BY <2>1 DEF Onwards
<1>4. ASSUME NEW c \in Calls, Put(c) \/ Decide(c) PROVE Walks(c)
  BY <1>4, GotoWalks DEF Put, Decide, AnswerLocally, EndCancelled, Clear, Onwards
<1>5. ASSUME NEW c \in Calls, TakeLock(c) \/ Wait(c) \/ Finish(c) PROVE Walks(c)
  BY <1>5, GotoWalks
     DEF TakeLock, Wait, TakeAnswer, SeeError, TimeOut, Finish, Leave, Reply, LoseWorker, Abort, Onwards
<1> QED
  BY <1>1, <1>2, <1>3, <1>4, <1>5 DEF StdioNext, Step, Send

-----------------------------------------------------------------------------
(* Locks and registrations.                                                *)

\* The mutation lock is held by a mutation that sends or waits, and an id is
\* registered from the decision until the worker leaves.
LocksRight(c) ==
  /\ mutex = c <=> Lane[c] = "mutation" /\ (place[c] = "locked" \/ place[c] = "sent")
  /\ c \in inflight <=> place[c] \in {"cleared", "locked", "sent", "leaving"}
  /\ place[c] = "locked" => Lane[c] = "mutation"
  /\ place[c] = "silent" => c \in cancelled
  /\ place[c] = "unsent" => gone

LocksOK == \A c \in Calls : LocksRight(c)

LEMMA LocksStep ==
  ASSUME TypesOK, LocksOK, StdioNext
  PROVE  LocksOK'
<1>1. CASE UNCHANGED <<place, mutex, inflight>> /\ cancelled \subseteq cancelled' /\ (gone => gone')
  BY <1>1 DEF LocksOK, LocksRight
<1>2. ASSUME NEW c \in Calls, NEW p, NEW q, Walk(c, p, q), UNCHANGED <<mutex, inflight, cancelled, gone>>,
             {p, q} \cap {"cleared", "locked", "sent", "leaving"} = {},
             q = "silent" => c \in cancelled, q = "unsent" => gone
      PROVE  LocksOK'
  BY <1>2 DEF LocksOK, LocksRight, Walk
<1>3. CASE ReadLine
  <2> DEFINE c == input[lines + 1]
  <2>1. c \in Calls
    BY <1>3, SetupTypes DEF ReadLine, TypesOK, ClientOK
  <2>2. Walk(c, "unread", "put") \/ Walk(c, "unread", "decides")
    BY <1>3, <2>1, GotoWalks DEF ReadLine
  <2>3. UNCHANGED <<mutex, inflight, cancelled, gone>>
    BY <1>3 DEF ReadLine, routing
  <2> HIDE DEF c
  <2> QED BY <2>1, <2>2, <2>3, <1>2
<1>4. CASE CloseInput \/ HangUp \/ Shutdown \/ Lose
  BY <1>1, <1>4 DEF CloseInput, HangUp, Shutdown, Join, Lose, client, routing
<1>5. ASSUME NEW c \in Calls,
             Put(c) \/ Take(c) \/ AnswerLocally(c) \/ EndCancelled(c) \/ Reply(c) \/ LoseWorker(c) \/ Abort(c)
      PROVE  LocksOK'
  <2>1. CASE Put(c) \/ Take(c) \/ AnswerLocally(c)
    BY <2>1, <1>2, GotoWalks DEF Put, Take, AnswerLocally, client, routing
  <2>2. CASE EndCancelled(c) \/ Reply(c)
    BY <2>2, <1>2, GotoWalks DEF EndCancelled, Reply, client, routing
  <2>3. CASE LoseWorker(c) \/ Abort(c)
    BY <2>3, <1>2, GotoWalks DEF LoseWorker, Abort, routing
  <2> QED BY <1>5, <2>1, <2>2, <2>3
<1>6. ASSUME NEW c \in Calls, Clear(c) PROVE LocksOK'
  BY <1>6, GotoWalks DEF Clear, Walk, LocksOK, LocksRight, client
<1>7. ASSUME NEW c \in Calls, TakeLock(c) PROVE LocksOK'
  BY <1>7, GotoWalks, StdioAssumption DEF TakeLock, Walk, LocksOK, LocksRight, client, routing
<1>8. ASSUME NEW c \in Calls, Write(c) PROVE LocksOK'
  BY <1>8 DEF Write, ReadyToWrite, TypesOK, LocksOK, LocksRight, client, routing
<1>9. ASSUME NEW c \in Calls, NEW p \in {"cleared", "locked", "sent"}, Walk(c, p, "leaving"),
             Release(c), UNCHANGED <<inflight, cancelled, gone>>
      PROVE  LocksOK'
  BY <1>9, StdioAssumption DEF Release, Walk, LocksOK, LocksRight
<1>10. ASSUME NEW c \in Calls, WriteFails(c) PROVE LocksOK'
  BY <1>10, <1>9 DEF WriteFails, ReadyToWrite, Walk, TypesOK, client, routing
<1>11. ASSUME NEW c \in Calls, TakeAnswer(c) \/ SeeError(c) \/ TimeOut(c) PROVE LocksOK'
  BY <1>11, <1>9, GotoWalks DEF TakeAnswer, SeeError, TimeOut, client, routing
<1>12. ASSUME NEW c \in Calls, Leave(c) PROVE LocksOK'
  BY <1>12, GotoWalks DEF Leave, Walk, LocksOK, LocksRight, client
<1>13. ASSUME NEW c \in Calls, Cancel(c) \/ Consume(c) \/ Answer(c) \/ Forget(c) PROVE LocksOK'
  BY <1>13, <1>1 DEF Cancel, Consume, Answer, Forget, client, routing
<1> QED
  BY <1>3, <1>4, <1>5, <1>6, <1>7, <1>8, <1>10, <1>11, <1>12, <1>13
     DEF StdioNext, Step, Decide, Send, Wait, Finish

-----------------------------------------------------------------------------
(* Answers.                                                                *)

\* Places of a call that was never written.
Early == {"unread", "put", "queued", "decides", "cleared", "locked"}

\* A request is written once and answered at most twice, and a filed answer
\* belongs to a call that waits.
AnswersRight(c) ==
  /\ responses[c] + owed[c] <= 2
  /\ place[c] \in Early => c \notin pipe /\ responses[c] = 0 /\ owed[c] = 0
  /\ c \in pipe => responses[c] = 0 /\ owed[c] = 0
  /\ c \in handled => place[c] = "sent" /\ responses[c] > 0

AnswersOK == \A c \in Calls : AnswersRight(c)

LEMMA AnswersStep ==
  ASSUME TypesOK, LocksOK, AnswersOK, StdioNext
  PROVE  AnswersOK'
<1>1. ASSUME UNCHANGED <<pipe, responses, owed, handled>>,
             \/ UNCHANGED place
             \/ \E c \in Calls : \E e \in Edges : Walk(c, e[1], e[2]) /\ e[2] # "sent" /\ e[1] # "sent"
      PROVE  AnswersOK'
  <2> SUFFICES ASSUME NEW d \in Calls PROVE AnswersRight(d)'
    BY DEF AnswersOK
  <2>1. /\ place'[d] \in Early => place[d] \in Early
        /\ place[d] = "sent" => place'[d] = "sent"
    BY <1>1 DEF Edges, Starts, Onwards, Walk, Early
  <2> QED BY <1>1, <2>1 DEF AnswersOK, AnswersRight
<1>2. CASE ReadLine \/ CloseInput \/ HangUp \/ Shutdown
  <2>1. UNCHANGED <<pipe, responses, owed, handled>>
    BY <1>2 DEF ReadLine, CloseInput, HangUp, Shutdown, Join, routing, backend
  <2>2. CASE UNCHANGED place
    BY <2>1, <2>2, <1>1
  <2>3. CASE ReadLine
    <3> DEFINE c == input[lines + 1]
    <3>1. c \in Calls
      BY <2>3, SetupTypes DEF ReadLine, TypesOK, ClientOK
    <3>2. Walk(c, "unread", "put") \/ Walk(c, "unread", "decides")
      BY <2>3, <3>1, GotoWalks DEF ReadLine
    <3>3. <<"unread", "put">> \in Edges /\ <<"unread", "decides">> \in Edges
      BY DEF Edges, Starts, Onwards
    <3> HIDE DEF c
    <3> QED BY <3>1, <3>2, <3>3, <2>1, <1>1
  <2> QED BY <1>2, <2>2, <2>3 DEF CloseInput, HangUp, Shutdown, Join
<1>3. CASE Lose
  BY <1>3 DEF Lose, TypesOK, Counts, AnswersOK, AnswersRight
<1>4. ASSUME NEW c \in Calls, Put(c) \/ Take(c) \/ AnswerLocally(c) \/ EndCancelled(c) \/ Reply(c)
      PROVE  AnswersOK'
  BY <1>4, <1>1, GotoWalks
     DEF Put, Take, AnswerLocally, EndCancelled, Reply, Edges, Starts, Onwards, routing, backend
<1>15. ASSUME NEW c \in Calls, LoseWorker(c) \/ Abort(c) PROVE AnswersOK'
  BY <1>15, <1>1, GotoWalks DEF LoseWorker, Abort, Edges, Starts, Onwards, routing, backend
<1>5. ASSUME NEW c \in Calls, Clear(c) \/ TakeLock(c) PROVE AnswersOK'
  BY <1>5, <1>1, GotoWalks DEF Clear, TakeLock, Edges, Starts, Onwards, routing, backend
<1>6. ASSUME NEW c \in Calls, Write(c) PROVE AnswersOK'
  BY <1>6 DEF Write, ReadyToWrite, TypesOK, AnswersOK, AnswersRight, Early, routing
<1>7. ASSUME NEW c \in Calls, WriteFails(c) PROVE AnswersOK'
  BY <1>7 DEF WriteFails, ReadyToWrite, TypesOK, AnswersOK, AnswersRight, Early, routing, backend
<1>8. ASSUME NEW c \in Calls, TakeAnswer(c) PROVE AnswersOK'
  BY <1>8 DEF TakeAnswer, Goto, TypesOK, Counts, AnswersOK, AnswersRight, Early, backend
<1>9. ASSUME NEW c \in Calls, SeeError(c) \/ TimeOut(c) PROVE AnswersOK'
  BY <1>9 DEF SeeError, TimeOut, Goto, TypesOK, AnswersOK, AnswersRight, Early, routing, backend
<1>10. ASSUME NEW r \in [Calls -> Nat], responses' \in Pruning(r, inflight'), UNCHANGED pipe,
              \A c \in Calls : r[c] + owed'[c] <= responses[c] + owed[c],
              \A c \in Calls : r[c] >= responses[c],
              \A c \in Calls : place[c] \in Early \/ c \in pipe => r[c] = 0 /\ owed'[c] = 0,
              \A c \in Calls : place'[c] \in Early => place[c] \in Early,
              \A c \in handled' : c \in inflight' /\ place'[c] = "sent" /\ r[c] > 0,
              owed' \in Counts
       PROVE  AnswersOK'
  <2> SUFFICES ASSUME NEW d \in Calls PROVE AnswersRight(d)'
    BY DEF AnswersOK
  <2>1. /\ responses'[d] <= r[d] /\ responses'[d] \in Nat /\ owed'[d] \in Nat
        /\ d \in inflight' => responses'[d] = r[d]
    BY <1>10, PruningTypes DEF Counts
  <2>2. responses[d] \in Nat /\ owed[d] \in Nat /\ r[d] \in Nat
    BY <1>10 DEF TypesOK, Counts
  <2> QED BY <1>10, <2>1, <2>2 DEF AnswersOK, AnswersRight
<1>11. ASSUME NEW c \in Calls, Leave(c) PROVE AnswersOK'
  <2>1. Walk(c, "leaving", "replies")
    BY <1>11, GotoWalks DEF Leave
  <2>2. UNCHANGED <<pipe, owed, handled>> /\ responses' \in Pruning(responses, inflight')
    BY <1>11 DEF Leave, backend
  <2>3. \A d \in handled : d \in inflight' /\ place'[d] = "sent" /\ responses[d] > 0
    BY <1>11, <2>1 DEF Leave, Walk, TypesOK, SetsOK, LocksOK, LocksRight, AnswersOK, AnswersRight
  <2>4. \A d \in Calls : /\ responses[d] + owed'[d] <= responses[d] + owed[d]
                         /\ responses[d] >= responses[d]
                         /\ place'[d] \in Early => place[d] \in Early
                         /\ place[d] \in Early \/ d \in pipe => responses[d] = 0 /\ owed'[d] = 0
    BY <2>1, <2>2 DEF Walk, TypesOK, Counts, AnswersOK, AnswersRight, Early
  <2> QED BY <2>2, <2>3, <2>4, <1>10 DEF TypesOK
<1>12. ASSUME NEW c \in Calls, Answer(c) PROVE AnswersOK'
  <2>1. UNCHANGED <<pipe, place, inflight>>
    BY <1>12 DEF Answer
  <2>2. c \notin pipe /\ place[c] \notin Early
    BY <1>12 DEF Answer, TypesOK, Counts, AnswersOK, AnswersRight
  <2>3. owed' \in Counts /\ owed'[c] = owed[c] - 1 /\ \A d \in Calls \ {c} : owed'[d] = owed[d]
    BY <1>12 DEF Answer, TypesOK, Counts
  <2>4. CASE c \in inflight \ tombs
    <3> DEFINE r == [responses EXCEPT ![c] = @ + 1]
    <3>1. /\ r \in [Calls -> Nat] /\ r[c] = responses[c] + 1
          /\ \A d \in Calls \ {c} : r[d] = responses[d]
      BY DEF TypesOK
    <3>2. /\ responses' \in Pruning(r, inflight')
          /\ handled' = IF place[c] = "sent" THEN handled \cup {c} ELSE handled
      BY <1>12, <2>4, <2>1 DEF Answer
    <3>3. \A d \in handled' : d \in inflight' /\ place'[d] = "sent" /\ r[d] > 0
      BY <2>1, <3>1, <3>2 DEF TypesOK, SetsOK, LocksOK, LocksRight, AnswersOK, AnswersRight
    <3>4. \A d \in Calls : /\ r[d] + owed'[d] <= responses[d] + owed[d]
                           /\ r[d] >= responses[d]
                           /\ place'[d] \in Early => place[d] \in Early
                           /\ place[d] \in Early \/ d \in pipe => r[d] = 0 /\ owed'[d] = 0
      BY <2>1, <2>2, <2>3, <3>1 DEF TypesOK, Counts, AnswersOK, AnswersRight
    <3> HIDE DEF r
    <3> QED BY <3>1, <3>2, <3>3, <3>4, <2>1, <2>3, <1>10
  <2>5. CASE c \notin inflight \ tombs
    <3>1. UNCHANGED <<responses, handled>>
      BY <1>12, <2>5 DEF Answer
    <3> QED BY <2>1, <2>2, <2>3, <3>1 DEF TypesOK, Counts, AnswersOK, AnswersRight
  <2> QED BY <2>4, <2>5
<1>13. ASSUME NEW c \in Calls, Consume(c) PROVE AnswersOK'
  <2>1. /\ c \in pipe /\ place[c] \notin Early /\ responses[c] = 0
        /\ UNCHANGED <<place, responses, handled>> /\ pipe' = pipe \ {c}
        /\ owed'[c] \in 1..2 /\ \A d \in Calls \ {c} : owed'[d] = owed[d]
    BY <1>13 DEF Consume, TypesOK, Counts, AnswersOK, AnswersRight, routing
  <2> QED BY <2>1 DEF AnswersOK, AnswersRight
<1>14. ASSUME NEW c \in Calls, Cancel(c) \/ Forget(c) PROVE AnswersOK'
  BY <1>14, <1>1 DEF Cancel, Forget, routing, backend
<1> QED
  BY <1>2, <1>3, <1>4, <1>5, <1>6, <1>7, <1>8, <1>9, <1>11, <1>12, <1>13, <1>14, <1>15
     DEF StdioNext, Step, Decide, Send, Wait, Finish

-----------------------------------------------------------------------------
(* The lanes and the shutdown.                                             *)

Idle(c) == place[c] \in {"unread"} \cup Ended

\* A line waits or is done once the dispatcher has read it, a lifecycle
\* request is never queued, and after each join its lane has nothing left.
Closing == {"joinsRead", "joinsMutation", "stopped"}

LaneRight(c) ==
  /\ place[c] = "unread" <=> c \notin {input[i] : i \in 1..lines}
  /\ Lane[c] = "lifecycle" => place[c] \notin {"put", "queued"}
  /\ phase \in Closing => place[c] # "put" /\ (Lane[c] = "lifecycle" => Idle(c))
  /\ phase \in {"joinsMutation", "stopped"} /\ Lane[c] = "read" => Idle(c)
  /\ phase = "stopped" /\ Lane[c] = "mutation" => Idle(c)

LanesOK == \A c \in Calls : LaneRight(c)

LEMMA LinesMove ==
  ASSUME StdioNext
  PROVE  \/ UNCHANGED <<input, workers, lines, phase>>
         \/ ReadLine
         \/ (CloseInput \/ Shutdown) /\ UNCHANGED <<input, workers, lines, place>>
         \/ phase' = "aborted" /\ UNCHANGED <<input, workers, lines>>
<1>1. ASSUME NEW c \in Calls, Step(c)
      PROVE  \/ UNCHANGED <<input, workers, lines, phase>>
             \/ phase' = "aborted" /\ UNCHANGED <<input, workers, lines>>
  <2>1. CASE Put(c) \/ Take(c) \/ Decide(c) \/ Send(c)
    BY <2>1 DEF Put, Take, Decide, AnswerLocally, EndCancelled, Clear, Send, TakeLock, Write, WriteFails,
                client
  <2>2. CASE Wait(c) \/ Finish(c)
    BY <2>2 DEF Wait, TakeAnswer, SeeError, TimeOut, Finish, Leave, Reply, LoseWorker, Abort, client
  <2> QED BY <1>1, <2>1, <2>2 DEF Step
<1>2. ASSUME NEW c \in Calls, Cancel(c) \/ Consume(c) \/ Answer(c) \/ Forget(c)
      PROVE  UNCHANGED client
  BY <1>2 DEF Cancel, Consume, Answer, Forget
<1>3. ASSUME Lose \/ HangUp PROVE UNCHANGED <<input, workers, lines, phase>>
  BY <1>3 DEF Lose, HangUp, client
<1>4. ASSUME CloseInput \/ Shutdown PROVE UNCHANGED <<input, workers, lines, place>>
  BY <1>4 DEF CloseInput, Shutdown, Join
<1> QED BY <1>1, <1>2, <1>3, <1>4 DEF StdioNext, client

LEMMA LanesStep ==
  ASSUME TypesOK, LanesOK, StdioNext
  PROVE  LanesOK'
<1>1. CASE ReadLine
  <2> DEFINE c == input[lines + 1]
  <2>1. c \in Calls /\ lines \in Nat /\ input' = input /\ lines' = lines + 1 /\ phase = "reads"
        /\ phase' = phase
    BY <1>1, SetupTypes DEF ReadLine, TypesOK, ClientOK
  <2>2. \/ Walk(c, "unread", "decides") /\ Lane[c] = "lifecycle"
        \/ Walk(c, "unread", "put") /\ Lane[c] # "lifecycle"
    BY <1>1, <2>1, GotoWalks DEF ReadLine
  <2>3. {input[i] : i \in 1..lines + 1} = {input[i] : i \in 1..lines} \cup {c}
    BY <2>1
  <2>4. {input'[i] : i \in 1..lines'} = {input[i] : i \in 1..lines} \cup {c}
    BY <2>1, <2>3
  <2> HIDE DEF c
  <2>5. ASSUME NEW d \in Calls PROVE LaneRight(d)'
    BY <2>1, <2>2, <2>4 DEF Walk, LanesOK, LaneRight, Closing, Idle
  <2> QED BY <2>5 DEF LanesOK
<1>2. CASE CloseInput
  <2>1. \A c \in Calls : place[c] # "put" /\ (Lane[c] = "lifecycle" => Idle(c))
    BY <1>2 DEF CloseInput, Free, Busy, Of, Idle, LanesOK, LaneRight, Ended
  <2>2. phase' = "joinsRead" /\ UNCHANGED <<input, lines, place>>
    BY <1>2 DEF CloseInput
  <2> QED BY <2>1, <2>2 DEF LanesOK, LaneRight, Closing, Idle
<1>3. CASE Shutdown
  <2>1. UNCHANGED <<input, lines, place>> /\ \A c \in Calls : place[c] # "put"
    BY <1>3 DEF Shutdown, Join, LanesOK, LaneRight, Closing
  <2>2. CASE phase = "joinsRead" /\ phase' = "joinsMutation" /\ Queued("read") \cup Busy("read") = {}
    <3>1. \A c \in Calls : Lane[c] = "read" => Idle(c)
      BY <2>1, <2>2 DEF Queued, Busy, Of, Idle
    <3> QED BY <2>1, <2>2, <3>1 DEF LanesOK, LaneRight, Closing, Idle
  <2>3. CASE phase = "joinsMutation" /\ phase' = "stopped" /\ Queued("mutation") \cup Busy("mutation") = {}
    <3>1. \A c \in Calls : Lane[c] = "mutation" => Idle(c)
      BY <2>1, <2>3 DEF Queued, Busy, Of, Idle
    <3> QED BY <2>1, <2>3, <3>1 DEF LanesOK, LaneRight, Closing, Idle
  <2> QED BY <1>3, <2>2, <2>3 DEF Shutdown, Join
<1>4. CASE UNCHANGED <<input, lines, phase>> /\ UNCHANGED place
  BY <1>4 DEF LanesOK, LaneRight, Idle
<1>5. ASSUME NEW c \in Calls, UNCHANGED <<input, lines>>, phase' \in {phase, "aborted"},
             \/ Take(c)
             \/ \E e \in Onwards : Walk(c, e[1], e[2])
      PROVE  LanesOK'
  <2>1. PICK p, q : Walk(c, p, q) /\ (<<p, q>> \in Onwards \/ (p = "queued" /\ q = "decides"))
    <3>1. CASE Take(c)
      BY <3>1, GotoWalks DEF Take
    <3>2. ASSUME NEW e \in Onwards, Walk(c, e[1], e[2])
          PROVE  <<e[1], e[2]>> \in Onwards
      BY <3>2 DEF Onwards
    <3> QED BY <1>5, <3>1, <3>2
  <2>2. /\ p \notin {"unread"} \cup Ended /\ q \notin {"unread", "put"}
        /\ q = "queued" => p = "put"
    BY <2>1 DEF Onwards, Ended
  <2> QED BY <1>5, <2>1, <2>2 DEF Walk, LanesOK, LaneRight, Closing, Idle
<1>6. CASE phase' = "aborted" /\ UNCHANGED <<input, lines, place>>
  BY <1>6 DEF LanesOK, LaneRight, Closing, Idle
<1> QED
  BY <1>1, <1>2, <1>3, <1>4, <1>5, <1>6, LinesMove, PlacesMove

\* No lane runs more calls than it has workers left.
WorkersOK == \A lane \in Lanes : Cardinality(Busy(lane)) + dead[lane] <= workers[lane]

LEMMA BusyFinite ==
  ASSUME NEW lane
  PROVE  IsFiniteSet(Busy(lane)) /\ Cardinality(Busy(lane)) \in Nat
<1>1. Busy(lane) \subseteq Calls
  BY DEF Busy, Of
<1> QED BY <1>1, StdioAssumption, FS_Subset, FS_CardinalityType

\* Only a worker that ends by an exception changes how many are left.
LEMMA DeadStays ==
  ASSUME StdioNext
  PROVE  UNCHANGED <<workers, dead>> \/ \E c \in Calls : LoseWorker(c)
<1>1. ASSUME NEW c \in Calls, Step(c), ~LoseWorker(c) PROVE UNCHANGED <<workers, dead>>
  <2>1. CASE Put(c) \/ Take(c) \/ Decide(c) \/ Send(c)
    BY <2>1 DEF Put, Take, Decide, AnswerLocally, EndCancelled, Clear, Send, TakeLock, Write, WriteFails,
                client
  <2>2. CASE Wait(c) \/ Finish(c)
    BY <1>1, <2>2 DEF Wait, TakeAnswer, SeeError, TimeOut, Finish, Leave, Reply, Abort, client
  <2> QED BY <1>1, <2>1, <2>2 DEF Step
<1>2. ASSUME NEW c \in Calls, Cancel(c) \/ Consume(c) \/ Answer(c) \/ Forget(c)
      PROVE  UNCHANGED <<workers, dead>>
  BY <1>2 DEF Cancel, Consume, Answer, Forget, client
<1>3. ASSUME ReadLine \/ CloseInput \/ HangUp \/ Shutdown \/ Lose PROVE UNCHANGED <<workers, dead>>
  BY <1>3 DEF ReadLine, CloseInput, HangUp, Shutdown, Join, Lose, client
<1> QED BY <1>1, <1>2, <1>3 DEF StdioNext

LEMMA WorkersStep ==
  ASSUME TypesOK, WorkersOK, StdioNext
  PROVE  WorkersOK'
<1> SUFFICES ASSUME NEW lane \in Lanes
             PROVE  Cardinality(Busy(lane)') + dead'[lane] <= workers'[lane]
  BY DEF WorkersOK
<1>0. /\ Cardinality(Busy(lane)) + dead[lane] <= workers[lane]
      /\ workers[lane] \in Nat /\ dead \in [Lanes -> Nat] /\ dead[lane] \in Nat
  BY SetupTypes DEF WorkersOK, TypesOK, ClientOK
<1>1. ASSUME Busy(lane)' \subseteq Busy(lane), UNCHANGED <<workers, dead>>
      PROVE  Cardinality(Busy(lane)') + dead'[lane] <= workers'[lane]
  <2>1. Cardinality(Busy(lane)') <= Cardinality(Busy(lane)) /\ Cardinality(Busy(lane)') \in Nat
    BY <1>1, BusyFinite, FS_Subset, FS_CardinalityType
  <2> QED BY <2>1, <1>0, <1>1, BusyFinite
<1>2. CASE UNCHANGED <<place, workers, dead>>
  <2>1. Busy(lane)' \subseteq Busy(lane)
    BY <1>2 DEF Busy, Of
  <2> QED BY <2>1, <1>1, <1>2
<1>3. CASE ReadLine
  <2> DEFINE c == input[lines + 1]
  <2>1. c \in Calls /\ UNCHANGED <<workers, dead>>
    BY <1>3, SetupTypes DEF ReadLine, TypesOK, ClientOK
  <2>2. Walk(c, "unread", "put") \/ (Walk(c, "unread", "decides") /\ Lane[c] = "lifecycle")
    BY <1>3, <2>1, GotoWalks DEF ReadLine
  <2> HIDE DEF c
  <2>3. Busy(lane)' \subseteq Busy(lane)
    BY <2>1, <2>2 DEF Walk, Busy, Of, Lanes
  <2> QED BY <2>1, <2>3, <1>1
<1>4. ASSUME NEW c \in Calls, NEW e \in Onwards, Walk(c, e[1], e[2]), UNCHANGED <<workers, dead>>
      PROVE  Cardinality(Busy(lane)') + dead'[lane] <= workers'[lane]
  <2>1. e[2] \in {"unread", "put", "queued"} \cup Ended \/ e[1] \notin {"unread", "put", "queued"} \cup Ended
    BY DEF Onwards, Ended
  <2>2. Busy(lane)' \subseteq Busy(lane)
    BY <1>4, <2>1 DEF Walk, Busy, Of
  <2> QED BY <1>4, <2>2, <1>1
<1>5. ASSUME NEW c \in Calls, Take(c)
      PROVE  Cardinality(Busy(lane)') + dead'[lane] <= workers'[lane]
  <2>1. Walk(c, "queued", "decides") /\ UNCHANGED <<workers, dead>>
    BY <1>5, GotoWalks DEF Take, client
  <2>2. CASE Lane[c] # lane
    <3>1. Busy(lane)' \subseteq Busy(lane)
      BY <2>1, <2>2 DEF Walk, Busy, Of
    <3> QED BY <2>1, <3>1, <1>1
  <2>3. CASE Lane[c] = lane
    <3>1. Busy(lane)' \subseteq Busy(lane) \cup {c}
      BY <2>1, <2>3 DEF Walk, Busy, Of
    <3>2. Cardinality(Busy(lane)) + dead[lane] < workers[lane]
      BY <1>5, <2>3 DEF Take
    <3>3. /\ IsFiniteSet(Busy(lane) \cup {c})
          /\ Cardinality(Busy(lane) \cup {c}) <= Cardinality(Busy(lane)) + 1
      <4>1. IsFiniteSet(Busy(lane)) /\ Cardinality(Busy(lane)) \in Nat
        BY BusyFinite
      <4>2. IsFiniteSet(Busy(lane) \cup {c})
        BY <4>1, FS_AddElement
      <4>3. Cardinality(Busy(lane) \cup {c}) =
              IF c \in Busy(lane) THEN Cardinality(Busy(lane)) ELSE Cardinality(Busy(lane)) + 1
        BY <4>1, FS_AddElement
      <4> QED BY <4>1, <4>2, <4>3
    <3>4. /\ Cardinality(Busy(lane)') <= Cardinality(Busy(lane) \cup {c})
          /\ Cardinality(Busy(lane)') \in Nat /\ Cardinality(Busy(lane) \cup {c}) \in Nat
      BY <3>1, <3>3, FS_Subset, FS_CardinalityType
    <3> QED BY <2>1, <3>2, <3>3, <3>4, <1>0, BusyFinite
  <2> QED BY <2>2, <2>3
<1>6. ASSUME NEW c \in Calls, LoseWorker(c)
      PROVE  Cardinality(Busy(lane)') + dead'[lane] <= workers'[lane]
  <2>1. Walk(c, "replies", "unsent") /\ workers' = workers /\ Lane[c] \in Lanes
    BY <1>6, GotoWalks DEF LoseWorker
  <2>2. Busy(lane)' = Busy(lane) \ {c}
    BY <2>1 DEF Walk, Busy, Of, Ended
  <2>3. CASE Lane[c] # lane
    <3>1. c \notin Busy(lane) /\ dead'[lane] = dead[lane]
      BY <1>0, <1>6, <2>3 DEF Busy, Of, LoseWorker
    <3>2. Busy(lane)' = Busy(lane)
      BY <2>2, <3>1
    <3> QED BY <1>0, <2>1, <3>1, <3>2
  <2>4. CASE Lane[c] = lane
    <3>1. c \in Busy(lane) /\ dead'[lane] = dead[lane] + 1
      BY <1>0, <1>6, <2>1, <2>4 DEF Busy, Of, LoseWorker, Walk, Ended
    <3>2. Cardinality(Busy(lane)') = Cardinality(Busy(lane)) - 1
      BY <2>2, <3>1, BusyFinite, FS_RemoveElement
    <3> QED BY <1>0, <2>1, <3>1, <3>2, BusyFinite
  <2> QED BY <2>3, <2>4
<1> QED
  BY <1>2, <1>3, <1>4, <1>5, <1>6, DeadStays, PlacesMove

-----------------------------------------------------------------------------
(* The invariant and the theorems.                                         *)

StdioInv == TypesOK /\ LocksOK /\ AnswersOK /\ LanesOK /\ WorkersOK

LEMMA StdioInvInit == StdioInit => StdioInv
<1> SUFFICES ASSUME StdioInit PROVE StdioInv
  OBVIOUS
<1>1. TypesOK
  <2>1. ClientOK
    <3>1. Len(input) \in Nat
      BY StdioAssumption DEF StdioInit
    <3>2. dead \in [Lanes -> Nat]
      BY DEF StdioInit
    <3>3. \E setup \in Setups : input = setup.input /\ workers = setup.workers
      BY DEF StdioInit
    <3>4. lines \in 0..Len(input) /\ phase \in Phases /\ gone \in BOOLEAN /\ written \in Seq(Calls)
      <4>1. lines = 0 /\ phase = "reads" /\ gone = FALSE /\ written = <<>>
        BY DEF StdioInit
      <4>2. gone \in BOOLEAN
        BY <4>1
      <4>3. lines \in 0..Len(input) /\ phase \in Phases /\ written \in Seq(Calls)
        BY <3>1, <4>1 DEF Phases
      <4> QED BY <4>2, <4>3
    <3> QED BY <3>2, <3>3, <3>4 DEF ClientOK
  <2>2. SetsOK /\ latched \in BOOLEAN /\ mutex \in Calls \cup {None}
    BY DEF StdioInit, SetsOK
  <2>3. place \in [Calls -> Places] /\ responses \in [Calls -> Nat] /\ owed \in Counts
    BY DEF StdioInit, Places, Counts
  <2> QED BY <2>1, <2>2, <2>3 DEF TypesOK
<1>2. LocksOK
  BY StdioAssumption DEF StdioInit, LocksOK, LocksRight
<1>3. AnswersOK
  BY DEF StdioInit, AnswersOK, AnswersRight, Early
<1>4. LanesOK
  BY DEF StdioInit, LanesOK, LaneRight, Closing, Idle
<1>5. WorkersOK
  <2>1. ASSUME NEW lane \in Lanes PROVE Cardinality(Busy(lane)) + dead[lane] <= workers[lane]
    <3>1. Busy(lane) = {} /\ dead[lane] = 0
      BY DEF StdioInit, Busy, Of
    <3>2. workers[lane] \in Nat
      BY <1>1, SetupTypes DEF TypesOK
    <3> QED BY <3>1, <3>2, FS_EmptySet
  <2> QED BY <2>1 DEF WorkersOK
<1> QED BY <1>1, <1>2, <1>3, <1>4, <1>5 DEF StdioInv

LEMMA StdioInvStep == StdioInv /\ [StdioNext]_stdioVars => StdioInv'
<1>1. ASSUME StdioInv, StdioNext PROVE StdioInv'
  BY <1>1, TypesStep, LocksStep, AnswersStep, LanesStep, WorkersStep DEF StdioInv
<1>2. ASSUME StdioInv, UNCHANGED stdioVars PROVE StdioInv'
  <2>1. /\ UNCHANGED <<input, workers, lines, phase, gone, dead, place, cancelled, mutex, written>>
        /\ UNCHANGED <<inflight, responses, tombs, latched, handled, pipe, owed>>
    BY <1>2 DEF stdioVars, client, routing, backend
  <2>2. TypesOK' /\ LocksOK'
    BY <1>2, <2>1 DEF StdioInv, TypesOK, ClientOK, SetsOK, LocksOK, LocksRight
  <2>3. AnswersOK' /\ LanesOK'
    BY <1>2, <2>1 DEF StdioInv, AnswersOK, AnswersRight, LanesOK, LaneRight, Closing, Idle
  <2>4. WorkersOK'
    BY <1>2, <2>1 DEF StdioInv, WorkersOK, Busy, Of
  <2> QED BY <2>2, <2>3, <2>4 DEF StdioInv
<1> QED BY <1>1, <1>2

LEMMA StdioInvariant == StdioSpec => []StdioInv
<1> QED BY StdioInvInit, StdioInvStep, PTL DEF StdioSpec

\* The calls, the locks, the registered ids and the lanes are always in a state
\* the code can be in, and no lane runs more calls than it has workers left.
THEOREM StdioTyping == StdioSpec => []StdioTypeOK
<1>1. ASSUME StdioInv PROVE StdioTypeOK
  <2>1. responses \in Counts
    BY <1>1 DEF StdioInv, TypesOK, AnswersOK, AnswersRight, Counts
  <2>2. /\ \A c \in Calls : place[c] = "unread" <=> c \notin {input[i] : i \in 1..lines}
        /\ \A lane \in Lanes : Cardinality(Busy(lane)) + dead[lane] <= workers[lane]
    BY <1>1 DEF StdioInv, LanesOK, LaneRight, WorkersOK
  <2>3. /\ \A c \in Calls : mutex = c <=>
             Lane[c] = "mutation" /\ (place[c] = "locked" \/ place[c] = "sent")
        /\ \A c \in Calls : c \in inflight <=> place[c] \in {"cleared", "locked", "sent", "leaving"}
    BY <1>1 DEF StdioInv, LocksOK, LocksRight
  <2> QED BY <1>1, <2>1, <2>2, <2>3 DEF StdioInv, TypesOK, ClientOK, SetsOK, StdioTypeOK
<1> QED BY <1>1, StdioInvariant, PTL

\* The proxy stops only when every line it read is answered, was cancelled, or
\* its client has gone, and nothing is left registered.
THEOREM ShutdownSafety == StdioSpec => []AnsweredBeforeExit
<1>1. ASSUME StdioInv, phase = "stopped"
      PROVE  /\ \A i \in 1..lines : \/ place[input[i]] = "answered"
                                    \/ place[input[i]] = "silent" /\ input[i] \in cancelled
                                    \/ place[input[i]] = "unsent" /\ gone
             /\ inflight = {} /\ mutex = None
  <2>1. \A c \in Calls : Idle(c)
    BY <1>1, StdioAssumption DEF StdioInv, LanesOK, LaneRight, Closing, Lanes
  <2>2. ASSUME NEW i \in 1..lines
        PROVE  \/ place[input[i]] = "answered"
               \/ place[input[i]] = "silent" /\ input[i] \in cancelled
               \/ place[input[i]] = "unsent" /\ gone
    <3>1. input[i] \in Calls
      BY <1>1, SetupTypes DEF StdioInv, TypesOK, ClientOK
    <3>2. place[input[i]] # "unread"
      BY <1>1, <3>1 DEF StdioInv, LanesOK, LaneRight
    <3> QED BY <1>1, <2>1, <3>1, <3>2 DEF Idle, Ended, StdioInv, LocksOK, LocksRight
  <2>3. inflight = {} /\ mutex = None
    BY <1>1, <2>1 DEF Idle, Ended, StdioInv, LocksOK, LocksRight, TypesOK, SetsOK
  <2> QED BY <2>2, <2>3
<1>2. StdioInv => AnsweredBeforeExit
  BY <1>1 DEF AnsweredBeforeExit
<1> QED BY <1>2, StdioInvariant, PTL

\* An answer that arrived while its call was waiting is still there when the
\* call looks.
THEOREM AnswerSafety == StdioSpec => []FiledAnswersStay
<1>1. StdioInv => FiledAnswersStay
  BY DEF StdioInv, TypesOK, SetsOK, AnswersOK, AnswersRight, FiledAnswersStay
<1> QED BY <1>1, StdioInvariant, PTL

-----------------------------------------------------------------------------
(* The bound on the leftover answers.                                      *)

Leftovers(r, live) == SumFunctionOnSet(r, Calls \ live)

LEMMA CallsFinite ==
  ASSUME NEW r \in [Calls -> Nat], NEW D \in SUBSET Calls
  PROVE  /\ IsFiniteSet(D) /\ NaturalOn(r, D)
         /\ SumFunctionOnSet(r, D) \in Nat
<1>1. IsFiniteSet(D)
  BY StdioAssumption, FS_Subset
<1>2. NaturalOn(r, D)
  BY DEF NaturalOn
<1> QED BY <1>1, <1>2, SumType

\* What pruning keeps for ids that are not in flight fits into the bound, even
\* when the answers in flight alone exceed it.
LEMMA PruningBounds ==
  ASSUME NEW r \in [Calls -> Nat], NEW live \in SUBSET Calls, NEW q \in Pruning(r, live)
  PROVE  Leftovers(q, live) <= MaxPending
<1>1. q \in [Calls -> Nat] /\ \A c \in live : q[c] = r[c]
  BY PruningTypes
<1>2. /\ SumFunctionOnSet(q, Calls) \in Nat
      /\ SumFunctionOnSet(q, live) \in Nat
      /\ SumFunctionOnSet(q, Calls \ live) \in Nat
      /\ IsFiniteSet(Calls) /\ NaturalOn(q, Calls)
      /\ IsFiniteSet(live)
  BY <1>1, CallsFinite
<1>3. SumFunctionOnSet(q, Calls) = SumFunctionOnSet(q, live) + SumFunctionOnSet(q, Calls \ live)
  BY <1>2, SumSplit
<1>4. SumFunctionOnSet(q, live) = SumFunctionOnSet(r, live)
  BY <1>1, <1>2, SumAgree
<1>5. SumFunction(q) = SumFunctionOnSet(q, Calls)
  BY <1>1 DEF SumFunction, SumFunctionOnSet, FoldFunction
<1>6. \/ q = r /\ SumFunction(r) <= MaxPending
      \/ SumFunction(q) = Larger(MaxPending, SumFunctionOnSet(r, live))
  BY DEF Pruning
<1> QED BY <1>2, <1>3, <1>4, <1>5, <1>6, StdioAssumption DEF Leftovers, Larger

LEMMA LeftoversStep ==
  ASSUME TypesOK, LocksOK, TypesOK', LeftoversBounded, StdioNext
  PROVE  LeftoversBounded'
<1>0. /\ responses \in [Calls -> Nat] /\ responses' \in [Calls -> Nat]
      /\ inflight \in SUBSET Calls /\ inflight' \in SUBSET Calls
  BY DEF TypesOK, SetsOK
<1>1. ASSUME inflight \subseteq inflight',
             \A c \in Calls \ inflight' : responses'[c] = responses[c]
      PROVE  LeftoversBounded'
  <2>1. Leftovers(responses', inflight') = Leftovers(responses, inflight')
    BY <1>0, <1>1, CallsFinite, SumAgree DEF Leftovers
  <2>2. Leftovers(responses, inflight') <= Leftovers(responses, inflight)
    <3>1. Calls \ inflight' \in SUBSET (Calls \ inflight)
      BY <1>1
    <3>2. IsFiniteSet(Calls \ inflight) /\ NaturalOn(responses, Calls \ inflight)
      BY <1>0, CallsFinite
    <3> QED BY <3>1, <3>2, SumMonotone DEF Leftovers
  <2>3. Leftovers(responses, inflight') \in Nat /\ Leftovers(responses, inflight) \in Nat
    BY <1>0, CallsFinite DEF Leftovers
  <2> QED BY <2>1, <2>2, <2>3, StdioAssumption DEF LeftoversBounded, Leftovers
<1>2. ASSUME NEW r \in [Calls -> Nat], responses' \in Pruning(r, inflight')
      PROVE  LeftoversBounded'
  BY <1>0, <1>2, PruningBounds DEF LeftoversBounded, Leftovers
<1>3. CASE ReadLine \/ CloseInput \/ HangUp \/ Shutdown \/ Lose
  BY <1>1, <1>3 DEF ReadLine, CloseInput, HangUp, Shutdown, Join, Lose, routing
<1>4. ASSUME NEW c \in Calls,
             Put(c) \/ Take(c) \/ AnswerLocally(c) \/ EndCancelled(c) \/ Reply(c) \/ LoseWorker(c) \/ Abort(c)
      PROVE  LeftoversBounded'
  BY <1>1, <1>4 DEF Put, Take, AnswerLocally, EndCancelled, Reply, LoseWorker, Abort, routing
<1>5. ASSUME NEW c \in Calls, Clear(c) \/ Send(c) PROVE LeftoversBounded'
  BY <1>1, <1>5 DEF Clear, Send, TakeLock, Write, WriteFails, routing
<1>6. ASSUME NEW c \in Calls, TakeAnswer(c) PROVE LeftoversBounded'
  <2>1. c \in inflight /\ inflight' = inflight
    BY <1>6 DEF TakeAnswer, Goto, LocksOK, LocksRight
  <2>2. \A d \in Calls \ {c} : responses'[d] = responses[d]
    BY <1>0, <1>6 DEF TakeAnswer
  <2> QED BY <1>1, <2>1, <2>2
<1>7. ASSUME NEW c \in Calls, SeeError(c) \/ TimeOut(c) PROVE LeftoversBounded'
  BY <1>1, <1>7 DEF SeeError, TimeOut, routing
<1>8. ASSUME NEW c \in Calls, Leave(c) PROVE LeftoversBounded'
  BY <1>0, <1>2, <1>8 DEF Leave
<1>9. ASSUME NEW c \in Calls, Answer(c) PROVE LeftoversBounded'
  <2>1. [responses EXCEPT ![c] = @ + 1] \in [Calls -> Nat]
    BY <1>0
  <2> QED BY <1>1, <1>2, <1>9, <2>1 DEF Answer
<1>10. ASSUME NEW c \in Calls, Cancel(c) \/ Consume(c) \/ Forget(c) PROVE LeftoversBounded'
  BY <1>1, <1>10 DEF Cancel, Consume, Forget, routing
<1> QED
  BY <1>3, <1>4, <1>5, <1>6, <1>7, <1>8, <1>9, <1>10 DEF StdioNext, Step, Decide, Wait, Finish

\* Answers nobody waits for are bounded, whatever the numbers of calls, of late
\* and of duplicated answers, and whatever the bound.
THEOREM LeftoverSafety == StdioSpec => []LeftoversBounded
<1>1. StdioInit => LeftoversBounded
  <2> SUFFICES ASSUME StdioInit PROVE LeftoversBounded
    OBVIOUS
  <2> DEFINE zero == [c \in Calls |-> 0]
  <2>1. responses = zero /\ inflight = {}
    BY DEF StdioInit
  <2>2. zero \in Pruning(zero, {})
    <3>1. SumFunctionOnSet(zero, Calls) = 0
      BY CallsFinite, SumZero DEF NaturalOn
    <3>2. SumFunction(zero) = SumFunctionOnSet(zero, Calls)
      BY DEF SumFunction, SumFunctionOnSet, FoldFunction
    <3> QED BY <3>1, <3>2, StdioAssumption DEF Pruning
  <2> HIDE DEF zero
  <2>3. zero \in [Calls -> Nat]
    BY DEF zero
  <2> QED BY <2>1, <2>2, <2>3, PruningBounds DEF LeftoversBounded, Leftovers
<1>2. StdioInv /\ LeftoversBounded /\ [StdioNext]_stdioVars => LeftoversBounded'
  <2>1. ASSUME StdioInv, LeftoversBounded, StdioNext PROVE LeftoversBounded'
    BY <2>1, LeftoversStep, TypesStep DEF StdioInv
  <2>2. ASSUME LeftoversBounded, UNCHANGED stdioVars PROVE LeftoversBounded'
    BY <2>2 DEF LeftoversBounded, stdioVars, routing
  <2> QED BY <2>1, <2>2
<1> QED BY <1>1, <1>2, StdioInvariant, PTL DEF StdioSpec

-----------------------------------------------------------------------------
(* The order of the writes, when the mutation lane has one worker.         *)

Waiting == {"unread", "put", "queued"}

\* Of two mutations the later one is read when the earlier one is at least
\* queued, and taken when the earlier one has ended.
Behind(c, d) ==
  /\ place[d] # "unread" => place[c] \notin {"unread", "put"}
  /\ place[d] \notin Waiting => place[c] \in Ended

QueueOrder ==
  \A c, d \in Of("mutation") : Precedes(c, d) => Behind(c, d)

WrittenOK ==
  \A i \in 1..Len(written) :
    written[i] \in Of("mutation") /\ place[written[i]] \notin Early

OrderOK == QueueOrder /\ WrittenOK /\ WritesKeepArrivalOrder

LEMMA PrecedesOnce ==
  ASSUME TypesOK, NEW c, NEW d, Precedes(c, d)
  PROVE  c # d /\ \A i \in 1..Len(input) : input[i] = d =>
                    \E j \in 1..Len(input) : j < i /\ input[j] = c
<1>1. IsInjective(input) /\ input \in Seq(Calls)
  BY SetupTypes DEF TypesOK
<1>2. \A i, j \in 1..Len(input) : input[i] = input[j] => i = j
  BY <1>1 DEF IsInjective
<1>3. PICK i, j \in 1..Len(input) : i < j /\ input[i] = c /\ input[j] = d
  BY DEF Precedes
<1>4. c # d
  BY <1>1, <1>2, <1>3
<1>5. ASSUME NEW k \in 1..Len(input), input[k] = d
      PROVE  \E m \in 1..Len(input) : m < k /\ input[m] = c
  BY <1>1, <1>2, <1>3, <1>5
<1> QED BY <1>4, <1>5

\* A walk that only moves a call that has been taken, or puts it into its queue.
LEMMA WalkKeepsOrder ==
  ASSUME TypesOK, QueueOrder, NEW c \in Calls, NEW e \in Onwards, Walk(c, e[1], e[2]),
         UNCHANGED input
  PROVE  QueueOrder'
<1> SUFFICES ASSUME NEW a \in Of("mutation"), NEW b \in Of("mutation"), Precedes(a, b)
             PROVE  Behind(a, b)'
  BY DEF QueueOrder, Of, Precedes
<1>1. Behind(a, b) /\ a \in Calls /\ b \in Calls
  BY DEF QueueOrder, Of
<1>2. /\ place'[b] # "unread" => place[b] # "unread"
      /\ place'[b] \notin Waiting => place[b] \notin Waiting
      /\ place[a] \notin {"unread", "put"} => place'[a] \notin {"unread", "put"}
      /\ place[a] \in Ended => place'[a] \in Ended
  <2>1. /\ e[1] # "unread" /\ e[1] \notin Ended
        /\ e[2] \notin {"unread", "put"}
        /\ e[1] \in Waiting => e[2] \in Waiting
    BY DEF Onwards, Waiting, Ended
  <2> QED BY <1>1, <2>1 DEF Walk
<1> QED BY <1>1, <1>2 DEF Behind

LEMMA QueueOrderStep ==
  ASSUME TypesOK, LanesOK, WorkersOK, QueueOrder, StdioNext, workers["mutation"] = 1
  PROVE  QueueOrder'
<1>1. CASE ReadLine
  <2> DEFINE n == input[lines + 1]
  <2>1. /\ n \in Calls /\ lines \in Nat /\ lines < Len(input) /\ Len(input) \in Nat
        /\ UNCHANGED input /\ Free
    BY <1>1, SetupTypes DEF ReadLine, TypesOK, ClientOK
  <2>2. \/ Walk(n, "unread", "put")
        \/ Walk(n, "unread", "decides") /\ Lane[n] = "lifecycle"
    BY <1>1, <2>1, GotoWalks DEF ReadLine
  <2> SUFFICES ASSUME NEW a \in Of("mutation"), NEW b \in Of("mutation"), Precedes(a, b)
               PROVE  Behind(a, b)'
    BY <2>1 DEF QueueOrder, Of, Precedes
  <2>3. Behind(a, b) /\ a \in Calls /\ b \in Calls /\ Lane[a] = "mutation" /\ Lane[b] = "mutation"
    BY DEF QueueOrder, Of
  <2>4. CASE b = n
    <3>1. PICK j \in 1..Len(input) : j < lines + 1 /\ input[j] = a
      BY <2>1, <2>4, PrecedesOnce
    <3>2. j \in 1..lines
      BY <3>1, <2>1
    <3>3. place[a] # "unread"
      BY <3>1, <3>2, <2>3 DEF LanesOK, LaneRight
    <3>4. place[a] # "put"
      BY <2>1, <2>3 DEF Free
    <3>5. a # n
      BY <2>4, PrecedesOnce
    <3>6. place'[b] = "put" /\ place'[a] = place[a]
      BY <2>2, <2>3, <2>4, <3>5 DEF Walk
    <3> QED BY <3>3, <3>4, <3>6 DEF Behind, Waiting
  <2>5. CASE b # n
    <3>1. place'[b] = place[b] /\ (a = n => place[a] = "unread")
          /\ (a # n => place'[a] = place[a])
      BY <2>2, <2>3, <2>5 DEF Walk
    <3> HIDE DEF n
    <3>2. CASE a = n
      <4>1. place[b] = "unread"
        BY <3>1, <3>2, <2>3 DEF Behind
      <4> QED BY <3>1, <4>1 DEF Behind, Waiting
    <3> QED BY <3>1, <3>2, <2>3 DEF Behind
  <2> QED BY <2>4, <2>5
<1>2. ASSUME NEW c \in Calls, Take(c) PROVE QueueOrder'
  <2>1. Walk(c, "queued", "decides") /\ UNCHANGED input
    BY <1>2, GotoWalks DEF Take, client
  <2> SUFFICES ASSUME NEW a \in Of("mutation"), NEW b \in Of("mutation"), Precedes(a, b)
               PROVE  Behind(a, b)'
    BY <2>1 DEF QueueOrder, Of, Precedes
  <2>2. Behind(a, b) /\ a \in Calls /\ b \in Calls /\ a # b
    BY PrecedesOnce DEF QueueOrder, Of
  <2>3. CASE b = c
    <3>1. place[a] \notin {"unread", "put"}
      BY <2>1, <2>2, <2>3 DEF Behind, Walk
    <3>2. place[a] # "queued"
      BY <1>2, <2>3 DEF Take, Queued, Of
    <3>3. a \notin Busy("mutation")
      <4>1. Cardinality(Busy("mutation")) < 1
        <5>1. dead["mutation"] \in Nat
          BY DEF TypesOK, ClientOK, Lanes
        <5> QED BY <1>2, <2>3, <5>1, BusyFinite DEF Take, Of
      <4>2. Cardinality(Busy("mutation")) = 0
        BY <4>1, BusyFinite
      <4> QED BY <4>2, BusyFinite, FS_EmptySet
    <3>4. place[a] \in Ended
      BY <3>1, <3>2, <3>3 DEF Busy, Of
    <3> QED BY <3>4, <2>1, <2>2, <2>3 DEF Walk, Behind, Ended
  <2>4. CASE b # c
    <3>1. place'[b] = place[b]
      BY <2>1, <2>2, <2>4 DEF Walk
    <3>2. place[a] \notin {"unread", "put"} => place'[a] \notin {"unread", "put"}
      BY <2>1, <2>2 DEF Walk
    <3>3. place[a] \in Ended => place'[a] \in Ended
      BY <2>1, <2>2 DEF Walk, Ended
    <3> QED BY <3>1, <3>2, <3>3, <2>2 DEF Behind
  <2> QED BY <2>3, <2>4
<1>3. ASSUME UNCHANGED <<place, input>> PROVE QueueOrder'
  BY <1>3 DEF QueueOrder, Of, Precedes, Behind
<1>4. ASSUME NEW c \in Calls, NEW e \in Onwards, Walk(c, e[1], e[2]), UNCHANGED input
      PROVE  QueueOrder'
  BY <1>4, WalkKeepsOrder
<1>5. ReadLine \/ UNCHANGED input
  BY LinesMove
<1> QED BY <1>1, <1>2, <1>3, <1>4, <1>5, PlacesMove

LEMMA WrittenMoves ==
  ASSUME StdioNext
  PROVE  UNCHANGED written \/ \E c \in Calls : Write(c)
<1>1. ASSUME ReadLine \/ CloseInput \/ HangUp \/ Shutdown \/ Lose PROVE UNCHANGED written
  BY <1>1 DEF ReadLine, CloseInput, HangUp, Shutdown, Join, Lose
<1>2. ASSUME NEW c \in Calls, Put(c) \/ Take(c) \/ Decide(c) \/ TakeLock(c) \/ WriteFails(c)
      PROVE  UNCHANGED written
  BY <1>2 DEF Put, Take, Decide, AnswerLocally, EndCancelled, Clear, TakeLock, WriteFails
<1>3. ASSUME NEW c \in Calls, Wait(c) \/ Finish(c) \/ Cancel(c) \/ Consume(c) \/ Answer(c) \/ Forget(c)
      PROVE  UNCHANGED written
  BY <1>3 DEF Wait, TakeAnswer, SeeError, TimeOut, Finish, Leave, Reply, LoseWorker, Abort,
              Cancel, Consume, Answer, Forget
<1> QED BY <1>1, <1>2, <1>3 DEF StdioNext, Step, Send

\* A call that was written does not come back to the places before its write.
LEMMA EarlyStays ==
  ASSUME TypesOK, StdioNext, NEW d \in Calls, place[d] \notin Early
  PROVE  place'[d] \notin Early
<1>1. CASE ReadLine
  <2>1. input[lines + 1] \in Calls
    BY <1>1, SetupTypes DEF ReadLine, TypesOK, ClientOK
  <2>2. \/ Walk(input[lines + 1], "unread", "put")
        \/ Walk(input[lines + 1], "unread", "decides")
    BY <1>1, <2>1, GotoWalks DEF ReadLine
  <2> QED BY <2>1, <2>2 DEF Walk, Early
<1>2. ASSUME NEW c \in Calls, Take(c) PROVE place'[d] \notin Early
  BY <1>2, GotoWalks DEF Take, Walk, Early
<1>3. ASSUME NEW c \in Calls, NEW e \in Onwards, Walk(c, e[1], e[2])
      PROVE  place'[d] \notin Early
  BY <1>3 DEF Walk, Early, Onwards
<1> QED BY <1>1, <1>2, <1>3, PlacesMove

LEMMA WriteAppends ==
  ASSUME TypesOK, NEW c \in Calls, Write(c)
  PROVE  \/ UNCHANGED written /\ Lane[c] # "mutation"
         \/ /\ Lane[c] = "mutation" /\ place[c] = "locked" /\ place'[c] = "sent"
            /\ written' = Append(written, c)
            /\ Len(written) \in Nat /\ Len(written') = Len(written) + 1
            /\ written'[Len(written) + 1] = c
            /\ \A i \in 1..Len(written) : written'[i] = written[i] /\ written[i] \in Calls
  BY DEF Write, ReadyToWrite, TypesOK, ClientOK

LEMMA WrittenOnce ==
  ASSUME TypesOK, WrittenOK, StdioNext
  PROVE  WrittenOK'
<1>0. /\ \A i \in 1..Len(written) : written[i] \in Calls
      /\ \A d \in Calls : place[d] \notin Early => place'[d] \notin Early
  BY EarlyStays DEF TypesOK, ClientOK
<1>1. CASE UNCHANGED written
  BY <1>0, <1>1 DEF WrittenOK, Of
<1>2. ASSUME NEW c \in Calls, Write(c) PROVE WrittenOK'
  <2>1. CASE written' = Append(written, c) /\ Lane[c] = "mutation"
    BY <1>0, <1>2, <2>1, WriteAppends DEF WrittenOK, Of, Early
  <2> QED BY <1>1, <1>2, <2>1, WriteAppends
<1> QED BY <1>1, <1>2, WrittenMoves

LEMMA OrderStep ==
  ASSUME TypesOK, QueueOrder, WrittenOK, WritesKeepArrivalOrder, StdioNext
  PROVE  WritesKeepArrivalOrder'
<1>1. ReadLine \/ UNCHANGED input
  BY LinesMove
<1>2. UNCHANGED input
  BY <1>1 DEF ReadLine
<1>3. CASE UNCHANGED written
  BY <1>2, <1>3 DEF WritesKeepArrivalOrder, Precedes
<1>4. ASSUME NEW c \in Calls, Write(c), Lane[c] = "mutation" PROVE WritesKeepArrivalOrder'
  <2>1. /\ place[c] = "locked" /\ Len(written) \in Nat /\ Len(written') = Len(written) + 1
        /\ written'[Len(written) + 1] = c
        /\ \A i \in 1..Len(written) : written'[i] = written[i] /\ written[i] \in Calls
    BY <1>4, WriteAppends
  <2>2. ASSUME NEW i \in 1..Len(written'), NEW j \in 1..Len(written'),
               Precedes(written'[i], written'[j])
        PROVE  i < j
    <3>1. CASE i \in 1..Len(written) /\ j \in 1..Len(written)
      BY <2>1, <2>2, <3>1 DEF WritesKeepArrivalOrder
    <3>2. CASE i = Len(written) + 1 /\ j \in 1..Len(written)
      <4>1. Precedes(c, written[j]) /\ written[j] \in Of("mutation") /\ place[written[j]] \notin Early
        BY <2>1, <2>2, <3>2 DEF WrittenOK
      <4>2. place[c] \in Ended
        BY <1>4, <4>1 DEF QueueOrder, Of, Behind, Early, Waiting
      <4> QED BY <2>1, <4>2 DEF Ended
    <3>3. CASE i = Len(written) + 1 /\ j = Len(written) + 1
      BY <2>1, <2>2, <3>3, PrecedesOnce
    <3>4. CASE i \in 1..Len(written) /\ j = Len(written) + 1
      BY <2>1, <3>4
    <3> QED BY <2>1, <3>1, <3>2, <3>3, <3>4
  <2> QED BY <1>2, <2>2 DEF WritesKeepArrivalOrder, Precedes
<1> QED BY <1>3, <1>4, WrittenMoves, WriteAppends

\* Successive writes keep arrival order when the mutation lane has a single
\* worker: the order is that worker's, the lock that mutations take gives none
\* (with two workers the order is lost, as StdioOrder.cfg shows).
THEOREM SerialLane ==
  ASSUME \A setup \in Setups : setup.workers["mutation"] = 1
  PROVE  StdioSpec => []WritesKeepArrivalOrder
<1>1. StdioInit => OrderOK
  <2> SUFFICES ASSUME StdioInit PROVE OrderOK
    OBVIOUS
  <2>1. QueueOrder
    BY DEF StdioInit, QueueOrder, Behind, Of, Waiting
  <2>2. WrittenOK /\ WritesKeepArrivalOrder
    BY DEF StdioInit, WrittenOK, WritesKeepArrivalOrder
  <2> QED BY <2>1, <2>2 DEF OrderOK
<1>2. StdioInv /\ OrderOK /\ [StdioNext]_stdioVars => OrderOK'
  <2>1. ASSUME StdioInv, OrderOK, StdioNext PROVE OrderOK'
    <3>1. workers["mutation"] = 1
      BY <2>1 DEF StdioInv, TypesOK, ClientOK
    <3> QED BY <2>1, <3>1, QueueOrderStep, WrittenOnce, OrderStep DEF StdioInv, OrderOK
  <2>2. ASSUME OrderOK, UNCHANGED stdioVars PROVE OrderOK'
    <3>1. UNCHANGED <<place, input, written>>
      BY <2>2 DEF stdioVars, client
    <3> QED BY <2>2, <3>1 DEF OrderOK, QueueOrder, Behind, Of, Precedes, WrittenOK, WritesKeepArrivalOrder
  <2> QED BY <2>1, <2>2
<1>3. OrderOK => WritesKeepArrivalOrder
  BY DEF OrderOK
<1> QED BY <1>1, <1>2, <1>3, StdioInvariant, PTL DEF StdioSpec

-----------------------------------------------------------------------------
(* The lanes implement the session.                                        *)

LEMMA StateOf ==
  ASSUME NEW c \in Calls
  PROVE  /\ place[c] \in Ended => State[c] = place[c]
         /\ place[c] = "unread" => State[c] = "unread"
         /\ place[c] \notin Ended \cup {"unread"} => State[c] = "open"
  BY DEF State, Ended

\* A call that walks inside the proxy stays open, the others stay as they are.
LEMMA StatesMove ==
  ASSUME NEW c \in Calls, NEW p, NEW q, Walk(c, p, q)
  PROVE  /\ p \notin Ended \cup {"unread"} /\ q \notin Ended \cup {"unread"} => UNCHANGED State
         /\ p = "unread" /\ q \notin Ended \cup {"unread"}
              => State[c] = "unread" /\ State' = [State EXCEPT ![c] = "open"]
         /\ p \notin Ended \cup {"unread"} /\ q \in Ended
              => State[c] = "open" /\ State' = [State EXCEPT ![c] = q]
  BY DEF State, Walk, Ended

LEMMA UnwrittenEarly ==
  ASSUME WrittenOK, NEW c \in Calls, place[c] \in Early
  PROVE  c \notin Promise!Logged
  BY DEF WrittenOK, Promise!Logged

\* What the dispatcher and the downstream do.
LEMMA DispatcherSession ==
  ASSUME StdioInv, StdioNext, ~ \E c \in Calls : Step(c)
  PROVE  Promise!SessionNext \/ UNCHANGED Promise!sessionVars
<1> USE DEF Promise!sessionVars
<1>1. CASE UNCHANGED <<place, cancelled, gone, mutex, written, phase>>
  BY <1>1 DEF State
<1>2. CASE ReadLine
  <2> DEFINE c == input[lines + 1]
  <2>1. c \in Calls /\ phase = "reads" /\ UNCHANGED <<phase, cancelled, gone, mutex, written>>
    BY <1>2, SetupTypes DEF ReadLine, StdioInv, TypesOK, ClientOK
  <2>2. Walk(c, "unread", "put") \/ Walk(c, "unread", "decides")
    BY <1>2, <2>1, GotoWalks DEF ReadLine, StdioInv
  <2> HIDE DEF c
  <2>3. State[c] = "unread" /\ State' = [State EXCEPT ![c] = "open"]
    BY <2>1, <2>2, StatesMove DEF Ended
  <2>4. Promise!Read(c)
    BY <2>1, <2>3 DEF Promise!Read, Promise!Becomes
  <2> QED BY <2>1, <2>4 DEF Promise!SessionNext
<1>3. CASE CloseInput
  <2>1. UNCHANGED <<place, cancelled, gone, mutex, written>> /\ phase = "reads" /\ phase' = "joinsRead"
    BY <1>3 DEF CloseInput
  <2> QED BY <2>1 DEF State
<1>4. CASE Shutdown
  <2>1. UNCHANGED <<place, cancelled, gone, mutex, written>>
    BY <1>4 DEF Shutdown, Join
  <2>2. CASE phase = "joinsRead" /\ phase' = "joinsMutation"
    BY <2>1, <2>2 DEF State
  <2>3. CASE /\ phase = "joinsMutation" /\ phase' = "stopped"
             /\ Queued("mutation") \cup Busy("mutation") = {}
    <3>1. \A c \in Calls : Lane[c] = "mutation" => Idle(c)
      BY <2>3 DEF Queued, Busy, Of, Idle, StdioInv, LanesOK, LaneRight, Closing
    <3>2. \A c \in Calls : Idle(c)
      BY <2>3, <3>1, StdioAssumption DEF StdioInv, LanesOK, LaneRight, Closing, Lanes
    <3>3. \A c \in Calls : State[c] # "open"
      BY <3>2, StateOf DEF Idle, Ended
    <3>4. mutex = None
      BY <3>2 DEF Idle, Ended, StdioInv, LocksOK, LocksRight, TypesOK
    <3>5. UNCHANGED State
      BY <2>1 DEF State
    <3>6. Promise!Stop
      BY <2>1, <2>3, <3>3, <3>4, <3>5 DEF Promise!Stop
    <3> QED BY <3>6 DEF Promise!SessionNext
  <2> QED BY <1>4, <2>2, <2>3 DEF Shutdown, Join
<1>5. CASE Lose
  BY <1>1, <1>5 DEF Lose, client
<1>6. ASSUME NEW c \in Calls, Cancel(c) PROVE Promise!SessionNext
  <2>1. /\ phase = "reads" /\ c \in Of("read") \cup Of("mutation")
        /\ place[c] \notin Ended \cup {"unread"}
        /\ cancelled' = cancelled \cup {c} /\ UNCHANGED <<place, gone, mutex, written, phase>>
    BY <1>6 DEF Cancel, Of, Ended, client
  <2>2. State[c] = "open" /\ UNCHANGED State
    BY <2>1, StateOf DEF State
  <2>3. Promise!Cancel(c)
    BY <2>1, <2>2 DEF Promise!Cancel
  <2> QED BY <2>3 DEF Promise!SessionNext
<1>7. ASSUME NEW c \in Calls, Consume(c) \/ Answer(c) \/ Forget(c)
      PROVE  UNCHANGED <<place, cancelled, gone, mutex, written, phase>>
  BY <1>7 DEF Consume, Answer, Forget, client
<1>8. CASE HangUp
  <2>1. Promise!HangUp
    BY <1>8 DEF HangUp, Promise!HangUp, State
  <2> QED BY <2>1 DEF Promise!SessionNext
<1> QED BY <1>1, <1>2, <1>3, <1>4, <1>5, <1>6, <1>7, <1>8 DEF StdioNext

\* What becomes of a call on the proxy's threads.
LEMMA WorkerSession ==
  ASSUME StdioInv, WrittenOK, NEW c \in Calls, Step(c)
  PROVE  Promise!SessionNext \/ UNCHANGED Promise!sessionVars
<1> USE DEF Promise!sessionVars
<1>0. TypesOK /\ LocksOK /\ LocksRight(c)
  BY DEF StdioInv, LocksOK
<1>2. CASE Put(c) \/ Take(c) \/ AnswerLocally(c) \/ Clear(c)
  <2>1. UNCHANGED <<cancelled, gone, written, phase, mutex>>
    BY <1>2 DEF Put, Take, AnswerLocally, Clear, client
  <2>2. UNCHANGED State
    BY <1>0, <1>2, GotoWalks, StatesMove DEF Put, Take, AnswerLocally, Clear, Ended
  <2> QED BY <2>1, <2>2
<1>3. CASE EndCancelled(c)
  <2>1. Walk(c, "decides", "silent") /\ c \in cancelled /\ UNCHANGED <<cancelled, gone, mutex, written, phase>>
    BY <1>0, <1>3, GotoWalks DEF EndCancelled, client
  <2>2. place[c] \in Early /\ mutex # c
    BY <1>0, <2>1 DEF Walk, Early, LocksRight
  <2>3. State[c] = "open" /\ State' = [State EXCEPT ![c] = "silent"]
    BY <2>1, StatesMove DEF Ended
  <2>4. Promise!Silence(c)
    BY <2>1, <2>2, <2>3, UnwrittenEarly DEF Promise!Silence, Promise!Becomes
  <2> QED BY <2>4 DEF Promise!SessionNext
<1>4. CASE TakeLock(c)
  <2>1. /\ Walk(c, "cleared", "locked") /\ Lane[c] = "mutation" /\ mutex = None /\ mutex' = c
        /\ UNCHANGED <<cancelled, gone, written, phase>>
    BY <1>0, <1>4, GotoWalks DEF TakeLock, client
  <2>2. State[c] = "open" /\ UNCHANGED State
    BY <2>1, StatesMove, StateOf DEF Ended, Walk
  <2>3. c \in Of("mutation") \ Promise!Logged
    BY <2>1, UnwrittenEarly DEF Walk, Early, Of
  <2>4. Promise!Enter(c)
    BY <2>1, <2>2, <2>3 DEF Promise!Enter
  <2> QED BY <2>4 DEF Promise!SessionNext
<1>5. CASE Write(c)
  <2>1. UNCHANGED <<cancelled, gone, mutex, phase>> /\ place[c] \in Early
        /\ Walk(c, place[c], "sent") /\ place[c] \notin Ended \cup {"unread"}
    BY <1>0, <1>5 DEF Write, ReadyToWrite, Early, Walk, TypesOK, Ended, client
  <2>2. UNCHANGED State
    BY <2>1, StatesMove DEF Ended
  <2>3. CASE Lane[c] = "mutation"
    <3>1. written' = Append(written, c) /\ mutex = c
      BY <1>0, <1>5, <2>3, WriteAppends DEF LocksRight
    <3>2. Promise!Write(c)
      BY <2>1, <2>2, <3>1, UnwrittenEarly DEF Promise!Write
    <3> QED BY <3>2 DEF Promise!SessionNext
  <2> QED BY <1>0, <1>5, <2>1, <2>2, <2>3, WriteAppends
<1>6. ASSUME NEW p \in {"cleared", "locked", "sent"}, Walk(c, p, "leaving"), Release(c),
             UNCHANGED <<cancelled, gone, written, phase>>
      PROVE  Promise!SessionNext \/ UNCHANGED Promise!sessionVars
  <2>1. UNCHANGED State
    BY <1>6, StatesMove DEF Ended
  <2>2. CASE mutex = c
    <3>1. Promise!Yield(c)
      BY <1>6, <2>1, <2>2 DEF Release, Promise!Yield
    <3> QED BY <3>1 DEF Promise!SessionNext
  <2> QED BY <1>6, <2>1, <2>2 DEF Release
<1>7. CASE WriteFails(c)
  BY <1>0, <1>6, <1>7 DEF WriteFails, ReadyToWrite, Walk, TypesOK, client
<1>8. CASE Wait(c)
  BY <1>0, <1>6, <1>8, GotoWalks DEF Wait, TakeAnswer, SeeError, TimeOut, client
<1>9. CASE Leave(c)
  <2>1. Walk(c, "leaving", "replies") /\ UNCHANGED <<cancelled, gone, mutex, written, phase>>
    BY <1>0, <1>9, GotoWalks DEF Leave, client
  <2> QED BY <2>1, StatesMove DEF Ended
<1>10. CASE Reply(c)
  <2>1. Walk(c, "replies", "answered") /\ UNCHANGED <<cancelled, gone, mutex, written, phase>>
    BY <1>0, <1>10, GotoWalks DEF Reply, client
  <2>2. mutex # c
    BY <1>0, <2>1 DEF Walk, LocksRight
  <2>3. State[c] = "open" /\ State' = [State EXCEPT ![c] = "answered"]
    BY <2>1, StatesMove DEF Ended
  <2>4. Promise!Answer(c)
    BY <2>1, <2>2, <2>3 DEF Promise!Answer, Promise!Becomes
  <2> QED BY <2>4 DEF Promise!SessionNext
<1>11. CASE LoseWorker(c) \/ Abort(c)
  <2>1. Walk(c, "replies", "unsent") /\ gone /\ UNCHANGED <<cancelled, gone, mutex, written>>
    BY <1>0, <1>11, GotoWalks DEF LoseWorker, Abort
  <2>2. mutex # c
    BY <1>0, <2>1 DEF Walk, LocksRight
  <2>3. State[c] = "open" /\ State' = [State EXCEPT ![c] = "unsent"]
    BY <2>1, StatesMove DEF Ended
  <2>4. (phase = "stopped") <=> (phase = "stopped")'
    <3>1. CASE LoseWorker(c)
      BY <3>1 DEF LoseWorker
    <3>2. CASE Abort(c)
      <4>1. Lane[c] = "lifecycle" /\ ~Idle(c) /\ phase' = "aborted"
        BY <2>1, <3>2 DEF Abort, Walk, Idle, Ended
      <4> QED BY <4>1 DEF StdioInv, LanesOK, LaneRight, Closing
    <3> QED BY <1>11, <3>1, <3>2
  <2>5. (phase = "stopped") = (phase = "stopped")'
    BY <2>4
  <2>6. Promise!Drop(c)
    BY <2>1, <2>2, <2>3, <2>5 DEF Promise!Drop, Promise!Becomes
  <2> QED BY <2>6 DEF Promise!SessionNext
<1> QED
  BY <1>2, <1>3, <1>4, <1>5, <1>7, <1>8, <1>9, <1>10, <1>11 DEF Step, Decide, Send, Finish

\* ImplementsSession: for any number of calls, workers and bounds, every request
\* ends once, and mutations have the downstream to themselves, one after the other
\* and each once, whatever time-outs, late answers and lost downstreams come.
THEOREM LanesImplementSession == StdioSpec => ImplementsSession
<1>1. StdioInit => Promise!SessionInit /\ WrittenOK
  <2> SUFFICES ASSUME StdioInit PROVE Promise!SessionInit /\ WrittenOK
    OBVIOUS
  <2>1. State = [c \in Calls |-> "unread"]
    BY DEF StdioInit, State, Ended
  <2> QED BY <2>1 DEF StdioInit, Promise!SessionInit, WrittenOK
<1>2. StdioInv /\ WrittenOK /\ [StdioNext]_stdioVars => WrittenOK'
  <2>1. WrittenOK /\ UNCHANGED stdioVars => WrittenOK'
    BY DEF WrittenOK, stdioVars
  <2> QED BY <2>1, WrittenOnce DEF StdioInv
<1>3. StdioInv /\ WrittenOK /\ [StdioNext]_stdioVars => [Promise!SessionNext]_Promise!sessionVars
  <2>1. UNCHANGED stdioVars => UNCHANGED Promise!sessionVars
    BY DEF stdioVars, client, State, Promise!sessionVars
  <2> QED BY <2>1, DispatcherSession, WorkerSession
<1> QED BY <1>1, <1>2, <1>3, StdioInvariant, PTL DEF StdioSpec, ImplementsSession, Promise!SessionSpec
==============================================================================
