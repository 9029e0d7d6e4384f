------------------------ MODULE ApprovalCenterProofs ------------------------
(***************************************************************************)
(* Proofs about ApprovalCenter, for every number of proxies, cards, hooks  *)
(* and handler threads: its types, its four safety invariants, and that it *)
(* implements the ledger of cards.                                         *)
(***************************************************************************)
EXTENDS ApprovalCenter, TLAPS

\* The lock of a claim file is its proxy's exactly while the proxy serves, and
\* then the claim can be read and the pid is alive.
LeaseInv ==
  \A p \in Proxies :
    /\ holder[p] = p <=> Serves(p)
    /\ Serves(p) => claim[p] = "written"
    /\ life[p] \in {"opened", "serving"} => p \in pids

\* Only a proxy that has served has cards, and a card it has not asked for has
\* no row and is not being invalidated.
CardInv ==
  \A r \in Cards : /\ asker[r] # None => Serves(asker[r]) \/ Gone(asker[r])
                   /\ asker[r] = None => status[r] = "absent" /\ r \notin retiring

\* A request is about a card that has a proxy; one past the first check carries a
\* verdict; and where a check has found the lock free the proxy has gone.
RequestInv ==
  \A t \in Threads : work[t].at # "idle" =>
    /\ Card(t) \in Cards /\ asker[Card(t)] # None
    /\ work[t].at # "show" => work[t].verb \in Verdicts
    /\ t \in late => Gone(asker[Card(t)])
    /\ Checking(t, "locked") \/ Checking(t, "dead") => Gone(asker[Card(t)])

CenterInv ==
  /\ CenterTypeOK /\ LeaseInv /\ CardInv /\ RequestInv
  /\ LiveOwnersKeepTheirCards /\ NoFalseLife /\ ConfirmedMeansRecorded

LEMMA InitHolds == CenterInit => CenterInv
  BY CenterAssumption
     DEF CenterInit, CenterInv, CenterTypeOK, LeaseInv, CardInv, RequestInv, Statuses, Works, Idle,
         LiveOwnersKeepTheirCards, NoFalseLife, ConfirmedMeansRecorded, Serves,
         Checks, Verdicts

\* What a proxy, its process and the hooks do keeps the invariant.
LEMMA ProxySteps ==
  ASSUME CenterInv, NEW p \in Proxies, ProxyStep(p)
  PROVE  CenterInv'
<1> USE CenterAssumption
    DEF CenterInv, CenterTypeOK, LeaseInv, CardInv, RequestInv, LiveOwnersKeepTheirCards,
        NoFalseLife, ConfirmedMeansRecorded, Serves, Runs, Gone, Card, Checking,
        Goto, Set, owners, memory, history, Statuses, Verdicts, Checks, Outcome
<1>1. CASE OpenClaim(p)
  BY <1>1 DEF OpenClaim
<1>2. CASE TakeLease(p)
  BY <1>2 DEF TakeLease
<1>3. CASE LeaseRefused(p)
  BY <1>3 DEF LeaseRefused, files
<1>4. CASE CloseLease(p)
  BY <1>4 DEF CloseLease
<1>5. CASE UnlinkClaim(p)
  BY <1>5 DEF UnlinkClaim
<1>6. CASE Crash(p)
  BY <1>6 DEF Crash
<1>7. CASE FreePid(p)
  BY <1>7 DEF FreePid
<1>8. ASSUME NEW r \in Cards, WriteRow(p, r) PROVE CenterInv'
  BY <1>8 DEF WriteRow, files
<1>9. ASSUME NEW h \in Hooks, HookLocks(h, p) PROVE CenterInv'
  BY <1>9 DEF HookLocks
<1>10. ASSUME NEW h \in Hooks, HookUnlocks(h, p) PROVE CenterInv'
  BY <1>10 DEF HookUnlocks
<1> HIDE DEF CenterInv
<1> QED BY <1>1, <1>2, <1>3, <1>4, <1>5, <1>6, <1>7, <1>8, <1>9, <1>10 DEF ProxyStep

\* Two changes of a request leave a request.
LEMMA WorkMoves ==
  ASSUME work \in [Threads -> Works], NEW t \in Threads,
         NEW a \in Checks \cup {"idle", "note", "decide"}, NEW c \in {"start", "probe", "locked", "dead"},
         NEW v \in Verdicts \cup {"get"}
  PROVE  /\ [work EXCEPT ![t].at = a, ![t].check = c] \in [Threads -> Works]
         /\ [work EXCEPT ![t].check = c, ![t].verb = v] \in [Threads -> Works]
<1>1. \A w \in Works : /\ [w EXCEPT !.at = a] \in Works /\ [w EXCEPT !.check = c] \in Works
                       /\ [w EXCEPT !.verb = v] \in Works
  BY DEF Works
<1>2. [work EXCEPT ![t].at = a] \in [Threads -> Works]
  BY <1>1
<1>3. [work EXCEPT ![t].check = c] \in [Threads -> Works]
  BY <1>1
<1> QED BY <1>1, <1>2, <1>3

\* A thread that moves and changes no more than the center's notes keeps the
\* invariant, when what it becomes is in order.
LEMMA ThreadMoves ==
  ASSUME CenterInv, NEW t \in Threads,
         UNCHANGED <<owners, files, status, up, prompts, closed, late, acked>>,
         work' \in [Threads -> Works], \A u \in Threads \ {t} : work'[u] = work[u],
         clashed' \subseteq Threads, \A u \in Threads \ {t} : u \in clashed' <=> u \in clashed,
         decided' \in [Cards -> Verdicts \cup {None}], jammed' \subseteq Cards,
         ~Checking(t, "locked"),
         work'[t].at # "idle" =>
           /\ work'[t].card = Card(t) /\ work[t].at # "idle"
           /\ work'[t].at # "show" => work'[t].verb \in Verdicts
           /\ work'[t].check \in {"locked", "dead"} => Gone(asker[Card(t)]),
         t \in late \ clashed' => work'[t].at \in {"idle", "show"}
  PROVE  CenterInv'
<1> USE CenterAssumption DEF owners, files
<1>1. CenterTypeOK'
  <2>1. \A u \in Threads, p \in Proxies :
          holder'[p] = u => Checking(u, "locked")' /\ asker'[Card(u)'] = p
    <3> SUFFICES ASSUME NEW u \in Threads, NEW p \in Proxies, holder'[p] = u
                 PROVE  Checking(u, "locked")' /\ asker'[Card(u)'] = p
      OBVIOUS
    <3>1. Checking(u, "locked") /\ asker[Card(u)] = p
      BY DEF CenterInv, CenterTypeOK
    <3>2. u # t
      BY <3>1
    <3> QED BY <3>1, <3>2 DEF Checking, Card
  <2>2. late' \subseteq Threads /\ (prompts \cup closed \cup retiring \cup jammed)' \subseteq Cards
    BY DEF CenterInv, CenterTypeOK
  <2> QED BY <2>1, <2>2 DEF CenterInv, CenterTypeOK
<1>2. LeaseInv' /\ CardInv' /\ LiveOwnersKeepTheirCards' /\ ConfirmedMeansRecorded'
  BY DEF CenterInv, LeaseInv, CardInv, LiveOwnersKeepTheirCards, ConfirmedMeansRecorded, Serves, Gone
<1>3. RequestInv'
  <2> SUFFICES ASSUME NEW u \in Threads, work'[u].at # "idle"
               PROVE  /\ (Card(u) \in Cards /\ asker[Card(u)] # None)'
                      /\ work'[u].at # "show" => work'[u].verb \in Verdicts
                      /\ u \in late' => Gone(asker[Card(u)])'
                      /\ Checking(u, "locked")' \/ Checking(u, "dead")' => Gone(asker[Card(u)])'
    BY DEF RequestInv
  <2>1. CASE u = t
    BY <2>1 DEF CenterInv, RequestInv, Checking, Card, Gone
  <2>2. CASE u # t
    BY <2>2 DEF CenterInv, RequestInv, Checking, Card, Gone
  <2> QED BY <2>1, <2>2
<1>4. NoFalseLife'
  <2> SUFFICES ASSUME NEW u \in late', u \notin clashed' PROVE work'[u].at \in {"idle", "show"}
    BY DEF NoFalseLife
  <2>1. u \in late /\ u \in Threads
    BY DEF CenterInv, CenterTypeOK
  <2> QED BY <2>1 DEF CenterInv, NoFalseLife
<1> QED BY <1>1, <1>2, <1>3, <1>4 DEF CenterInv

\* So does what becomes of a card in its proxy and in the center's memory.
LEMMA CardSteps ==
  ASSUME CenterInv, NEW r \in Cards, CardStep(r)
  PROVE  CenterInv'
<1> USE CenterAssumption
    DEF CenterInv, CenterTypeOK, LeaseInv, CardInv, RequestInv, LiveOwnersKeepTheirCards,
        NoFalseLife, ConfirmedMeansRecorded, Serves, Gone, Card, Checking,
        Pending, Set, owners, files, history, Statuses, Verdicts, Outcome
<1>1. CASE Register(r)
  BY <1>1 DEF Register
<1>2. CASE LeaveUnregistered(r)
  BY <1>2 DEF LeaveUnregistered, memory
<1>3. CASE Wake(r)
  BY <1>3 DEF Wake, memory
<1>4. CASE PrunePrompt(r)
  BY <1>4 DEF PrunePrompt
<1>5. CASE PruneClosed(r)
  BY <1>5 DEF PruneClosed
<1>6. CASE Cancel(r)
  BY <1>6 DEF Cancel, memory
<1>7. CASE BeginInvalidate(r)
  BY <1>7 DEF BeginInvalidate, memory
<1>8. CASE Invalidate(r)
  BY <1>8 DEF Invalidate, Revocable, memory
<1>9. CASE Recover(r)
  BY <1>9 DEF Recover, memory
<1> HIDE DEF CenterInv
<1> QED BY <1>1, <1>2, <1>3, <1>4, <1>5, <1>6, <1>7, <1>8, <1>9 DEF CardStep

\* And the start and the end of the center.
LEMMA CenterSteps ==
  ASSUME CenterInv, StopCenter \/ StartCenter
  PROVE  CenterInv'
<1> USE CenterAssumption
    DEF CenterInv, LeaseInv, CardInv, RequestInv, LiveOwnersKeepTheirCards, NoFalseLife,
        ConfirmedMeansRecorded, Serves, Gone, Card, Checking, owners, history
<1>1. CASE StopCenter
  <2>1. CenterTypeOK'
    <3>1. Idle \in Works
      BY DEF Idle, Works, Checks, Verdicts
    <3>2. /\ up' \in BOOLEAN /\ (prompts \cup closed \cup retiring \cup jammed)' \subseteq Cards
          /\ decided' \in [Cards -> Verdicts \cup {None}] /\ work' \in [Threads -> Works]
      BY <1>1, <3>1 DEF StopCenter, CenterTypeOK, owners
    <3>3. holder' \in [Proxies -> {None} \cup Proxies \cup Threads \cup Hooks]
      BY <1>1 DEF StopCenter, CenterTypeOK
    <3>4. \A u \in Threads, p \in Proxies : holder'[p] # u
      BY <1>1 DEF StopCenter
    <3> QED BY <1>1, <3>2, <3>3, <3>4 DEF StopCenter, CenterTypeOK
  <2>2. LeaseInv' /\ CardInv' /\ LiveOwnersKeepTheirCards' /\ ConfirmedMeansRecorded'
    BY <1>1 DEF StopCenter, CenterTypeOK
  <2>3. RequestInv' /\ NoFalseLife'
    BY <1>1 DEF StopCenter, CenterTypeOK, Idle
  <2> QED BY <2>1, <2>2, <2>3
<1>2. CASE StartCenter
  BY <1>2 DEF StartCenter, CenterTypeOK, files, memory
<1> QED BY <1>1, <1>2

\* Accepting a request, and every step of an owner check.
LEMMA CheckSteps ==
  ASSUME CenterInv, NEW t \in Threads,
         \/ \E r \in Cards, verb \in Verdicts \cup {"get"} : Accept(t, r, verb)
         \/ Refuse(t) \/ Identify(t) \/ FindHeld(t) \/ ProbeLocks(t) \/ ProbeUnlocks(t)
  PROVE  CenterInv'
<1>1. CASE Identify(t)
  <2>1. /\ UNCHANGED <<owners, files, status, up, memory, history>>
        /\ Checking(t, "start") /\ work[t].at # "idle"
    BY <1>1 DEF Identify, Checking, Checks
  <2>2. work' \in [Threads -> Works] /\ \A u \in Threads \ {t} : work'[u] = work[u]
    <3> DEFINE c == IF asker[Card(t)] \in pids /\ claim[asker[Card(t)]] = "written" THEN "probe" ELSE "dead"
               v == IF At(t, "show") /\ ~Open(Card(t)) THEN "get" ELSE work[t].verb
    <3>1. work' = [work EXCEPT ![t].check = c, ![t].verb = v]
      BY <1>1 DEF Identify
    <3>2. work \in [Threads -> Works] /\ c \in {"start", "probe", "locked", "dead"}
          /\ v \in Verdicts \cup {"get"} /\ "idle" \in Checks \cup {"idle", "note", "decide"}
      BY DEF CenterInv, CenterTypeOK, Works
    <3> HIDE DEF c, v
    <3> QED BY <3>1, <3>2, WorkMoves
  <2>3. /\ work'[t].at = work[t].at /\ work'[t].card = Card(t)
        /\ work'[t].check = IF asker[Card(t)] \in pids /\ claim[asker[Card(t)]] = "written"
                            THEN "probe" ELSE "dead"
        /\ work[t].at # "show" => work'[t].verb = work[t].verb
    BY <1>1 DEF Identify, CenterInv, CenterTypeOK, Works, At, Card
  <2>4. work'[t].check \in {"locked", "dead"} => Gone(asker[Card(t)])
    BY <2>1, <2>3, CenterAssumption
       DEF CenterInv, CenterTypeOK, LeaseInv, CardInv, RequestInv, Serves, Gone, Card
  <2>6. work'[t].at # "show" => work'[t].verb \in Verdicts
    BY <2>1, <2>3 DEF CenterInv, RequestInv
  <2>7. t \in late \ clashed' => work'[t].at \in {"idle", "show"}
    BY <2>1, <2>3 DEF CenterInv, NoFalseLife, history
  <2> QED BY <2>1, <2>2, <2>3, <2>4, <2>6, <2>7, ThreadMoves
          DEF CenterInv, CenterTypeOK, Checking, memory, history
<1>2. CASE FindHeld(t)
  <2>1. /\ UNCHANGED <<owners, files, status, up, memory, late, acked, jammed>>
        /\ Checking(t, "probe") /\ work[t].at \in Checks
        /\ holder[asker[Card(t)]] # None /\ Card(t) \in Cards /\ asker[Card(t)] \in Proxies
        /\ clashed' = IF holder[asker[Card(t)]] = asker[Card(t)] THEN clashed ELSE clashed \cup {t}
    BY <1>2 DEF FindHeld, Checking, Checks, CenterInv, CenterTypeOK, RequestInv
  <2>2. CASE work[t].verb = "get"
    <3>1. work' = [work EXCEPT ![t] = Idle]
      BY <1>2, <2>2 DEF FindHeld, Pass, Finish
    <3>2. Idle \in Works /\ Idle.at = "idle"
      BY DEF Idle, Works, Checks, Verdicts
    <3>3. work[t].at = "show"
      BY <2>1, <2>2 DEF CenterInv, RequestInv, Verdicts, Checks
    <3>4. work' \in [Threads -> Works] /\ work'[t].at = "idle" /\ \A u \in Threads \ {t} : work'[u] = work[u]
      BY <3>1, <3>2 DEF CenterInv, CenterTypeOK
    <3> QED BY <2>1, <3>4, ThreadMoves DEF CenterInv, CenterTypeOK, Checking, memory
  <2>3. CASE work[t].verb # "get"
    <3>1. /\ work' = [work EXCEPT ![t].at = Following[work[t].at], ![t].check = "start"]
          /\ work[t].verb \in Verdicts
      BY <1>2, <2>3 DEF FindHeld, Pass, Goes, CenterInv, CenterTypeOK, Works
    <3>2. /\ Following[work[t].at] \in {"submit", "note", "decide"}
          /\ work[t].at = "persist" => Following[work[t].at] = "decide"
      BY <2>1 DEF Following, Checks
    <3>3. work' \in [Threads -> Works] /\ \A u \in Threads \ {t} : work'[u] = work[u]
      <4>1. /\ Following[work[t].at] \in Checks \cup {"idle", "note", "decide"}
            /\ "start" \in {"start", "probe", "locked", "dead"} /\ "get" \in Verdicts \cup {"get"}
        BY <3>2 DEF Checks
      <4>2. work \in [Threads -> Works]
        BY DEF CenterInv, CenterTypeOK
      <4>3. work' \in [Threads -> Works]
        BY <3>1, <4>1, <4>2, WorkMoves
      <4> QED BY <3>1, <4>2, <4>3
    <3>4. /\ work'[t].at = Following[work[t].at] /\ work'[t].check = "start"
          /\ work'[t].card = Card(t) /\ work'[t].verb = work[t].verb
      BY <3>1 DEF CenterInv, CenterTypeOK, Works, Card
    <3>6. t \in late \ clashed' => work'[t].at \in {"idle", "show"}
      <4>1. t \in late => holder[asker[Card(t)]] # asker[Card(t)]
        BY <2>1 DEF CenterInv, LeaseInv, RequestInv, Serves, Gone, Checks
      <4> QED BY <2>1, <4>1
    <3>7. /\ clashed' \subseteq Threads /\ decided' \in [Cards -> Verdicts \cup {None}] /\ jammed' \subseteq Cards
          /\ ~Checking(t, "locked") /\ work'[t].check \notin {"locked", "dead"}
          /\ \A u \in Threads \ {t} : u \in clashed' <=> u \in clashed
      BY <2>1, <3>4 DEF CenterInv, CenterTypeOK, Checking, memory
    <3>8. UNCHANGED <<owners, files, status, up, prompts, closed, late, acked>>
      BY <2>1 DEF memory
    <3> QED BY <2>1, <3>1, <3>3, <3>4, <3>6, <3>7, <3>8, ThreadMoves DEF Checks
  <2> QED BY <2>2, <2>3
<1> USE CenterAssumption
    DEF CenterInv, CenterTypeOK, LeaseInv, CardInv, RequestInv, LiveOwnersKeepTheirCards,
        NoFalseLife, ConfirmedMeansRecorded, Serves, Gone, Card, At, Checking,
        owners, history, Works, Checks, Verdicts
<1>3. ASSUME NEW r \in Cards, NEW verb \in Verdicts \cup {"get"}, Accept(t, r, verb) PROVE CenterInv'
  BY <1>3 DEF Accept, files, memory
<1>4. CASE Refuse(t)
  BY <1>4 DEF Refuse, Drop, Finish, Idle, files
<1>5. CASE ProbeLocks(t)
  <2>1. Gone(asker[Card(t)])
    BY <1>5 DEF ProbeLocks
  <2>2. CenterTypeOK'
    BY <1>5 DEF ProbeLocks, memory
  <2>3. LeaseInv' /\ CardInv' /\ LiveOwnersKeepTheirCards'
    BY <1>5, <2>1 DEF ProbeLocks
  <2>4. RequestInv' /\ NoFalseLife' /\ ConfirmedMeansRecorded'
    BY <1>5, <2>1 DEF ProbeLocks, memory
  <2> QED BY <2>2, <2>3, <2>4
<1>6. CASE ProbeUnlocks(t)
  BY <1>6 DEF ProbeUnlocks, memory
<1> HIDE DEF CenterInv
<1> QED BY <1>1, <1>2, <1>3, <1>4, <1>5, <1>6

\* A check that fails, or has found the owner gone, ends its request.
LEMMA EndSteps ==
  ASSUME CenterInv, NEW t \in Threads, ReadFails(t) \/ RetireGone(t)
  PROVE  CenterInv'
<1>0. Idle \in Works /\ Idle.at = "idle"
  BY DEF Idle, Works, Checks, Verdicts
<1>1. /\ work' = [work EXCEPT ![t] = Idle] /\ work[t].at \in Checks /\ ~Checking(t, "locked")
      /\ UNCHANGED <<owners, files, up, late, clashed, acked>>
  BY DEF ReadFails, RetireGone, Finish, Checking, history
<1>2. work' \in [Threads -> Works] /\ work'[t].at = "idle" /\ \A u \in Threads \ {t} : work'[u] = work[u]
  BY <1>0, <1>1 DEF CenterInv, CenterTypeOK
<1>3. Card(t) \in Cards /\ asker[Card(t)] # None
  BY <1>1 DEF CenterInv, RequestInv, Checks
<1>4. CASE ReadFails(t)
  <2>1. jammed' \subseteq Cards
    BY <1>3, <1>4 DEF ReadFails, CenterInv, CenterTypeOK
  <2> QED BY <1>1, <1>2, <1>4, <2>1, ThreadMoves DEF ReadFails, CenterInv, CenterTypeOK, memory
<1>5. CASE RetireGone(t)
  <2>1. Gone(asker[Card(t)]) /\ UNCHANGED jammed
    BY <1>1, <1>5 DEF RetireGone, CenterInv, RequestInv, Checks, history
  <2>2. \/ UNCHANGED status
        \/ /\ status[Card(t)] \in {"pending", "approved"}
           /\ status' = [status EXCEPT ![Card(t)] = "owner_gone"]
    BY <1>5 DEF RetireGone, Set, Revocable
  <2>3. CenterTypeOK'
    <3>1. \A u \in Threads, p \in Proxies :
            holder'[p] = u => Checking(u, "locked")' /\ asker'[Card(u)'] = p
      <4> SUFFICES ASSUME NEW u \in Threads, NEW p \in Proxies, holder'[p] = u
                   PROVE  Checking(u, "locked")' /\ asker'[Card(u)'] = p
        OBVIOUS
      <4>1. Checking(u, "locked") /\ asker[Card(u)] = p
        BY <1>1 DEF CenterInv, CenterTypeOK, files
      <4> QED BY <1>1, <1>2, <4>1 DEF Checking, Card, owners
    <3>2. (prompts \cup closed \cup retiring \cup jammed)' \subseteq Cards
      BY <1>1, <1>3, <1>5, <2>1 DEF RetireGone, CenterInv, CenterTypeOK, owners
    <3>3. status' \in [Cards -> Statuses]
      BY <2>2 DEF CenterInv, CenterTypeOK, Statuses
    <3>4. decided' \in [Cards -> Verdicts \cup {None}]
      BY <1>3, <1>5 DEF RetireGone, Drop, CenterInv, CenterTypeOK
    <3> QED BY <1>1, <1>2, <3>1, <3>2, <3>3, <3>4 DEF CenterInv, CenterTypeOK, owners, files
  <2>4. LeaseInv'
    BY <1>1 DEF CenterInv, LeaseInv, Serves, owners, files
  <2>5. CardInv' /\ LiveOwnersKeepTheirCards'
    BY <1>1, <1>3, <2>1, <2>2
       DEF CenterInv, CenterTypeOK, CardInv, LiveOwnersKeepTheirCards, Serves, Gone, owners
  <2>6. \A u \in Threads : work'[u].at # "idle" => u # t /\ work'[u] = work[u]
    BY <1>2
  <2>7. RequestInv'
    BY <1>1, <2>6 DEF CenterInv, RequestInv, Checking, Card, Gone, owners
  <2>8. NoFalseLife'
    BY <1>1, <2>6 DEF CenterInv, CenterTypeOK, NoFalseLife
  <2>9. ConfirmedMeansRecorded'
    <3> SUFFICES ASSUME NEW a \in acked
                 PROVE  \/ status'[a[1]] = Outcome[a[2]]
                        \/ a[2] = "approve" /\ status'[a[1]] \in {"invalidated", "owner_gone"}
      BY <1>1 DEF ConfirmedMeansRecorded
    <3>1. /\ a[1] \in Cards /\ a[2] \in Verdicts
          /\ \/ status[a[1]] = Outcome[a[2]]
             \/ a[2] = "approve" /\ status[a[1]] \in {"invalidated", "owner_gone"}
      BY DEF CenterInv, CenterTypeOK, ConfirmedMeansRecorded
    <3> QED BY <2>2, <3>1 DEF CenterInv, CenterTypeOK, Outcome, Verdicts
  <2> QED BY <2>3, <2>4, <2>5, <2>7, <2>8, <2>9 DEF CenterInv
<1> QED BY <1>4, <1>5

\* And every step of a decision.
LEMMA DecisionSteps ==
  ASSUME CenterInv, NEW t \in Threads, PastExpiry(t) \/ Note(t) \/ Decide(t) \/ HandlerFails(t)
  PROVE  CenterInv'
<1>0. Idle \in Works /\ Idle.at = "idle"
  BY DEF Idle, Works, Checks, Verdicts
<1>1. CASE Note(t)
  <2>1. /\ UNCHANGED <<owners, files, status, up, prompts, closed, history>>
        /\ At(t, "note") /\ work[t].at = "note" /\ Card(t) \in Cards /\ work[t].verb \in Verdicts
        /\ t \in clashed \/ t \notin late
    BY <1>1 DEF Note, At, CenterInv, RequestInv, NoFalseLife
  <2>2. CASE Pending(Card(t)) /\ Open(Card(t))
    <3>1. /\ decided' = [decided EXCEPT ![Card(t)] = work[t].verb]
          /\ work' = [work EXCEPT ![t].at = "persist", ![t].check = "start"]
      BY <1>1, <2>2 DEF Note, Goes
    <3>2. work' \in [Threads -> Works] /\ \A u \in Threads \ {t} : work'[u] = work[u]
      <4>1. /\ "persist" \in Checks \cup {"idle", "note", "decide"}
            /\ "start" \in {"start", "probe", "locked", "dead"} /\ "get" \in Verdicts \cup {"get"}
        BY DEF Checks
      <4>2. work \in [Threads -> Works]
        BY DEF CenterInv, CenterTypeOK
      <4>3. work' \in [Threads -> Works]
        BY <3>1, <4>1, <4>2, WorkMoves
      <4> QED BY <3>1, <4>2, <4>3
    <3>3. /\ work'[t].at = "persist" /\ work'[t].check = "start"
          /\ work'[t].card = Card(t) /\ work'[t].verb = work[t].verb
      BY <3>1 DEF CenterInv, CenterTypeOK, Works, Card
    <3>5. decided' \in [Cards -> Verdicts \cup {None}]
      BY <2>1, <3>1 DEF CenterInv, CenterTypeOK
    <3> QED BY <2>1, <3>2, <3>3, <3>5, ThreadMoves
            DEF CenterInv, CenterTypeOK, Checking, Checks, history
  <2>3. CASE ~(Pending(Card(t)) /\ Open(Card(t)))
    <3>1. UNCHANGED decided /\ work' = [work EXCEPT ![t] = Idle]
      BY <1>1, <2>3 DEF Note, Finish
    <3>2. work' \in [Threads -> Works] /\ work'[t].at = "idle" /\ \A u \in Threads \ {t} : work'[u] = work[u]
      BY <1>0, <3>1 DEF CenterInv, CenterTypeOK
    <3> QED BY <2>1, <3>1, <3>2, ThreadMoves
            DEF CenterInv, CenterTypeOK, Checking, Checks, history
  <2> QED BY <2>2, <2>3
<1>2. CASE Decide(t) \/ HandlerFails(t)
  <2>1. /\ UNCHANGED <<owners, files, up, late, clashed, jammed>>
        /\ work[t].at = "decide" /\ Card(t) \in Cards /\ asker[Card(t)] # None
        /\ work[t].verb \in Verdicts /\ Outcome[work[t].verb] \in {"approved", "denied"}
        /\ ~Checking(t, "locked")
    BY <1>2 DEF Decide, HandlerFails, At, CenterInv, RequestInv, Outcome, Verdicts, history, Checking, Checks
  <2>2. /\ work' = [work EXCEPT ![t] = Idle]
        /\ decided' = [decided EXCEPT ![Card(t)] = None]
    BY <1>2 DEF Decide, HandlerFails, Finish
  <2>3. work' \in [Threads -> Works] /\ work'[t].at = "idle" /\ \A u \in Threads \ {t} : work'[u] = work[u]
    BY <1>0, <2>2 DEF CenterInv, CenterTypeOK
  <2>4. \/ UNCHANGED <<status, acked>>
        \/ /\ Pending(Card(t)) /\ status' = [status EXCEPT ![Card(t)] = Outcome[work[t].verb]]
           /\ acked' \in {acked, acked \cup {<<Card(t), work[t].verb>>}}
    BY <1>2 DEF Decide, HandlerFails, Set, history
  <2>5. CenterTypeOK'
    <3>1. \A u \in Threads, p \in Proxies :
            holder'[p] = u => Checking(u, "locked")' /\ asker'[Card(u)'] = p
      <4> SUFFICES ASSUME NEW u \in Threads, NEW p \in Proxies, holder'[p] = u
                   PROVE  Checking(u, "locked")' /\ asker'[Card(u)'] = p
        OBVIOUS
      <4>1. Checking(u, "locked") /\ asker[Card(u)] = p
        BY <2>1 DEF CenterInv, CenterTypeOK, files
      <4> QED BY <2>1, <2>3, <4>1 DEF Checking, Card, owners
    <3>2. (prompts \cup closed \cup retiring \cup jammed)' \subseteq Cards
      BY <1>2, <2>1 DEF Decide, HandlerFails, CenterInv, CenterTypeOK, owners
    <3>3. status' \in [Cards -> Statuses] /\ acked' \subseteq Cards \X Verdicts
      BY <2>1, <2>4 DEF CenterInv, CenterTypeOK, Statuses
    <3>4. decided' \in [Cards -> Verdicts \cup {None}]
      BY <2>2 DEF CenterInv, CenterTypeOK
    <3> QED BY <2>1, <2>3, <3>1, <3>2, <3>3, <3>4 DEF CenterInv, CenterTypeOK, owners, files
  <2>6. LeaseInv'
    BY <2>1 DEF CenterInv, LeaseInv, Serves, owners, files
  <2>7. CardInv' /\ LiveOwnersKeepTheirCards'
    BY <2>1, <2>4 DEF CenterInv, CenterTypeOK, CardInv, LiveOwnersKeepTheirCards, Serves, Gone, owners
  <2>8. RequestInv' /\ NoFalseLife'
    <3>1. \A u \in Threads : work'[u].at # "idle" => u # t /\ work'[u] = work[u]
      BY <2>3
    <3>2. RequestInv'
      BY <2>1, <3>1 DEF CenterInv, RequestInv, Checking, Card, Gone, owners
    <3>3. NoFalseLife'
      BY <2>1, <3>1 DEF CenterInv, CenterTypeOK, NoFalseLife
    <3> QED BY <3>2, <3>3
  <2>10. ConfirmedMeansRecorded'
    <3> SUFFICES ASSUME NEW a \in acked'
                 PROVE  \/ status'[a[1]] = Outcome[a[2]]
                        \/ a[2] = "approve" /\ status'[a[1]] \in {"invalidated", "owner_gone"}
      BY DEF ConfirmedMeansRecorded
    <3>1. CASE a \in acked
      <4>1. /\ a[1] \in Cards /\ ~Pending(a[1])
            /\ \/ status[a[1]] = Outcome[a[2]]
               \/ a[2] = "approve" /\ status[a[1]] \in {"invalidated", "owner_gone"}
        BY <3>1 DEF CenterInv, CenterTypeOK, ConfirmedMeansRecorded, Outcome, Verdicts, Pending
      <4> QED BY <2>1, <2>4, <4>1 DEF CenterInv, CenterTypeOK, Pending
    <3>2. CASE a \notin acked
      BY <2>1, <2>4, <3>2 DEF CenterInv, CenterTypeOK
    <3> QED BY <3>1, <3>2
  <2> QED BY <2>5, <2>6, <2>7, <2>8, <2>10 DEF CenterInv
<1>3. CASE PastExpiry(t)
  <2>1. /\ UNCHANGED <<owners, files, status, up, memory, history>>
        /\ work[t].at = "submit" /\ work' = [work EXCEPT ![t] = Idle] /\ ~Checking(t, "locked")
    BY <1>3 DEF PastExpiry, At, Finish, Checking
  <2>2. work' \in [Threads -> Works] /\ work'[t].at = "idle" /\ \A u \in Threads \ {t} : work'[u] = work[u]
    BY <1>0, <2>1 DEF CenterInv, CenterTypeOK
  <2> QED BY <2>1, <2>2, ThreadMoves DEF CenterInv, CenterTypeOK, memory, history
<1> QED BY <1>1, <1>2, <1>3

LEMMA StepHolds == CenterInv /\ [CenterNext]_centerVars => CenterInv'
<1> SUFFICES ASSUME CenterInv, [CenterNext]_centerVars PROVE CenterInv'
  OBVIOUS
<1>1. CASE UNCHANGED centerVars
  BY <1>1 DEF centerVars, owners, files, memory, history, CenterInv, CenterTypeOK, LeaseInv, CardInv,
              RequestInv, LiveOwnersKeepTheirCards, NoFalseLife,
              ConfirmedMeansRecorded, Serves, Gone, Card, Checking
<1>2. CASE CenterNext
  BY <1>2, ProxySteps, CardSteps, CenterSteps, CheckSteps, EndSteps, DecisionSteps DEF CenterNext, Handle
<1> QED BY <1>1, <1>2

LEMMA Invariance == CenterSpec => []CenterInv
  BY InitHolds, StepHolds, PTL DEF CenterSpec

\* The center, the proxies and the hooks keep every variable in its range, and a
\* thread holds the lock of the claim it is probing only.
THEOREM CenterTyping == CenterSpec => []CenterTypeOK
  BY Invariance, PTL DEF CenterInv

\* No owner check ever takes a serving proxy for dead: only cards of a proxy that
\* has released its lease are retired as approval_owner_gone.
THEOREM OwnersAreSafe == CenterSpec => []LiveOwnersKeepTheirCards
  BY Invariance, PTL DEF CenterInv

\* A request about the card of a proxy that has gone gets past the owner check
\* only by meeting the lock of another probe.
THEOREM ChecksSeeTheGone == CenterSpec => []NoFalseLife
  BY Invariance, PTL DEF CenterInv

\* A confirmed denial is the row's for good, and a confirmed approval until it is
\* revoked: no decision, cancellation or deadline overwrites what a page confirmed.
THEOREM ConfirmationIsTrue == CenterSpec => []ConfirmedMeansRecorded
  BY Invariance, PTL DEF CenterInv

-----------------------------------------------------------------------------
(* Notes in the center's memory.                                           *)

Writes(t) == work[t].at \in {"persist", "decide"}

\* One request writes the note of a card, and a note left behind stays.
NotesInv ==
  /\ \A r \in Cards : decided[r] # None =>
       r \in jammed \/ \E t \in Threads : Writes(t) /\ Card(t) = r
  /\ \A r \in jammed : decided[r] # None
  /\ \A t \in Threads : Writes(t) => decided[Card(t)] # None /\ Card(t) \notin jammed
  /\ \A t, u \in Threads : Writes(t) /\ Writes(u) /\ Card(t) = Card(u) => t = u

\* What a thread may do to the notes: nothing, take its own back, leave it behind,
\* or note a decision where there is none.
LEMMA NotesMove ==
  ASSUME CenterInv, NotesInv, NEW t \in Threads,
         \A u \in Threads \ {t} : work'[u] = work[u],
         Writes(t)' => work'[t].card = Card(t),
         \/ UNCHANGED <<decided, jammed>> /\ (Writes(t)' <=> Writes(t))
         \/ /\ Writes(t) /\ ~Writes(t)' /\ UNCHANGED jammed
            /\ decided' = [decided EXCEPT ![Card(t)] = None]
         \/ Writes(t) /\ ~Writes(t)' /\ UNCHANGED decided /\ jammed' = jammed \cup {Card(t)}
         \/ /\ ~Writes(t) /\ Writes(t)' /\ UNCHANGED jammed
            /\ Card(t) \in Cards /\ decided[Card(t)] = None
            /\ \E v \in Verdicts : decided' = [decided EXCEPT ![Card(t)] = v]
  PROVE  NotesInv'
<1>1. decided \in [Cards -> Verdicts \cup {None}] /\ jammed \subseteq Cards /\ None \notin Verdicts
  BY CenterAssumption DEF CenterInv, CenterTypeOK, Verdicts
<1>2. Writes(t) => Card(t) \in Cards
  BY DEF CenterInv, RequestInv, Writes
<1>3. \A u \in Threads \ {t} : (Writes(u)' <=> Writes(u)) /\ Card(u)' = Card(u)
  BY DEF Writes, Card
<1>4. Writes(t)' => Card(t)' = Card(t)
  BY DEF Card
<1>5. CASE UNCHANGED <<decided, jammed>> /\ (Writes(t)' <=> Writes(t))
  BY <1>3, <1>4, <1>5 DEF NotesInv
<1>6. CASE /\ Writes(t) /\ ~Writes(t)' /\ UNCHANGED jammed
           /\ decided' = [decided EXCEPT ![Card(t)] = None]
  BY <1>1, <1>2, <1>3, <1>6 DEF NotesInv
<1>7. CASE Writes(t) /\ ~Writes(t)' /\ UNCHANGED decided /\ jammed' = jammed \cup {Card(t)}
  BY <1>2, <1>3, <1>7 DEF NotesInv
<1>8. CASE /\ ~Writes(t) /\ Writes(t)' /\ UNCHANGED jammed
           /\ Card(t) \in Cards /\ decided[Card(t)] = None
           /\ \E v \in Verdicts : decided' = [decided EXCEPT ![Card(t)] = v]
  BY <1>1, <1>3, <1>4, <1>8 DEF NotesInv
<1> QED BY <1>5, <1>6, <1>7, <1>8

\* Every step moves the notes in one of these ways.
LEMMA NotesStep ==
  ASSUME CenterInv, NotesInv, [CenterNext]_centerVars
  PROVE  NotesInv'
<1>1. CASE UNCHANGED <<work, decided, jammed>>
  BY <1>1 DEF NotesInv, Writes, Card
<1>2. ASSUME NEW p \in Proxies, ProxyStep(p) PROVE NotesInv'
  BY <1>1, <1>2 DEF ProxyStep, OpenClaim, TakeLease, LeaseRefused, CloseLease, UnlinkClaim, Crash, FreePid,
     WriteRow, HookLocks, HookUnlocks, memory, history
<1>3. ASSUME NEW r \in Cards, CardStep(r) PROVE NotesInv'
  BY <1>1, <1>3 DEF CardStep, Register, LeaveUnregistered, Wake, PrunePrompt, PruneClosed, Cancel,
     BeginInvalidate, Invalidate, Recover, memory, history
<1>4. CASE StopCenter
  BY <1>4 DEF StopCenter, NotesInv, Writes, Idle
<1>5. CASE StartCenter \/ UNCHANGED centerVars
  BY <1>1, <1>5 DEF StartCenter, centerVars, memory, history
<1>6. ASSUME NEW t \in Threads,
             Handle(t) \/ \E r \in Cards, verb \in Verdicts \cup {"get"} : Accept(t, r, verb)
      PROVE  NotesInv'
  <2>0. /\ work \in [Threads -> Works] /\ Idle \in Works /\ Idle.at = "idle"
        /\ \A w \in Works : w = [at |-> w.at, check |-> w.check, card |-> w.card, verb |-> w.verb]
    BY DEF CenterInv, CenterTypeOK, Idle, Works, Checks, Verdicts
  <2>1. ASSUME Finish(t),
               \/ UNCHANGED <<decided, jammed>> /\ ~Writes(t)
               \/ Drop(t) /\ At(t, "persist") /\ UNCHANGED jammed
               \/ UNCHANGED decided /\ At(t, "persist") /\ jammed' = jammed \cup {Card(t)}
        PROVE  NotesInv'
    <3>1. ~Writes(t)' /\ \A u \in Threads \ {t} : work'[u] = work[u]
      BY <2>0, <2>1 DEF Finish, Writes
    <3>2. At(t, "persist") => Writes(t)
      BY DEF At, Writes
    <3> QED BY <2>1, <3>1, <3>2, NotesMove DEF Drop
  <2>2. ASSUME work[t].at = "persist" \/ ~Writes(t), Drop(t), Finish(t), UNCHANGED jammed PROVE NotesInv'
    BY <2>1, <2>2 DEF Drop, At, Writes
  <2>3. ASSUME Checking(t, "start") \/ Checking(t, "probe") \/ Checking(t, "locked") \/ Checking(t, "dead")
        PROVE  work[t].at = "persist" \/ ~Writes(t)
    BY <2>3 DEF Checking, Checks, Writes
  <2>4. CASE Refuse(t) \/ RetireGone(t)
    BY <2>2, <2>3, <2>4 DEF Refuse, RetireGone, history
  <2>5. CASE ReadFails(t)
    BY <2>1, <2>3, <2>5 DEF ReadFails, memory, At
  <2>6. CASE Identify(t) \/ ProbeLocks(t) \/ ProbeUnlocks(t)
    <3>1. UNCHANGED <<decided, jammed>>
      BY <2>6 DEF Identify, ProbeLocks, ProbeUnlocks, memory, history
    <3>2. /\ \A u \in Threads \ {t} : work'[u] = work[u]
          /\ work'[t].at = work[t].at /\ work'[t].card = work[t].card
      BY <2>0, <2>6 DEF Identify, ProbeLocks, ProbeUnlocks, Works
    <3> QED BY <3>1, <3>2, NotesMove DEF Writes, Card
  <2>7. CASE FindHeld(t)
    <3>1. UNCHANGED <<decided, jammed>> /\ work[t].at \in Checks
      BY <2>7 DEF FindHeld, memory, Checking
    <3>2. CASE work[t].verb = "get"
      <4>1. work[t].at = "show" /\ Finish(t)
        BY <2>7, <3>1, <3>2 DEF FindHeld, Pass, CenterInv, RequestInv, Checks, Verdicts
      <4> QED BY <2>1, <3>1, <4>1 DEF Writes
    <3>3. CASE work[t].verb # "get"
      <4>1. work' = [work EXCEPT ![t].at = Following[work[t].at], ![t].check = "start"]
        BY <2>7, <3>3 DEF FindHeld, Pass, Goes
      <4>2. /\ \A u \in Threads \ {t} : work'[u] = work[u]
            /\ work'[t].at = Following[work[t].at] /\ work'[t].card = work[t].card
        BY <2>0, <4>1 DEF Works
      <4>3. Following[work[t].at] \in {"persist", "decide"} <=> work[t].at \in {"persist", "decide"}
        BY <3>1 DEF Following, Checks
      <4> QED BY <3>1, <4>2, <4>3, NotesMove DEF Writes, Card
    <3> QED BY <3>2, <3>3
  <2>8. CASE PastExpiry(t)
    BY <2>1, <2>8 DEF PastExpiry, At, Writes, memory, history
  <2>9. CASE Note(t)
    <3>1. work[t].at = "note" /\ UNCHANGED jammed /\ ~Writes(t) /\ Card(t) \in Cards /\ work[t].verb \in Verdicts
      BY <2>9 DEF Note, At, Writes, history, CenterInv, RequestInv
    <3>2. CASE Pending(Card(t)) /\ Open(Card(t))
      <4>1. /\ decided' = [decided EXCEPT ![Card(t)] = work[t].verb] /\ decided[Card(t)] = None
            /\ work' = [work EXCEPT ![t].at = "persist", ![t].check = "start"]
        BY <2>9, <3>2 DEF Note, Goes, Open
      <4>2. /\ \A u \in Threads \ {t} : work'[u] = work[u]
            /\ work'[t].at = "persist" /\ work'[t].card = work[t].card
        BY <2>0, <4>1 DEF Works
      <4> QED BY <3>1, <4>1, <4>2, NotesMove DEF Writes, Card
    <3>3. CASE ~(Pending(Card(t)) /\ Open(Card(t)))
      BY <2>1, <2>9, <3>1, <3>3 DEF Note
    <3> QED BY <3>2, <3>3
  <2>10. CASE Decide(t) \/ HandlerFails(t)
    <3>1. /\ Writes(t) /\ decided' = [decided EXCEPT ![Card(t)] = None] /\ UNCHANGED jammed /\ Finish(t)
      BY <2>10 DEF Decide, HandlerFails, At, Writes, history
    <3>2. ~Writes(t)' /\ \A u \in Threads \ {t} : work'[u] = work[u]
      BY <2>0, <3>1 DEF Finish, Writes
    <3> QED BY <3>1, <3>2, NotesMove
  <2>11. ASSUME NEW r \in Cards, NEW verb \in Verdicts \cup {"get"}, Accept(t, r, verb) PROVE NotesInv'
    <3>1. UNCHANGED <<decided, jammed>> /\ ~Writes(t)
      BY <2>11 DEF Accept, memory, At, Writes
    <3>2. ~Writes(t)' /\ \A u \in Threads \ {t} : work'[u] = work[u]
      BY <2>0, <2>11 DEF Accept, Writes
    <3> QED BY <3>1, <3>2, NotesMove
  <2> QED BY <1>6, <2>4, <2>5, <2>6, <2>7, <2>8, <2>9, <2>10, <2>11 DEF Handle
<1> QED BY <1>2, <1>3, <1>4, <1>5, <1>6 DEF CenterNext

\* A note in the center's memory belongs to exactly one request that is still writing
\* it, or to one whose read failed: no other refusal leaves a note that would shut
\* the card.
THEOREM NoNoteIsLeft == CenterSpec => []NotesAreInFlight
<1>1. CenterInit => NotesInv
  BY DEF CenterInit, NotesInv, Writes, Idle
<1>2. CenterInv /\ NotesInv => NotesAreInFlight
  BY DEF NotesInv, NotesAreInFlight, Writes
<1> QED BY <1>1, <1>2, NotesStep, Invariance, PTL DEF CenterSpec

-----------------------------------------------------------------------------
(* The center implements the ledger of cards.                              *)

\* A card that is being invalidated belongs to a proxy whose process runs.
RetiringInv == \A r \in retiring : asker[r] # None /\ Runs(asker[r])

LEMMA RetiringStep ==
  ASSUME CenterInv, RetiringInv, [CenterNext]_centerVars
  PROVE  RetiringInv'
<1> USE DEF RetiringInv, Runs
<1>0. /\ life \in [Proxies -> {"new", "opened", "serving", "closing", "closed", "gone"}]
      /\ asker \in [Cards -> Proxies \cup {None}] /\ retiring \subseteq Cards
      /\ None \notin Proxies
  BY CenterAssumption DEF CenterInv, CenterTypeOK
<1>1. CASE UNCHANGED <<life, asker>> /\ retiring' \subseteq retiring
  BY <1>1
<1>2. ASSUME NEW p \in Proxies, ProxyStep(p) PROVE RetiringInv'
  <2>1. CASE OpenClaim(p) \/ TakeLease(p) \/ LeaseRefused(p) \/ CloseLease(p) \/ UnlinkClaim(p)
    <3>1. UNCHANGED <<asker, retiring>>
      BY <2>1 DEF OpenClaim, TakeLease, LeaseRefused, CloseLease, UnlinkClaim
    <3>2. \A q \in Proxies : Runs(q) => Runs(q)'
      BY <1>0, <2>1 DEF OpenClaim, TakeLease, LeaseRefused, CloseLease, UnlinkClaim, Goto
    <3> QED BY <1>0, <3>1, <3>2
  <2>2. CASE Crash(p)
    <3>1. /\ \A q \in Proxies \ {p} : life'[q] = life[q]
          /\ UNCHANGED asker /\ retiring' = {r \in retiring : asker[r] # p}
      BY <1>0, <2>2 DEF Crash, Goto
    <3> QED BY <1>0, <3>1
  <2>3. ASSUME NEW r \in Cards, WriteRow(p, r) PROVE RetiringInv'
    BY <1>0, <2>3 DEF WriteRow
  <2>4. CASE FreePid(p) \/ \E h \in Hooks : HookLocks(h, p) \/ HookUnlocks(h, p)
    BY <1>1, <2>4 DEF FreePid, HookLocks, HookUnlocks, owners
  <2> QED BY <1>2, <2>1, <2>2, <2>3, <2>4 DEF ProxyStep
<1>3. ASSUME NEW r \in Cards, CardStep(r) PROVE RetiringInv'
  <2>1. CASE BeginInvalidate(r)
    BY <1>0, <2>1 DEF BeginInvalidate
  <2>2. CASE Register(r) \/ LeaveUnregistered(r) \/ Wake(r) \/ PrunePrompt(r) \/ PruneClosed(r) \/ Cancel(r)
             \/ Invalidate(r) \/ Recover(r)
    BY <1>1, <2>2 DEF Register, LeaveUnregistered, Wake, PrunePrompt, PruneClosed, Cancel, Invalidate,
                      Recover, owners
  <2> QED BY <1>3, <2>1, <2>2 DEF CardStep
<1>4. ASSUME NEW t \in Threads, Handle(t) PROVE RetiringInv'
  BY <1>1, <1>4 DEF Handle, Refuse, Identify, FindHeld, ProbeLocks, ProbeUnlocks, ReadFails, RetireGone,
                    PastExpiry, Note, Decide, HandlerFails, owners
<1>5. ASSUME NEW t \in Threads, NEW r, NEW verb, Accept(t, r, verb) PROVE RetiringInv'
  BY <1>1, <1>5 DEF Accept, owners
<1>6. CASE StopCenter \/ StartCenter \/ UNCHANGED centerVars
  BY <1>1, <1>6 DEF StopCenter, StartCenter, centerVars, owners
<1> QED BY <1>2, <1>3, <1>4, <1>5, <1>6 DEF CenterNext

\* A step that closes a card closes a pending one.
LEMMA ClosesCard ==
  ASSUME NEW r \in Cards, Pending(r), NEW s, Set(r, s), UNCHANGED <<life, asker>>
  PROVE  UNCHANGED Alive /\ Ledger!Close(r, s)
  BY DEF Pending, Set, Alive, Serves, Ledger!Close

\* A step that revokes a card's approval.
LEMMA RevokesCard ==
  ASSUME NEW r \in Cards, status[r] = "approved", NEW s \in {"invalidated", "owner_gone"}, Set(r, s),
         s = "owner_gone" => Alive[asker[r]] \in {"leaving", "gone"},
         UNCHANGED <<life, asker, acked>>
  PROVE  Ledger!CardNext
<1>1. UNCHANGED Alive
  BY DEF Alive, Serves
<1>2. Ledger!Revoke(r, s)
  BY <1>1 DEF Set, Ledger!Revoke
<1> QED BY <1>2 DEF Ledger!CardNext

\* What the ledger calls a proxy.
LEMMA AliveIs ==
  ASSUME CenterInv, NEW p \in Proxies
  PROVE  /\ life[p] \in {"new", "opened"} => Alive[p] = "new"
         /\ life[p] = "serving" => Alive[p] = "live"
         /\ life[p] \in {"closing", "closed"} => Alive[p] = "leaving"
         /\ life[p] = "gone" => Alive[p] = "gone"
  BY DEF CenterInv, CenterTypeOK, Alive, Serves

LEMMA ProxyLedger ==
  ASSUME CenterInv, NEW p \in Proxies, ProxyStep(p)
  PROVE  Ledger!CardNext \/ UNCHANGED Ledger!cardVars
<1>0. /\ life \in [Proxies -> {"new", "opened", "serving", "closing", "closed", "gone"}]
      /\ asker \in [Cards -> Proxies \cup {None}]
      /\ None \notin Proxies
  BY CenterAssumption DEF CenterInv, CenterTypeOK
<1>1. ASSUME NEW from \in {"new", "opened", "serving", "closing", "closed"},
             NEW to \in {"opened", "serving", "closing", "closed", "gone"}, Goto(p, from, to)
      PROVE  Alive' = [Alive EXCEPT ![p] =
               CASE to = "opened" -> "new" [] to = "serving" -> "live"
                 [] to \in {"closing", "closed"} -> "leaving" [] to = "gone" -> "gone"]
  <2>1. life[p] = from /\ life'[p] = to /\ \A q \in Proxies \ {p} : life'[q] = life[q]
    BY <1>0, <1>1 DEF Goto
  <2> QED BY <1>0, <2>1 DEF Alive, Serves
<1>7. ASSUME NEW x, Alive[p] = x, Alive' = [Alive EXCEPT ![p] = x] PROVE UNCHANGED Alive
  <2>1. Alive \in [Proxies -> {"new", "live", "leaving", "gone"}]
    BY <1>0 DEF Alive, Serves
  <2> HIDE DEF Alive
  <2> QED BY <1>7, <2>1
<1>2. CASE OpenClaim(p) \/ UnlinkClaim(p)
  <2>1. UNCHANGED <<asker, status, acked>>
    BY <1>2 DEF OpenClaim, UnlinkClaim, history
  <2>2. CASE OpenClaim(p)
    <3>1. Alive[p] = "new" /\ Alive' = [Alive EXCEPT ![p] = "new"]
      BY <1>1, <2>2, AliveIs DEF OpenClaim, Goto
    <3> QED BY <1>7, <2>1, <3>1 DEF Ledger!cardVars
  <2>3. CASE UnlinkClaim(p)
    <3>1. Alive[p] = "leaving" /\ Alive' = [Alive EXCEPT ![p] = "leaving"]
      BY <1>1, <2>3, AliveIs DEF UnlinkClaim, Goto
    <3> QED BY <1>7, <2>1, <3>1 DEF Ledger!cardVars
  <2> QED BY <1>2, <2>2, <2>3
<1>3. CASE TakeLease(p) \/ LeaseRefused(p) \/ CloseLease(p)
  <2>1. UNCHANGED <<asker, status, acked>>
    BY <1>3 DEF TakeLease, LeaseRefused, CloseLease, history
  <2>2. TakeLease(p) => Ledger!Moves(p, "new", "live")
    BY <1>1, <2>1, AliveIs DEF TakeLease, Goto, Ledger!Moves
  <2>3. LeaseRefused(p) => Ledger!Moves(p, "new", "gone")
    BY <1>1, <2>1, AliveIs DEF LeaseRefused, Goto, Ledger!Moves
  <2>4. CloseLease(p) => Ledger!Moves(p, "live", "leaving")
    BY <1>1, <2>1, AliveIs DEF CloseLease, Goto, Ledger!Moves
  <2> QED BY <1>3, <2>2, <2>3, <2>4 DEF Ledger!CardNext
<1>4. CASE Crash(p)
  <2>1. UNCHANGED <<asker, status, acked>>
    BY <1>4 DEF Crash, history
  <2>2. PICK from \in {"opened", "serving", "closing", "closed"} : Goto(p, from, "gone")
    BY <1>4 DEF Crash
  <2>3. Alive[p] \in {"new", "live", "leaving"} /\ Alive' = [Alive EXCEPT ![p] = "gone"]
    BY <1>1, <2>2, AliveIs DEF Goto
  <2>4. \/ Ledger!Moves(p, "new", "gone") \/ Ledger!Moves(p, "live", "gone")
        \/ Ledger!Moves(p, "leaving", "gone")
    BY <2>1, <2>3 DEF Ledger!Moves
  <2> QED BY <2>4 DEF Ledger!CardNext
<1>5. CASE FreePid(p) \/ \E h \in Hooks : HookLocks(h, p) \/ HookUnlocks(h, p)
  <2>1. UNCHANGED <<life, asker, status, acked>>
    BY <1>5 DEF FreePid, HookLocks, HookUnlocks, owners, history
  <2> QED BY <2>1 DEF Ledger!cardVars, Alive, Serves
<1>6. ASSUME NEW r \in Cards, WriteRow(p, r) PROVE Ledger!CardNext
  <2>1. UNCHANGED <<Alive, acked>>
    BY <1>6 DEF WriteRow, Alive, Serves, history
  <2>2. Alive[p] \in {"live", "leaving"}
    BY <1>6, AliveIs DEF WriteRow, Runs
  <2>3. Ledger!Ask(p, r)
    BY <1>6, <2>1, <2>2 DEF WriteRow, Set, Ledger!Ask
  <2> QED BY <2>3 DEF Ledger!CardNext
<1> QED BY <1>2, <1>3, <1>4, <1>5, <1>6 DEF ProxyStep

LEMMA CardsLedger ==
  ASSUME CenterInv, RetiringInv, NEW r \in Cards, CardStep(r)
  PROVE  Ledger!CardNext \/ UNCHANGED Ledger!cardVars
<1>0. asker \in [Cards -> Proxies \cup {None}] /\ None \notin Proxies
  BY CenterAssumption DEF CenterInv, CenterTypeOK
<1>1. CASE UNCHANGED <<life, asker, status, acked>>
  BY <1>1 DEF Ledger!cardVars, Alive, Serves
<1>2. CASE \/ Register(r) \/ LeaveUnregistered(r) \/ PrunePrompt(r) \/ PruneClosed(r)
           \/ BeginInvalidate(r)
  BY <1>1, <1>2 DEF Register, LeaveUnregistered, PrunePrompt, PruneClosed, BeginInvalidate, owners, history
<1>3. ASSUME Pending(r), asker[r] # None, Runs(asker[r]), UNCHANGED <<life, asker, acked>>,
             NEW s \in {"cancelled", "invalidated"}, Set(r, s)
      PROVE  Ledger!CardNext
  <2>1. Alive[asker[r]] \in {"live", "leaving"}
    BY <1>0, <1>3, AliveIs DEF Runs
  <2>2. Ledger!Withdraw(r, s)
    BY <1>3, <2>1, ClosesCard DEF Ledger!Withdraw
  <2> QED BY <2>2 DEF Ledger!CardNext
<1>4. ASSUME Pending(r), Set(r, "expired"), UNCHANGED <<life, asker, acked>>
      PROVE  Ledger!CardNext
  <2>1. Ledger!Expire(r)
    BY <1>4, ClosesCard DEF Ledger!Expire
  <2> QED BY <2>1 DEF Ledger!CardNext
<1>5. CASE Wake(r)
  <2>1. UNCHANGED <<life, asker, acked>>
    BY <1>5 DEF Wake, history
  <2> QED BY <1>1, <1>4, <1>5, <2>1 DEF Wake
<1>6. CASE Cancel(r)
  BY <1>3, <1>6 DEF Cancel, owners, history
<1>7. CASE Invalidate(r)
  <2>1. UNCHANGED <<life, asker, acked>> /\ asker[r] # None /\ Runs(asker[r])
    BY <1>7 DEF Invalidate, RetiringInv, history
  <2>2. CASE UNCHANGED status
    BY <1>1, <2>1, <2>2
  <2>3. CASE Pending(r) /\ Set(r, "invalidated")
    BY <1>3, <2>1, <2>3
  <2>4. CASE status[r] = "approved" /\ Set(r, "invalidated")
    BY <2>1, <2>4, RevokesCard
  <2> QED BY <1>7, <2>2, <2>3, <2>4 DEF Invalidate, Revocable, Pending
<1>8. CASE Recover(r)
  <2>1. UNCHANGED <<life, asker, acked>>
    BY <1>8 DEF Recover, owners, history
  <2>2. CASE status[r] = "approved" /\ Set(r, "invalidated")
    BY <2>1, <2>2, RevokesCard
  <2> QED BY <1>4, <1>8, <2>1, <2>2 DEF Recover
<1> QED BY <1>2, <1>5, <1>6, <1>7, <1>8 DEF CardStep

LEMMA ThreadsLedger ==
  ASSUME CenterInv, NEW t \in Threads, Handle(t)
  PROVE  Ledger!CardNext \/ UNCHANGED Ledger!cardVars
<1> DEFINE r == Card(t)
<1>0. asker \in [Cards -> Proxies \cup {None}] /\ None \notin Proxies
  BY CenterAssumption DEF CenterInv, CenterTypeOK
<1>1. CASE UNCHANGED <<life, asker, status, acked>>
  BY <1>1 DEF Ledger!cardVars, Alive, Serves
<1>2. CASE \/ Refuse(t) \/ Identify(t) \/ FindHeld(t) \/ ProbeLocks(t) \/ ProbeUnlocks(t)
           \/ ReadFails(t) \/ PastExpiry(t) \/ Note(t)
  BY <1>1, <1>2 DEF Refuse, Identify, FindHeld, ProbeLocks, ProbeUnlocks, ReadFails, PastExpiry, Note,
                    owners, history
<1>3. CASE RetireGone(t)
  <2>1. /\ r \in Cards /\ asker[r] # None /\ Gone(asker[r]) /\ UNCHANGED <<life, asker, acked>>
        /\ (status[r] \in {"pending", "approved"} /\ Set(r, "owner_gone")) \/ UNCHANGED status
    BY <1>3 DEF RetireGone, Revocable, Checking, CenterInv, RequestInv, Checks, owners, history
  <2>2. Alive[asker[r]] \in {"leaving", "gone"}
    BY <1>0, <2>1, AliveIs DEF Gone
  <2>3. CASE Pending(r) /\ Set(r, "owner_gone")
    <3>1. Ledger!RetireGone(r)
      BY <2>1, <2>2, <2>3, ClosesCard DEF Ledger!RetireGone
    <3> QED BY <2>1, <3>1 DEF Ledger!CardNext
  <2>4. CASE status[r] = "approved" /\ Set(r, "owner_gone")
    <3> HIDE DEF r
    <3> QED BY <2>1, <2>2, <2>4, RevokesCard
  <2> QED BY <1>1, <2>1, <2>3, <2>4 DEF Pending
<1>4. CASE Decide(t) \/ HandlerFails(t)
  <2>1. r \in Cards /\ work[t].verb \in Verdicts /\ UNCHANGED <<life, asker>>
    BY <1>4 DEF Decide, HandlerFails, At, CenterInv, RequestInv, owners
  <2>2. \/ UNCHANGED <<status, acked>>
        \/ /\ Pending(r) /\ Set(r, Outcome[work[t].verb])
           /\ acked' = acked \/ acked' = acked \cup {<<r, work[t].verb>>}
    BY <1>4 DEF Decide, HandlerFails, history
  <2>3. CASE Pending(r) /\ Set(r, Outcome[work[t].verb])
    <3> DEFINE d == <<work[t].verb, Outcome[work[t].verb]>>
    <3>1. d \in Ledger!Decisions
      BY <2>1 DEF Verdicts, Outcome, Ledger!Decisions
    <3>2. Ledger!Close(r, d[2])
      BY <2>1, <2>3, ClosesCard
    <3>3. acked' = acked \/ acked' = acked \cup {<<r, d[1]>>}
      BY <1>4 DEF Decide, HandlerFails, history
    <3>4. Ledger!Decide(r, d)
      BY <3>2, <3>3 DEF Ledger!Decide
    <3> QED BY <2>1, <3>1, <3>4 DEF Ledger!CardNext
  <2> QED BY <1>1, <2>1, <2>2, <2>3
<1> QED BY <1>2, <1>3, <1>4 DEF Handle

\* ImplementsCardLedger: for any number of proxies, cards and threads, and with
\* crashes, reused pids, hooks and restarts of the center at any time, each card is
\* decided at most once, by somebody who may decide it, and only an approval can be
\* revoked afterwards.
THEOREM CenterImplementsCardLedger == CenterSpec => ImplementsCardLedger
<1>1. CenterInit => Ledger!CardInit /\ RetiringInv
  <2> SUFFICES ASSUME CenterInit PROVE Ledger!CardInit /\ RetiringInv
    OBVIOUS
  <2>1. Alive = [p \in Proxies |-> "new"]
    <3>1. Alive \in [Proxies -> {"new"}]
      <4>1. \A p \in Proxies : life[p] = "new"
        BY DEF CenterInit
      <4> QED BY <4>1 DEF Alive, Serves
    <3> HIDE DEF Alive
    <3> QED BY <3>1
  <2>2. RetiringInv
    BY DEF CenterInit, RetiringInv
  <2> QED BY <2>1, <2>2 DEF CenterInit, Ledger!CardInit
<1>2. CenterInv /\ RetiringInv /\ [CenterNext]_centerVars => RetiringInv'
  BY RetiringStep
<1>3. CenterInv /\ RetiringInv /\ [CenterNext]_centerVars => [Ledger!CardNext]_Ledger!cardVars
  <2> SUFFICES ASSUME CenterInv, RetiringInv, [CenterNext]_centerVars
               PROVE  Ledger!CardNext \/ UNCHANGED Ledger!cardVars
    OBVIOUS
  <2>1. CASE UNCHANGED <<life, asker, status, acked>>
    BY <2>1 DEF Ledger!cardVars, Alive, Serves
  <2>2. CASE StopCenter \/ StartCenter \/ UNCHANGED centerVars
    BY <2>1, <2>2 DEF StopCenter, StartCenter, centerVars, owners, history
  <2>3. ASSUME NEW t \in Threads, NEW r, NEW verb, Accept(t, r, verb)
        PROVE  Ledger!CardNext \/ UNCHANGED Ledger!cardVars
    BY <2>1, <2>3 DEF Accept, owners
  <2> QED BY <2>2, <2>3, ProxyLedger, CardsLedger, ThreadsLedger DEF CenterNext
<1> QED BY <1>1, <1>2, <1>3, Invariance, PTL DEF CenterSpec, ImplementsCardLedger, Ledger!CardSpec
=============================================================================
