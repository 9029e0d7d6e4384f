--------------------------- MODULE ApprovalCenter ---------------------------
(***************************************************************************)
(* Proxies that ask the managed Approval Center, a process of its own      *)
(* (approval/server.py, client.py, manager.py).  They meet in the claim    *)
(* file of each proxy, which proves with a lock that the proxy is alive,   *)
(* in the rows of the evidence store, and in the center's memory.  The     *)
(* center's handler threads check the claim before they show a card, before*)
(* they note a decision and before they write it; client hooks look at the *)
(* same locks.  A row is its status here (EvidenceStore has the rest), and *)
(* one proxy stands for one process and instance token.                    *)
(***************************************************************************)
EXTENDS FiniteSets

CONSTANTS
  Proxies,  \* proxy processes, each with an ApprovalManager of its own
  Cards,    \* request ids of the cards they ask for
  Threads,  \* handler threads of the center
  Hooks,    \* client hooks that look for the live proxy
  None

ASSUME CenterAssumption ==
  /\ None \notin Proxies \cup Threads \cup Hooks \cup Cards \cup {"approve", "deny"}
  /\ Proxies \cap (Threads \cup Hooks) = {} /\ Threads \cap Hooks = {}

VARIABLES
  life,     \* stage of each proxy
  pids,     \* proxies whose pid is_process_alive finds, reused or not reaped yet
  claim,    \* content of each claim file
  holder,   \* who holds the exclusive lock of each claim file
  asker,    \* the proxy of each card
  status,   \* status of each card's row; "owner_gone" is invalidated with that error
  stage,    \* what the proxy does about each card: a waiter or watcher "waits"
  retiring, \* cards whose proxy has read "pending" and is about to invalidate
  up,       \* whether the center runs
  prompts,  \* _prompts of the center
  decided,  \* _decisions of the center
  closed,   \* _terminal_requests of the center
  work,     \* what each handler thread does
  late,     \* history: threads whose request began after the card's proxy had gone
  clashed,  \* history: threads that met the lock of another probe
  acked,    \* history: decisions a page has confirmed
  jammed    \* history: cards whose note was left behind by a read that failed

files   == <<pids, claim, holder>>
owners  == <<life, asker, stage, retiring>>
memory  == <<prompts, decided, closed>>
history == <<late, clashed, acked, jammed>>
centerVars == <<owners, files, status, up, memory, work, history>>

Verdicts == {"approve", "deny"}
Outcome  == [v \in Verdicts |-> IF v = "approve" THEN "approved" ELSE "denied"]
Statuses == {"absent", "pending", "approved", "denied", "expired", "cancelled",
             "invalidated", "owner_gone"}

\* A request: where its handler is, how far the owner check there has come, the
\* card, and what the request wants of it.
Checks == {"show", "submit", "persist"}
Works  == [at : Checks \cup {"idle", "note", "decide"},
           check : {"start", "probe", "locked", "dead"},
           card : Cards \cup {None}, verb : Verdicts \cup {"get"}]
Idle   == [at |-> "idle", check |-> "start", card |-> None, verb |-> "get"]

Pending(r) == status[r] = "pending"
Serves(p)  == life[p] = "serving"
Runs(p)    == life[p] \in {"serving", "closing", "closed"}
Gone(p)    == life[p] \in {"closing", "closed", "gone"}
Open(r)    == r \in prompts \ closed /\ decided[r] = None

Goto(p, from, to) == life[p] = from /\ life' = [life EXCEPT ![p] = to]

Set(r, s) == status' = [status EXCEPT ![r] = s]

-----------------------------------------------------------------------------
(* A proxy and its claim.                                                  *)

\* open_exclusive_control_file
OpenClaim(p) ==
  /\ Goto(p, "new", "opened")
  /\ pids' = pids \cup {p}
  /\ claim' = [claim EXCEPT ![p] = "empty"]
  /\ UNCHANGED <<holder, asker, stage, retiring, status, up, memory, work, history>>

\* Faulty variant: the lease is not kept, so the lock goes with the file handle.
ForgetLease(p) ==
  /\ holder[p] = None
  /\ Goto(p, "opened", "serving")
  /\ claim' = [claim EXCEPT ![p] = "written"]
  /\ UNCHANGED <<holder, pids, asker, stage, retiring, status, up, memory, work, history>>

\* publish_owner_claim: the file is written under the lock.
TakeLease(p) ==
  /\ holder[p] = None
  /\ Goto(p, "opened", "serving")
  /\ holder' = [holder EXCEPT ![p] = p]
  /\ claim' = [claim EXCEPT ![p] = "written"]
  /\ UNCHANGED <<pids, asker, stage, retiring, status, up, memory, work, history>>

\* A hook's probe holds the new file's lock: the proxy does not start.
LeaseRefused(p) ==
  /\ holder[p] # None
  /\ Goto(p, "opened", "gone")
  /\ UNCHANGED <<files, asker, stage, retiring, status, up, memory, work, history>>

\* request_approval, in a worker thread: the row is written first ...
WriteRow(p, r) ==
  /\ Runs(p) /\ asker[r] = None
  /\ asker' = [asker EXCEPT ![r] = p]
  /\ stage' = [stage EXCEPT ![r] = "written"]
  /\ Set(r, "pending")
  /\ UNCHANGED <<life, retiring, files, up, memory, work, history>>

\* The proxy's finalize lock.
FinalizeFree(p) == \A r \in retiring : asker[r] # p

\* ... then the card is posted to /internal/register, if its row is still open.
Register(r) ==
  /\ stage[r] = "written" /\ up /\ Pending(r) /\ FinalizeFree(asker[r])
  /\ prompts' = prompts \cup {r} /\ closed' = closed \ {r}
  /\ stage' = [stage EXCEPT ![r] = "waits"]
  /\ UNCHANGED <<life, asker, retiring, files, status, up, decided, work, history>>

\* The row is decided already, or no center answers: nobody waits for the card.
LeaveUnregistered(r) ==
  /\ stage[r] = "written" /\ (~up \/ ~Pending(r))
  /\ stage' = [stage EXCEPT ![r] = "left"]
  /\ UNCHANGED <<life, asker, retiring, files, status, up, memory, work, history>>

\* cancel_by_client_request_id: the transition takes a pending row only.
Cancel(r) ==
  /\ asker[r] # None /\ Runs(asker[r]) /\ FinalizeFree(asker[r])
  /\ Pending(r) /\ Set(r, "cancelled")
  /\ UNCHANGED <<owners, files, up, memory, work, history>>

\* invalidate_approval, with the downstream's generation: the row is read under
\* the proxy's finalize lock, which the center does not take ...
BeginInvalidate(r) ==
  /\ asker[r] # None /\ Runs(asker[r]) /\ FinalizeFree(asker[r])
  /\ Pending(r)
  /\ retiring' = retiring \cup {r}
  /\ UNCHANGED <<life, asker, stage, files, status, up, memory, work, history>>

\* What a transition to invalidated takes; "approved" stands for executed rows
\* too, which refuse it.
Revocable == {"pending", "approved"}

\* ... and written in a transaction of its own, which may be refused or fail.
Invalidate(r) ==
  /\ r \in retiring
  /\ retiring' = retiring \ {r}
  /\ \/ status[r] \in Revocable /\ Set(r, "invalidated")
     \/ UNCHANGED status
  /\ UNCHANGED <<life, asker, stage, files, up, memory, work, history>>

\* RemoteApprovalServer.wait_for_decision polls the evidence: the wait ends with
\* a decision found there, or at the deadline.
Wake(r) ==
  /\ stage[r] = "waits"
  /\ IF Pending(r) THEN Set(r, "expired") ELSE UNCHANGED status
  /\ stage' = [stage EXCEPT ![r] = "left"]
  /\ UNCHANGED <<life, asker, retiring, files, up, memory, work, history>>

\* recover_on_startup of any process on the store: overdue rows expire and stale
\* approvals are invalidated, whoever asked for them.
Recover(r) ==
  /\ \/ Pending(r) /\ Set(r, "expired")
     \/ status[r] = "approved" /\ Set(r, "invalidated")
  /\ UNCHANGED <<owners, files, up, memory, work, history>>

\* OwnerClaimLease.close at exit, while daemon threads run on: the lock is
\* released ...
CloseLease(p) ==
  /\ Goto(p, "serving", "closing")
  /\ holder' = [holder EXCEPT ![p] = None]
  /\ UNCHANGED <<asker, stage, retiring, pids, claim, status, up, memory, work, history>>

\* ... then the file is removed.
UnlinkClaim(p) ==
  /\ Goto(p, "closing", "closed")
  /\ claim' = [claim EXCEPT ![p] = "none"]
  /\ UNCHANGED <<pids, holder, asker, stage, retiring, status, up, memory, work, history>>

\* The process ends, or crashes: then the file stays, and the system releases the
\* lock.
Crash(p) ==
  /\ \E from \in {"opened", "serving", "closing", "closed"} : Goto(p, from, "gone")
  /\ holder' = [holder EXCEPT ![p] = IF @ = p THEN None ELSE @]
  /\ stage' = [r \in Cards |-> IF asker[r] = p THEN "left" ELSE stage[r]]
  /\ retiring' = {r \in retiring : asker[r] # p}
  /\ UNCHANGED <<asker, pids, claim, status, up, memory, work, history>>

\* The pid of a dead proxy is reaped, or taken by another process.
FreePid(p) ==
  /\ life[p] = "gone"
  /\ pids' = IF p \in pids THEN pids \ {p} ELSE pids \cup {p}
  /\ UNCHANGED <<owners, claim, holder, status, up, memory, work, history>>

\* resolve_live_hook_runtime_binding tries the lock of every claim file.
HookLocks(h, p) ==
  /\ claim[p] # "none" /\ holder[p] = None
  /\ \A q \in Proxies : holder[q] # h
  /\ holder' = [holder EXCEPT ![p] = h]
  /\ UNCHANGED <<owners, pids, claim, status, up, memory, work, history>>

HookUnlocks(h, p) ==
  /\ holder[p] = h
  /\ holder' = [holder EXCEPT ![p] = None]
  /\ UNCHANGED <<owners, pids, claim, status, up, memory, work, history>>

-----------------------------------------------------------------------------
(* A handler thread: do_GET and do_POST of one card.                       *)

Card(t)         == work[t].card
At(t, place)    == work[t].at = place
Goes(t, place)  == work' = [work EXCEPT ![t].at = place, ![t].check = "start"]
Finish(t)       == work' = [work EXCEPT ![t] = Idle]

\* Inside the owner check of its place.
Checking(t, check) == work[t].at \in Checks /\ work[t].check = check

Accept(t, r, verb) ==
  /\ up /\ At(t, "idle") /\ asker[r] # None
  /\ work' = [work EXCEPT ![t] = [at |-> "show", check |-> "start", card |-> r, verb |-> verb]]
  /\ late' = IF Gone(asker[r]) THEN late \cup {t} ELSE late \ {t}
  /\ clashed' = clashed \ {t}
  /\ UNCHANGED <<owners, files, status, up, memory, acked, jammed>>

\* Faulty variant: the note stays.
KeepNote(t) == UNCHANGED decided

\* submit_decision takes its note back when the handler refuses.
Drop(t) == decided' = IF At(t, "persist") THEN [decided EXCEPT ![Card(t)] = None] ELSE decided

\* The row is decided, or the center's memory says that the card is.
Refuse(t) ==
  /\ Checking(t, "start")
  /\ \/ ~Pending(Card(t))
     \/ At(t, "show") /\ (Card(t) \in closed \/ decided[Card(t)] # None)
  /\ Drop(t)
  /\ Finish(t)
  /\ UNCHANGED <<owners, files, status, up, prompts, closed, history>>

\* approval_owner_is_actionable looks for the pid, then for the claim.  A card the
\* center does not know is checked, and no more than that.
Identify(t) ==
  LET r == Card(t)
      p == asker[r] IN
  /\ Checking(t, "start") /\ Pending(r)
  /\ At(t, "show") => r \notin closed /\ decided[r] = None
  /\ work' = [work EXCEPT
       ![t].check = IF p \in pids /\ claim[p] = "written" THEN "probe" ELSE "dead",
       ![t].verb  = IF At(t, "show") /\ ~Open(r) THEN "get" ELSE @]
  /\ UNCHANGED <<owners, files, status, up, memory, history>>

\* Where a request goes when the owner is judged alive.
Following == [place \in Checks |->
  CASE place = "show" -> "submit" [] place = "submit" -> "note" [] place = "persist" -> "decide"]

Pass(t) == IF work[t].verb = "get" THEN Finish(t) ELSE Goes(t, Following[work[t].at])

\* Faulty variant: a process with the pid is proof enough.
TrustPid(t) ==
  /\ Checking(t, "probe")
  /\ Pass(t)
  /\ UNCHANGED <<owners, files, status, up, memory, history>>

\* owner_claim_lease_is_held: the probe fails to take the lock.
FindHeld(t) ==
  LET p == asker[Card(t)] IN
  /\ Checking(t, "probe") /\ holder[p] # None /\ claim[p] # "none"
  /\ Pass(t)
  /\ clashed' = IF holder[p] = p THEN clashed ELSE clashed \cup {t}
  /\ UNCHANGED <<owners, files, status, up, memory, late, acked, jammed>>

\* It gets the lock, for a moment (and makes the file when it was removed) ...
ProbeLocks(t) ==
  LET p == asker[Card(t)] IN
  /\ Checking(t, "probe") /\ (holder[p] = None \/ claim[p] = "none")
  /\ holder' = [holder EXCEPT ![p] = t]
  /\ claim' = [claim EXCEPT ![p] = IF @ = "none" THEN "empty" ELSE @]
  /\ work' = [work EXCEPT ![t].check = "locked"]
  /\ UNCHANGED <<owners, pids, status, up, memory, history>>

\* Faulty variant: the file is closed without the lock being released.
ProbeKeepsLock(t) ==
  /\ Checking(t, "locked")
  /\ work' = [work EXCEPT ![t].check = "dead"]
  /\ UNCHANGED <<owners, files, status, up, memory, history>>

ProbeUnlocks(t) ==
  /\ Checking(t, "locked")
  /\ holder' = [holder EXCEPT ![asker[Card(t)]] = IF @ = t THEN None ELSE @]
  /\ work' = [work EXCEPT ![t].check = "dead"]
  /\ UNCHANGED <<owners, pids, claim, status, up, memory, history>>

\* get_pending or the owner check raises: the request ends.  Nothing around the
\* decision handler takes its note back.
ReadFails(t) ==
  /\ Checking(t, "start") \/ Checking(t, "probe")
  /\ jammed' = IF At(t, "persist") THEN jammed \cup {Card(t)} ELSE jammed
  /\ Finish(t)
  /\ UNCHANGED <<owners, files, status, up, memory, late, clashed, acked>>

\* Faulty variant: the row is overwritten whatever it has become.
RetireUnseen(t) ==
  LET r == Card(t) IN
  /\ Checking(t, "dead")
  /\ Set(r, "owner_gone")
  /\ prompts' = prompts \ {r} /\ closed' = closed \cup {r}
  /\ Drop(t)
  /\ Finish(t)
  /\ UNCHANGED <<owners, files, up, history>>

\* _retire_if_not_actionable closes what the row has become since it was read;
\* invalidate_approval, from the decision's handler, reads it again, under the
\* finalize lock that the center's decisions take.  The write may be refused or fail.
RetireGone(t) ==
  LET r == Card(t) IN
  /\ Checking(t, "dead")
  /\ \/ /\ status[r] \in IF At(t, "persist") THEN {"pending"} ELSE Revocable
        /\ Set(r, "owner_gone")
        /\ prompts' = prompts \ {r}
        /\ closed' = IF r \in prompts \/ At(t, "persist") THEN closed \cup {r} ELSE closed
     \/ UNCHANGED <<status, prompts, closed>>
  /\ Drop(t)
  /\ Finish(t)
  /\ UNCHANGED <<owners, files, up, history>>

\* A POST after the card's expires_at.
PastExpiry(t) ==
  /\ At(t, "submit") /\ Checking(t, "start")
  /\ Finish(t)
  /\ UNCHANGED <<owners, files, status, up, memory, history>>

\* submit_decision: the first decision is noted under the server's lock.
Note(t) ==
  LET r == Card(t) IN
  /\ At(t, "note")
  /\ IF Pending(r) /\ Open(r)
     THEN decided' = [decided EXCEPT ![r] = work[t].verb] /\ Goes(t, "persist")
     ELSE UNCHANGED decided /\ Finish(t)
  /\ UNCHANGED <<owners, files, status, up, prompts, closed, history>>

\* Faulty variant: the page confirms whatever the handler said.
ConfirmAnyway(t) ==
  LET r == Card(t) IN
  /\ At(t, "decide")
  /\ IF Pending(r)
     THEN /\ Set(r, Outcome[work[t].verb])
          /\ prompts' = prompts \ {r} /\ closed' = closed \cup {r}
     ELSE UNCHANGED <<status, prompts, closed>>
  /\ acked' = acked \cup {<<r, work[t].verb>>}
  /\ decided' = [decided EXCEPT ![r] = None]
  /\ Finish(t)
  /\ UNCHANGED <<owners, files, up, late, clashed, jammed>>

\* A refused decision closes the card, unless the transition itself refused it.
Closes(r, verb) ==
  status[r] = "cancelled" \/ (verb = "approve" /\ status[r] \in {"invalidated", "owner_gone"})

\* _approve and _deny, under the center's finalize lock: the transition decides
\* against whatever the proxy has made of the row meanwhile.
Decide(t) ==
  LET r    == Card(t)
      verb == work[t].verb IN
  /\ At(t, "decide")
  /\ IF Pending(r)
     THEN Set(r, Outcome[verb]) /\ acked' = acked \cup {<<r, verb>>}
     ELSE UNCHANGED <<status, acked>>
  /\ IF Pending(r) \/ Closes(r, verb)
     THEN prompts' = prompts \ {r} /\ closed' = closed \cup {r}
     ELSE UNCHANGED <<prompts, closed>>
  /\ decided' = [decided EXCEPT ![r] = None]
  /\ Finish(t)
  /\ UNCHANGED <<owners, files, up, late, clashed, jammed>>

\* The handler fails before or after its transition: the page says gone.
HandlerFails(t) ==
  LET r == Card(t) IN
  /\ At(t, "decide")
  /\ \/ UNCHANGED status
     \/ Pending(r) /\ Set(r, Outcome[work[t].verb])
  /\ decided' = [decided EXCEPT ![r] = None]
  /\ Finish(t)
  /\ UNCHANGED <<owners, files, up, prompts, closed, history>>

-----------------------------------------------------------------------------
(* The center.                                                             *)

\* _prune_expired_pending_locked
PrunePrompt(r) ==
  /\ up /\ r \in prompts /\ decided[r] = None
  /\ prompts' = prompts \ {r} /\ closed' = closed \cup {r}
  /\ UNCHANGED <<owners, files, status, up, decided, work, history>>

\* _prune_terminal_requests_locked
PruneClosed(r) ==
  /\ up /\ closed' = closed \ {r} /\ r \in closed
  /\ UNCHANGED <<owners, files, status, up, prompts, decided, work, history>>

\* The center ends with its memory and its threads.
StopCenter ==
  /\ up /\ up' = FALSE
  /\ prompts' = {} /\ closed' = {}
  /\ decided' = [r \in Cards |-> None]
  /\ work' = [t \in Threads |-> Idle]
  /\ holder' = [p \in Proxies |-> IF holder[p] \in Threads THEN None ELSE holder[p]]
  /\ jammed' = {}
  /\ UNCHANGED <<owners, pids, claim, status, late, clashed, acked>>

\* serve_approval_center: on the port and with the tokens of the manifest.
StartCenter ==
  /\ ~up /\ up' = TRUE
  /\ UNCHANGED <<owners, files, status, memory, work, history>>

-----------------------------------------------------------------------------

CenterInit ==
  /\ life = [p \in Proxies |-> "new"]
  /\ pids = {} /\ claim = [p \in Proxies |-> "none"]
  /\ holder = [p \in Proxies |-> None]
  /\ asker = [r \in Cards |-> None] /\ status = [r \in Cards |-> "absent"]
  /\ stage = [r \in Cards |-> "none"] /\ retiring = {}
  /\ up = TRUE /\ prompts = {} /\ decided = [r \in Cards |-> None] /\ closed = {}
  /\ work = [t \in Threads |-> Idle]
  /\ late = {} /\ clashed = {} /\ acked = {} /\ jammed = {}

ProxyStep(p) ==
  \/ OpenClaim(p) \/ TakeLease(p) \/ LeaseRefused(p) \/ CloseLease(p) \/ UnlinkClaim(p)
  \/ Crash(p) \/ FreePid(p)
  \/ \E r \in Cards : WriteRow(p, r)
  \/ \E h \in Hooks : HookLocks(h, p) \/ HookUnlocks(h, p)

CardStep(r) ==
  \/ Register(r) \/ LeaveUnregistered(r) \/ Wake(r) \/ PrunePrompt(r) \/ PruneClosed(r)
  \/ Cancel(r) \/ BeginInvalidate(r) \/ Invalidate(r) \/ Recover(r)

Handle(t) ==
  \/ Refuse(t) \/ Identify(t) \/ FindHeld(t) \/ ProbeLocks(t) \/ ProbeUnlocks(t) \/ ReadFails(t)
  \/ RetireGone(t) \/ PastExpiry(t) \/ Note(t) \/ Decide(t) \/ HandlerFails(t)

CenterNext ==
  \/ \E p \in Proxies : ProxyStep(p)
  \/ \E r \in Cards : CardStep(r)
  \/ \E t \in Threads : Handle(t) \/ \E r \in Cards, verb \in Verdicts \cup {"get"} : Accept(t, r, verb)
  \/ StopCenter \/ StartCenter

CenterSpec == CenterInit /\ [][CenterNext]_centerVars

-----------------------------------------------------------------------------

CenterTypeOK ==
  /\ life \in [Proxies -> {"new", "opened", "serving", "closing", "closed", "gone"}]
  /\ pids \subseteq Proxies /\ claim \in [Proxies -> {"none", "empty", "written"}]
  /\ holder \in [Proxies -> {None} \cup Proxies \cup Threads \cup Hooks]
  /\ asker \in [Cards -> Proxies \cup {None}] /\ status \in [Cards -> Statuses]
  /\ stage \in [Cards -> {"none", "written", "waits", "left"}]
  /\ prompts \cup closed \cup retiring \cup jammed \subseteq Cards
  /\ up \in BOOLEAN /\ decided \in [Cards -> Verdicts \cup {None}]
  /\ work \in [Threads -> Works]
  /\ late \cup clashed \subseteq Threads /\ acked \subseteq Cards \X Verdicts
  /\ \A t \in Threads, p \in Proxies :
       holder[p] = t => Checking(t, "locked") /\ asker[Card(t)] = p

\* A card is retired as its owner's only when the owner has really gone: no check
\* takes a live proxy for dead, whatever probes meet.
LiveOwnersKeepTheirCards ==
  \A r \in Cards : status[r] = "owner_gone" => Gone(asker[r])

\* A request that begins after a card's proxy has gone gets past the owner check
\* only if its probe ran into another probe of the same file.
NoFalseLife ==
  \A t \in late \ clashed : work[t].at \in {"idle", "show"}

\* A decision noted in memory belongs to one request that is still writing it, or
\* to one whose read of the evidence or of the claim failed: a refused decision
\* does not shut the card for the next one.
NotesAreInFlight ==
  \A r \in Cards : decided[r] # None =>
    (r \in jammed) # (\E t \in Threads : Card(t) = r /\ work[t].at \in {"persist", "decide"})

\* What a page confirmed is what the row says, whoever else decides, cancels,
\* expires or retires the card at the same time, except that an approval may be
\* revoked: a confirmed denial stands, and a confirmed approval is invalidated
\* later or still an approval, never a denial, a cancellation or an expiry.
ConfirmedMeansRecorded ==
  \A a \in acked : \/ status[a[1]] = Outcome[a[2]]
                   \/ a[2] = "approve" /\ status[a[1]] \in {"invalidated", "owner_gone"}

Alive == [p \in Proxies |->
  CASE life[p] \in {"new", "opened"} -> "new" [] Serves(p) -> "live"
    [] life[p] \in {"closing", "closed"} -> "leaving" [] life[p] = "gone" -> "gone"]

Ledger == INSTANCE CardLedger WITH alive <- Alive, verdict <- status, confirmed <- acked

\* Whatever the locks, the probes and the threads do, each card is decided once, by
\* a human, by its running proxy, by its deadline, or for a proxy that has gone, and
\* nothing but the revocation of an approval changes that.
ImplementsCardLedger == Ledger!CardSpec
=============================================================================
