----------------------------- MODULE RuntimeGate -----------------------------
(***************************************************************************)
(* The remote decision on one tools/call (runtime_gate.py) behind its      *)
(* circuit breaker (circuit_breaker.py), and what the passthrough makes of *)
(* it (_runtime_gate_error_response).  Every worker thread of the          *)
(* passthrough asks the same gate, so answers come back in any order and   *)
(* long after the circuit has changed its state.  Times are kept as ages,  *)
(* in ticks of one clock, and stop counting where the code stops looking.  *)
(* A thread reads that clock before it takes the lock of the replay cache, *)
(* so what it records there may be as old as MaxLag ticks.                 *)
(***************************************************************************)
EXTENDS Integers, FiniteSets, Functions

CONSTANTS
  Workers,             \* threads that call evaluate
  Requests,            \* classified tools/calls, as far as a receipt binds them
  Receipts,            \* digests of the receipts the trusted signer has issued
  Body,                \* what a receipt says: the request it is for, a decision
  Fallback,            \* config.fallback.for_risk of each request
  Defect,              \* what _build_request finds wrong with each request
  FailuresBeforeOpen, Window, Cooldown, HalfOpenTests,  \* CircuitBreakerConfig
  CacheTtl, CacheMax,  \* cache_ttl_seconds, cache_max_entries
  MaxLag,              \* bound: ticks between the clock reading and the cache lock
  None

Dispositions == {"forward", "approval", "blocked"}

ASSUME GateAssumption ==
  /\ Body \in [Receipts -> [request : Requests, decision : Dispositions]]
  /\ Fallback \in [Requests -> Dispositions]
  /\ {FailuresBeforeOpen, HalfOpenTests, Cooldown, CacheTtl, CacheMax} \subseteq Nat \ {0}
  /\ Defect \in [Requests -> {"none", "missing", "contract"}]
  /\ {Window, MaxLag} \subseteq Nat
  /\ None \notin Receipts

VARIABLES
  circuit,    \* _state
  failures,   \* _failure_times: how many failures of each age in the window
  openFor,    \* time since _opened_at
  successes,  \* _half_open_successes
  seen,       \* _seen_receipt_digests: the time each digest has left
  phase,      \* where each worker is in evaluate
  asked,      \* the request it asks about
  held,       \* the receipt it has verified and not validated yet
  lag,        \* how old its reading of the clock is: now
  heard,      \* history: what the backend answered to the latest call
  outcome,    \* what the passthrough made of the latest call
  admitted,   \* history: age of the stamp of a receipt's latest pass; CacheTtl: none
  crowd,      \* history: receipts that passed and expire no earlier than that pass
  quiet,      \* history: time since a failure last left the circuit open
  probes      \* history: successes since the last failure or cool-down

breaker == <<circuit, failures, openFor, successes>>
history == <<heard, admitted, crowd, quiet, probes>>
calls   == <<phase, asked, held, lag, outcome>>
gateVars == <<breaker, seen, calls, history>>

States == {"closed", "open", "half_open"}
NoFailures == [age \in 0..Window |-> 0]
Least(a, b) == IF a < b THEN a ELSE b
Greatest(a, b) == IF a < b THEN b ELSE a

-----------------------------------------------------------------------------
(* The breaker; each operation runs under its lock.                        *)

\* Faulty variant: the successes of an earlier half-open period are kept.
TransitionKeepingSuccesses(to) ==
  /\ circuit' = to
  /\ openFor' = IF to = "open" THEN 0 ELSE openFor
  /\ UNCHANGED successes

\* _transition_locked
Transition(to) ==
  /\ circuit' = to
  /\ openFor' = IF to = "open" THEN 0 ELSE openFor
  /\ successes' = 0

CoolingDown == circuit = "open" /\ openFor < Cooldown

\* Faulty variant: every call of a half-open period starts the count again.
BeforeCallRestarting ==
  /\ ~CoolingDown
  /\ IF circuit # "closed"
     THEN Transition("half_open") /\ UNCHANGED failures /\ probes' = 0
     ELSE UNCHANGED <<breaker, probes>>

\* before_call, when it lets the call through.
BeforeCall ==
  /\ ~CoolingDown
  /\ IF circuit = "open"
     THEN Transition("half_open") /\ UNCHANGED failures /\ probes' = 0
     ELSE UNCHANGED <<breaker, probes>>

\* Faulty variant: one success more than half_open_test_count.
RecordSuccessLate ==
  /\ probes' = Least(probes + 1, HalfOpenTests)
  /\ CASE circuit = "open"   -> UNCHANGED breaker
       [] circuit = "closed" -> failures' = NoFailures /\ UNCHANGED <<circuit, openFor, successes>>
       [] OTHER ->
            IF successes + 1 > HalfOpenTests
            THEN Transition("closed") /\ failures' = NoFailures
            ELSE successes' = successes + 1 /\ UNCHANGED <<circuit, failures, openFor>>

RecordSuccess ==
  /\ probes' = Least(probes + 1, HalfOpenTests)
  /\ CASE circuit = "open"   -> UNCHANGED breaker
       [] circuit = "closed" -> failures' = NoFailures /\ UNCHANGED <<circuit, openFor, successes>>
       [] OTHER ->
            IF successes + 1 >= HalfOpenTests
            THEN Transition("closed") /\ failures' = NoFailures
            ELSE successes' = successes + 1 /\ UNCHANGED <<circuit, failures, openFor>>

\* Failures in the window, with the one being recorded.
WithOneMore == [failures EXCEPT ![0] = @ + 1]
InWindow    == FoldFunction(+, 0, WithOneMore)

\* Faulty variant: a failure that comes in while the circuit is open is ignored.
RecordFailureUnlessOpen ==
  /\ CASE circuit = "half_open" -> Transition("open") /\ UNCHANGED failures
       [] circuit = "open"      -> UNCHANGED breaker
       [] OTHER ->
            /\ failures' = WithOneMore
            /\ IF InWindow >= FailuresBeforeOpen
               THEN Transition("open")
               ELSE UNCHANGED <<circuit, openFor, successes>>
  /\ quiet' = IF circuit' = "open" THEN 0 ELSE quiet
  /\ probes' = 0

\* record_failure; failures older than the window were dropped by Tick.
RecordFailure ==
  /\ CASE circuit = "half_open" -> Transition("open") /\ UNCHANGED failures
       [] circuit = "open"      -> openFor' = 0 /\ UNCHANGED <<circuit, failures, successes>>
       [] OTHER ->
            /\ failures' = WithOneMore
            /\ IF InWindow >= FailuresBeforeOpen
               THEN Transition("open")
               ELSE UNCHANGED <<circuit, openFor, successes>>
  /\ quiet' = IF circuit' = "open" THEN 0 ELSE quiet
  /\ probes' = 0

-----------------------------------------------------------------------------
(* The replay cache, under its lock, for a thread whose now is k ticks old. *)

\* _prune_seen_receipts_locked
Expired(k)   == {d \in DOMAIN seen : seen[d] <= -k}
Unexpired(k) == Restrict(seen, DOMAIN seen \ Expired(k))

With(entries, d, left) == [x \in DOMAIN entries \cup {d} |-> IF x = d THEN left ELSE entries[x]]
Without(entries, d)    == Restrict(entries, DOMAIN entries \ {d})

\* Faulty variant: the entry that expires last is evicted.
EvictNewest(entries) ==
  IF Cardinality(DOMAIN entries) <= CacheMax THEN {entries}
  ELSE {Without(entries, d) : d \in {x \in DOMAIN entries : \A y \in DOMAIN entries : entries[y] <= entries[x]}}

\* _evict_seen_receipts_locked: what may be left.  One entry was added, and one of
\* those that expire first goes, which may be the new one.
Evict(entries) ==
  IF Cardinality(DOMAIN entries) <= CacheMax THEN {entries}
  ELSE {Without(entries, d) : d \in {x \in DOMAIN entries : \A y \in DOMAIN entries : entries[x] <= entries[y]}}

\* _record_seen_receipt_digest, when it does not find a replay.
RecordSeen(d, k) ==
  /\ d \notin DOMAIN Unexpired(k)
  /\ seen' \in Evict(With(Unexpired(k), d, CacheTtl - k))
  /\ admitted' = [admitted EXCEPT ![d] = Least(k, CacheTtl)]
  /\ crowd' = [x \in Receipts |->
                 IF x = d THEN {y \in DOMAIN Unexpired(k) : seen[y] >= CacheTtl - k}
                 ELSE IF k <= admitted[x] THEN crowd[x] \cup {d} ELSE crowd[x]]

-----------------------------------------------------------------------------
(* evaluate and _runtime_gate_error_response.                              *)

\* The call of a worker ends, with what the backend had answered.
End(w, answer, result) ==
  /\ phase' = [phase EXCEPT ![w] = "idle"]
  /\ heard' = [heard EXCEPT ![w] = answer]
  /\ outcome' = [outcome EXCEPT ![w] = result]

\* _fallback_error_response
Unavailable(w, request) == End(w, "nothing", Fallback[request])

\* Metadata is invalid or missing in the request, or the circuit is open.
Refuse(w, q) ==
  /\ phase[w] = "idle"
  /\ Defect[q] = "missing" \/ (Defect[q] = "none" /\ CoolingDown)
  /\ asked' = [asked EXCEPT ![w] = q]
  /\ Unavailable(w, q)
  /\ UNCHANGED <<breaker, seen, held, lag, admitted, crowd, quiet, probes>>

\* Faulty variant: the contract error falls back like an unreachable gate.
BreakContractToFallback(w, q) ==
  /\ phase[w] = "idle" /\ Defect[q] = "contract"
  /\ asked' = [asked EXCEPT ![w] = q]
  /\ Unavailable(w, q)
  /\ UNCHANGED <<breaker, seen, held, lag, admitted, crowd, quiet, probes>>

\* The request has no schema-valid wire action (RuntimeGateWireContractError):
\* terminal, whatever the circuit is in.
BreakContract(w, q) ==
  /\ phase[w] = "idle" /\ Defect[q] = "contract"
  /\ asked' = [asked EXCEPT ![w] = q]
  /\ End(w, "contract", "blocked")
  /\ UNCHANGED <<breaker, seen, held, lag, admitted, crowd, quiet, probes>>

Call(w, q) ==
  /\ phase[w] = "idle" /\ Defect[q] = "none"
  /\ BeforeCall
  /\ phase' = [phase EXCEPT ![w] = "calling"]
  /\ asked' = [asked EXCEPT ![w] = q]
  /\ heard' = [heard EXCEPT ![w] = "nothing"]
  /\ outcome' = [outcome EXCEPT ![w] = "none"]
  /\ UNCHANGED <<seen, held, lag, admitted, crowd, quiet>>

\* No answer, a 5xx, a response or receipt that cannot be fetched.
Fail(w) ==
  /\ phase[w] = "calling"
  /\ RecordFailure
  /\ Unavailable(w, asked[w])
  /\ UNCHANGED <<seen, asked, held, lag, admitted, crowd>>

\* A 4xx: terminal, neither success nor failure.
Reject(w) ==
  /\ phase[w] = "calling"
  /\ End(w, "rejected", "blocked")
  /\ UNCHANGED <<breaker, seen, asked, held, lag, admitted, crowd, quiet, probes>>

\* A receipt that is missing, unreadable or of another signer.
Distrust(w) ==
  /\ phase[w] = "calling"
  /\ End(w, "untrusted", "blocked")
  /\ UNCHANGED <<breaker, seen, asked, held, lag, admitted, crowd, quiet, probes>>

\* A verified receipt: the thread reads the clock on its way to the cache lock.
Stamp(w, d) ==
  /\ phase[w] = "calling"
  /\ phase' = [phase EXCEPT ![w] = "stamped"]
  /\ held' = [held EXCEPT ![w] = d]
  /\ UNCHANGED <<breaker, seen, asked, lag, outcome, history>>

\* The receipt is recorded before its body is looked at.
Record(w) ==
  /\ phase[w] = "stamped"
  /\ RecordSeen(held[w], lag[w])
  /\ phase' = [phase EXCEPT ![w] = "recorded"]
  /\ lag' = [lag EXCEPT ![w] = 0]
  /\ UNCHANGED <<breaker, asked, held, outcome, heard, quiet, probes>>

\* It is still in the cache.
Replayed(w) ==
  /\ phase[w] = "stamped"
  /\ held[w] \in DOMAIN Unexpired(lag[w])
  /\ seen' = Unexpired(lag[w])
  /\ held' = [held EXCEPT ![w] = None]
  /\ lag' = [lag EXCEPT ![w] = 0]
  /\ End(w, "untrusted", "blocked")
  /\ UNCHANGED <<breaker, asked, admitted, crowd, quiet, probes>>

\* _validate_decision_body finds the receipt of another request, or a response
\* that contradicts its receipt.
Mismatch(w) ==
  /\ phase[w] = "recorded"
  /\ held' = [held EXCEPT ![w] = None]
  /\ End(w, "untrusted", "blocked")
  /\ UNCHANGED <<breaker, seen, asked, lag, admitted, crowd, quiet, probes>>

OwnReceipt(w, d) == phase[w] = "recorded" /\ held[w] = d /\ Body[d].request = asked[w]

Accept(w) ==
  \E d \in Receipts :
    /\ OwnReceipt(w, d)
    /\ RecordSuccess
    /\ End(w, d, Body[d].decision)
    /\ held' = [held EXCEPT ![w] = None]
    /\ UNCHANGED <<seen, asked, lag, admitted, crowd, quiet>>

Stamped(w) == phase[w] = "stamped"

Tick ==
  /\ \A w \in Workers : Stamped(w) => lag[w] < MaxLag
  /\ failures' = [age \in 0..Window |-> IF age = 0 THEN 0 ELSE failures[age - 1]]
  /\ openFor' = Least(openFor + 1, Cooldown)
  /\ seen' = [d \in DOMAIN seen |-> Greatest(seen[d] - 1, -MaxLag)]
  /\ lag' = [w \in Workers |-> IF Stamped(w) THEN lag[w] + 1 ELSE lag[w]]
  /\ quiet' = Least(quiet + 1, Cooldown)
  /\ admitted' = [d \in Receipts |-> Least(admitted[d] + 1, CacheTtl)]
  /\ UNCHANGED <<circuit, successes, phase, asked, held, outcome, heard, crowd, probes>>

Init ==
  /\ circuit = "closed"
  /\ failures = NoFailures
  /\ openFor = Cooldown
  /\ successes = 0
  /\ seen = [d \in {} |-> CacheTtl]
  /\ phase = [w \in Workers |-> "idle"]
  /\ asked \in [Workers -> Requests]
  /\ held = [w \in Workers |-> None]
  /\ lag = [w \in Workers |-> 0]
  /\ heard = [w \in Workers |-> "nothing"]
  /\ outcome = [w \in Workers |-> "none"]
  /\ admitted = [d \in Receipts |-> CacheTtl]
  /\ crowd = [d \in Receipts |-> {}]
  /\ quiet = Cooldown
  /\ probes = 0

\* The end of a call whose answer has come in, or has not within its timeout.
Return(w) ==
  \/ Fail(w) \/ Reject(w) \/ Distrust(w)
  \/ \E d \in Receipts : Stamp(w, d)
  \/ Record(w) \/ Replayed(w) \/ Mismatch(w) \/ Accept(w)

Next ==
  \/ Tick
  \/ \E w \in Workers :
       Return(w) \/ \E q \in Requests : Refuse(w, q) \/ BreakContract(w, q) \/ Call(w, q)

GateSpec == Init /\ [][Next]_gateVars

\* The clock runs, HTTP calls have a timeout, and clients go on calling tools.
GateFairness ==
  /\ WF_gateVars(Tick)
  /\ \A w \in Workers : WF_gateVars(Return(w)) /\ WF_gateVars(\E q \in Requests : Call(w, q))

FairGateSpec == GateSpec /\ GateFairness

-----------------------------------------------------------------------------
(* Types of the breaker, the replay cache and the calls in evaluate.       *)
GateTypeOK ==
  /\ circuit \in States
  /\ failures \in [0..Window -> Nat]
  /\ openFor \in 0..Cooldown
  /\ successes \in 0..HalfOpenTests - 1
  /\ DOMAIN seen \subseteq Receipts /\ seen \in [DOMAIN seen -> -MaxLag..CacheTtl]
  /\ phase \in [Workers -> {"idle", "calling", "stamped", "recorded"}]
  /\ asked \in [Workers -> Requests]
  /\ held \in [Workers -> Receipts \cup {None}]
  /\ \A w \in Workers : Stamped(w) => held[w] \in Receipts
  /\ lag \in [Workers -> 0..MaxLag]
  /\ heard \in [Workers -> Receipts \cup {"nothing", "contract", "rejected", "untrusted"}]
  /\ outcome \in [Workers -> Dispositions \cup {"none"}]
  /\ admitted \in [Receipts -> 0..CacheTtl]
  /\ crowd \in [Receipts -> SUBSET Receipts]
  /\ quiet \in 0..Cooldown
  /\ probes \in 0..HalfOpenTests

\* After a failure that left the circuit open nobody calls the backend for the
\* length of the cool-down, however many late answers of earlier calls come in
\* meanwhile (before_call, record_failure).
BackendRests ==
  [][\A w \in Workers : phase[w] = "idle" /\ phase'[w] = "calling" => quiet = Cooldown]_gateVars

\* The circuit closes only on as many successes as half_open_test_count asks for,
\* with no failure since the cool-down ended, whichever calls they come from
\* (record_success, _transition_locked).
ClosesOnProbes ==
  [][circuit # "closed" /\ circuit' = "closed" => probes' = HalfOpenTests]_gateVars

\* A receipt passes the replay cache a second time only when its time there has
\* run out or as many other receipts as the cache holds have passed that expire no
\* earlier, however late the threads record what they have stamped
\* (_record_seen_receipt_digest, _evict_seen_receipts_locked).
NoEarlyReplay ==
  [][\A w \in Workers : phase[w] = "stamped" /\ phase'[w] = "recorded" =>
       LET d == held[w] IN
       admitted[d] = CacheTtl \/ Cardinality(crowd[d]) >= CacheMax]_gateVars

\* A call that goes on without an approval has its own receipt that allows it, or
\* met an unreachable gate, with a request that has a wire action, under a
\* configuration that lets such calls through; an answer that rejects the call or
\* cannot be trusted, and a request that breaks the wire contract, never end in
\* that fallback (evaluate, _runtime_gate_error_response, _fallback_error_response).
ForwardsAreCovered ==
  \A w \in Workers : outcome[w] = "forward" =>
    \/ /\ heard[w] = "nothing"
       /\ Fallback[asked[w]] = "forward" /\ Defect[asked[w]] # "contract"
    \/ heard[w] \in Receipts /\ Body[heard[w]] = [request |-> asked[w], decision |-> "forward"]

Answered(w) == Fail(w) \/ Reject(w) \/ Distrust(w) \/ Replayed(w) \/ Mismatch(w)

\* Once the backend gives every call the receipt it asked for, the circuit closes
\* for good, also when answers from before are still under way (before_call,
\* record_success).
Recovers ==
  <>[][\A w \in Workers : ~Answered(w)]_gateVars => <>[](circuit = "closed")
=============================================================================
