-------------------------- MODULE RuntimeGateProofs --------------------------
(***************************************************************************)
(* Proofs about RuntimeGate: its types, the rest the breaker gives the     *)
(* backend, what it takes to close the circuit, what a forwarded call      *)
(* rests on, and how long the replay cache remembers a receipt.            *)
(***************************************************************************)
EXTENDS RuntimeGate, FiniteSetTheorems, TLAPS

\* An open circuit has been open as long as it has been quiet, and in a half-open
\* one the counted successes are those since the cool-down.
BreakerInv ==
  /\ circuit = "open" => quiet = openFor
  /\ circuit # "open" => quiet = Cooldown
  /\ circuit = "half_open" => successes = probes

Left == -MaxLag..CacheTtl
Phases == {"idle", "calling", "stamped", "recorded"}
Answers == Receipts \cup {"nothing", "contract", "rejected", "untrusted"}

\* What may be left of a cache after an eviction: all of it, or all but an entry
\* that expires first in a cache that was too large.
LEMMA Evicted ==
  ASSUME NEW D, NEW E, E \in [D -> Left], NEW s, s \in Evict(E)
  PROVE  /\ DOMAIN s \subseteq D /\ s \in [DOMAIN s -> Left]
         /\ \A d \in DOMAIN s : s[d] = E[d]
         /\ \/ DOMAIN s = D /\ Cardinality(D) <= CacheMax
            \/ \E d \in D : /\ DOMAIN s = D \ {d} /\ ~(Cardinality(D) <= CacheMax)
                            /\ \A x \in D : E[d] <= E[x]
<1>0. DOMAIN E = D
  OBVIOUS
<1>1. CASE Cardinality(D) <= CacheMax
  <2>1. s = E
    BY <1>0, <1>1 DEF Evict
  <2> QED BY <1>0, <1>1, <2>1
<1>2. CASE ~(Cardinality(D) <= CacheMax)
  <2>1. PICK d \in D : s = Without(E, d) /\ \A x \in D : E[d] <= E[x]
    BY <1>0, <1>2 DEF Evict
  <2>2. DOMAIN s = D \ {d} /\ \A x \in D \ {d} : s[x] = E[x]
    BY <1>0, <2>1 DEF Without, Restrict
  <2>3. s \in [D \ {d} -> Left]
    BY <1>0, <2>1 DEF Without, Restrict
  <2> QED BY <1>2, <2>1, <2>2, <2>3
<1> QED BY <1>1, <1>2

\* Pruning leaves the entries that are not expired for the thread that prunes.
LEMMA Pruned ==
  ASSUME DOMAIN seen \subseteq Receipts, seen \in [DOMAIN seen -> Left], NEW k
  PROVE  /\ DOMAIN Unexpired(k) = {d \in DOMAIN seen : ~(seen[d] <= -k)}
         /\ Unexpired(k) \in [DOMAIN Unexpired(k) -> Left]
         /\ DOMAIN Unexpired(k) \subseteq Receipts
         /\ \A d \in DOMAIN Unexpired(k) : Unexpired(k)[d] = seen[d]
  BY DEF Unexpired, Expired, Restrict

\* Pruning, recording and evicting leave a cache.
LEMMA Recorded ==
  ASSUME DOMAIN seen \subseteq Receipts, seen \in [DOMAIN seen -> Left],
         NEW x \in Receipts, NEW k \in 0..MaxLag, NEW E,
         E = With(Unexpired(k), x, CacheTtl - k)
  PROVE  /\ E \in [DOMAIN E -> Left] /\ DOMAIN E = DOMAIN Unexpired(k) \cup {x}
         /\ DOMAIN E \subseteq Receipts
         /\ E[x] = CacheTtl - k
         /\ \A d \in DOMAIN Unexpired(k) : d # x => E[d] = seen[d]
<1>1. CacheTtl - k \in Left
  BY GateAssumption DEF Left
<1>2. DOMAIN E = DOMAIN Unexpired(k) \cup {x}
  BY DEF With
<1>3. \A d \in DOMAIN E : E[d] = IF d = x THEN CacheTtl - k ELSE Unexpired(k)[d]
  BY <1>2 DEF With
<1>4. E = [d \in DOMAIN E |-> E[d]]
  BY DEF With
<1> QED BY <1>1, <1>2, <1>3, <1>4, Pruned

LEMMA InitTyping == Init => GateTypeOK /\ BreakerInv /\ ForwardsAreCovered
<1> SUFFICES ASSUME Init PROVE GateTypeOK /\ BreakerInv /\ ForwardsAreCovered
  OBVIOUS
<1> USE GateAssumption
<1>1. DOMAIN seen = {} /\ seen \in [DOMAIN seen -> -MaxLag..CacheTtl]
  BY DEF Init
<1>2. \A w \in Workers : ~Stamped(w)
  BY DEF Init, Stamped
<1>3. /\ lag \in [Workers -> 0..MaxLag] /\ crowd \in [Receipts -> SUBSET Receipts]
      /\ admitted \in [Receipts -> 0..CacheTtl] /\ failures \in [0..Window -> Nat]
  BY DEF Init, NoFailures
<1>4. /\ phase \in [Workers -> {"idle", "calling", "stamped", "recorded"}]
      /\ asked \in [Workers -> Requests] /\ held \in [Workers -> Receipts \cup {None}]
      /\ heard \in [Workers -> Receipts \cup {"nothing", "contract", "rejected", "untrusted"}]
      /\ outcome \in [Workers -> Dispositions \cup {"none"}]
  BY DEF Init
<1>5. /\ circuit \in States /\ openFor \in 0..Cooldown /\ successes \in 0..HalfOpenTests - 1
      /\ quiet \in 0..Cooldown /\ probes \in 0..HalfOpenTests
  BY DEF Init, States
<1>6. BreakerInv /\ ForwardsAreCovered
  BY DEF Init, BreakerInv, ForwardsAreCovered
<1> QED BY <1>1, <1>2, <1>3, <1>4, <1>5, <1>6 DEF GateTypeOK

\* The breaker's operations keep the types of its variables and BreakerInv.
BreakerTypeOK ==
  /\ circuit \in States
  /\ failures \in [0..Window -> Nat]
  /\ openFor \in 0..Cooldown
  /\ successes \in 0..HalfOpenTests - 1
  /\ quiet \in 0..Cooldown
  /\ probes \in 0..HalfOpenTests

LEMMA CallBreaker ==
  ASSUME BreakerTypeOK, BreakerInv, BeforeCall, UNCHANGED quiet
  PROVE  BreakerTypeOK' /\ BreakerInv' /\ quiet = Cooldown /\ (circuit # "closed" => circuit' # "closed")
  BY GateAssumption
     DEF BreakerTypeOK, BreakerInv, BeforeCall, CoolingDown, Transition, breaker, States

LEMMA SuccessBreaker ==
  ASSUME BreakerTypeOK, BreakerInv, RecordSuccess, UNCHANGED quiet
  PROVE  /\ BreakerTypeOK' /\ BreakerInv'
         /\ circuit # "closed" /\ circuit' = "closed" => probes' = HalfOpenTests
<1> USE GateAssumption DEF BreakerTypeOK, BreakerInv
<1>0. NoFailures \in [0..Window -> Nat]
  BY DEF NoFailures
<1>1. CASE circuit = "open"
  BY <1>1 DEF RecordSuccess, breaker, Least
<1>2. CASE circuit = "closed"
  BY <1>0, <1>2 DEF RecordSuccess, breaker, Least
<1>3. CASE circuit = "half_open"
  BY <1>0, <1>3 DEF RecordSuccess, breaker, Least, Transition, States
<1> QED BY <1>1, <1>2, <1>3 DEF States

LEMMA FailureBreaker ==
  ASSUME BreakerTypeOK, BreakerInv, RecordFailure
  PROVE  BreakerTypeOK' /\ BreakerInv' /\ (circuit # "closed" => circuit' # "closed")
<1> USE GateAssumption DEF BreakerTypeOK, BreakerInv
<1>1. WithOneMore \in [0..Window -> Nat]
  BY DEF WithOneMore
<1>2. CASE circuit = "half_open"
  BY <1>2 DEF RecordFailure, Transition, States
<1>3. CASE circuit = "open"
  BY <1>3 DEF RecordFailure, States
<1>4. CASE circuit = "closed"
  BY <1>1, <1>4 DEF RecordFailure, Transition, States
<1> QED BY <1>2, <1>3, <1>4 DEF States

LEMMA TickBreaker ==
  ASSUME BreakerTypeOK, BreakerInv, Tick
  PROVE  BreakerTypeOK' /\ BreakerInv' /\ circuit' = circuit
<1>1. failures' \in [0..Window -> Nat]
  <2>1. failures \in [0..Window -> Nat] /\ Window \in Nat
    BY GateAssumption DEF BreakerTypeOK
  <2>2. ASSUME NEW age \in 0..Window
        PROVE  (IF age = 0 THEN 0 ELSE failures[age - 1]) \in Nat
    <3>1. age # 0 => age - 1 \in 0..Window
      BY ONLY <2>1
    <3> QED BY ONLY <2>1, <3>1
  <2>3. failures' = [age \in 0..Window |-> IF age = 0 THEN 0 ELSE failures[age - 1]]
    BY DEF Tick
  <2> QED BY ONLY <2>2, <2>3
<1>2. Cooldown \in Nat \ {0} /\ openFor \in 0..Cooldown /\ quiet \in 0..Cooldown
  BY GateAssumption DEF BreakerTypeOK
<1>3. /\ openFor' = Least(openFor + 1, Cooldown) /\ quiet' = Least(quiet + 1, Cooldown)
      /\ UNCHANGED <<circuit, successes, probes>>
  BY DEF Tick
<1>4. /\ openFor' \in 0..Cooldown /\ quiet' \in 0..Cooldown
      /\ quiet = openFor => quiet' = openFor'
      /\ quiet = Cooldown => quiet' = Cooldown
  BY ONLY <1>2, <1>3 DEF Least
<1> QED
  BY ONLY <1>1, <1>3, <1>4, BreakerTypeOK, BreakerInv DEF BreakerTypeOK, BreakerInv

\* Every step is one of the breaker's operations or leaves the breaker alone.
LEMMA BreakerStep ==
  ASSUME BreakerTypeOK, BreakerInv, [Next]_gateVars
  PROVE  BreakerTypeOK' /\ BreakerInv'
<1>1. ASSUME NEW w \in Workers, NEW q \in Requests, Refuse(w, q) \/ BreakContract(w, q) \/ Call(w, q)
      PROVE  BreakerTypeOK' /\ BreakerInv'
  BY <1>1, CallBreaker DEF Refuse, BreakContract, Call, breaker, BreakerTypeOK, BreakerInv
<1>2. ASSUME NEW w \in Workers, Fail(w) PROVE BreakerTypeOK' /\ BreakerInv'
  BY <1>2, FailureBreaker DEF Fail
<1>3. ASSUME NEW w \in Workers, Accept(w) PROVE BreakerTypeOK' /\ BreakerInv'
  BY <1>3, SuccessBreaker DEF Accept
<1>4. ASSUME NEW w \in Workers, Reject(w) \/ Distrust(w) \/ Replayed(w) \/ Mismatch(w)
      PROVE  BreakerTypeOK' /\ BreakerInv'
  BY <1>4 DEF Reject, Distrust, Replayed, Mismatch, breaker, BreakerTypeOK, BreakerInv
<1>5. ASSUME NEW w \in Workers, Record(w) \/ \E d \in Receipts : Stamp(w, d)
      PROVE  BreakerTypeOK' /\ BreakerInv'
  BY <1>5 DEF Stamp, Record, breaker, history, BreakerTypeOK, BreakerInv
<1>6. CASE UNCHANGED gateVars
  BY <1>6 DEF gateVars, breaker, history, BreakerTypeOK, BreakerInv
<1> QED BY <1>1, <1>2, <1>3, <1>4, <1>5, <1>6, TickBreaker DEF Next, Return

\* The variables of the calls and of the replay cache.
CallsTypeOK ==
  /\ DOMAIN seen \subseteq Receipts /\ seen \in [DOMAIN seen -> Left]
  /\ phase \in [Workers -> Phases]
  /\ asked \in [Workers -> Requests]
  /\ held \in [Workers -> Receipts \cup {None}]
  /\ \A w \in Workers : Stamped(w) => held[w] \in Receipts
  /\ lag \in [Workers -> 0..MaxLag]
  /\ heard \in [Workers -> Answers]
  /\ outcome \in [Workers -> Dispositions \cup {"none"}]
  /\ admitted \in [Receipts -> 0..CacheTtl]
  /\ crowd \in [Receipts -> SUBSET Receipts]

CallsInv == CallsTypeOK /\ ForwardsAreCovered

\* What lets a call go on without an approval.
Covered(answer, request) ==
  \/ /\ answer = "nothing"
     /\ Fallback[request] = "forward" /\ Defect[request] # "contract"
  \/ answer \in Receipts /\ Body[answer] = [request |-> request, decision |-> "forward"]

\* The end of a call keeps the types; a call that is let through must have ended
\* with what ForwardsAreCovered asks for.
LEMMA EndCall ==
  ASSUME CallsInv,
         NEW w \in Workers, NEW result \in Dispositions, NEW answer \in Answers,
         End(w, answer, result),
         asked' \in [Workers -> Requests],
         \A v \in Workers \ {w} : asked'[v] = asked[v],
         result = "forward" => Covered(answer, asked'[w])
  PROVE  /\ phase' \in [Workers -> Phases]
         /\ heard' \in [Workers -> Answers]
         /\ outcome' \in [Workers -> Dispositions \cup {"none"}]
         /\ \A v \in Workers : Stamped(v)' => v # w /\ Stamped(v)
         /\ ForwardsAreCovered'
<1> USE DEF End, CallsInv, CallsTypeOK
<1>1. /\ phase' \in [Workers -> Phases]
      /\ heard' \in [Workers -> Answers]
      /\ outcome' \in [Workers -> Dispositions \cup {"none"}]
      /\ \A v \in Workers : phase'[v] = IF v = w THEN "idle" ELSE phase[v]
  BY DEF Phases
<1>2. ASSUME NEW v \in Workers, outcome'[v] = "forward"
      PROVE  Covered(heard'[v], asked'[v])
  <2>1. CASE v = w
    BY <1>2, <2>1
  <2>2. CASE v # w
    BY <1>2, <2>2 DEF ForwardsAreCovered, Covered
  <2> QED BY <2>1, <2>2
<1>3. \A v \in Workers : Stamped(v)' => v # w /\ Stamped(v)
  BY <1>1 DEF Stamped
<1> QED BY <1>1, <1>2, <1>3 DEF ForwardsAreCovered, Covered

\* A step that ends the call of w and leaves the requests and the history of the
\* cache alone.
LEMMA EndStep ==
  ASSUME CallsInv, NEW w \in Workers, NEW result \in Dispositions, NEW answer \in Answers,
         End(w, answer, result),
         UNCHANGED <<asked, admitted, crowd>>,
         DOMAIN seen' \subseteq Receipts, seen' \in [DOMAIN seen' -> Left],
         held' = held \/ held' = [held EXCEPT ![w] = None],
         lag' = lag \/ lag' = [lag EXCEPT ![w] = 0],
         result = "forward" => Covered(answer, asked[w])
  PROVE  CallsInv'
<1>1. asked' \in [Workers -> Requests] /\ asked' = asked
  BY DEF CallsInv, CallsTypeOK
<1>2. /\ phase' \in [Workers -> Phases]
      /\ heard' \in [Workers -> Answers]
      /\ outcome' \in [Workers -> Dispositions \cup {"none"}]
      /\ \A v \in Workers : Stamped(v)' => v # w /\ Stamped(v)
      /\ ForwardsAreCovered'
  BY <1>1, EndCall
<1>3. /\ held' \in [Workers -> Receipts \cup {None}]
      /\ \A v \in Workers : v # w => held'[v] = held[v]
  BY DEF CallsInv, CallsTypeOK
<1>4. lag' \in [Workers -> 0..MaxLag]
  BY GateAssumption DEF CallsInv, CallsTypeOK
<1>5. \A v \in Workers : Stamped(v)' => held'[v] \in Receipts
  BY <1>2, <1>3 DEF CallsInv, CallsTypeOK
<1> QED BY <1>1, <1>2, <1>3, <1>4, <1>5 DEF CallsInv, CallsTypeOK

\* The cache is not touched.
LEMMA SameCache ==
  ASSUME CallsTypeOK, UNCHANGED seen
  PROVE  DOMAIN seen' \subseteq Receipts /\ seen' \in [DOMAIN seen' -> Left]
  BY DEF CallsTypeOK

LEMMA RefuseCalls ==
  ASSUME CallsInv, NEW w \in Workers, NEW q \in Requests, Refuse(w, q) \/ BreakContract(w, q)
  PROVE  CallsInv'
<1> USE GateAssumption
<1>1. /\ asked' \in [Workers -> Requests] /\ asked'[w] = q
      /\ \A v \in Workers \ {w} : asked'[v] = asked[v]
      /\ UNCHANGED <<seen, held, lag, admitted, crowd>>
  BY DEF Refuse, BreakContract, CallsInv, CallsTypeOK
<1>2. /\ phase' \in [Workers -> Phases]
      /\ heard' \in [Workers -> Answers]
      /\ outcome' \in [Workers -> Dispositions \cup {"none"}]
      /\ \A v \in Workers : Stamped(v)' => v # w /\ Stamped(v)
      /\ ForwardsAreCovered'
  <2>1. CASE Refuse(w, q)
    <3>1. /\ Fallback[q] \in Dispositions /\ "nothing" \in Answers
          /\ End(w, "nothing", Fallback[q]) /\ Defect[q] # "contract"
      BY <2>1 DEF Refuse, Unavailable, Answers
    <3>2. Fallback[q] = "forward" => Covered("nothing", asked'[w])
      BY <1>1, <3>1 DEF Covered
    <3> QED BY <1>1, <3>1, <3>2, EndCall
  <2>2. CASE BreakContract(w, q)
    <3>1. /\ "blocked" \in Dispositions /\ "contract" \in Answers
          /\ End(w, "contract", "blocked")
      BY <2>2 DEF BreakContract, Answers, Dispositions
    <3> QED BY <1>1, <3>1, EndCall
  <2> QED BY <2>1, <2>2
<1>3. CallsTypeOK'
  <2>1. CallsTypeOK
    BY DEF CallsInv
  <2> QED BY <1>1, <1>2, <2>1 DEF CallsTypeOK
<1> QED BY <1>2, <1>3 DEF CallsInv

LEMMA CallCalls ==
  ASSUME CallsInv, NEW w \in Workers, NEW q \in Requests, Call(w, q)
  PROVE  CallsInv'
<1> USE DEF Call, CallsInv, CallsTypeOK
<1>1. /\ UNCHANGED <<seen, held, lag, admitted, crowd>>
      /\ asked' \in [Workers -> Requests] /\ phase' \in [Workers -> Phases]
      /\ outcome' \in [Workers -> Dispositions \cup {"none"}]
      /\ heard' \in [Workers -> Answers]
  BY DEF Phases, Answers
<1>2. \A v \in Workers : Stamped(v)' => Stamped(v)
  BY DEF Stamped
<1>3. ForwardsAreCovered'
  BY DEF ForwardsAreCovered
<1> QED BY <1>1, <1>2, <1>3

LEMMA StampCalls ==
  ASSUME CallsInv, NEW w \in Workers, NEW d \in Receipts, Stamp(w, d)
  PROVE  CallsInv'
<1> USE DEF Stamp, history, CallsInv, CallsTypeOK
<1>1. /\ UNCHANGED <<seen, asked, lag, heard, outcome, admitted, crowd>>
      /\ phase' \in [Workers -> Phases] /\ held' \in [Workers -> Receipts \cup {None}]
  BY DEF Phases
<1>2. \A v \in Workers : Stamped(v)' => held'[v] \in Receipts
  BY DEF Stamped
<1>3. ForwardsAreCovered'
  BY DEF ForwardsAreCovered
<1> QED BY <1>1, <1>2, <1>3

LEMMA RecordCalls ==
  ASSUME CallsInv, NEW w \in Workers, Record(w)
  PROVE  CallsInv'
<1>1. /\ held[w] \in Receipts /\ lag[w] \in 0..MaxLag /\ RecordSeen(held[w], lag[w])
      /\ CallsTypeOK
  BY DEF Record, Stamped, CallsInv, CallsTypeOK
<1>2. DOMAIN seen' \subseteq Receipts /\ seen' \in [DOMAIN seen' -> Left]
  <2> DEFINE E == With(Unexpired(lag[w]), held[w], CacheTtl - lag[w])
  <2>1. E \in [DOMAIN E -> Left] /\ DOMAIN E \subseteq Receipts
    BY <1>1, Recorded DEF CallsTypeOK
  <2>2. seen' \in Evict(E)
    BY <1>1 DEF RecordSeen
  <2>3. DOMAIN seen' \subseteq DOMAIN E /\ seen' \in [DOMAIN seen' -> Left]
    BY ONLY <2>1, <2>2, Evicted
  <2> QED BY <2>1, <2>3
<1>3. /\ phase' \in [Workers -> Phases] /\ lag' \in [Workers -> 0..MaxLag]
      /\ UNCHANGED <<asked, held, heard, outcome>>
      /\ \A v \in Workers : Stamped(v)' => Stamped(v)
  BY <1>1, GateAssumption DEF Record, Stamped, Phases, CallsTypeOK
<1>4. admitted' \in [Receipts -> 0..CacheTtl]
  <2>1. Least(lag[w], CacheTtl) \in 0..CacheTtl
    BY <1>1, GateAssumption DEF Least
  <2> QED BY <1>1, <2>1 DEF RecordSeen, CallsTypeOK
<1>5. crowd' \in [Receipts -> SUBSET Receipts]
  <2>1. \A d \in Receipts : crowd[d] \subseteq Receipts
    BY <1>1 DEF CallsTypeOK
  <2>2. DOMAIN Unexpired(lag[w]) \subseteq Receipts
    BY <1>1, Pruned DEF CallsTypeOK
  <2> QED BY <1>1, <2>1, <2>2 DEF RecordSeen
<1>6. ForwardsAreCovered'
  BY <1>3 DEF CallsInv, ForwardsAreCovered
<1>7. CallsTypeOK'
  BY <1>1, <1>2, <1>3, <1>4, <1>5 DEF CallsTypeOK
<1> QED BY <1>6, <1>7 DEF CallsInv

LEMMA ReplayedCalls ==
  ASSUME CallsInv, NEW w \in Workers, Replayed(w)
  PROVE  CallsInv'
<1>1. CallsTypeOK /\ seen' = Unexpired(lag[w])
  BY DEF Replayed, CallsInv
<1>2. DOMAIN seen' \subseteq Receipts /\ seen' \in [DOMAIN seen' -> Left]
  BY <1>1, Pruned DEF CallsTypeOK
<1>3. /\ End(w, "untrusted", "blocked") /\ UNCHANGED <<asked, admitted, crowd>>
      /\ held' = [held EXCEPT ![w] = None] /\ lag' = [lag EXCEPT ![w] = 0]
      /\ "blocked" \in Dispositions /\ "untrusted" \in Answers
  BY DEF Replayed, Dispositions, Answers
<1> QED BY <1>2, <1>3, EndStep

LEMMA TickCalls ==
  ASSUME CallsInv, Tick
  PROVE  CallsInv'
<1> USE GateAssumption DEF CallsInv, CallsTypeOK
<1>1. DOMAIN seen' \subseteq Receipts /\ seen' \in [DOMAIN seen' -> Left]
  <2>1. \A d \in DOMAIN seen : Greatest(seen[d] - 1, -MaxLag) \in Left
    BY DEF Greatest, Left
  <2> QED BY <2>1 DEF Tick
<1>2. admitted' \in [Receipts -> 0..CacheTtl]
  BY DEF Tick, Least
<1>3. /\ UNCHANGED <<phase, asked, held, heard, outcome, crowd>>
      /\ \A v \in Workers : Stamped(v)' <=> Stamped(v)
  BY DEF Tick, Stamped
<1>4. lag' \in [Workers -> 0..MaxLag]
  <2>1. ASSUME NEW v \in Workers PROVE (IF Stamped(v) THEN lag[v] + 1 ELSE lag[v]) \in 0..MaxLag
    <3>1. /\ lag[v] \in 0..MaxLag /\ MaxLag \in Nat
          /\ Stamped(v) => lag[v] < MaxLag
      BY DEF Tick
    <3> QED BY ONLY <3>1
  <2> QED BY <2>1 DEF Tick
<1>5. ForwardsAreCovered'
  BY <1>3 DEF ForwardsAreCovered
<1> QED BY <1>1, <1>2, <1>3, <1>4, <1>5

LEMMA AcceptCalls ==
  ASSUME CallsInv, NEW w \in Workers, Accept(w)
  PROVE  CallsInv'
<1>1. PICK d \in Receipts : /\ OwnReceipt(w, d)
                            /\ End(w, d, Body[d].decision)
                            /\ held' = [held EXCEPT ![w] = None]
                            /\ UNCHANGED <<seen, asked, lag, admitted, crowd>>
  BY DEF Accept
<1>2. /\ Body[d] \in [request : Requests, decision : Dispositions]
      /\ Body[d].request = asked[w]
  BY <1>1, GateAssumption DEF OwnReceipt
<1>3. Body[d].decision \in Dispositions /\ d \in Answers
  BY <1>2 DEF Answers
<1>4. Body[d].decision = "forward" => Covered(d, asked[w])
  BY <1>2 DEF Covered
<1>5. DOMAIN seen' \subseteq Receipts /\ seen' \in [DOMAIN seen' -> Left]
  BY <1>1, SameCache DEF CallsInv
<1> QED BY <1>1, <1>3, <1>4, <1>5, EndStep

LEMMA CallsStep ==
  ASSUME CallsInv, [Next]_gateVars,
         \A w \in Workers : phase[w] = "calling" => Defect[asked[w]] = "none"
  PROVE  CallsInv'
<1> USE GateAssumption
<1>0. CallsTypeOK
  BY DEF CallsInv
<1>1. ASSUME NEW w \in Workers, Fail(w) PROVE CallsInv'
  <2>1. /\ End(w, "nothing", Fallback[asked[w]]) /\ Fallback[asked[w]] \in Dispositions
        /\ UNCHANGED <<seen, asked, held, lag, admitted, crowd>>
        /\ "nothing" \in Answers /\ Defect[asked[w]] # "contract"
    BY <1>0, <1>1 DEF Fail, Unavailable, CallsTypeOK, Answers
  <2>2. Fallback[asked[w]] = "forward" => Covered("nothing", asked[w])
    BY <2>1 DEF Covered
  <2>3. DOMAIN seen' \subseteq Receipts /\ seen' \in [DOMAIN seen' -> Left]
    BY <1>0, <2>1, SameCache
  <2> QED BY <2>1, <2>2, <2>3, EndStep
<1>2. ASSUME NEW w \in Workers, Reject(w) \/ Distrust(w) \/ Mismatch(w) PROVE CallsInv'
  <2>1. PICK answer \in {"rejected", "untrusted"} : End(w, answer, "blocked")
    BY <1>2 DEF Reject, Distrust, Mismatch
  <2>2. /\ UNCHANGED <<seen, asked, lag, admitted, crowd>>
        /\ held' = held \/ held' = [held EXCEPT ![w] = None]
        /\ answer \in Answers /\ "blocked" \in Dispositions
    BY <1>2 DEF Reject, Distrust, Mismatch, Answers, Dispositions
  <2>3. DOMAIN seen' \subseteq Receipts /\ seen' \in [DOMAIN seen' -> Left]
    BY <1>0, <2>2, SameCache
  <2> QED BY <2>1, <2>2, <2>3, EndStep
<1>3. CASE UNCHANGED gateVars
  <2>1. UNCHANGED <<seen, phase, asked, held, lag, heard, outcome, admitted, crowd>>
    BY <1>3 DEF gateVars, calls, history
  <2>2. ForwardsAreCovered'
    BY <2>1 DEF CallsInv, ForwardsAreCovered
  <2>3. \A v \in Workers : Stamped(v)' <=> Stamped(v)
    BY <2>1 DEF Stamped
  <2>4. CallsTypeOK'
    BY <1>0, <2>1, <2>3 DEF CallsTypeOK
  <2> QED BY <2>2, <2>4 DEF CallsInv
<1> QED
  BY <1>1, <1>2, <1>3, RefuseCalls, CallCalls, StampCalls, RecordCalls, ReplayedCalls,
     AcceptCalls, TickCalls
     DEF Next, Return

\* Only a request with a wire action is sent to the backend.
SoundRequests == \A w \in Workers : phase[w] = "calling" => Defect[asked[w]] = "none"

LEMMA SoundStep ==
  ASSUME CallsTypeOK, SoundRequests, [Next]_gateVars
  PROVE  SoundRequests'
<1> USE DEF SoundRequests, CallsTypeOK
<1>1. ASSUME NEW w \in Workers, NEW q \in Requests, Call(w, q) PROVE SoundRequests'
  BY <1>1 DEF Call
<1>2. ASSUME NEW w \in Workers, NEW a, NEW r, End(w, a, r),
             \A v \in Workers \ {w} : asked'[v] = asked[v]
      PROVE  SoundRequests'
  BY <1>2 DEF End
<1>3. ASSUME NEW w \in Workers, NEW q \in Requests, Refuse(w, q) \/ BreakContract(w, q)
      PROVE  SoundRequests'
  <2>1. \A v \in Workers \ {w} : asked'[v] = asked[v]
    BY <1>3 DEF Refuse, BreakContract
  <2> QED BY <1>2, <1>3, <2>1 DEF Refuse, BreakContract, Unavailable
<1>4. ASSUME NEW w \in Workers,
             Fail(w) \/ Reject(w) \/ Distrust(w) \/ Replayed(w) \/ Mismatch(w) \/ Accept(w)
      PROVE  SoundRequests'
  <2>1. \A v \in Workers \ {w} : asked'[v] = asked[v]
    BY <1>4 DEF Fail, Reject, Distrust, Replayed, Mismatch, Accept
  <2> QED BY <1>2, <1>4, <2>1 DEF Fail, Unavailable, Reject, Distrust, Replayed, Mismatch, Accept
<1>5. ASSUME NEW w \in Workers, Record(w) \/ \E d \in Receipts : Stamp(w, d)
      PROVE  SoundRequests'
  BY <1>5 DEF Record, Stamp
<1>6. CASE Tick \/ UNCHANGED gateVars
  BY <1>6 DEF Tick, gateVars, calls
<1> QED BY <1>1, <1>3, <1>4, <1>5, <1>6 DEF Next, Return

GateInv == GateTypeOK /\ BreakerInv /\ ForwardsAreCovered /\ SoundRequests

LEMMA TypeParts == GateTypeOK <=> BreakerTypeOK /\ CallsTypeOK
  BY DEF GateTypeOK, BreakerTypeOK, CallsTypeOK, Left, Phases, Answers

LEMMA TypePartsNext == GateTypeOK' <=> BreakerTypeOK' /\ CallsTypeOK'
  BY DEF GateTypeOK, BreakerTypeOK, CallsTypeOK, Left, Phases, Answers

LEMMA GateStep == GateInv /\ [Next]_gateVars => GateInv'
  BY TypeParts, TypePartsNext, BreakerStep, CallsStep, SoundStep DEF GateInv, CallsInv, SoundRequests

LEMMA GateInvariance == GateSpec => []GateInv
<1>1. Init => GateInv
  BY InitTyping DEF GateInv, SoundRequests, Init
<1> QED BY <1>1, GateStep, PTL DEF GateSpec

\* The types of the gate's state hold for every number of workers, requests and
\* receipts and every setting of the breaker and the cache.
THEOREM GateTyping == GateSpec => []GateTypeOK
  BY GateInvariance, PTL DEF GateInv

\* A call that goes on without an approval has its own allowing receipt, or met an
\* unreachable gate with a request that can be put on the wire, under a
\* configuration that lets it through; a broken wire contract never falls back
\* (evaluate, _build_request, _runtime_gate_error_response).
THEOREM ForwardSafety == GateSpec => []ForwardsAreCovered
  BY GateInvariance, PTL DEF GateInv

\* Nobody calls the backend in the cool-down after a failure, for any number of
\* late failures (before_call, record_failure).
THEOREM RestAfterFailure == GateSpec => BackendRests
<1>1. ASSUME GateInv, [Next]_gateVars, NEW w \in Workers, phase[w] = "idle", phase'[w] = "calling"
      PROVE  quiet = Cooldown
  <2>1. ASSUME NEW v \in Workers, NEW q \in Requests, Call(v, q) PROVE quiet = Cooldown
    <3>1. BreakerTypeOK /\ BreakerInv
      BY <1>1, TypeParts DEF GateInv
    <3> QED BY <2>1, <3>1, CallBreaker DEF Call
  <2>2. ASSUME NEW v \in Workers,
               Return(v) \/ \E q \in Requests : Refuse(v, q) \/ BreakContract(v, q)
        PROVE  FALSE
    <3>1. phase[w] # "calling" /\ phase \in [Workers -> Phases]
      BY <1>1 DEF GateInv, GateTypeOK, Phases
    <3>2. ASSUME NEW a, NEW r, End(v, a, r) PROVE FALSE
      BY <1>1, <3>1, <3>2 DEF End
    <3>3. ASSUME Record(v) \/ \E d \in Receipts : Stamp(v, d) PROVE FALSE
      BY <1>1, <3>1, <3>3 DEF Record, Stamp
    <3> QED
      BY <2>2, <3>2, <3>3
         DEF Return, Refuse, BreakContract, Unavailable, Fail, Reject, Distrust, Replayed, Mismatch,
             Accept
  <2>3. CASE Tick \/ UNCHANGED gateVars
    BY <1>1, <2>3 DEF Tick, gateVars, calls
  <2> QED BY <1>1, <2>1, <2>2, <2>3 DEF Next
<1>2. GateInv /\ [Next]_gateVars =>
        [\A w \in Workers : phase[w] = "idle" /\ phase'[w] = "calling" => quiet = Cooldown]_gateVars
  BY <1>1
<1> QED BY <1>2, GateInvariance, PTL DEF GateSpec, BackendRests

\* The circuit closes only after half_open_test_count successes and no failure
\* since the cool-down (record_success, _transition_locked).
THEOREM ClosedByProbes == GateSpec => ClosesOnProbes
<1>1. ASSUME GateInv, [Next]_gateVars, circuit # "closed", circuit' = "closed"
      PROVE  probes' = HalfOpenTests
  <2>0. BreakerTypeOK /\ BreakerInv
    BY <1>1, TypeParts DEF GateInv
  <2>1. ASSUME NEW w \in Workers, Accept(w) PROVE probes' = HalfOpenTests
    BY <1>1, <2>0, <2>1, SuccessBreaker DEF Accept
  <2>2. ASSUME NEW w \in Workers, Fail(w) PROVE FALSE
    BY <1>1, <2>0, <2>2, FailureBreaker DEF Fail
  <2>3. ASSUME NEW w \in Workers, NEW q \in Requests, Call(w, q) PROVE FALSE
    BY <1>1, <2>0, <2>3, CallBreaker DEF Call
  <2>4. ASSUME NEW w \in Workers,
               \/ Reject(w) \/ Distrust(w) \/ Record(w) \/ Replayed(w) \/ Mismatch(w)
               \/ \E q \in Requests : Refuse(w, q) \/ BreakContract(w, q)
               \/ \E d \in Receipts : Stamp(w, d)
        PROVE  FALSE
    BY <1>1, <2>4
       DEF Reject, Distrust, Record, Replayed, Mismatch, Refuse, BreakContract, Stamp, breaker
  <2>5. CASE Tick \/ UNCHANGED gateVars
    BY <1>1, <2>5 DEF Tick, gateVars, breaker
  <2> QED BY <1>1, <2>1, <2>2, <2>3, <2>4, <2>5 DEF Next, Return
<1>2. GateInv /\ [Next]_gateVars =>
        [circuit # "closed" /\ circuit' = "closed" => probes' = HalfOpenTests]_gateVars
  BY <1>1
<1> QED BY <1>2, GateInvariance, PTL DEF GateSpec, ClosesOnProbes

-----------------------------------------------------------------------------
(* The replay cache.  An entry with time left was stamped when the history *)
(* says, and every entry that expires no earlier is in its crowd; so only  *)
(* a full crowd can have pushed it out.                                    *)

\* s is what is cached, a and c are the history of the same moment.
AsStamped(s, a)   == \A d \in DOMAIN s : s[d] > 0 => a[d] = CacheTtl - s[d]
InTheCrowd(s, c)  == \A d, x \in DOMAIN s : d # x /\ s[d] > 0 /\ s[x] >= s[d] => x \in c[d]
Crowded(c, d)     == Cardinality(c[d]) >= CacheMax
Kept(s, a, c)     == \A d \in Receipts : a[d] < CacheTtl =>
                       (d \in DOMAIN s /\ s[d] = CacheTtl - a[d]) \/ Crowded(c, d)

CacheInv ==
  /\ IsFiniteSet(DOMAIN seen) /\ Cardinality(DOMAIN seen) <= CacheMax
  /\ \A d \in Receipts : IsFiniteSet(crowd[d])
  /\ AsStamped(seen, admitted)
  /\ InTheCrowd(seen, crowd)
  /\ Kept(seen, admitted, crowd)

LEMMA CacheInit == Init => CacheInv
<1> SUFFICES ASSUME Init PROVE CacheInv
  OBVIOUS
<1>1. DOMAIN seen = {} /\ \A d \in Receipts : crowd[d] = {} /\ admitted[d] = CacheTtl
  BY DEF Init
<1>2. /\ IsFiniteSet(DOMAIN seen) /\ Cardinality(DOMAIN seen) <= CacheMax
      /\ \A d \in Receipts : IsFiniteSet(crowd[d])
  <2>1. CacheMax \in Nat
    BY GateAssumption
  <2>2. IsFiniteSet({}) /\ Cardinality({}) <= CacheMax
    BY <2>1, FS_EmptySet
  <2> QED BY <1>1, <2>2
<1> QED
  BY <1>1, <1>2, GateAssumption DEF CacheInv, AsStamped, InTheCrowd, Kept

LEMMA CacheTick ==
  ASSUME CallsTypeOK, CacheInv, Tick
  PROVE  CacheInv'
<1>0. CacheTtl \in Nat \ {0} /\ MaxLag \in Nat
  BY GateAssumption
<1>1. /\ crowd' = crowd /\ DOMAIN seen' = DOMAIN seen
      /\ \A d \in DOMAIN seen : /\ seen[d] \in Int /\ seen[d] >= -MaxLag
                                /\ seen'[d] = Greatest(seen[d] - 1, -MaxLag)
      /\ \A d \in Receipts : /\ admitted[d] \in 0..CacheTtl
                             /\ admitted'[d] = Least(admitted[d] + 1, CacheTtl)
      /\ DOMAIN seen \subseteq Receipts
  BY <1>0 DEF Tick, CallsTypeOK, Left
<1>2. AsStamped(seen, admitted)'
  BY <1>0, <1>1 DEF CacheInv, AsStamped, Greatest, Least
<1>3. InTheCrowd(seen, crowd)'
  BY <1>0, <1>1 DEF CacheInv, InTheCrowd, Greatest
<1>4. Kept(seen, admitted, crowd)'
  BY <1>0, <1>1 DEF CacheInv, Kept, Crowded, Greatest, Least
<1> QED BY <1>1, <1>2, <1>3, <1>4 DEF CacheInv

\* Pruning takes only entries whose time is over.
LEMMA CachePrune ==
  ASSUME CallsTypeOK, CacheInv, NEW k \in 0..MaxLag
  PROVE  /\ IsFiniteSet(DOMAIN Unexpired(k)) /\ Cardinality(DOMAIN Unexpired(k)) <= CacheMax
         /\ AsStamped(Unexpired(k), admitted)
         /\ InTheCrowd(Unexpired(k), crowd)
         /\ Kept(Unexpired(k), admitted, crowd)
<1>0. /\ CacheTtl \in Nat \ {0} /\ CacheMax \in Nat \ {0} /\ k \in Nat
      /\ \A d \in DOMAIN seen : seen[d] \in Int
      /\ \A d \in Receipts : admitted[d] \in 0..CacheTtl
  BY GateAssumption DEF CallsTypeOK, Left
<1>1. /\ DOMAIN Unexpired(k) = {d \in DOMAIN seen : ~(seen[d] <= -k)}
      /\ \A d \in DOMAIN Unexpired(k) : Unexpired(k)[d] = seen[d]
  BY Pruned DEF CallsTypeOK
<1>2. IsFiniteSet(DOMAIN Unexpired(k)) /\ Cardinality(DOMAIN Unexpired(k)) <= CacheMax
  <2>1. DOMAIN Unexpired(k) \in SUBSET DOMAIN seen
    BY <1>1
  <2>2. /\ IsFiniteSet(DOMAIN seen) /\ Cardinality(DOMAIN seen) <= CacheMax
    BY DEF CacheInv
  <2>3. /\ IsFiniteSet(DOMAIN Unexpired(k))
        /\ Cardinality(DOMAIN Unexpired(k)) <= Cardinality(DOMAIN seen)
    BY ONLY <2>1, <2>2, FS_Subset
  <2>4. Cardinality(DOMAIN Unexpired(k)) \in Nat /\ Cardinality(DOMAIN seen) \in Nat
    BY <2>2, <2>3, FS_CardinalityType
  <2> QED BY ONLY <1>0, <2>2, <2>3, <2>4
<1>3. AsStamped(Unexpired(k), admitted)
  BY <1>1 DEF CacheInv, AsStamped
<1>4. InTheCrowd(Unexpired(k), crowd)
  BY <1>1 DEF CacheInv, InTheCrowd
<1>5. ASSUME NEW d \in Receipts, admitted[d] < CacheTtl, ~Crowded(crowd, d)
      PROVE  d \in DOMAIN Unexpired(k) /\ Unexpired(k)[d] = CacheTtl - admitted[d]
  <2>1. d \in DOMAIN seen /\ seen[d] = CacheTtl - admitted[d]
    BY <1>5 DEF CacheInv, Kept
  <2>2. ~(seen[d] <= -k)
    BY <1>0, <1>5, <2>1
  <2> QED BY <1>1, <2>1, <2>2
<1>6. Kept(Unexpired(k), admitted, crowd)
  BY <1>5 DEF Kept
<1> QED BY <1>2, <1>3, <1>4, <1>6

\* Recording a receipt pushes one out, maybe its own, only when the cache is full
\* of receipts that expire no earlier.
LEMMA CacheRecord ==
  ASSUME CallsTypeOK, CacheInv, NEW x \in Receipts, NEW k \in 0..MaxLag, RecordSeen(x, k)
  PROVE  CacheInv'
<1> DEFINE U == Unexpired(k)
           E == With(Unexpired(k), x, CacheTtl - k)
<1>u. U = Unexpired(k) /\ E = With(Unexpired(k), x, CacheTtl - k)
  OBVIOUS
<1> HIDE DEF U, E
<1>0. /\ CacheTtl \in Nat \ {0} /\ CacheMax \in Nat \ {0} /\ k \in Nat
      /\ \A d \in DOMAIN seen : seen[d] \in Int
      /\ \A d \in Receipts : admitted[d] \in 0..CacheTtl
  BY GateAssumption DEF CallsTypeOK, Left
<1>1. /\ DOMAIN U = {d \in DOMAIN seen : ~(seen[d] <= -k)} /\ DOMAIN U \subseteq Receipts
      /\ \A d \in DOMAIN U : U[d] = seen[d]
      /\ x \notin DOMAIN U
  BY <1>u, Pruned DEF CallsTypeOK, RecordSeen
<1>2. /\ IsFiniteSet(DOMAIN U) /\ Cardinality(DOMAIN U) <= CacheMax
      /\ AsStamped(U, admitted) /\ InTheCrowd(U, crowd) /\ Kept(U, admitted, crowd)
  BY <1>u, CachePrune
<1>3. /\ E \in [DOMAIN E -> Left] /\ DOMAIN E = DOMAIN U \cup {x}
      /\ DOMAIN E \subseteq Receipts /\ E[x] = CacheTtl - k
      /\ \A d \in DOMAIN U : E[d] = seen[d]
  <2>1. /\ E \in [DOMAIN E -> Left] /\ DOMAIN E = DOMAIN Unexpired(k) \cup {x}
        /\ DOMAIN E \subseteq Receipts
        /\ E[x] = CacheTtl - k
        /\ \A d \in DOMAIN Unexpired(k) : d # x => E[d] = seen[d]
    <3>1. DOMAIN seen \subseteq Receipts /\ seen \in [DOMAIN seen -> Left]
      BY DEF CallsTypeOK
    <3>2. E = With(Unexpired(k), x, CacheTtl - k)
      BY <1>u
    <3> QED BY ONLY <3>1, <3>2, x \in Receipts, k \in 0..MaxLag, Recorded
  <2> QED BY <1>1, <1>u, <2>1
<1>4. /\ admitted'[x] = Least(k, CacheTtl)
      /\ crowd'[x] = {y \in DOMAIN U : seen[y] >= CacheTtl - k}
      /\ \A d \in Receipts \ {x} :
           /\ admitted'[d] = admitted[d]
           /\ crowd'[d] = IF k <= admitted[d] THEN crowd[d] \cup {x} ELSE crowd[d]
  BY <1>u DEF RecordSeen, CallsTypeOK
<1>5. /\ DOMAIN seen' \subseteq DOMAIN E
      /\ \A d \in DOMAIN seen' : seen'[d] = E[d]
      /\ \/ DOMAIN seen' = DOMAIN E /\ Cardinality(DOMAIN E) <= CacheMax
         \/ \E d \in DOMAIN E : /\ DOMAIN seen' = DOMAIN E \ {d}
                                /\ ~(Cardinality(DOMAIN E) <= CacheMax)
                                /\ \A y \in DOMAIN E : E[d] <= E[y]
  <2>1. seen' \in Evict(E)
    BY <1>u DEF RecordSeen
  <2>2. E \in [DOMAIN E -> Left]
    BY <1>3
  <2>3. DOMAIN seen' \subseteq DOMAIN E
    BY ONLY <2>1, <2>2, Evicted
  <2>4. \A d \in DOMAIN seen' : seen'[d] = E[d]
    BY ONLY <2>1, <2>2, Evicted
  <2>5. \/ DOMAIN seen' = DOMAIN E /\ Cardinality(DOMAIN E) <= CacheMax
        \/ \E d \in DOMAIN E : /\ DOMAIN seen' = DOMAIN E \ {d}
                               /\ ~(Cardinality(DOMAIN E) <= CacheMax)
                               /\ \A y \in DOMAIN E : E[d] <= E[y]
    BY ONLY <2>1, <2>2, Evicted
  <2> QED BY <2>3, <2>4, <2>5
<1>6. /\ IsFiniteSet(DOMAIN E) /\ Cardinality(DOMAIN E) \in Nat
      /\ Cardinality(DOMAIN E) <= CacheMax + 1
  <2>1. /\ IsFiniteSet(DOMAIN U \cup {x})
        /\ Cardinality(DOMAIN U \cup {x}) = Cardinality(DOMAIN U) + 1
        /\ Cardinality(DOMAIN U) \in Nat
    BY <1>1, <1>2, FS_AddElement, FS_CardinalityType
  <2> QED BY <1>0, <1>2, <1>3, <2>1
<1>7. \A d \in Receipts : IsFiniteSet(crowd'[d])
  <2>1. IsFiniteSet(crowd'[x])
    <3>1. crowd'[x] \in SUBSET DOMAIN U
      BY <1>4
    <3> QED BY <1>2, <3>1, FS_Subset
  <2>2. ASSUME NEW d \in Receipts \ {x} PROVE IsFiniteSet(crowd'[d])
    <3>1. IsFiniteSet(crowd[d]) /\ IsFiniteSet(crowd[d] \cup {x})
      BY FS_AddElement DEF CacheInv
    <3> QED BY <1>4, <3>1
  <2> QED BY <2>1, <2>2
<1>8. AsStamped(E, admitted')
  <2> SUFFICES ASSUME NEW d \in DOMAIN E, E[d] > 0 PROVE admitted'[d] = CacheTtl - E[d]
    BY DEF AsStamped
  <2>1. CASE d = x
    BY <1>0, <1>3, <1>4, <2>1 DEF Least
  <2>2. CASE d # x
    <3>1. d \in DOMAIN U /\ U[d] > 0 /\ E[d] = U[d] /\ d \in Receipts \ {x}
      BY <1>1, <1>3, <2>2
    <3> QED BY <1>2, <1>4, <3>1 DEF AsStamped
  <2> QED BY <2>1, <2>2
<1>9. InTheCrowd(E, crowd')
  <2> SUFFICES ASSUME NEW d \in DOMAIN E, NEW y \in DOMAIN E, d # y, E[d] > 0, E[y] >= E[d]
               PROVE  y \in crowd'[d]
    BY DEF InTheCrowd
  <2>1. CASE d = x
    <3>1. y \in DOMAIN U /\ seen[y] >= CacheTtl - k
      BY <1>3, <2>1
    <3> QED BY <1>4, <2>1, <3>1
  <2>2. CASE d # x /\ y = x
    <3>1. d \in DOMAIN U /\ U[d] > 0 /\ d \in Receipts \ {x} /\ CacheTtl - k >= U[d]
      BY <1>1, <1>3, <2>2
    <3>2. admitted[d] = CacheTtl - U[d] /\ U[d] \in Int
      BY <1>0, <1>1, <1>2, <3>1 DEF AsStamped
    <3>3. k <= admitted[d]
      BY <1>0, <3>1, <3>2
    <3> QED BY <1>4, <2>2, <3>1, <3>3
  <2>3. CASE d # x /\ y # x
    <3>1. /\ d \in DOMAIN U /\ y \in DOMAIN U /\ U[d] > 0 /\ U[y] >= U[d]
          /\ d \in Receipts \ {x}
      BY <1>1, <1>3, <2>3
    <3>2. y \in crowd[d]
      BY <1>2, <3>1 DEF InTheCrowd
    <3> QED BY <1>4, <3>1, <3>2
  <2> QED BY <2>1, <2>2, <2>3
<1>10. Kept(E, admitted', crowd')
  <2> SUFFICES ASSUME NEW d \in Receipts, admitted'[d] < CacheTtl, ~Crowded(crowd', d)
               PROVE  d \in DOMAIN E /\ E[d] = CacheTtl - admitted'[d]
    BY DEF Kept
  <2>1. CASE d = x
    BY <1>0, <1>3, <1>4, <2>1 DEF Least
  <2>2. CASE d # x
    <3>1. admitted[d] < CacheTtl /\ d \in Receipts \ {x} /\ admitted'[d] = admitted[d]
      BY <1>4, <2>2
    <3>2. ~Crowded(crowd, d)
      <4>1. /\ crowd[d] \in SUBSET crowd'[d] /\ IsFiniteSet(crowd'[d]) /\ IsFiniteSet(crowd[d])
        BY <1>4, <1>7, <3>1 DEF CacheInv
      <4>2. Cardinality(crowd[d]) <= Cardinality(crowd'[d])
        BY <4>1, FS_Subset
      <4>3. Cardinality(crowd[d]) \in Nat /\ Cardinality(crowd'[d]) \in Nat
        BY <4>1, FS_CardinalityType
      <4> QED BY <1>0, <4>2, <4>3 DEF Crowded
    <3>3. d \in DOMAIN U /\ U[d] = CacheTtl - admitted[d]
      BY <1>2, <3>1, <3>2 DEF Kept
    <3> QED BY <1>1, <1>3, <3>1, <3>3
  <2> QED BY <2>1, <2>2
<1>11. CASE DOMAIN seen' = DOMAIN E /\ Cardinality(DOMAIN E) <= CacheMax
  <2>1. AsStamped(seen', admitted')
    BY <1>5, <1>8, <1>11 DEF AsStamped
  <2>2. InTheCrowd(seen', crowd')
    BY <1>5, <1>9, <1>11 DEF InTheCrowd
  <2>3. Kept(seen', admitted', crowd')
    BY <1>5, <1>10, <1>11 DEF Kept
  <2> QED BY <1>6, <1>7, <1>11, <2>1, <2>2, <2>3 DEF CacheInv, AsStamped, InTheCrowd, Kept, Crowded
<1>12. ASSUME NEW e \in DOMAIN E, DOMAIN seen' = DOMAIN E \ {e},
              ~(Cardinality(DOMAIN E) <= CacheMax), \A y \in DOMAIN E : E[e] <= E[y]
       PROVE  CacheInv'
  <2>1. AsStamped(seen', admitted')
    BY <1>5, <1>8, <1>12 DEF AsStamped
  <2>2. InTheCrowd(seen', crowd')
    BY <1>5, <1>9, <1>12 DEF InTheCrowd
  <2>3. /\ IsFiniteSet(DOMAIN seen') /\ Cardinality(DOMAIN seen') = Cardinality(DOMAIN E) - 1
        /\ Cardinality(DOMAIN seen') <= CacheMax /\ Cardinality(DOMAIN seen') >= CacheMax
        /\ Cardinality(DOMAIN seen') \in Nat
    <3>1. /\ IsFiniteSet(DOMAIN E \ {e})
          /\ Cardinality(DOMAIN E \ {e}) = Cardinality(DOMAIN E) - 1
      BY <1>6, FS_RemoveElement
    <3>2. Cardinality(DOMAIN E \ {e}) \in Nat
      BY <3>1, FS_CardinalityType
    <3> QED BY <1>0, <1>6, <1>12, <3>1, <3>2
  <2>4. ASSUME E[e] > 0 PROVE Crowded(crowd', e)
    <3>1. e \in Receipts /\ \A y \in DOMAIN E : E[y] \in Int
      BY <1>3 DEF Left
    <3>2. DOMAIN seen' \in SUBSET crowd'[e]
      BY <1>9, <1>12, <2>4, <3>1 DEF InTheCrowd
    <3>3. IsFiniteSet(crowd'[e])
      BY <1>7, <3>1
    <3>4. Cardinality(DOMAIN seen') <= Cardinality(crowd'[e]) /\ Cardinality(crowd'[e]) \in Nat
      BY <3>2, <3>3, FS_Subset, FS_CardinalityType
    <3> QED BY <1>0, <2>3, <3>4 DEF Crowded
  <2>5. ASSUME NEW d \in Receipts, admitted'[d] < CacheTtl, ~Crowded(crowd', d)
        PROVE  d \in DOMAIN seen' /\ seen'[d] = CacheTtl - admitted'[d]
    <3>1. d \in DOMAIN E /\ E[d] = CacheTtl - admitted'[d]
      BY <1>10, <2>5 DEF Kept
    <3>2. E[d] > 0
      <4>1. admitted'[d] \in Int
        <5>1. CASE d = x
          BY <1>0, <1>4, <5>1 DEF Least
        <5>2. CASE d # x
          <6>1. admitted'[d] = admitted[d] /\ admitted[d] \in 0..CacheTtl
            BY <1>0, <1>4, <5>2
          <6> QED BY <1>0, <6>1
        <5> QED BY <5>1, <5>2
      <4> QED BY <1>0, <2>5, <3>1, <4>1
    <3>3. d # e
      BY <2>4, <2>5, <3>2
    <3> QED BY <1>5, <1>12, <3>1, <3>3
  <2>6. Kept(seen', admitted', crowd')
    BY <2>5 DEF Kept
  <2> QED BY <1>7, <2>1, <2>2, <2>3, <2>6 DEF CacheInv, AsStamped, InTheCrowd, Kept, Crowded
<1> QED BY <1>5, <1>11, <1>12

\* Only the clock, a recording and the discovery of a replay touch the cache.
LEMMA CacheStep ==
  ASSUME CallsTypeOK, CacheInv, [Next]_gateVars
  PROVE  CacheInv'
<1>1. ASSUME NEW w \in Workers, Record(w) PROVE CacheInv'
  <2>1. held[w] \in Receipts /\ lag[w] \in 0..MaxLag /\ RecordSeen(held[w], lag[w])
    BY <1>1 DEF Record, Stamped, CallsTypeOK
  <2> QED BY <2>1, CacheRecord
<1>2. ASSUME NEW w \in Workers, Replayed(w) PROVE CacheInv'
  <2>1. lag[w] \in 0..MaxLag /\ seen' = Unexpired(lag[w]) /\ UNCHANGED <<admitted, crowd>>
    BY <1>2 DEF Replayed, CallsTypeOK
  <2>2. /\ IsFiniteSet(DOMAIN seen') /\ Cardinality(DOMAIN seen') <= CacheMax
        /\ AsStamped(seen', admitted') /\ InTheCrowd(seen', crowd')
        /\ Kept(seen', admitted', crowd')
    BY <2>1, CachePrune
  <2> QED BY <2>1, <2>2 DEF CacheInv, AsStamped, InTheCrowd, Kept, Crowded
<1>3. ASSUME UNCHANGED <<seen, admitted, crowd>> PROVE CacheInv'
  BY <1>3 DEF CacheInv, AsStamped, InTheCrowd, Kept, Crowded
<1>4. ASSUME NEW w \in Workers,
             \/ Fail(w) \/ Reject(w) \/ Distrust(w) \/ Mismatch(w) \/ Accept(w)
             \/ \E d \in Receipts : Stamp(w, d)
             \/ \E q \in Requests : Refuse(w, q) \/ BreakContract(w, q) \/ Call(w, q)
      PROVE  UNCHANGED <<seen, admitted, crowd>>
  BY <1>4 DEF Fail, Reject, Distrust, Mismatch, Accept, Stamp, Refuse, BreakContract, Call, history
<1>5. CASE UNCHANGED gateVars
  BY <1>3, <1>5 DEF gateVars, history
<1> QED BY <1>1, <1>2, <1>3, <1>4, <1>5, CacheTick DEF Next, Return

LEMMA CacheInvariance == GateSpec => [](GateInv /\ CacheInv)
<1>1. Init => CacheInv
  BY CacheInit
<1>2. GateInv /\ CacheInv /\ [Next]_gateVars => CacheInv'
  BY CacheStep, TypeParts DEF GateInv
<1> QED BY <1>1, <1>2, GateInvariance, PTL DEF GateSpec

\* A receipt passes the replay cache again only when its time there has run out or
\* CacheMax others have passed that expire no earlier, for every delay between the
\* clock reading and the lock (_record_seen_receipt_digest,
\* _evict_seen_receipts_locked).
THEOREM ReplaySafety == GateSpec => NoEarlyReplay
<1>1. ASSUME GateInv, CacheInv, [Next]_gateVars,
             NEW w \in Workers, phase[w] = "stamped", phase'[w] = "recorded"
      PROVE  Record(w)
  <2>0. phase \in [Workers -> Phases]
    BY <1>1 DEF GateInv, GateTypeOK, Phases
  <2>1. ASSUME NEW v \in Workers, Record(v) PROVE v = w
    BY <1>1, <2>0, <2>1 DEF Record
  <2>2. ASSUME NEW v \in Workers, NEW a, NEW r, End(v, a, r) PROVE FALSE
    BY <1>1, <2>0, <2>2 DEF End
  <2>3. ASSUME NEW v \in Workers, NEW q \in Requests, Call(v, q) PROVE FALSE
    BY <1>1, <2>0, <2>3 DEF Call
  <2>4. ASSUME NEW v \in Workers, NEW d \in Receipts, Stamp(v, d) PROVE FALSE
    BY <1>1, <2>0, <2>4 DEF Stamp
  <2>5. CASE Tick \/ UNCHANGED gateVars
    BY <1>1, <2>5 DEF Tick, gateVars, calls
  <2> QED
    BY <1>1, <2>1, <2>2, <2>3, <2>4, <2>5
       DEF Next, Return, Refuse, BreakContract, Unavailable, Fail, Reject, Distrust, Replayed,
           Mismatch, Accept
<1>2. ASSUME GateInv, CacheInv, NEW w \in Workers, Record(w),
             admitted[held[w]] # CacheTtl, ~(Cardinality(crowd[held[w]]) >= CacheMax)
      PROVE  FALSE
  <2>1. /\ CallsTypeOK /\ held[w] \in Receipts /\ lag[w] \in 0..MaxLag
        /\ RecordSeen(held[w], lag[w])
    BY <1>2, TypeParts DEF GateInv, Record, Stamped, CallsTypeOK
  <2>2. admitted[held[w]] < CacheTtl
    <3>1. admitted[held[w]] \in 0..CacheTtl
      BY <2>1 DEF CallsTypeOK
    <3> QED BY <1>2, <3>1, GateAssumption
  <2>3. Kept(Unexpired(lag[w]), admitted, crowd)
    BY <1>2, <2>1, CachePrune
  <2>4. held[w] \in DOMAIN Unexpired(lag[w])
    BY <1>2, <2>1, <2>2, <2>3 DEF Kept, Crowded
  <2> QED BY <2>1, <2>4 DEF RecordSeen
<1>3. GateInv /\ CacheInv /\ [Next]_gateVars =>
        [\A w \in Workers : phase[w] = "stamped" /\ phase'[w] = "recorded" =>
           LET d == held[w] IN
           admitted[d] = CacheTtl \/ Cardinality(crowd[d]) >= CacheMax]_gateVars
  BY <1>1, <1>2
<1> QED BY <1>3, CacheInvariance, PTL DEF GateSpec, NoEarlyReplay
=============================================================================
