------------------------ MODULE EndpointHealthProofs ------------------------
(***************************************************************************)
(* Proofs about CooldownCurve, EndpointHealth and StatePersistence, for    *)
(* any endpoints, hosts, attempts, failures, durations and configurations, *)
(* and any number of saves, failed saves, crashes and restarts.            *)
(***************************************************************************)
EXTENDS StatePersistence, FiniteSetTheorems, TLAPS

----------------------------------------------------------------------------
(* What the backoff curves promise for every choice of durations. *)

(* The escalation never leaves 0..MaxCooldown, whatever it climbs from and  *)
(* however many failures there were (escalateCooldown).                     *)
LEMMA EscalationBounded ==
    ASSUME NEW base, NEW n
    PROVE  EscalateCooldown(base, n) \in 0..MaxCooldown
<1>1. MaxCooldown \in 0..MaxCooldown
    BY DurationsAssumption DEF Durations
<1> DEFINE d == Climb[base, n - 1]
<1>2. EscalateCooldown(base, n) = IF d \in 0..MaxCooldown THEN d ELSE MaxCooldown
    BY Zenon DEF EscalateCooldown
<1> HIDE DEF d
<1> QED
    BY <1>1, <1>2, Zenon

(* The first cooldown of every status is a duration (baseCooldownForError). *)
LEMMA BaseIsNat ==
    ASSUME NEW status \in Nat
    PROVE  BaseCooldown(status) \in Nat
BY DurationsAssumption DEF BaseCooldown, Durations

(* Soft and hard bans are durations (cooldownForError).                     *)
LEMMA PermanentIsNat ==
    ASSUME NEW base \in Nat, NEW n \in Nat
    PROVE  PermanentCooldown(base, n) \in Nat
BY DurationsAssumption DEF PermanentCooldown, Durations

(* Every failure, however often repeated, has a duration (cooldownForError). *)
LEMMA ClassifiedIsNat ==
    ASSUME NEW f \in FailureType, NEW n \in Nat
    PROVE  CooldownForError(f, n) \in Nat
<1>1. f.status \in Nat
    BY DEF FailureType
<1>2. BaseCooldown(f.status) \in Nat
    BY <1>1, BaseIsNat
<1>3. PermanentCooldown(BaseCooldown(f.status), n) \in Nat
    BY <1>2, PermanentIsNat
<1>4. EscalateCooldown(BaseCooldown(f.status), n) \in Nat
    BY EscalationBounded, DurationsAssumption DEF Durations
<1> QED
    BY <1>2, <1>3, <1>4 DEF CooldownForError

(* The same with the overrides of applyCooldown.                            *)
LEMMA DurationIsNat ==
    ASSUME NEW f \in FailureType, NEW n \in Nat
    PROVE  Duration(f, n) \in Nat
<1>1. \A base : EscalateCooldown(base, n) \in Nat
    BY EscalationBounded, DurationsAssumption DEF Durations
<1>2. ProtocolBan \in Nat
    BY DurationsAssumption DEF Durations
<1> QED
    BY <1>1, <1>2, ClassifiedIsNat DEF Duration

(* A share of a duration is a duration: the jitter never turns negative.    *)
LEMMA ShareIsNat ==
    ASSUME NEW d \in Nat
    PROVE  (d * JitterPercent) \div 100 \in Nat
<1>1. JitterPercent \in Nat
    BY CountAssumption
<1>2. d * JitterPercent \in Nat
    BY <1>1
<1> HIDE <1>1
<1> QED
    BY <1>2

(* What applyCooldown adds to the clock is a duration.                      *)
LEMMA BackoffIsNat ==
    ASSUME NEW f \in FailureType, NEW n \in Nat, NEW retryAfter \in Nat
    PROVE  Backoff(f, n, retryAfter) \in Nat
<1>1. Floored(f, n, retryAfter) \in Nat
    BY DurationIsNat DEF Floored
<1>2. (Floored(f, n, retryAfter) * JitterPercent) \div 100 \in Nat
    BY <1>1, ShareIsNat
<1> QED
    BY <1>1, <1>2 DEF Backoff

(* A transient failure can never disable an endpoint beyond the ceiling,    *)
(* whatever its status, base and error count: 429, 5xx and failures without *)
(* a response, except a 501 that refuses the protocol (cooldownForError,    *)
(* applyCooldown; maxCooldown "is what keeps a burst of rate limits from    *)
(* disabling a model for hours").                                           *)
THEOREM TransientCooldownBounded ==
    ASSUME NEW f \in FailureType, NEW n \in Nat,
           IsTransient(f), ~IsProtocolUnsupported(f)
    PROVE  Duration(f, n) <= MaxCooldown
<1>1. \A base : EscalateCooldown(base, n) <= MaxCooldown
    BY EscalationBounded, DurationsAssumption DEF Durations
<1>2. BaseCooldown(f.status) <= MaxCooldown
    BY TransientAssumption DEF BaseCooldown, IsTransient, IsServerError, FailureType
<1>3. CooldownForError(f, n) <= MaxCooldown
    BY <1>1, <1>2, DurationsAssumption DEF CooldownForError, Durations, FailureType,
       IsTransient, IsServerError, IsClientRequestError
<1> QED
    BY <1>1, <1>3 DEF Duration

(* A backoff is never shorter than the Retry-After that came with the       *)
(* failure, unless the request itself was at fault (applyCooldown).         *)
THEOREM RetryAfterFloorsOneFailure ==
    ASSUME NEW f \in FailureType, NEW n \in Nat, NEW retryAfter \in Nat,
           ~IsClientRequestError(f)
    PROVE  Backoff(f, n, retryAfter) >= retryAfter
<1>1. /\ Floored(f, n, retryAfter) \in Nat
      /\ Floored(f, n, retryAfter) >= retryAfter
    BY DurationIsNat DEF Floored
<1>2. (Floored(f, n, retryAfter) * JitterPercent) \div 100 \in Nat
    BY <1>1, ShareIsNat
<1> QED
    BY <1>1, <1>2 DEF Backoff

(* A repeated permanent-looking failure never cools an endpoint for less    *)
(* than its base: the 24 h soft ban does not shorten a 404's seven days     *)
(* (cooldownForError), as long as the hard ban is the longest of all.       *)
THEOREM PermanentNeverBelowBase ==
    ASSUME NEW base \in Nat, NEW n \in Nat, HardBan >= base
    PROVE  PermanentCooldown(base, n) >= base
BY DurationsAssumption DEF PermanentCooldown, Durations

----------------------------------------------------------------------------
(* What the helpers return. *)

(* ErrorCount never passes its cap and a failure always counts, at least up *)
(* to the cap (applyCooldown, PenalizeHost).                                *)
LEMMA OneMoreTyped ==
    ASSUME NEW n \in 0..ErrorCap
    PROVE  /\ OneMore(n) \in 0..ErrorCap
           /\ OneMore(n) < ErrorCap => n < ErrorCap /\ OneMore(n) = n + 1
           /\ OneMore(n) \in Nat
BY CountAssumption DEF OneMore

(* An attempt in flight names an endpoint.                                  *)
LEMMA InFlightHasEndpoint ==
    ASSUME TypeOK, NEW a \in Attempt, InFlight(a)
    PROVE  /\ attempt[a] \in [phase : {"sent"}, ep : Endpoint, probe : BOOLEAN]
           /\ attempt[a].ep \in Endpoint
           /\ HostOf[attempt[a].ep] \in Host
BY TopologyAssumption DEF TypeOK, InFlight, AttemptState, Idle

(* Admission leaves a well-formed circuit (isAvailableLocked).              *)
LEMMA AdmittedTyped ==
    ASSUME TypeOK, NEW e \in Endpoint
    PROVE  Admitted(e) \in Circuit
<1>1. circuit[e] \in Circuit
    BY DEF TypeOK
<1>2. NewWindow \in Circuit
    BY DurationsAssumption DEF NewWindow, Circuit, Durations
<1>3. [circuit[e] EXCEPT !.probesSent = @ + 1] \in Circuit
    BY <1>1 DEF Circuit
<1> QED
    BY <1>1, <1>2, <1>3 DEF Admitted

(* So does a failure (recordCircuitFailureLocked).                          *)
LEMMA FailedCircuitTyped ==
    ASSUME TypeOK, NEW e \in Endpoint, NEW f
    PROVE  FailedCircuit(e, f) \in Circuit
<1>1. circuit[e] \in Circuit
    BY DEF TypeOK
<1>2. 0 \in 0..(MaxCooldown + 1)
    BY DurationsAssumption DEF Durations
<1> QED
    BY <1>1, <1>2 DEF FailedCircuit, Circuit

(* Ending a window only takes marks away.                                   *)
LEMMA RetiredTyped ==
    ASSUME TypeOK, NEW e \in Endpoint
    PROVE  Retired(e) \in [Attempt -> AttemptState]
<1> SUFFICES ASSUME NEW a \in Attempt
             PROVE  (IF a \in Probes(e) THEN [attempt[a] EXCEPT !.probe = FALSE]
                                        ELSE attempt[a]) \in AttemptState
    BY DEF Retired
<1>1. attempt[a] \in AttemptState
    BY DEF TypeOK
<1>2. CASE a \in Probes(e)
    <2>1. attempt[a] \in [phase : {"sent"}, ep : Endpoint, probe : BOOLEAN]
        BY <1>2, InFlightHasEndpoint DEF Probes
    <2>2. [attempt[a] EXCEPT !.probe = FALSE]
              \in [phase : {"sent"}, ep : Endpoint, probe : BOOLEAN]
        BY <2>1
    <2> QED
        BY <1>2, <2>2 DEF AttemptState
<1>3. CASE a \notin Probes(e)
    BY <1>1, <1>3
<1> QED
    BY <1>2, <1>3

(* Beginning a window keeps every attempt well typed too.                    *)
LEMMA AfterAdmissionTyped ==
    ASSUME TypeOK, NEW e \in Endpoint
    PROVE  AfterAdmission(e) \in [Attempt -> AttemptState]
BY RetiredTyped DEF AfterAdmission, TypeOK

----------------------------------------------------------------------------
(* No step breaks a record's shape, in a router that saves its state too.   *)
LEMMA TypeStep == TypeOK /\ [Next]_vars => TypeOK'
<1> SUFFICES ASSUME TypeOK, [Next]_vars
             PROVE  TypeOK'
    OBVIOUS
<1>1. 0 \in 0..ErrorCap /\ 0 \in 0..(MaxCooldown + 1) /\ MaxCooldown \in Nat
    BY CountAssumption, DurationsAssumption DEF Durations
<1>2. NoBackoff \in Backing /\ Closed \in Circuit /\ Idle \in AttemptState
    BY <1>1 DEF NoBackoff, Backing, Closed, Circuit, AttemptState
<1>3. ASSUME NEW a \in Attempt, NEW e \in Endpoint, Dispatch(a, e)
      PROVE  TypeOK'
    <2>1. [phase |-> "sent", ep |-> e, probe |-> Admitted(e).state = "half-open"]
              \in AttemptState
        BY DEF AttemptState
    <2> QED
        BY <1>3, <2>1, AdmittedTyped, AfterAdmissionTyped DEF Dispatch, TypeOK
<1>4. ASSUME NEW e \in Endpoint, Inspect(e)
      PROVE  TypeOK'
    BY <1>4, AdmittedTyped, AfterAdmissionTyped DEF Inspect, TypeOK
<1>5. ASSUME NEW a \in Attempt, Succeed(a)
      PROVE  TypeOK'
    <2>1. attempt[a].ep \in Endpoint
        BY <1>5, InFlightHasEndpoint DEF Succeed
    <2> QED
        BY <1>5, <1>2, <2>1, RetiredTyped DEF Succeed, TypeOK
<1>6. ASSUME NEW a \in Attempt, NEW f \in Failure,
             NEW retryAfter \in RetryAfters, Fail(a, f, retryAfter)
      PROVE  TypeOK'
    <2> DEFINE e == attempt[a].ep
               n == OneMore(cooldown[e].errors)
    <2>1. e \in Endpoint
        BY <1>6, InFlightHasEndpoint DEF Fail
    <2>2. n \in 0..ErrorCap /\ n \in Nat
        BY <2>1, OneMoreTyped DEF TypeOK, Backing
    <2>3. Backoff(f, n, retryAfter) \in Nat
        BY <2>2, BackoffIsNat, FailureAssumption, ConfigAssumption
    <2>4. [left |-> Backoff(f, n, retryAfter), errors |-> n] \in Backing
        BY <2>2, <2>3 DEF Backing
    <2>5. cooldown' \in [Endpoint -> Backing]
        BY <1>6, <2>4 DEF Fail, TypeOK
    <2>6. circuit' \in [Endpoint -> Circuit]
        BY <1>6, <2>1, FailedCircuitTyped DEF Fail, TypeOK
    <2>7. attempt' \in [Attempt -> AttemptState]
        <3>1. [phase |-> "timedOut", ep |-> e, probe |-> FALSE] \in AttemptState
            BY <2>1 DEF AttemptState
        <3>2. PICK after \in {Idle, [phase |-> "timedOut", ep |-> e, probe |-> FALSE]} :
                  attempt' = [(IF FailedCircuit(e, f).state = "half-open"
                               THEN attempt ELSE Retired(e)) EXCEPT ![a] = after]
            BY <1>6 DEF Fail
        <3>3. after \in AttemptState
            BY <1>2, <3>1
        <3>4. (IF FailedCircuit(e, f).state = "half-open"
               THEN attempt ELSE Retired(e)) \in [Attempt -> AttemptState]
            BY <2>1, RetiredTyped DEF TypeOK
        <3> QED
            BY <3>2, <3>3, <3>4
    <2> QED
        BY <1>6, <2>5, <2>6, <2>7 DEF Fail, TypeOK
<1>7. ASSUME NEW a \in Attempt, PenalizeHost(a)
      PROVE  TypeOK'
    <2> DEFINE h == HostOf[attempt[a].ep]
               n == OneMore(host[h].errors)
    <2>1. h \in Host
        BY <1>7, TopologyAssumption DEF PenalizeHost, TypeOK, AttemptState, Idle
    <2>2. n \in 0..ErrorCap
        BY <2>1, OneMoreTyped DEF TypeOK, Backing
    <2>3. EscalateCooldown(TimeoutBase, n) \in Nat
        BY <1>1, EscalationBounded
    <2>4. [left |-> EscalateCooldown(TimeoutBase, n), errors |-> n] \in Backing
        BY <2>2, <2>3 DEF Backing
    <2> QED
        BY <1>7, <1>2, <2>4 DEF PenalizeHost, TypeOK
<1>8. ASSUME NEW a \in Attempt, Abandon(a)
      PROVE  TypeOK'
    BY <1>8, <1>2 DEF Abandon, TypeOK
<1>9. ASSUME NEW e \in Endpoint, ClearCooldown(e)
      PROVE  TypeOK'
    BY <1>9, <1>2, RetiredTyped DEF ClearCooldown, TypeOK
<1>10. ASSUME ClearAllCooldowns
       PROVE  TypeOK'
    <2>1. ASSUME NEW a \in Attempt, InFlight(a)
          PROVE  [attempt[a] EXCEPT !.probe = FALSE] \in AttemptState
        BY <2>1, InFlightHasEndpoint DEF AttemptState
    <2>2. attempt' \in [Attempt -> AttemptState]
        BY <1>10, <2>1 DEF ClearAllCooldowns, TypeOK
    <2> QED
        BY <1>10, <1>2, <2>2 DEF ClearAllCooldowns, TypeOK
<1>11. ASSUME NEW n \in Thresholds, SetCircuitBreakerThreshold(n)
       PROVE  TypeOK'
    BY <1>11 DEF SetCircuitBreakerThreshold, TypeOK
<1>12. ASSUME NEW n \in ProbeBudgets, SetCircuitHalfOpenProbes(n)
       PROVE  TypeOK'
    BY <1>12 DEF SetCircuitHalfOpenProbes, TypeOK
<1>13. ASSUME SweepHosts
       PROVE  TypeOK'
    BY <1>13, <1>2 DEF SweepHosts, TypeOK
<1>14. ASSUME Tick
       PROVE  TypeOK'
    <2>1. \A b \in Backing : Elapsed(b) \in Backing
        BY DEF Elapsed, Backing
    <2>2. \A cb \in Circuit : Aged(cb) \in Circuit
        BY <1>1 DEF Aged, Circuit
    <2> QED
        BY <1>14, <2>1, <2>2 DEF Tick, TypeOK
<1>15. CASE UNCHANGED vars
    BY <1>15 DEF vars, TypeOK
<1> QED
    BY <1>3, <1>4, <1>5, <1>6, <1>7, <1>8, <1>9, <1>10, <1>11, <1>12,
       <1>13, <1>14, <1>15 DEF Next, Select, Outcome, Administer

(* Every record keeps its shape and every count its bounds, for every       *)
(* choice of the constants.                                                 *)
THEOREM TypeCorrect == Spec => []TypeOK
<1>1. Init => TypeOK
    <2>1. 0 \in 0..ErrorCap /\ 0 \in 0..(MaxCooldown + 1)
        BY CountAssumption, DurationsAssumption DEF Durations
    <2>2. NoBackoff \in Backing /\ Closed \in Circuit /\ Idle \in AttemptState
        BY <2>1 DEF NoBackoff, Backing, Closed, Circuit, AttemptState
    <2> QED
        BY <2>2 DEF Init, TypeOK
<1>2. TypeOK /\ [Next]_vars => TypeOK'
    BY TypeStep
<1> QED
    BY <1>1, <1>2, PTL DEF Spec

----------------------------------------------------------------------------
(* Only an admission makes a circuit half-open, and one that was open is    *)
(* admitted only when its cooldown is over; a failure ends the window.      *)
LEMMA WindowStep ==
    TypeOK /\ HalfOpenNeverCooling /\ [Next]_vars => HalfOpenNeverCooling'
<1> SUFFICES ASSUME TypeOK, HalfOpenNeverCooling, [Next]_vars, 0 \notin Thresholds,
                    NEW x \in Endpoint, HalfOpen(x)'
             PROVE  ~Cooling(x)'
    BY DEF HalfOpenNeverCooling
<1>1. HalfOpen(x) => cooldown[x].left = 0
    BY DEF HalfOpenNeverCooling, Cooling, TypeOK, Backing
<1>2. threshold # 0
    BY DEF TypeOK
<1>3. \A e \in Endpoint : Available(e) => HalfOpen(e) \/ ~Cooling(e)
    BY DEF Available
<1>4. ASSUME NEW a \in Attempt, NEW e \in Endpoint, Dispatch(a, e)
      PROVE  ~Cooling(x)'
    <2>1. x = e \/ HalfOpen(x)
        BY <1>4 DEF Dispatch, HalfOpen, TypeOK
    <2> QED
        BY <1>4, <1>1, <1>3, <2>1 DEF Dispatch, Cooling
<1>5. ASSUME NEW e \in Endpoint, Inspect(e)
      PROVE  ~Cooling(x)'
    <2>1. x = e \/ HalfOpen(x)
        BY <1>5 DEF Inspect, HalfOpen, TypeOK
    <2> QED
        BY <1>5, <1>1, <1>3, <2>1 DEF Inspect, Cooling
<1>6. ASSUME NEW a \in Attempt, Succeed(a)
      PROVE  ~Cooling(x)'
    BY <1>6, <1>1 DEF Succeed, HalfOpen, Closed, Cooling, TypeOK
<1>7. ASSUME NEW a \in Attempt, NEW f \in Failure,
             NEW retryAfter \in RetryAfters, Fail(a, f, retryAfter)
      PROVE  ~Cooling(x)'
    <2> DEFINE e == attempt[a].ep
    <2>1. e \in Endpoint
        BY <1>7, InFlightHasEndpoint DEF Fail
    <2>2. FailedCircuit(e, f).state # "half-open"
        BY <1>2 DEF FailedCircuit, Reopens, HalfOpen
    <2>3. x # e /\ HalfOpen(x)
        BY <1>7, <2>1, <2>2 DEF Fail, HalfOpen, TypeOK
    <2> QED
        BY <1>7, <1>1, <2>3 DEF Fail, Cooling, TypeOK
<1>8. ASSUME NEW e \in Endpoint, ClearCooldown(e)
      PROVE  ~Cooling(x)'
    BY <1>8, <1>1 DEF ClearCooldown, HalfOpen, Closed, Cooling, TypeOK
<1>9. CASE ClearAllCooldowns
    BY <1>9 DEF ClearAllCooldowns, HalfOpen, Closed
<1>10. CASE Tick
    <2>1. circuit[x].state = circuit'[x].state
        BY <1>10 DEF Tick, Aged, TypeOK, Circuit
    <2>2. cooldown[x].left = 0
        BY <1>1, <2>1 DEF HalfOpen
    <2> QED
        BY <1>10, <2>2 DEF Tick, Elapsed, Cooling, TypeOK, Backing
<1>11. ASSUME UNCHANGED <<cooldown, circuit>>
       PROVE  ~Cooling(x)'
    BY <1>11, <1>1 DEF HalfOpen, Cooling
<1> QED
    BY <1>4, <1>5, <1>6, <1>7, <1>8, <1>9, <1>10, <1>11
       DEF Next, Select, Outcome, Administer, PenalizeHost, Abandon,
           SetCircuitBreakerThreshold, SetCircuitHalfOpenProbes, SweepHosts, vars

(* A probe is never sent to an endpoint that is still backing off, as long  *)
(* as the configuration never disables the breaker (HalfOpenNeverCooling).  *)
THEOREM NoProbeWhileCooling == Spec => []HalfOpenNeverCooling
<1>1. Init => HalfOpenNeverCooling
    BY DEF Init, HalfOpenNeverCooling, HalfOpen, Closed
<1>2. TypeOK /\ HalfOpenNeverCooling /\ [Next]_vars => HalfOpenNeverCooling'
    BY WindowStep
<1> QED
    BY <1>1, <1>2, TypeCorrect, PTL DEF Spec

----------------------------------------------------------------------------
(* No endpoint is held back by its circuit unless it failed a configured    *)
(* threshold of times since its last success, and a closed circuit never    *)
(* counts more than ErrorCount (TrippedMeansFailing).  The second half is   *)
(* what makes the first one inductive: the step that trips compares the     *)
(* breaker's count, not ErrorCount, with the threshold.                     *)
THEOREM TrippedCircuitsFailed == Spec => []TrippedMeansFailing
<1> DEFINE Held(errors, cb) ==
        errors < ErrorCap =>
            IF cb.state = "closed" THEN cb.probesSent <= errors
            ELSE \E n \in Thresholds \ {0} : errors >= n
<1>1. Init => TrippedMeansFailing
    BY DEF Init, TrippedMeansFailing, NoBackoff, Closed
<1>2. TypeOK /\ TrippedMeansFailing /\ [Next]_vars => TrippedMeansFailing'
    <2> SUFFICES ASSUME TypeOK, TrippedMeansFailing, [Next]_vars,
                        NEW x \in Endpoint
                 PROVE  Held(cooldown'[x].errors, circuit'[x])
        BY DEF TrippedMeansFailing
    <2>1. Held(cooldown[x].errors, circuit[x])
        BY DEF TrippedMeansFailing
    <2>2. Held(NoBackoff.errors, Closed)
        BY DEF NoBackoff, Closed
    <2>3. ASSUME NEW e \in Endpoint, UNCHANGED cooldown,
                 circuit' = [circuit EXCEPT ![e] = Admitted(e)]
          PROVE  Held(cooldown'[x].errors, circuit'[x])
        <3>1. circuit[e].state = "closed" => Admitted(e) = circuit[e]
            BY DEF Admitted, BeginsWindow, HalfOpen
        <3>2. circuit[e].state # "closed" => Admitted(e).state # "closed"
            <4>1. circuit[e].state = "half-open" =>
                      [circuit[e] EXCEPT !.probesSent = @ + 1].state = "half-open"
                BY DEF TypeOK, Circuit
            <4> QED
                BY <4>1 DEF Admitted, BeginsWindow, HalfOpen, NewWindow, TypeOK, Circuit
        <3> QED
            BY <2>1, <2>3, <3>1, <3>2 DEF TypeOK
    <2>4. ASSUME NEW a \in Attempt, Succeed(a)
          PROVE  Held(cooldown'[x].errors, circuit'[x])
        BY <2>4, <2>1, <2>2 DEF Succeed, TypeOK
    <2>5. ASSUME NEW a \in Attempt, NEW f \in Failure,
                 NEW retryAfter \in RetryAfters, Fail(a, f, retryAfter)
          PROVE  Held(cooldown'[x].errors, circuit'[x])
        <3> DEFINE e == attempt[a].ep
                   was == cooldown[e].errors
                   n == OneMore(was)
        <3>1. e \in Endpoint
            BY <2>5, InFlightHasEndpoint DEF Fail
        <3>2. was \in 0..ErrorCap /\ circuit[e] \in Circuit /\ threshold \in Thresholds
            BY <3>1 DEF TypeOK, Backing
        <3>3. n < ErrorCap => was < ErrorCap /\ n = was + 1
            BY <3>2, OneMoreTyped
        <3>4. Held(was, circuit[e])
            BY <3>1 DEF TrippedMeansFailing
        <3>5. Held(n, FailedCircuit(e, f))
            <4> SUFFICES ASSUME n < ErrorCap
                         PROVE  IF FailedCircuit(e, f).state = "closed"
                                THEN FailedCircuit(e, f).probesSent <= n
                                ELSE \E m \in Thresholds \ {0} : n >= m
                OBVIOUS
            <4>1. IF circuit[e].state = "closed" THEN circuit[e].probesSent <= was
                  ELSE \E m \in Thresholds \ {0} : was >= m
                BY <3>3, <3>4
            <4>2. CASE circuit[e].state = "closed"
                BY <4>1, <4>2, <3>2, <3>3, ConfigAssumption
                   DEF FailedCircuit, Reopens, HalfOpen, Circuit
            <4>3. CASE circuit[e].state # "closed"
                <5>1. FailedCircuit(e, f).state # "closed"
                    BY <4>3 DEF FailedCircuit, Reopens
                <5>2. PICK m \in Thresholds \ {0} : was >= m
                    BY <4>1, <4>3
                <5>3. n >= m
                    BY <5>2, <3>2, <3>3, ConfigAssumption
                <5> QED
                    BY <5>1, <5>2, <5>3
            <4> QED
                BY <4>2, <4>3
        <3>6. x = e => cooldown'[x].errors = n /\ circuit'[x] = FailedCircuit(e, f)
            BY <2>5 DEF Fail, TypeOK
        <3>7. x # e => cooldown'[x] = cooldown[x] /\ circuit'[x] = circuit[x]
            BY <2>5 DEF Fail, TypeOK
        <3> QED
            BY <2>1, <3>5, <3>6, <3>7
    <2>6. ASSUME NEW e \in Endpoint, ClearCooldown(e)
          PROVE  Held(cooldown'[x].errors, circuit'[x])
        BY <2>6, <2>1, <2>2 DEF ClearCooldown, TypeOK
    <2>7. CASE ClearAllCooldowns
        BY <2>7, <2>2 DEF ClearAllCooldowns
    <2>8. CASE Tick
        <3>1. cooldown'[x].errors = cooldown[x].errors
            BY <2>8 DEF Tick, Elapsed, TypeOK, Backing
        <3>2. circuit'[x].state = circuit[x].state
              /\ circuit'[x].probesSent = circuit[x].probesSent
            BY <2>8 DEF Tick, Aged, TypeOK, Circuit
        <3> QED
            BY <2>1, <3>1, <3>2
    <2>9. ASSUME UNCHANGED <<cooldown, circuit>>
          PROVE  Held(cooldown'[x].errors, circuit'[x])
        BY <2>9, <2>1
    <2> QED
        BY <2>3, <2>4, <2>5, <2>6, <2>7, <2>8, <2>9
           DEF Next, Select, Outcome, Administer, Dispatch, Inspect, PenalizeHost,
               Abandon, SetCircuitBreakerThreshold, SetCircuitHalfOpenProbes,
               SweepHosts, vars
<1> QED
    BY <1>1, <1>2, TypeCorrect, PTL DEF Spec

----------------------------------------------------------------------------
(* A window's probes are counted before they are sent (isAvailableLocked).  *)

(* The probes in flight of an endpoint are finitely many, and losing some   *)
(* of them leaves no more.                                                  *)
LEMMA FewerProbes ==
    ASSUME NEW e \in Endpoint, NEW S, S \subseteq Probes(e)
    PROVE  /\ Cardinality(S) \in Nat /\ Cardinality(Probes(e)) \in Nat
           /\ Cardinality(S) <= Cardinality(Probes(e))
<1>1. IsFiniteSet(Probes(e))
    BY AttemptAssumption, FS_Subset DEF Probes
<1> QED
    BY <1>1, FS_Subset, FS_CardinalityType

(* One more probe in flight is at most one more.                            *)
LEMMA OneMoreProbe ==
    ASSUME NEW e \in Endpoint, NEW a \in Attempt, NEW S,
           S \subseteq Probes(e) \cup {a}
    PROVE  /\ Cardinality(S) \in Nat /\ Cardinality(Probes(e)) \in Nat
           /\ Cardinality(S) <= Cardinality(Probes(e)) + 1
<1>1. IsFiniteSet(Probes(e))
    BY AttemptAssumption, FS_Subset DEF Probes
<1>2. /\ IsFiniteSet(Probes(e) \cup {a})
      /\ Cardinality(Probes(e) \cup {a}) \in
             {Cardinality(Probes(e)), Cardinality(Probes(e)) + 1}
    BY <1>1, FS_AddElement
<1>3. Cardinality(S) <= Cardinality(Probes(e) \cup {a})
    BY <1>2, FS_Subset
<1>4. /\ Cardinality(S) \in Nat /\ Cardinality(Probes(e)) \in Nat
      /\ Cardinality(Probes(e) \cup {a}) \in Nat
    BY <1>1, <1>2, FS_Subset, FS_CardinalityType
<1> QED
    BY <1>2, <1>3, <1>4

(* A single probe in flight counts one.                                     *)
LEMMA OnlyProbe ==
    ASSUME NEW a, NEW S, S \subseteq {a}
    PROVE  Cardinality(S) \in Nat /\ Cardinality(S) <= 1
<1>1. S = {} \/ S = {a}
    OBVIOUS
<1> QED
    BY <1>1, FS_EmptySet, FS_Singleton

(* Nothing a window can spend exceeds the budget it was admitted against,   *)
(* and every probe in flight was charged to it (ProbesArePaidFor): true at  *)
(* every admission, and an outcome either ends the window or only takes a   *)
(* probe away.                                                              *)
THEOREM NoUnpaidProbe == Spec => []ProbesArePaidFor
<1> DEFINE Paid(S, cb) ==
        cb.state = "half-open" =>
            /\ Cardinality(S) <= cb.probesSent
            /\ \E n \in ProbeBudgets : cb.probesSent <= n
<1>1. Init => ProbesArePaidFor
    BY DEF Init, ProbesArePaidFor, HalfOpen, Closed
<1>2. TypeOK /\ ProbesArePaidFor /\ [Next]_vars => ProbesArePaidFor'
    <2> SUFFICES ASSUME TypeOK, ProbesArePaidFor, [Next]_vars, NEW x \in Endpoint
                 PROVE  Paid(Probes(x)', circuit'[x])
        BY DEF ProbesArePaidFor, HalfOpen
    <2>1. Paid(Probes(x), circuit[x]) /\ circuit[x] \in Circuit
        BY DEF ProbesArePaidFor, HalfOpen, TypeOK
    \* A step that gives x no new probe and no new count.
    <2>2. ASSUME Probes(x)' \subseteq Probes(x),
                 circuit'[x].state = "half-open" =>
                     /\ circuit[x].state = "half-open"
                     /\ circuit'[x].probesSent = circuit[x].probesSent
          PROVE  Paid(Probes(x)', circuit'[x])
        <3> SUFFICES ASSUME circuit'[x].state = "half-open"
                     PROVE  /\ Cardinality(Probes(x)') <= circuit'[x].probesSent
                            /\ \E n \in ProbeBudgets : circuit'[x].probesSent <= n
            OBVIOUS
        <3>1. /\ Cardinality(Probes(x)) <= circuit[x].probesSent
              /\ \E n \in ProbeBudgets : circuit[x].probesSent <= n
              /\ circuit'[x].probesSent = circuit[x].probesSent
              /\ circuit[x].probesSent \in Nat
            BY <2>1, <2>2 DEF Circuit
        <3>2. /\ Cardinality(Probes(x)') \in Nat /\ Cardinality(Probes(x)) \in Nat
              /\ Cardinality(Probes(x)') <= Cardinality(Probes(x))
            BY <2>2, FewerProbes
        <3> QED
            BY <3>1, <3>2
    <2>3. \A e \in Endpoint, a \in Attempt :
              /\ Retired(e)[a] # attempt[a] => a \in Probes(e)
              /\ a \in Probes(e) => ~Retired(e)[a].probe
        <3> TAKE e \in Endpoint, a \in Attempt
        <3>1. Retired(e)[a] = IF a \in Probes(e)
                              THEN [attempt[a] EXCEPT !.probe = FALSE] ELSE attempt[a]
            BY DEF Retired
        <3>2. a \in Probes(e) =>
                  attempt[a] \in [phase : {"sent"}, ep : Endpoint, probe : BOOLEAN]
            BY InFlightHasEndpoint DEF Probes
        <3> QED
            BY <3>1, <3>2
    <2> DEFINE Sent(b) == attempt'[b].phase = "sent"
                          /\ attempt'[b].ep = x /\ attempt'[b].probe
    <2>4. Probes(x)' = {b \in Attempt : Sent(b)}
        BY DEF Probes, InFlight
    <2>5. \A e \in Endpoint, b \in Attempt :
              attempt'[b] \in {attempt[b], Retired(e)[b]} /\ Sent(b) =>
                  b \in Probes(x) /\ attempt'[b] = attempt[b]
        BY <2>3 DEF Probes, InFlight
    <2>6. \A b \in Attempt : attempt'[b] = Retired(x)[b] => ~Sent(b)
        BY <2>3, <2>5
    <2> HIDE DEF Sent
    <2>7. ASSUME NEW a \in Attempt, NEW e \in Endpoint, Dispatch(a, e)
          PROVE  Paid(Probes(x)', circuit'[x])
        <3>1. \A b \in Attempt \ {a} : attempt'[b] = AfterAdmission(e)[b]
            BY <2>7, AfterAdmissionTyped DEF Dispatch
        <3>2. \A b \in Attempt \ {a} : Sent(b) => b \in Probes(x)
            BY <3>1, <2>5 DEF AfterAdmission
        <3>3. attempt'[a].ep = e
            BY <2>7, AfterAdmissionTyped DEF Dispatch
        <3>4. CASE x # e
            <4>1. ~Sent(a)
                BY <3>3, <3>4 DEF Sent
            <4>2. circuit'[x] = circuit[x]
                BY <2>7, <3>4 DEF Dispatch, TypeOK
            <4> QED
                BY <4>1, <4>2, <3>2, <2>2, <2>4
        <3>5. CASE x = e /\ BeginsWindow(e)
            <4>1. circuit'[x] = NewWindow
                BY <2>7, <3>5 DEF Dispatch, Admitted, TypeOK
            <4>2. \A b \in Attempt \ {a} : ~Sent(b)
                BY <3>1, <3>5, <2>6 DEF AfterAdmission
            <4>3. Probes(x)' \subseteq {a}
                BY <4>2, <2>4
            <4>4. probeBudget \in ProbeBudgets /\ 1 <= probeBudget
                BY ConfigAssumption DEF TypeOK
            <4> QED
                BY <4>1, <4>3, <4>4, OnlyProbe DEF NewWindow
        <3>6. CASE x = e /\ ~BeginsWindow(e) /\ HalfOpen(e)
            <4>1. circuit'[x] = [circuit[x] EXCEPT !.probesSent = @ + 1]
                BY <2>7, <3>6 DEF Dispatch, Admitted, TypeOK
            <4>2. circuit'[x].probesSent = circuit[x].probesSent + 1
                BY <4>1, <2>1 DEF Circuit
            <4>3. circuit[x].probesSent \in Nat /\ circuit[x].probesSent < probeBudget
                BY <2>7, <2>1, <3>6 DEF Dispatch, Available, BeginsWindow, Circuit
            <4>4. probeBudget \in ProbeBudgets /\ probeBudget \in Nat
                BY ConfigAssumption DEF TypeOK
            <4>5. Probes(x)' \subseteq Probes(x) \cup {a}
                BY <3>2, <2>4
            <4>6. /\ Cardinality(Probes(x)') \in Nat /\ Cardinality(Probes(x)) \in Nat
                  /\ Cardinality(Probes(x)') <= Cardinality(Probes(x)) + 1
                BY <4>5, OneMoreProbe
            <4>7. Cardinality(Probes(x)) <= circuit[x].probesSent
                BY <2>1, <3>6 DEF HalfOpen
            <4> QED
                BY <4>2, <4>3, <4>4, <4>6, <4>7
        <3>7. CASE x = e /\ ~BeginsWindow(e) /\ ~HalfOpen(e)
            BY <2>7, <3>7 DEF Dispatch, Admitted, HalfOpen, TypeOK
        <3> QED
            BY <3>4, <3>5, <3>6, <3>7
    <2>8. ASSUME NEW e \in Endpoint, Inspect(e)
          PROVE  Paid(Probes(x)', circuit'[x])
        <3>1. \A b \in Attempt : attempt'[b] = AfterAdmission(e)[b]
            BY <2>8 DEF Inspect
        <3>2. Probes(x)' \subseteq Probes(x)
            BY <3>1, <2>4, <2>5 DEF AfterAdmission
        <3>3. CASE x # e
            BY <2>8, <3>2, <3>3, <2>2 DEF Inspect, TypeOK
        <3>4. CASE x = e /\ BeginsWindow(e)
            <4>1. circuit'[x] = NewWindow
                BY <2>8, <3>4 DEF Inspect, Admitted, TypeOK
            <4>2. Probes(x)' = {}
                BY <3>1, <3>4, <2>4, <2>6 DEF AfterAdmission
            <4>3. probeBudget \in ProbeBudgets /\ 1 <= probeBudget
                BY ConfigAssumption DEF TypeOK
            <4> QED
                BY <4>1, <4>2, <4>3, FS_EmptySet DEF NewWindow
        <3>5. CASE x = e /\ ~BeginsWindow(e) /\ HalfOpen(e)
            <4>1. circuit'[x] = [circuit[x] EXCEPT !.probesSent = @ + 1]
                BY <2>8, <3>5 DEF Inspect, Admitted, TypeOK
            <4>2. circuit'[x].probesSent = circuit[x].probesSent + 1
                BY <4>1, <2>1 DEF Circuit
            <4>3. circuit[x].probesSent \in Nat /\ circuit[x].probesSent < probeBudget
                BY <2>8, <2>1, <3>5 DEF Inspect, Available, BeginsWindow, Circuit
            <4>4. probeBudget \in ProbeBudgets /\ probeBudget \in Nat
                BY ConfigAssumption DEF TypeOK
            <4>5. /\ Cardinality(Probes(x)') \in Nat /\ Cardinality(Probes(x)) \in Nat
                  /\ Cardinality(Probes(x)') <= Cardinality(Probes(x))
                BY <3>2, FewerProbes
            <4>6. Cardinality(Probes(x)) <= circuit[x].probesSent
                BY <2>1, <3>5 DEF HalfOpen
            <4> QED
                BY <4>2, <4>3, <4>4, <4>5, <4>6
        <3>6. CASE x = e /\ ~BeginsWindow(e) /\ ~HalfOpen(e)
            BY <2>8, <3>6 DEF Inspect, Admitted, HalfOpen, TypeOK
        <3> QED
            BY <3>3, <3>4, <3>5, <3>6
    <2>9. ASSUME NEW a \in Attempt, Succeed(a)
          PROVE  Paid(Probes(x)', circuit'[x])
        <3> DEFINE e == attempt[a].ep
        <3>1. e \in Endpoint
            BY <2>9, InFlightHasEndpoint DEF Succeed
        <3>2. \A b \in Attempt \ {a} : attempt'[b] = Retired(e)[b]
            BY <2>9, <3>1, RetiredTyped DEF Succeed
        <3>3. ~Sent(a)
            BY <2>9, <3>1, RetiredTyped DEF Succeed, Sent, Idle
        <3>4. Probes(x)' \subseteq Probes(x)
            BY <3>1, <3>2, <3>3, <2>4, <2>5
        <3> QED
            BY <2>9, <3>4, <2>2 DEF Succeed, Closed, TypeOK
    <2>10. ASSUME NEW a \in Attempt, NEW f \in Failure,
                  NEW retryAfter \in RetryAfters, Fail(a, f, retryAfter)
           PROVE  Paid(Probes(x)', circuit'[x])
        <3> DEFINE e == attempt[a].ep
                   before == IF FailedCircuit(e, f).state = "half-open"
                             THEN attempt ELSE Retired(e)
        <3>1. e \in Endpoint
            BY <2>10, InFlightHasEndpoint DEF Fail
        <3>2. before \in [Attempt -> AttemptState]
            BY <3>1, RetiredTyped DEF TypeOK
        <3>3. PICK after \in {Idle, [phase |-> "timedOut", ep |-> e, probe |-> FALSE]} :
                  attempt' = [before EXCEPT ![a] = after]
            BY <2>10 DEF Fail
        <3>4. ~Sent(a)
            BY <3>2, <3>3 DEF Sent, Idle
        <3>5. \A b \in Attempt \ {a} : attempt'[b] \in {attempt[b], Retired(e)[b]}
            BY <3>2, <3>3
        <3>6. Probes(x)' \subseteq Probes(x)
            BY <3>1, <3>4, <3>5, <2>4, <2>5
        <3>7. FailedCircuit(e, f).state = "half-open" => FailedCircuit(e, f) = circuit[e]
            BY DEF FailedCircuit, Reopens, HalfOpen
        <3> QED
            BY <2>10, <3>1, <3>6, <3>7, <2>2 DEF Fail, TypeOK
    <2>11. ASSUME NEW a \in Attempt, PenalizeHost(a) \/ Abandon(a)
           PROVE  Paid(Probes(x)', circuit'[x])
        <3>1. ~Sent(a)
            BY <2>11 DEF PenalizeHost, Abandon, Sent, Idle, TypeOK
        <3>2. \A b \in Attempt \ {a} : attempt'[b] = attempt[b]
            BY <2>11 DEF PenalizeHost, Abandon, TypeOK
        <3>3. Probes(x)' \subseteq Probes(x)
            BY <3>1, <3>2, <2>4, <2>5
        <3> QED
            BY <2>11, <3>3, <2>2 DEF PenalizeHost, Abandon
    <2>12. ASSUME NEW e \in Endpoint, ClearCooldown(e)
           PROVE  Paid(Probes(x)', circuit'[x])
        <3>1. Probes(x)' \subseteq Probes(x)
            BY <2>12, <2>4, <2>5 DEF ClearCooldown
        <3> QED
            BY <2>12, <3>1, <2>2 DEF ClearCooldown, Closed, TypeOK
    <2>13. CASE ClearAllCooldowns
        BY <2>13 DEF ClearAllCooldowns, Closed
    <2>14. CASE Tick
        <3>1. Probes(x)' \subseteq Probes(x)
            BY <2>14, <2>4, <2>5 DEF Tick
        <3>2. circuit'[x].state = circuit[x].state
              /\ circuit'[x].probesSent = circuit[x].probesSent
            BY <2>14, <2>1 DEF Tick, Aged, TypeOK, Circuit
        <3> QED
            BY <3>1, <3>2, <2>2
    <2>15. ASSUME UNCHANGED <<circuit, attempt>>
           PROVE  Paid(Probes(x)', circuit'[x])
        BY <2>15, <2>2, <2>4, <2>5
    <2> QED
        BY <2>7, <2>8, <2>9, <2>10, <2>11, <2>12, <2>13, <2>14, <2>15
           DEF Next, Select, Outcome, Administer, SetCircuitBreakerThreshold,
               SetCircuitHalfOpenProbes, SweepHosts, vars
<1> QED
    BY <1>1, <1>2, TypeCorrect, PTL DEF Spec

----------------------------------------------------------------------------
(* The circuit code is the breaker of EndpointBreaker.                      *)

(* A step that moves one circuit moves one breaker.                         *)
LEMMA OneBreakerMoves ==
    ASSUME TypeOK, NEW e \in Endpoint, NEW cb,
           circuit' = [circuit EXCEPT ![e] = cb]
    PROVE  Breaker!Becomes(e, Mode(cb), Passes(cb))
<1>1. ASSUME NEW x \in Endpoint
      PROVE  /\ Mode(circuit'[x]) = IF x = e THEN Mode(cb) ELSE Mode(circuit[x])
             /\ Passes(circuit'[x]) = IF x = e THEN Passes(cb) ELSE Passes(circuit[x])
    <2>1. CASE x = e
        BY <2>1, circuit'[x] = cb DEF TypeOK
    <2>2. CASE x # e
        BY <2>2, circuit'[x] = circuit[x] DEF TypeOK
    <2> QED
        BY <2>1, <2>2
<1>2. [x \in Endpoint |-> Mode(circuit'[x])] =
          [[x \in Endpoint |-> Mode(circuit[x])] EXCEPT ![e] = Mode(cb)]
    BY <1>1, Zenon
<1>3. [x \in Endpoint |-> Passes(circuit'[x])] =
          [[x \in Endpoint |-> Passes(circuit[x])] EXCEPT ![e] = Passes(cb)]
    BY <1>1, Zenon
<1> QED
    BY <1>2, <1>3 DEF Breaker!Becomes

(* Letting a request through is the first or a further pass of a trial, or  *)
(* no move at all while the circuit is closed (isAvailableLocked).          *)
LEMMA AdmissionIsAPass ==
    ASSUME TypeOK, NEW e \in Endpoint, Available(e),
           circuit' = [circuit EXCEPT ![e] = Admitted(e)]
    PROVE  Breaker!BeginTrial(e) \/ Breaker!Pass(e) \/ UNCHANGED circuit
<1>1. Breaker!Becomes(e, Mode(Admitted(e)), Passes(Admitted(e)))
    BY OneBreakerMoves
<1>2. circuit[e] \in Circuit
    BY DEF TypeOK
<1>3. CASE BeginsWindow(e)
    <2>1. Breaker!Becomes(e, "trial", 1)
        BY <1>1, <1>3 DEF Breaker!Becomes, Admitted, NewWindow, Mode, Passes
    <2>2. Mode(circuit[e]) \in {"open", "trial"}
        BY <1>3 DEF BeginsWindow, HalfOpen, Mode
    <2> QED
        BY <2>1, <2>2 DEF Breaker!BeginTrial
<1>4. CASE ~BeginsWindow(e) /\ HalfOpen(e)
    <2>1. Admitted(e) = [circuit[e] EXCEPT !.probesSent = @ + 1]
        BY <1>4 DEF Admitted
    <2>2. Admitted(e).state = "half-open"
          /\ Admitted(e).probesSent = circuit[e].probesSent + 1
        BY <2>1, <1>2, <1>4 DEF Circuit, HalfOpen
    <2>3. Mode(circuit[e]) = "trial" /\ Passes(circuit[e]) = circuit[e].probesSent
        BY <1>4 DEF HalfOpen, Mode, Passes
    <2>4. probeBudget \in ProbeBudgets /\ circuit[e].probesSent < probeBudget
        BY <1>4 DEF Available, BeginsWindow, TypeOK
    <2>5. Breaker!Becomes(e, "trial", Passes(circuit[e]) + 1)
        BY <1>1, <2>2, <2>3 DEF Breaker!Becomes, Mode, Passes
    <2> QED
        BY <2>3, <2>4, <2>5 DEF Breaker!Pass
<1>5. CASE ~BeginsWindow(e) /\ ~HalfOpen(e)
    BY <1>5 DEF Admitted, TypeOK
<1> QED
    BY <1>3, <1>4, <1>5

(* A failure trips, ends a trial, or only counts (recordCircuitFailureLocked). *)
LEMMA FailureTripsOrCounts ==
    ASSUME TypeOK, NEW e \in Endpoint, NEW f,
           circuit' = [circuit EXCEPT ![e] = FailedCircuit(e, f)]
    PROVE  \/ Breaker!Trip(e) \/ Breaker!FailTrial(e)
           \/ UNCHANGED Breaker!breakers
<1>1. Breaker!Becomes(e, Mode(FailedCircuit(e, f)), Passes(FailedCircuit(e, f)))
    BY OneBreakerMoves
<1>2. circuit[e] \in Circuit
    BY DEF TypeOK
<1>3. CASE FailedCircuit(e, f).state = circuit[e].state
    <2>1. FailedCircuit(e, f).state = "half-open" => FailedCircuit(e, f) = circuit[e]
        BY DEF FailedCircuit, Reopens, HalfOpen
    <2>2. Mode(FailedCircuit(e, f)) = Mode(circuit[e])
          /\ Passes(FailedCircuit(e, f)) = Passes(circuit[e])
        BY <1>3, <2>1 DEF Mode, Passes
    <2> QED
        BY <1>1, <2>2 DEF Breaker!Becomes, Breaker!breakers
<1>4. CASE FailedCircuit(e, f).state # circuit[e].state
    <2>1. FailedCircuit(e, f).state = "open" /\ circuit[e].state \in {"closed", "half-open"}
        BY <1>2, <1>4 DEF FailedCircuit, Reopens, Circuit
    <2>2. Breaker!Becomes(e, "open", 0)
        BY <1>1, <2>1 DEF Breaker!Becomes, Mode, Passes
    <2>3. Mode(circuit[e]) \in {"closed", "trial"}
        BY <2>1 DEF Mode
    <2> QED
        BY <2>2, <2>3 DEF Breaker!Trip, Breaker!FailTrial
<1> QED
    BY <1>3, <1>4

(* Every behaviour of the circuit code is one of the abstract breaker.      *)
THEOREM BreakerImplemented == Spec => ImplementsBreaker
<1>1. Init => Breaker!Init
    BY DEF Init, Breaker!Init, Closed, Mode, Passes
<1>2. TypeOK /\ [Next]_vars => [Breaker!Next]_(Breaker!breakers)
    <2> SUFFICES ASSUME TypeOK, [Next]_vars
                 PROVE  Breaker!Next \/ UNCHANGED Breaker!breakers
        OBVIOUS
    <2>1. ASSUME UNCHANGED circuit
          PROVE  UNCHANGED Breaker!breakers
        BY <2>1 DEF Breaker!breakers
    <2>2. ASSUME NEW e \in Endpoint, Available(e),
                 circuit' = [circuit EXCEPT ![e] = Admitted(e)]
          PROVE  Breaker!Next \/ UNCHANGED Breaker!breakers
        BY <2>1, <2>2, AdmissionIsAPass DEF Breaker!Next
    <2>3. ASSUME NEW e \in Endpoint, circuit' = [circuit EXCEPT ![e] = Closed]
          PROVE  Breaker!Next
        <3>1. Mode(Closed) = "closed" /\ Passes(Closed) = 0
            BY DEF Closed, Mode, Passes
        <3>2. Breaker!Becomes(e, Mode(Closed), Passes(Closed))
            BY <2>3, OneBreakerMoves
        <3>3. Breaker!Becomes(e, "closed", 0)
            BY <3>1, <3>2 DEF Breaker!Becomes
        <3> QED
            BY <3>3 DEF Breaker!Recover, Breaker!Next
    <2>4. ASSUME NEW a \in Attempt, NEW f \in Failure,
                 NEW retryAfter \in RetryAfters, Fail(a, f, retryAfter)
          PROVE  Breaker!Next \/ UNCHANGED Breaker!breakers
        <3>1. attempt[a].ep \in Endpoint
            BY <2>4, InFlightHasEndpoint DEF Fail
        <3> QED
            BY <2>4, <3>1, FailureTripsOrCounts DEF Fail, Breaker!Next
    <2>5. ASSUME NEW a \in Attempt, Succeed(a)
          PROVE  Breaker!Next
        <3>1. attempt[a].ep \in Endpoint
            BY <2>5, InFlightHasEndpoint DEF Succeed
        <3> QED
            BY <2>3, <2>5, <3>1 DEF Succeed
    <2>6. ASSUME ClearAllCooldowns
          PROVE  Breaker!Next
        BY <2>6 DEF ClearAllCooldowns, Closed, Mode, Passes,
                    Breaker!RecoverAll, Breaker!Next
    <2>7. ASSUME Tick
          PROVE  UNCHANGED Breaker!breakers
        <3>1. \A e \in Endpoint : Mode(circuit'[e]) = Mode(circuit[e])
                                 /\ Passes(circuit'[e]) = Passes(circuit[e])
            BY <2>7 DEF Tick, Aged, Mode, Passes, TypeOK, Circuit
        <3> QED
            BY <3>1 DEF Breaker!breakers
    <2> QED
        BY <2>1, <2>2, <2>3, <2>4, <2>5, <2>6, <2>7
           DEF Next, Select, Outcome, Administer, Dispatch, Inspect, PenalizeHost,
               Abandon, ClearCooldown, SetCircuitBreakerThreshold,
               SetCircuitHalfOpenProbes, SweepHosts, vars
<1> QED
    BY <1>1, <1>2, TypeCorrect, PTL DEF Spec, ImplementsBreaker, Breaker!Spec

----------------------------------------------------------------------------
(* StatePersistence. *)

Rows == [Endpoint -> Backing]
Circuits == [Endpoint -> Circuit]

(* Live state, snapshot, tables and the copy under way keep their shapes.   *)
PTypeOK ==
    /\ TypeOK
    /\ savedCooldown \in Rows /\ savedCircuit \in Circuits
    /\ rowCooldown \in Rows /\ rowCircuit \in Circuits
    /\ captured \in [cooldown : Rows, circuit : Circuits]
    /\ saver \in [Saver -> {"none", "trigger", "save", "writing"}]
    /\ process \in {"up", "closing", "closed", "down"}

(* A save belongs to a process: neither it nor the timer outlives it.       *)
NoSaveOutlivesTheProcess ==
    process = "down" => ~armed /\ \A s \in Saver : saver[s] = "none"

(* The counterpart of CooldownRowsAreTracked for circuits: the one row that *)
(* the snapshot may not know is an open circuit whose cooldown was over when*)
(* it was read back (loadCooldowns).                                        *)
InReach(row, saved) == row = saved \/ (saved = Closed /\ row.state # "half-open")

CircuitRowsAreTracked ==
    Serving /\ ~blind =>
        \A e \in Endpoint : InReach(rowCircuit[e], savedCircuit[e])

(* The tables, and the copy a save is writing, never hold a half-open       *)
(* circuit next to a cooldown that still runs.                              *)
WindowsAreSavedWhole ==
    ~blind /\ 0 \notin Thresholds =>
        \A e \in Endpoint :
            /\ rowCircuit[e].state = "half-open" => rowCooldown[e] = NoBackoff
            /\ captured.circuit[e].state = "half-open" =>
                   captured.cooldown[e] = NoBackoff

PVars == <<vars, persistence>>

----------------------------------------------------------------------------
(* Which steps concern the store. *)

\* The store, its snapshot and the copy under way are left alone.
StoreAlone == UNCHANGED <<snapshot, rows, captured, process, blind>>

(* Every other step is one of EndpointHealth, or none, that leaves the      *)
(* store alone.                                                             *)
LEMMA EndpointSteps ==
    ASSUME [PNext]_PVars
    PROVE  \/ [Next]_vars /\ StoreAlone
           \/ \E gone \in SUBSET Endpoint : Sweep(gone)
           \/ \E s \in Saver : BeginSave(s) \/ CommitSave(s) \/ FailSave(s)
           \/ Close \/ CloseStore \/ Stop \/ Start \/ StartBlind \/ TimePasses
<1> USE DEF StoreAlone, persistence, snapshot, rows
<1>1. ASSUME NEW a \in Attempt, RequestFails(a)
      PROVE  [Next]_vars /\ StoreAlone
    <2>1. Next
        BY <1>1, Zenon DEF RequestFails, Next, Outcome
    <2> QED
        BY <1>1, <2>1 DEF RequestFails, Owes
<1>2. ASSUME NEW a \in Attempt, RequestSucceeds(a)
      PROVE  [Next]_vars /\ StoreAlone
    <2>1. Next
        BY <1>2, Zenon DEF RequestSucceeds, Next, Outcome
    <2> QED
        BY <1>2, <2>1 DEF RequestSucceeds, Owes
<1>3. ASSUME NEW a \in Attempt, RequestMoves(a)
      PROVE  [Next]_vars /\ StoreAlone
    <2>1. Next
        BY <1>3, Zenon DEF RequestMoves, Next, Outcome
    <2> QED
        BY <1>3, <2>1 DEF RequestMoves
<1>4. ASSUME NEW a \in Attempt, RecordTPS(a)
      PROVE  [Next]_vars /\ StoreAlone
    BY <1>4 DEF RecordTPS, Owes
<1>5. ASSUME NEW e \in Endpoint, Check(e)
      PROVE  [Next]_vars /\ StoreAlone
    <2>1. Next
        BY <1>5, Zenon DEF Check, Next
    <2> QED
        BY <1>5, <2>1 DEF Check
<1>6. ASSUME OperatorClears
      PROVE  [Next]_vars /\ StoreAlone
    <2>1. Next
        BY <1>6, Zenon DEF OperatorClears, Next, Administer
    <2> QED
        BY <1>6, <2>1 DEF OperatorClears, Owes
<1>7. ASSUME NEW s \in Saver, Trigger(s)
      PROVE  [Next]_vars /\ StoreAlone
    BY <1>7 DEF Trigger
<1>8. ASSUME Fire
      PROVE  [Next]_vars /\ StoreAlone
    BY <1>8 DEF Fire
<1>9. ASSUME UNCHANGED PVars
      PROVE  [Next]_vars /\ StoreAlone
    BY <1>9 DEF PVars
<1> HIDE DEF StoreAlone, persistence, snapshot, rows
<1> QED
    BY <1>1, <1>2, <1>3, <1>4, <1>5, <1>6, <1>7, <1>8, <1>9, Zenon DEF PNext, Save

----------------------------------------------------------------------------
(* Every record keeps its shape, in memory and in the tables. *)

LEMMA ZeroTyped ==
    /\ NoBackoff \in Backing /\ Closed \in Circuit /\ Idle \in AttemptState
    /\ NoRows \in Rows /\ NoCircuits \in Circuits
    /\ Nothing \in [cooldown : Rows, circuit : Circuits]
<1>1. 0 \in 0..ErrorCap /\ 0 \in 0..(MaxCooldown + 1)
    BY CountAssumption, DurationsAssumption DEF Durations
<1>2. NoBackoff \in Backing /\ Closed \in Circuit /\ Idle \in AttemptState
    BY <1>1 DEF NoBackoff, Backing, Closed, Circuit, AttemptState
<1> QED
    BY <1>2 DEF NoRows, NoCircuits, Rows, Circuits, Nothing

(* What a save copies, and what a restart reads.                            *)
LEMMA LiveTyped ==
    ASSUME TypeOK
    PROVE  Live \in [cooldown : Rows, circuit : Circuits]
BY ZeroTyped DEF TypeOK, Live, Active, Tripped, Rows, Circuits

(* A transaction leaves rows of the kind it was given (apply).              *)
LEMMA AppliedTyped ==
    ASSUME NEW R, NEW absent \in R,
           NEW row \in [Endpoint -> R], NEW old, NEW new \in [Endpoint -> R]
    PROVE  Applied(row, old, new, absent) \in [Endpoint -> R]
BY DEF Applied

(* The clock keeps them too.                                                *)
LEMMA ElapsedTyped ==
    /\ \A b \in Backing : Elapsed(b) \in Backing /\ Active(b) \in Backing
    /\ \A cb \in Circuit : Aged(cb) \in Circuit
<1>1. MaxCooldown \in Nat
    BY DurationsAssumption DEF Durations
<1>2. \A b \in Backing : Elapsed(b) \in Backing
    BY DEF Elapsed, Backing
<1>3. \A b \in Backing : Active(b) \in Backing
    BY ZeroTyped DEF Active
<1>4. \A cb \in Circuit : Aged(cb) \in Circuit
    BY <1>1 DEF Aged, Circuit
<1> QED
    BY <1>2, <1>3, <1>4

LEMMA PTypeStep == PTypeOK /\ [PNext]_PVars => PTypeOK'
<1> SUFFICES ASSUME PTypeOK, [PNext]_PVars
             PROVE  PTypeOK'
    OBVIOUS
<1> DEFINE StoreTyped ==
               /\ savedCooldown \in Rows /\ savedCircuit \in Circuits
               /\ rowCooldown \in Rows /\ rowCircuit \in Circuits
               /\ captured \in [cooldown : Rows, circuit : Circuits]
               /\ process \in {"up", "closing", "closed", "down"}
           SaverTyped == saver \in [Saver -> {"none", "trigger", "save", "writing"}]
<1>1. TypeOK /\ StoreTyped /\ SaverTyped
    BY DEF PTypeOK
<1>2. SaverTyped'
    BY <1>1 DEF PNext, PVars, persistence, Owes, RequestFails, RequestSucceeds,
       RequestMoves, RecordTPS, Check, Fire, OperatorClears, Sweep, Save, Trigger,
       BeginSave, CommitSave, FailSave, EndSave, Close, CloseStore, Stop, Start,
       StartBlind, TimePasses
<1>3. ASSUME [Next]_vars, StoreAlone
      PROVE  (TypeOK /\ StoreTyped)'
    BY <1>1, <1>3, TypeStep DEF StoreAlone, snapshot, rows
<1>4. ASSUME NEW gone \in SUBSET Endpoint, Sweep(gone)
      PROVE  (TypeOK /\ StoreTyped)'
    <2>1. \A a \in Attempt, e \in Endpoint : a \in Probes(e) =>
              [attempt[a] EXCEPT !.probe = FALSE] \in AttemptState
        BY <1>1, InFlightHasEndpoint DEF Probes, AttemptState
    <2>2. attempt' \in [Attempt -> AttemptState]
        BY <1>1, <1>4, <2>1 DEF Sweep, TypeOK
    <2>3. TypeOK'
        BY <1>1, <1>4, <2>2, ZeroTyped DEF Sweep, TypeOK
    <2> QED
        BY <1>1, <1>4, <2>3 DEF Sweep, Owes, snapshot, rows
<1>5. ASSUME NEW s \in Saver, BeginSave(s)
      PROVE  (TypeOK /\ StoreTyped)'
    BY <1>1, <1>5, LiveTyped, TypeStep DEF BeginSave, snapshot, rows
<1>6. ASSUME NEW s \in Saver, CommitSave(s)
      PROVE  (TypeOK /\ StoreTyped)'
    <2>1. rowCooldown' \in Rows /\ rowCircuit' \in Circuits
        BY <1>1, <1>6, ZeroTyped, AppliedTyped DEF CommitSave, Rows, Circuits
    <2> QED
        BY <1>1, <1>6, <2>1, ZeroTyped, TypeStep DEF CommitSave, EndSave
<1>7. ASSUME NEW s \in Saver, FailSave(s)
      PROVE  (TypeOK /\ StoreTyped)'
    BY <1>1, <1>7, ZeroTyped, TypeStep DEF FailSave, EndSave, snapshot, rows
<1>8. ASSUME Close \/ CloseStore \/ StartBlind
      PROVE  (TypeOK /\ StoreTyped)'
    BY <1>1, <1>8, TypeStep DEF Close, CloseStore, StartBlind, snapshot, rows
<1>9. ASSUME Stop
      PROVE  (TypeOK /\ StoreTyped)'
    BY <1>1, <1>9, ZeroTyped DEF Stop, TypeOK, rows, Rows, Circuits, NoRows, NoCircuits
<1>10. ASSUME Start
       PROVE  (TypeOK /\ StoreTyped)'
    BY <1>1, <1>10, ZeroTyped DEF Start, TypeOK, rows, Rows, Circuits, Restored
<1>11. ASSUME TimePasses
       PROVE  (TypeOK /\ StoreTyped)'
    <2>1. TypeOK'
        BY <1>1, <1>11, TypeStep, Zenon DEF TimePasses, Next
    <2>2. savedCooldown' \in Rows /\ rowCooldown' \in Rows
          /\ captured'.cooldown \in Rows
        BY <1>1, <1>11, ElapsedTyped DEF TimePasses, Rows
    <2>3. savedCircuit' \in Circuits /\ rowCircuit' \in Circuits
          /\ captured' \in [cooldown : Rows, circuit : Circuits]
        BY <1>1, <1>11, <2>2, ElapsedTyped DEF TimePasses, Rows, Circuits
    <2> QED
        BY <1>1, <1>11, <2>1, <2>2, <2>3 DEF TimePasses
<1>12. (TypeOK /\ StoreTyped)'
    BY <1>3, <1>4, <1>5, <1>6, <1>7, <1>8, <1>9, <1>10, <1>11, EndpointSteps, Zenon
<1> QED
    BY <1>2, <1>12 DEF PTypeOK

----------------------------------------------------------------------------
(* The rows and the snapshot. *)

(* Whoever is writing belongs to a process that runs.                       *)
LEMMA NoSaveStep ==
    PTypeOK /\ NoSaveOutlivesTheProcess /\ [PNext]_PVars => NoSaveOutlivesTheProcess'
<1> SUFFICES ASSUME PTypeOK, NoSaveOutlivesTheProcess, [PNext]_PVars, process' = "down"
             PROVE  ~armed' /\ \A s \in Saver : saver'[s] = "none"
    BY DEF NoSaveOutlivesTheProcess
<1>1. CASE Stop
    BY <1>1 DEF Stop
<1>2. CASE ~Stop
    <2>1. process = "down"
        BY <1>2 DEF PNext, PVars, persistence, Owes, RequestFails, RequestSucceeds,
           RequestMoves, RecordTPS, Check, Fire, OperatorClears, Sweep, Save, Trigger,
           BeginSave, CommitSave, FailSave, EndSave, Close, CloseStore, Start,
           StartBlind, TimePasses
    <2>2. ~armed /\ \A s \in Saver : saver[s] = "none"
        BY <2>1 DEF NoSaveOutlivesTheProcess
    <2>3. UNCHANGED <<armed, saver>>
        BY <1>2, <2>1, <2>2 DEF PNext, PVars, persistence, Serving, Fire,
           RequestFails, RequestSucceeds, RequestMoves, RecordTPS, Check,
           OperatorClears, Sweep, Save, Trigger, BeginSave, CommitSave, FailSave,
           Close, CloseStore, Start, StartBlind, TimePasses
    <2> QED
        BY <2>2, <2>3
<1> QED
    BY <1>1, <1>2

(* A transaction leaves in the table what the new snapshot says, wherever   *)
(* the old one was right about what it left alone (apply).                  *)
LEMMA AppliedRow ==
    ASSUME NEW row, NEW old, NEW new, NEW absent, NEW e \in Endpoint
    PROVE  \/ Applied(row, old, new, absent)[e] = new[e]
           \/ /\ Applied(row, old, new, absent)[e] = row[e]
              /\ new[e] = old[e]
BY DEF Applied

(* Rows of cooldowns stay within the snapshot's reach.                      *)
LEMMA CooldownRowsStep ==
    PTypeOK /\ NoSaveOutlivesTheProcess /\ CooldownRowsAreTracked /\ [PNext]_PVars
        => CooldownRowsAreTracked'
<1> SUFFICES ASSUME PTypeOK, NoSaveOutlivesTheProcess, CooldownRowsAreTracked,
                    [PNext]_PVars, Serving', ~blind', NEW e \in Endpoint,
                    rowCooldown'[e] # NoBackoff
             PROVE  savedCooldown'[e] = rowCooldown'[e]
    BY DEF CooldownRowsAreTracked
<1> DEFINE Tracked == rowCooldown[e] # NoBackoff => savedCooldown[e] = rowCooldown[e]
<1>1. Serving /\ ~blind => Tracked
    BY DEF CooldownRowsAreTracked
<1>2. savedCooldown \in Rows /\ rowCooldown \in Rows
    BY DEF PTypeOK
<1>3. ASSUME UNCHANGED <<savedCooldown, rowCooldown, process, blind>>
      PROVE  savedCooldown'[e] = rowCooldown'[e]
    BY <1>1, <1>3 DEF Serving
<1>4. ASSUME NEW s \in Saver, CommitSave(s)
      PROVE  savedCooldown'[e] = rowCooldown'[e]
    <2>1. Tracked
        BY <1>1, <1>4 DEF CommitSave, EndSave, NoSaveOutlivesTheProcess, Serving
    <2>2. rowCooldown' = Applied(rowCooldown, savedCooldown, captured.cooldown, NoBackoff)
          /\ savedCooldown' = captured.cooldown
        BY <1>4 DEF CommitSave
    <2> QED
        BY <2>1, <2>2, AppliedRow
<1>5. ASSUME Start
      PROVE  savedCooldown'[e] = rowCooldown'[e]
    BY <1>5 DEF Start, rows
<1>6. ASSUME TimePasses
      PROVE  savedCooldown'[e] = rowCooldown'[e]
    <2>1. /\ savedCooldown'[e] = Elapsed(savedCooldown[e])
          /\ rowCooldown'[e] = Active(Elapsed(rowCooldown[e]))
          /\ Tracked
        BY <1>1, <1>6 DEF TimePasses, Serving
    <2>2. rowCooldown'[e] = Elapsed(rowCooldown[e])
        BY <2>1 DEF Active
    <2>3. Elapsed(NoBackoff) = NoBackoff
        BY DEF Elapsed, NoBackoff
    <2> QED
        BY <2>1, <2>2, <2>3
<1>7. ASSUME CloseStore \/ Close
      PROVE  savedCooldown'[e] = rowCooldown'[e]
    BY <1>1, <1>7 DEF CloseStore, Close, Serving, snapshot, rows
<1>8. ~Stop /\ ~StartBlind
    BY DEF Stop, StartBlind, Serving
<1>9. ASSUME NEW gone \in SUBSET Endpoint, Sweep(gone)
      PROVE  savedCooldown'[e] = rowCooldown'[e]
    BY <1>3, <1>9 DEF Sweep, Owes, snapshot, rows
<1>10. ASSUME NEW s \in Saver, BeginSave(s) \/ FailSave(s)
       PROVE  savedCooldown'[e] = rowCooldown'[e]
    BY <1>3, <1>10 DEF BeginSave, FailSave, EndSave, snapshot, rows
<1>11. ASSUME StoreAlone
       PROVE  savedCooldown'[e] = rowCooldown'[e]
    BY <1>3, <1>11 DEF StoreAlone, snapshot, rows
<1> QED
    BY <1>4, <1>5, <1>6, <1>7, <1>8, <1>9, <1>10, <1>11, EndpointSteps, Zenon

(* And rows of circuits, but for the one kind a restart leaves behind.      *)
LEMMA CircuitRowsStep ==
    PTypeOK /\ NoSaveOutlivesTheProcess /\ CircuitRowsAreTracked /\ [PNext]_PVars
        => CircuitRowsAreTracked'
<1> SUFFICES ASSUME PTypeOK, NoSaveOutlivesTheProcess, CircuitRowsAreTracked,
                    [PNext]_PVars, Serving', ~blind', NEW e \in Endpoint
             PROVE  InReach(rowCircuit'[e], savedCircuit'[e])
    BY DEF CircuitRowsAreTracked
<1>1. Serving /\ ~blind => InReach(rowCircuit[e], savedCircuit[e])
    BY DEF CircuitRowsAreTracked
<1>2. savedCircuit[e] \in Circuit /\ rowCircuit[e] \in Circuit
    BY DEF PTypeOK, Circuits
<1>3. ASSUME UNCHANGED <<savedCircuit, rowCircuit, process, blind>>
      PROVE  InReach(rowCircuit'[e], savedCircuit'[e])
    BY <1>1, <1>3 DEF Serving
<1>4. ASSUME NEW s \in Saver, CommitSave(s)
      PROVE  InReach(rowCircuit'[e], savedCircuit'[e])
    <2>1. InReach(rowCircuit[e], savedCircuit[e])
        BY <1>1, <1>4 DEF CommitSave, EndSave, NoSaveOutlivesTheProcess, Serving
    <2>2. rowCircuit' = Applied(rowCircuit, savedCircuit, captured.circuit, Closed)
          /\ savedCircuit' = captured.circuit
        BY <1>4 DEF CommitSave
    <2>3. savedCircuit'[e] = captured.circuit[e]
        BY <2>2
    <2>4. \/ rowCircuit'[e] = captured.circuit[e]
          \/ rowCircuit'[e] = rowCircuit[e] /\ captured.circuit[e] = savedCircuit[e]
        BY <2>2, AppliedRow
    <2> QED
        BY <2>1, <2>3, <2>4 DEF InReach
<1>5. ASSUME Start
      PROVE  InReach(rowCircuit'[e], savedCircuit'[e])
    <2>1. rowCircuit'[e] = rowCircuit[e] /\ savedCircuit'[e] = Restored(e)
        BY <1>5 DEF Start, rows
    <2> QED
        BY <2>1 DEF Restored, InReach
<1>6. ASSUME TimePasses
      PROVE  InReach(rowCircuit'[e], savedCircuit'[e])
    <2>1. /\ savedCircuit'[e] = Aged(savedCircuit[e])
          /\ rowCircuit'[e] = Aged(rowCircuit[e])
          /\ InReach(rowCircuit[e], savedCircuit[e])
        BY <1>1, <1>6 DEF TimePasses, Serving
    <2>2. Aged(Closed) = Closed /\ Aged(rowCircuit[e]).state = rowCircuit[e].state
        BY <1>2 DEF Aged, Closed, Circuit
    <2> QED
        BY <2>1, <2>2 DEF InReach
<1>7. ASSUME CloseStore \/ Close
      PROVE  InReach(rowCircuit'[e], savedCircuit'[e])
    BY <1>1, <1>7 DEF CloseStore, Close, Serving, snapshot, rows
<1>8. ~Stop /\ ~StartBlind
    BY DEF Stop, StartBlind, Serving
<1>9. ASSUME NEW gone \in SUBSET Endpoint, Sweep(gone)
      PROVE  InReach(rowCircuit'[e], savedCircuit'[e])
    BY <1>3, <1>9 DEF Sweep, Owes, snapshot, rows
<1>10. ASSUME NEW s \in Saver, BeginSave(s) \/ FailSave(s)
       PROVE  InReach(rowCircuit'[e], savedCircuit'[e])
    BY <1>3, <1>10 DEF BeginSave, FailSave, EndSave, snapshot, rows
<1>11. ASSUME StoreAlone
       PROVE  InReach(rowCircuit'[e], savedCircuit'[e])
    BY <1>3, <1>11 DEF StoreAlone, snapshot, rows
<1> QED
    BY <1>4, <1>5, <1>6, <1>7, <1>8, <1>9, <1>10, <1>11, EndpointSteps, Zenon

----------------------------------------------------------------------------
(* A circuit and its cooldown travel together. *)

(* A half-open window is only ever copied, written or read next to a        *)
(* cooldown that is over.                                                   *)
LEMMA WindowsSavedStep ==
    /\ PTypeOK /\ NoSaveOutlivesTheProcess
    /\ CooldownRowsAreTracked /\ CircuitRowsAreTracked
    /\ WindowsAreSavedWhole /\ RestartKeepsWindows
    /\ [PNext]_PVars
    => WindowsAreSavedWhole'
<1> DEFINE Whole(cb, b) == cb.state = "half-open" => b = NoBackoff
<1> SUFFICES ASSUME PTypeOK, NoSaveOutlivesTheProcess, CooldownRowsAreTracked,
                    CircuitRowsAreTracked, WindowsAreSavedWhole, RestartKeepsWindows,
                    [PNext]_PVars, ~blind', 0 \notin Thresholds, NEW e \in Endpoint
             PROVE  /\ Whole(rowCircuit'[e], rowCooldown'[e])
                    /\ Whole(captured'.circuit[e], captured'.cooldown[e])
    BY DEF WindowsAreSavedWhole
<1> DEFINE Goal == /\ Whole(rowCircuit'[e], rowCooldown'[e])
                   /\ Whole(captured'.circuit[e], captured'.cooldown[e])
<1>1. ~blind => /\ Whole(rowCircuit[e], rowCooldown[e])
                /\ Whole(captured.circuit[e], captured.cooldown[e])
    BY DEF WindowsAreSavedWhole
<1>2. Closed.state # "half-open" /\ Whole(Nothing.circuit[e], Nothing.cooldown[e])
    BY DEF Nothing, NoCircuits, NoRows, Closed
<1>3. /\ rowCooldown[e] \in Backing /\ captured.cooldown[e] \in Backing
      /\ cooldown[e] \in Backing /\ circuit[e] \in Circuit
      /\ rowCircuit[e] \in Circuit /\ captured.circuit[e] \in Circuit
    BY DEF PTypeOK, TypeOK, Rows, Circuits
<1>4. ASSUME UNCHANGED <<rowCooldown, rowCircuit, blind>>,
             captured' = captured \/ captured' = Nothing
      PROVE  Goal
    BY <1>1, <1>2, <1>4
<1>5. ASSUME NEW s \in Saver, BeginSave(s)
      PROVE  Goal
    <2>1. captured' = captured \/ captured' = Live
        BY <1>5 DEF BeginSave
    <2>2. ~blind
        BY <1>5 DEF BeginSave
    <2>3. circuit[e].state = "half-open" => cooldown[e].left = 0
        BY <1>3, <2>2 DEF RestartKeepsWindows, HalfOpenNeverCooling, HalfOpen, Cooling,
                          Backing
    <2>4. Whole(Live.circuit[e], Live.cooldown[e])
        BY <1>2, <2>3 DEF Live, Tripped, Active
    <2> QED
        BY <1>1, <1>5, <2>1, <2>2, <2>4 DEF BeginSave, rows
<1>6. ASSUME NEW s \in Saver, CommitSave(s)
      PROVE  Goal
    <2>1. Serving /\ ~blind
        BY <1>6 DEF CommitSave, EndSave, NoSaveOutlivesTheProcess, Serving
    <2>2. /\ rowCooldown[e] # NoBackoff => savedCooldown[e] = rowCooldown[e]
          /\ InReach(rowCircuit[e], savedCircuit[e])
        BY <2>1 DEF CooldownRowsAreTracked, CircuitRowsAreTracked
    <2>3. /\ rowCooldown' = Applied(rowCooldown, savedCooldown, captured.cooldown, NoBackoff)
          /\ rowCircuit' = Applied(rowCircuit, savedCircuit, captured.circuit, Closed)
          /\ captured' = Nothing
        BY <1>6 DEF CommitSave, EndSave
    <2>4. ASSUME rowCircuit'[e].state = "half-open"
          PROVE  rowCooldown'[e] = NoBackoff
        <3>1. captured.circuit[e] = rowCircuit'[e]
            <4>1. \/ rowCircuit'[e] = captured.circuit[e]
                  \/ rowCircuit'[e] = rowCircuit[e] /\ captured.circuit[e] = savedCircuit[e]
                BY <2>3, AppliedRow
            <4> QED
                BY <2>2, <2>4, <4>1 DEF InReach
        <3>2. captured.cooldown[e] = NoBackoff
            BY <1>1, <2>1, <2>4, <3>1
        <3>3. \/ rowCooldown'[e] = captured.cooldown[e]
              \/ /\ rowCooldown'[e] = rowCooldown[e]
                 /\ captured.cooldown[e] = savedCooldown[e]
            BY <2>3, AppliedRow
        <3> QED
            BY <2>2, <3>2, <3>3
    <2> QED
        BY <1>2, <2>3, <2>4
<1>7. ASSUME TimePasses
      PROVE  Goal
    <2>1. /\ rowCooldown'[e] = Active(Elapsed(rowCooldown[e]))
          /\ rowCircuit'[e] = Aged(rowCircuit[e])
          /\ captured'.cooldown[e] = Active(Elapsed(captured.cooldown[e]))
          /\ captured'.circuit[e] = Aged(captured.circuit[e])
          /\ ~blind
        BY <1>7 DEF TimePasses
    <2>2. Active(Elapsed(NoBackoff)) = NoBackoff
        BY DEF Active, Elapsed, NoBackoff
    <2>3. \A cb \in Circuit : Aged(cb).state = cb.state
        BY DEF Aged, Circuit
    <2> QED
        BY <1>1, <1>3, <2>1, <2>2, <2>3
<1>8. ASSUME NEW s \in Saver, FailSave(s)
      PROVE  Goal
    BY <1>4, <1>8 DEF FailSave, EndSave, rows
<1>9. ASSUME NEW gone \in SUBSET Endpoint, Sweep(gone)
      PROVE  Goal
    BY <1>4, <1>9 DEF Sweep, Owes, rows
<1>10. ASSUME Close \/ CloseStore \/ Stop \/ Start
       PROVE  Goal
    BY <1>4, <1>10 DEF Close, CloseStore, Stop, Start, rows
<1>11. ~StartBlind
    BY DEF StartBlind
<1>12. ASSUME StoreAlone
       PROVE  Goal
    BY <1>4, <1>12 DEF StoreAlone, rows
<1> HIDE DEF Goal
<1>13. Goal
    BY <1>5, <1>6, <1>7, <1>8, <1>9, <1>10, <1>11, <1>12, EndpointSteps, Zenon
<1> QED
    BY <1>13 DEF Goal

(* Nor does a restart put a running cooldown under a half-open circuit.     *)
LEMMA RestartStep ==
    PTypeOK /\ WindowsAreSavedWhole /\ RestartKeepsWindows /\ [PNext]_PVars
        => RestartKeepsWindows'
<1> SUFFICES ASSUME PTypeOK, WindowsAreSavedWhole, RestartKeepsWindows,
                    [PNext]_PVars, ~blind'
             PROVE  HalfOpenNeverCooling'
    BY DEF RestartKeepsWindows
<1>1. TypeOK
    BY DEF PTypeOK
<1>2. ASSUME [Next]_vars, UNCHANGED blind
      PROVE  HalfOpenNeverCooling'
    BY <1>1, <1>2, WindowStep DEF RestartKeepsWindows
<1>3. ASSUME NEW gone \in SUBSET Endpoint, Sweep(gone)
      PROVE  HalfOpenNeverCooling'
    <2>1. HalfOpenNeverCooling
        BY <1>3 DEF Sweep, Owes, RestartKeepsWindows
    <2> QED
        BY <1>1, <1>3, <2>1, ZeroTyped
           DEF Sweep, HalfOpenNeverCooling, HalfOpen, Cooling, Closed, TypeOK
<1>4. ASSUME Stop
      PROVE  HalfOpenNeverCooling'
    BY <1>4 DEF Stop, NoCircuits, Closed, HalfOpenNeverCooling, HalfOpen
<1>5. ASSUME Start
      PROVE  HalfOpenNeverCooling'
    <2> SUFFICES ASSUME 0 \notin Thresholds, NEW e \in Endpoint,
                        circuit'[e].state = "half-open"
                 PROVE  cooldown'[e].left = 0
        BY DEF HalfOpenNeverCooling, HalfOpen, Cooling
    <2>1. circuit'[e] = Restored(e) /\ cooldown'[e] = rowCooldown[e] /\ ~blind
        BY <1>5 DEF Start
    <2>2. rowCircuit[e].state = "half-open"
        BY <2>1 DEF Restored, Closed
    <2>3. rowCooldown[e] = NoBackoff
        BY <2>1, <2>2 DEF WindowsAreSavedWhole
    <2> QED
        BY <2>1, <2>3 DEF NoBackoff
<1>6. ~StartBlind
    BY DEF StartBlind
<1>7. ASSUME TimePasses
      PROVE  HalfOpenNeverCooling'
    <2>1. Next
        BY <1>7, Zenon DEF TimePasses, Next
    <2> QED
        BY <1>2, <1>7, <2>1 DEF TimePasses
<1>8. ASSUME NEW s \in Saver, BeginSave(s) \/ CommitSave(s) \/ FailSave(s)
      PROVE  HalfOpenNeverCooling'
    BY <1>2, <1>8 DEF BeginSave, CommitSave, FailSave, EndSave
<1>9. ASSUME Close \/ CloseStore
      PROVE  HalfOpenNeverCooling'
    BY <1>2, <1>9 DEF Close, CloseStore
<1>10. ASSUME [Next]_vars, StoreAlone
       PROVE  HalfOpenNeverCooling'
    BY <1>2, <1>10 DEF StoreAlone
<1> QED
    BY <1>3, <1>4, <1>5, <1>6, <1>7, <1>8, <1>9, <1>10, EndpointSteps, Zenon

\* What the tables, the snapshot and the copies hold, by induction.
Kept ==
    /\ PTypeOK /\ NoSaveOutlivesTheProcess
    /\ CooldownRowsAreTracked /\ CircuitRowsAreTracked
    /\ WindowsAreSavedWhole /\ RestartKeepsWindows

LEMMA KeptAlways == PSpec => []Kept
<1>1. PInit => Kept
    <2>1. PInit => PTypeOK
        BY ZeroTyped DEF PInit, PTypeOK, Init, TypeOK
    <2>2. ASSUME PInit, NEW e \in Endpoint
          PROVE  /\ InReach(rowCircuit[e], savedCircuit[e])
                 /\ rowCooldown[e] = NoBackoff /\ rowCircuit[e] = Closed
                 /\ captured.circuit[e] = Closed /\ circuit[e] = Closed
        BY <2>2 DEF PInit, Init, NoRows, NoCircuits, Nothing, InReach
    <2>3. PInit => process = "up"
        BY DEF PInit
    <2> QED
        BY <2>1, <2>2, <2>3 DEF Kept, NoSaveOutlivesTheProcess, CooldownRowsAreTracked,
           CircuitRowsAreTracked, WindowsAreSavedWhole, RestartKeepsWindows,
           HalfOpenNeverCooling, HalfOpen, Closed
<1>2. Kept /\ [PNext]_PVars => Kept'
    BY PTypeStep, NoSaveStep, CooldownRowsStep, CircuitRowsStep, WindowsSavedStep,
       RestartStep, Zenon DEF Kept
<1> QED
    BY <1>1, <1>2, PTL DEF PSpec, PVars

(* The router and its store keep every record's shape through saves,        *)
(* crashes and restarts (saveCooldowns, loadCooldowns).                     *)
THEOREM StoreTypeCorrect == PSpec => []PTypeOK
BY KeptAlways, PTL DEF Kept

(* No cooldown row is ever out of the router's reach, whatever order saves, *)
(* failed saves, crashes and restarts came in, for any number of endpoints  *)
(* (saveCooldowns diffs against the snapshot, never the table).  A save can *)
(* commit only in a process that read the tables, which is what             *)
(* NoSaveOutlivesTheProcess adds.                                           *)
THEOREM RowsStayTracked == PSpec => []CooldownRowsAreTracked
BY KeptAlways, PTL DEF Kept

(* A restart does not tear a circuit from its cooldown, whichever save the  *)
(* process died in: the tables never hold a half-open circuit next to a     *)
(* running cooldown, because a save copies both maps at once, writes both   *)
(* in one transaction and diffs them against snapshots that know every row  *)
(* that matters (saveCooldowns, apply, loadCooldowns).                      *)
THEOREM RestartsKeepWindows == PSpec => []RestartKeepsWindows
BY KeptAlways, PTL DEF Kept

=============================================================================
