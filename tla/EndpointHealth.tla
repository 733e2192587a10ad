--------------------------- MODULE EndpointHealth ---------------------------
(***************************************************************************)
(* The router's record of each upstream endpoint's health (router.go): the *)
(* per-endpoint cooldown, the circuit breaker that sits on top of it, the  *)
(* backoff of a whole upstream host, and the attempts in flight whose      *)
(* outcomes move them.  Every action is one critical section of r.mu.      *)
(*                                                                         *)
(* Time is relative: a cooldown is what is left of it, and the age of a    *)
(* half-open circuit stops mattering once it exceeds MaxCooldown.  OpenedAt*)
(* is read by the router only while half-open, so age is 0 otherwise.      *)
(* An absent map entry is the zero record: errors = 0, or a closed circuit.*)
(* Persistence is not here: a router without a store does not save.        *)
(***************************************************************************)
EXTENDS CooldownCurve, FiniteSets

CONSTANTS
    Endpoint,       \* provider:model pairs (ModelEndpoint.Key)
    Host,           \* upstream URLs
    HostOf,         \* the host behind an endpoint's provider
    Attempt,        \* upstream calls that may be in flight together
    Failure,        \* the failures considered
    RetryAfters,    \* Retry-After values an upstream may send, 0 for none
    Thresholds,     \* values circuit_breaker_threshold is configured to
    ProbeBudgets    \* values circuit_half_open_probes is configured to

ASSUME TopologyAssumption == HostOf \in [Endpoint -> Host]
ASSUME FailureAssumption == Failure \subseteq FailureType
ASSUME ConfigAssumption ==
    /\ RetryAfters \subseteq Nat /\ 0 \in RetryAfters
    /\ Thresholds \subseteq Nat
    /\ ProbeBudgets \subseteq Nat \ {0}
ASSUME AttemptAssumption == IsFiniteSet(Attempt)

VARIABLES
    cooldown,       \* CooldownEntry: time left, consecutive errors
    circuit,        \* CircuitBreaker: state, probesSent, time since OpenedAt
    host,           \* hostCooldowns: time left, consecutive errors
    attempt,        \* the upstream calls in flight
    threshold,      \* circuitBreakerThreshold
    probeBudget     \* circuitHalfOpenProbes

vars == <<cooldown, circuit, host, attempt, threshold, probeBudget>>

----------------------------------------------------------------------------
(* State. *)

Backing == [left : Nat, errors : 0..ErrorCap]

NoBackoff == [left |-> 0, errors |-> 0]

Circuit == [state : {"closed", "open", "half-open"},
            probesSent : Nat, age : 0..(MaxCooldown + 1)]

Closed == [state |-> "closed", probesSent |-> 0, age |-> 0]

\* probe: admitted against the budget of the half-open window its endpoint is
\* in now.  The code keeps no such mark; the properties are about it.
\* timedOut: applyCooldown has run and PenalizeHost is still to come.
Idle == [phase |-> "idle"]

AttemptState ==
    {Idle} \cup [phase : {"sent", "timedOut"}, ep : Endpoint, probe : BOOLEAN]

InFlight(a) == attempt[a].phase = "sent"

Probes(e) == {a \in Attempt : /\ InFlight(a)
                              /\ attempt[a].ep = e /\ attempt[a].probe}

Init ==
    /\ cooldown = [e \in Endpoint |-> NoBackoff]
    /\ circuit = [e \in Endpoint |-> Closed]
    /\ host = [h \in Host |-> NoBackoff]
    /\ attempt = [a \in Attempt |-> Idle]
    /\ threshold \in Thresholds
    /\ probeBudget \in ProbeBudgets

----------------------------------------------------------------------------
(* isAvailableLocked: the decision, and what a positive one does to the     *)
(* circuit.  A negative one changes nothing.                                *)

HalfOpen(e) == circuit[e].state = "half-open"

HostCooling(e) == host[HostOf[e]].left > 0

Cooling(e) == cooldown[e].left > 0

\* Mutant: nothing ever frees a window whose probes were lost.
NeverStranded(e) == FALSE

\* A window whose budget is spent and that outlived the longest transient cooldown.
Stranded(e) ==
    /\ circuit[e].probesSent >= probeBudget
    /\ circuit[e].age > MaxCooldown

\* Mutant: a half-open endpoint is limited by its cooldown only.
AvailableWithoutBudget(e) == ~HostCooling(e) /\ ~Cooling(e)

Available(e) ==
    /\ ~HostCooling(e)
    /\ IF HalfOpen(e)
       THEN circuit[e].probesSent < probeBudget \/ Stranded(e)
       ELSE ~Cooling(e)

NewWindow == [state |-> "half-open", probesSent |-> 1, age |-> 0]

\* Whether admitting a request to e begins a half-open window.
BeginsWindow(e) ==
    circuit[e].state = "open" \/ (HalfOpen(e) /\ Stranded(e))

\* Mutant: requests after the first are not counted.
AdmittedUncounted(e) == IF BeginsWindow(e) THEN NewWindow ELSE circuit[e]

Admitted(e) ==
    IF BeginsWindow(e) THEN NewWindow
    ELSE IF HalfOpen(e) THEN [circuit[e] EXCEPT !.probesSent = @ + 1]
    ELSE circuit[e]

\* The attempts once e's half-open window is over: none is its probe any more.
Retired(e) ==
    [a \in Attempt |-> IF a \in Probes(e)
                       THEN [attempt[a] EXCEPT !.probe = FALSE] ELSE attempt[a]]

AfterAdmission(e) == IF BeginsWindow(e) THEN Retired(e) ELSE attempt

----------------------------------------------------------------------------
(* Selection. *)

\* An endpoint is found available and an attempt on it is sent.
Dispatch(a, e) ==
    /\ attempt[a] = Idle
    /\ Available(e)
    /\ circuit' = [circuit EXCEPT ![e] = Admitted(e)]
    /\ attempt' = [AfterAdmission(e) EXCEPT
           ![a] = [phase |-> "sent", ep |-> e,
                   probe |-> Admitted(e).state = "half-open"]]
    /\ UNCHANGED <<cooldown, host, threshold, probeBudget>>

\* An endpoint is found available and not used: every position of the rotation
\* window is checked for one pick, and a walk checks availability before it
\* checks the images, the prompt size and the endpoints already tried.
Inspect(e) ==
    /\ Available(e)
    /\ circuit[e].state # "closed"
    /\ circuit' = [circuit EXCEPT ![e] = Admitted(e)]
    /\ attempt' = AfterAdmission(e)
    /\ UNCHANGED <<cooldown, host, threshold, probeBudget>>

----------------------------------------------------------------------------
(* Outcomes. *)

\* RecordSuccess.
Succeed(a) ==
    /\ InFlight(a)
    /\ LET e == attempt[a].ep IN
       /\ cooldown' = [cooldown EXCEPT ![e] = NoBackoff]
       /\ circuit' = [circuit EXCEPT ![e] = Closed]
       /\ host' = [host EXCEPT ![HostOf[e]] = NoBackoff]
       /\ attempt' = [Retired(e) EXCEPT ![a] = Idle]
    /\ UNCHANGED <<threshold, probeBudget>>

CountsForCircuit(f) == IsTransient(f) \/ IsQuotaRefusal(f)

\* Mutant: a failed probe does not reopen.
OnlyTrips(cb) == cb.state = "closed" /\ cb.probesSent + 1 >= threshold

\* A failed probe reopens at once; a closed circuit trips at the threshold.
Reopens(cb) ==
    cb.state = "half-open" \/ (cb.state = "closed" /\ cb.probesSent + 1 >= threshold)

\* recordCircuitFailureLocked.  A failed probe counts whatever its status.
FailedCircuit(e, f) ==
    LET cb == circuit[e] IN
    IF threshold = 0 \/ ~(HalfOpen(e) \/ CountsForCircuit(f)) THEN cb
    ELSE [state |-> IF Reopens(cb) THEN "open" ELSE cb.state,
          probesSent |-> cb.probesSent + 1, age |-> 0]

OneMore(errors) == IF errors < ErrorCap THEN errors + 1 ELSE ErrorCap

\* Whether skipSameHostOnTransportFailure may go on to PenalizeHost: a deadline
\* with no response, or one that cut off the body, which is recorded as a 502.
MayPenalizeHost(f) == f.says = "timeout" /\ f.status \in {0, 502}

\* applyCooldown.  A Retry-After comes only with an HTTP status.
Fail(a, f, retryAfter) ==
    /\ InFlight(a)
    /\ f.status = 0 => retryAfter = 0
    /\ LET e == attempt[a].ep
           n == OneMore(cooldown[e].errors)
       IN
       /\ cooldown' = [cooldown EXCEPT
              ![e] = [left |-> Backoff(f, n, retryAfter), errors |-> n]]
       /\ circuit' = [circuit EXCEPT ![e] = FailedCircuit(e, f)]
       /\ \E after \in {Idle} \cup (IF MayPenalizeHost(f)
                                    THEN {[phase |-> "timedOut", ep |-> e,
                                           probe |-> FALSE]} ELSE {}) :
             attempt' = [(IF FailedCircuit(e, f).state = "half-open"
                          THEN attempt ELSE Retired(e)) EXCEPT ![a] = after]
    /\ UNCHANGED <<host, threshold, probeBudget>>

\* PenalizeHost, after applyCooldown has released the lock.
PenalizeHost(a) ==
    /\ attempt[a].phase = "timedOut"
    /\ LET h == HostOf[attempt[a].ep]
           n == OneMore(host[h].errors)
       IN host' = [host EXCEPT
              ![h] = [left |-> EscalateCooldown(TimeoutBase, n), errors |-> n]]
    /\ attempt' = [attempt EXCEPT ![a] = Idle]
    /\ UNCHANGED <<cooldown, circuit, threshold, probeBudget>>

\* The attempt ends and the router is told nothing: the client left, the
\* upstream slots are full, the proxy failed, the budget ran out, or the
\* endpoint refused the protocol and the walk goes round again.
Abandon(a) ==
    /\ InFlight(a)
    /\ attempt' = [attempt EXCEPT ![a] = Idle]
    /\ UNCHANGED <<cooldown, circuit, host, threshold, probeBudget>>

----------------------------------------------------------------------------
(* The operator, the configuration and the sweeper. *)

\* Mutant: the circuit is forgotten.
ClearOnlyCooldown(e) ==
    /\ cooldown[e] # NoBackoff \/ circuit[e] # Closed
    /\ cooldown' = [cooldown EXCEPT ![e] = NoBackoff]
    /\ UNCHANGED <<circuit, host, attempt, threshold, probeBudget>>

\* DELETE /admin/cooldowns?model=e
ClearCooldown(e) ==
    /\ cooldown[e] # NoBackoff \/ circuit[e] # Closed
    /\ cooldown' = [cooldown EXCEPT ![e] = NoBackoff]
    /\ circuit' = [circuit EXCEPT ![e] = Closed]
    /\ attempt' = Retired(e)
    /\ UNCHANGED <<host, threshold, probeBudget>>

\* DELETE /admin/cooldowns: every entry, of endpoints and circuits.
ClearAllCooldowns ==
    /\ cooldown' = [e \in Endpoint |-> NoBackoff]
    /\ circuit' = [e \in Endpoint |-> Closed]
    /\ attempt' = [a \in Attempt |-> IF InFlight(a)
                       THEN [attempt[a] EXCEPT !.probe = FALSE] ELSE attempt[a]]
    /\ UNCHANGED <<host, threshold, probeBudget>>

\* ReloadConfig, one setter and one critical section at a time.
SetCircuitBreakerThreshold(n) ==
    /\ threshold' = n
    /\ UNCHANGED <<cooldown, circuit, host, attempt, probeBudget>>

SetCircuitHalfOpenProbes(n) ==
    /\ probeBudget' = n
    /\ UNCHANGED <<cooldown, circuit, host, attempt, threshold>>

\* cleanupStaleEntries: an expired host backoff is forgotten, errors included.
SweepHosts ==
    /\ host' = [h \in Host |-> IF host[h].left = 0 THEN NoBackoff ELSE host[h]]
    /\ UNCHANGED <<cooldown, circuit, attempt, threshold, probeBudget>>

Elapsed(b) == [b EXCEPT !.left = IF @ > 0 THEN @ - 1 ELSE 0]

Aged(cb) ==
    IF cb.state = "half-open" /\ cb.age <= MaxCooldown
    THEN [cb EXCEPT !.age = @ + 1] ELSE cb

Tick ==
    /\ cooldown' = [e \in Endpoint |-> Elapsed(cooldown[e])]
    /\ host' = [h \in Host |-> Elapsed(host[h])]
    /\ circuit' = [e \in Endpoint |-> Aged(circuit[e])]
    /\ UNCHANGED <<attempt, threshold, probeBudget>>

----------------------------------------------------------------------------

Select(a) == \E e \in Endpoint : Dispatch(a, e)

Outcome(a) ==
    \/ Succeed(a)
    \/ \E f \in Failure, retryAfter \in RetryAfters : Fail(a, f, retryAfter)
    \/ PenalizeHost(a)
    \/ Abandon(a)

Administer ==
    \/ \E e \in Endpoint : ClearCooldown(e)
    \/ ClearAllCooldowns
    \/ \E n \in Thresholds : SetCircuitBreakerThreshold(n)
    \/ \E n \in ProbeBudgets : SetCircuitHalfOpenProbes(n)
    \/ SweepHosts

Next ==
    \/ \E a \in Attempt : Select(a) \/ Outcome(a)
    \/ \E e \in Endpoint : Inspect(e)
    \/ Administer
    \/ Tick

Spec == Init /\ [][Next]_vars

----------------------------------------------------------------------------
(* Safety. *)

(* Every record keeps its shape and ErrorCount stays under its cap.         *)
TypeOK ==
    /\ cooldown \in [Endpoint -> Backing]
    /\ circuit \in [Endpoint -> Circuit]
    /\ host \in [Host -> Backing]
    /\ attempt \in [Attempt -> AttemptState]
    /\ threshold \in Thresholds
    /\ probeBudget \in ProbeBudgets

(* A half-open endpoint is never also cooling down: whatever failure starts *)
(* a cooldown also ends the half-open window, in the same critical section  *)
(* (applyCooldown, recordCircuitFailureLocked), so a probe is never sent to *)
(* an endpoint that is still backing off.  It holds while the breaker is    *)
(* never switched off by configuration.                                     *)
HalfOpenNeverCooling ==
    0 \notin Thresholds => \A e \in Endpoint : HalfOpen(e) => ~Cooling(e)

(* The probes in flight on a half-open endpoint were all charged to its     *)
(* window, and a window never admits more than a configured budget, however *)
(* selections, outcomes, re-armed windows and reloads interleave            *)
(* (isAvailableLocked).                                                     *)
ProbesArePaidFor ==
    \A e \in Endpoint : HalfOpen(e) =>
        /\ Cardinality(Probes(e)) <= circuit[e].probesSent
        /\ \E n \in ProbeBudgets : circuit[e].probesSent <= n

(* A tripped circuit means that many failures in a row: the breaker's own   *)
(* counter and the cooldown's ErrorCount are two counts, reset by different *)
(* code, and ProbesSent serves two purposes; yet the breaker never counts a *)
(* failure since the last success that ErrorCount did not (until that one   *)
(* stops at its cap), and no endpoint is held back by its circuit unless it *)
(* failed a configured threshold of times since that success                *)
(* (recordCircuitFailureLocked, RecordSuccess, ClearCooldowns).             *)
TrippedMeansFailing ==
    \A e \in Endpoint : cooldown[e].errors < ErrorCap =>
        IF circuit[e].state = "closed"
        THEN circuit[e].probesSent <= cooldown[e].errors
        ELSE \E n \in Thresholds \ {0} : cooldown[e].errors >= n

(* What the router promises: the textbook breaker, its trial's requests     *)
(* counted in ProbesSent while half-open.                                   *)
Mode(cb) == IF cb.state = "half-open" THEN "trial" ELSE cb.state

Passes(cb) == IF cb.state = "half-open" THEN cb.probesSent ELSE 0

Breaker == INSTANCE EndpointBreaker WITH
    Budgets <- ProbeBudgets,
    mode <- [e \in Endpoint |-> Mode(circuit[e])],
    passes <- [e \in Endpoint |-> Passes(circuit[e])]

(* The circuit code, with its one counter for failures and probes, its      *)
(* re-armed windows, late outcomes and reloads, is that breaker             *)
(* (isAvailableLocked, recordCircuitFailureLocked, RecordSuccess,           *)
(* ClearCooldowns).                                                         *)
ImplementsBreaker == Breaker!Spec

=============================================================================
