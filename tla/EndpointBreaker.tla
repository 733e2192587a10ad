-------------------------- MODULE EndpointBreaker --------------------------
(***************************************************************************)
(* What the router's circuit breaker promises its callers, whatever it     *)
(* counts and however it keeps time: a breaker that trips opens, the only  *)
(* way to requests from there is a trial, a trial lets through no more     *)
(* than a configured budget of them until it is decided or begun anew, and *)
(* a failure during a trial ends it.  EndpointHealth implements this with  *)
(* one counter for failures and trial requests alike.                      *)
(***************************************************************************)
EXTENDS Naturals

CONSTANTS Endpoint, Budgets

VARIABLES
    mode,       \* "closed" (serving), "open" (held back) or "trial"
    passes      \* requests let through by the trial under way

breakers == <<mode, passes>>

Init ==
    /\ mode = [e \in Endpoint |-> "closed"]
    /\ passes = [e \in Endpoint |-> 0]

Becomes(e, m, n) ==
    /\ mode' = [mode EXCEPT ![e] = m]
    /\ passes' = [passes EXCEPT ![e] = n]

Trip(e) == mode[e] = "closed" /\ Becomes(e, "open", 0)

\* The first request of a trial; of an undecided one too, begun anew.
BeginTrial(e) ==
    /\ mode[e] \in {"open", "trial"}
    /\ Becomes(e, "trial", 1)

Pass(e) ==
    /\ mode[e] = "trial"
    /\ \E n \in Budgets : passes[e] < n
    /\ Becomes(e, "trial", passes[e] + 1)

FailTrial(e) == mode[e] = "trial" /\ Becomes(e, "open", 0)

\* A success, however late, or an operator.
Recover(e) == Becomes(e, "closed", 0)

RecoverAll ==
    /\ mode' = [e \in Endpoint |-> "closed"]
    /\ passes' = [e \in Endpoint |-> 0]

Next ==
    \/ \E e \in Endpoint : \/ Trip(e) \/ BeginTrial(e) \/ Pass(e)
                           \/ FailTrial(e) \/ Recover(e)
    \/ RecoverAll

Spec == Init /\ [][Next]_breakers

=============================================================================
