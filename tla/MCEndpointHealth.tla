-------------------------- MODULE MCEndpointHealth --------------------------
(* A small instance of EndpointHealth for TLC: two endpoints of one host. *)
EXTENDS EndpointHealth, TLC

\* One representative of every class the classifiers tell apart.
AllFailures ==
    {[status |-> 429, says |-> "plain"],     \* throttled, reset, SSE error
     [status |-> 502, says |-> "timeout"],   \* a body cut off by the deadline
     [status |-> 0,   says |-> "timeout"],   \* no response in time
     [status |-> 400, says |-> "plain"],     \* the request is at fault
     [status |-> 400, says |-> "quota"],     \* the account is at fault
     [status |-> 400, says |-> "protocol"],  \* the wire shape is refused
     [status |-> 403, says |-> "plain"],     \* credentials
     [status |-> 404, says |-> "plain"]}     \* no such model

OnTheSameHost == [e \in Endpoint |-> CHOOSE h \in Host : TRUE]

Symmetry == Permutations(Attempt) \cup Permutations(Endpoint)

----------------------------------------------------------------------------
(* The curves with the code's own values, in seconds: every kind of failure *)
(* that the classifiers tell apart, and every error count up to the cap.    *)

Code == INSTANCE CooldownCurve WITH
    TransientBase <- 30,    GatewayTimeoutBase <- 60,   TimeoutBase <- 120,
    AuthBase <- 1800,       MissingBase <- 604800,      ProtocolBan <- 86400,
    MaxCooldown <- 1800,    SoftBan <- 86400,           HardBan <- 604800,
    SoftBanAfter <- 3,      HardBanAfter <- 10,         ErrorCap <- 100,
    JitterPercent <- 25

EveryFailure ==
    [status : {0, 301, 400, 401, 402, 403, 404, 408, 413, 422, 429,
               500, 501, 502, 503, 504, 599}, says : Code!Message]

\* README.md:351-361 as a table: the first cooldown and, for the doubling
\* rows, the ceiling.
Doubled(base, n) ==
    IF n > 7 \/ base * 2^(n - 1) > 1800 THEN 1800 ELSE base * 2^(n - 1)

Banned(base, n) == IF n >= 10 THEN 604800 ELSE IF n >= 3 THEN 86400 ELSE base

Documented(f, n) ==
    CASE Code!IsProtocolUnsupported(f) -> 86400
      [] Code!IsQuotaRefusal(f) -> Doubled(30, n)
      [] OTHER ->
         CASE f.status \in {500, 501, 502, 503, 599, 429} -> Doubled(30, n)
           [] f.status = 504 -> Doubled(60, n)
           [] f.status = 0 -> Doubled(IF f.says = "timeout" THEN 120 ELSE 30, n)
           [] f.status \in {400, 413, 422} -> 0
           [] f.status = 404 -> 604800
           [] f.status \in {401, 403} -> Banned(1800, n)
           [] f.status \in {301, 402, 408} -> Banned(30, n)

Fresh == \A e \in Endpoint : cooldown[e] = NoBackoff

(* An endpoint that starts without failures and fails n times in a row is   *)
(* given the documented cooldown: the escalation loops, overrides and bans  *)
(* compute the table for every status, message and error count (router.go   *)
(* escalateCooldown, cooldownForError, applyCooldown).                      *)
MatchesDocumentedTable ==
    Fresh => \A f \in EveryFailure, n \in 1..100 :
                 Code!Duration(f, n) = Documented(f, n)

=============================================================================
