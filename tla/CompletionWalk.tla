--------------------------- MODULE CompletionWalk ---------------------------
(***************************************************************************)
(* One buffered request on its way through the fallback chain              *)
(* (handleCompletion in api.go): select, forward, read, and on a failure   *)
(* charge the endpoint, retire it for this request and go on, within one   *)
(* budget of time and a limit of attempts.                                 *)
(*                                                                         *)
(* What the selection answers depends on every other request; here it is   *)
(* any endpoint this request did not retire, a wait, or nothing            *)
(* (SessionRouting says which).  The upstream may do anything at any time; *)
(* a timer fires at most Slack seconds late.                               *)
(***************************************************************************)
EXTENDS WalkBudget, FiniteSets

CONSTANTS
    Endpoint,       \* the endpoints a selection may return
    HostOf,         \* the upstream behind each
    Tokens,         \* the size of the prompt
    CommandCode,    \* endpoints that speak the Command Code protocol
    Patience,       \* max_interruption of each endpoint's provider
    ProxyTries,     \* proxies to try for each endpoint, 0 for a direct one
    ChainLength,    \* endpoints in the chain asked for
    Waits,          \* cooldowns the selection may report
    Pauses,         \* what the pause between attempts comes to
    Slack,          \* how late a timer may fire
    None            \* no endpoint

ASSUME WalkAssumption ==
    /\ Tokens \in Nat /\ ChainLength \in Nat /\ Slack \in Nat
    /\ CommandCode \subseteq Endpoint /\ None \notin Endpoint
    /\ Patience \in [Endpoint -> 1 .. MaxSessionInterruption]
    /\ ProxyTries \in [Endpoint -> Nat]
    /\ Waits \subseteq Nat /\ Pauses \subseteq Nat

Timeout == RequestAttemptTimeout(Tokens)

Budget == FallbackBudget(Timeout)

MaxAttempts == ChainLength * 3 + 1

VARIABLES
    phase,      \* where the handler is
    attempts,   \* walk.attempts
    silence,    \* time since the request came: the client gets nothing before its answer
    limit,      \* the silence at which the timer being waited for fires
    ep,         \* the endpoint being tried
    try,        \* which of its proxies
    tried,      \* endpoints retired for this request
    flipped,    \* protocolFlips
    advanced,   \* nonRetryableAdvanced
    gone,       \* the client left
    answer,     \* what the client was told
    sent,       \* how often each endpoint was asked
    charged,    \* how often each was charged with a failure
    fatal       \* refusals that no other endpoint would answer differently

vars == <<phase, attempts, silence, limit, ep, try, tried, flipped, advanced,
          gone, answer, sent, charged, fatal>>

Answers == {"none", "ok", "unavailable", "no_vision", "saturated", "cancelled",
            "disconnected", "upstream_error"}

Init ==
    /\ phase = "looping" /\ attempts = 0 /\ silence = 0 /\ limit = 0
    /\ ep = None /\ try = 0 /\ tried = {} /\ flipped = {}
    /\ advanced = FALSE /\ gone = FALSE /\ answer = "none"
    /\ sent = [e \in Endpoint |-> 0]
    /\ charged = [e \in Endpoint |-> 0]
    /\ fatal = 0

----------------------------------------------------------------------------
(* Budgets and penalties. *)

\* MaxInterruptionFor: the smallest ceiling among the providers.
Shortest == LeastOf({Patience[e] : e \in Endpoint} \cup {MaxSessionInterruption})

\* What an attempt on e would like: the size's allowance, Command Code's own.
Preferred(e) ==
    Least(IF e \in CommandCode /\ Patience[e] > Timeout THEN Patience[e] ELSE Timeout,
          AttemptCeiling(Tokens))

Exhausted == attempts > 0 /\ silence > Budget

SameHost(e) == {x \in Endpoint : HostOf[x] = HostOf[e]}

\* tried[ep] = true, and its siblings if no answer came from the host.
Retire(e, host) == tried \cup {e} \cup (IF host THEN SameHost(e) ELSE {})

ChargeEndpoint(e) == [charged EXCEPT ![e] = @ + 1]

MaxProxyTries(e) == IF ProxyTries[e] <= 0 THEN 1 ELSE ProxyTries[e]

ProxyLeft(e) == try < MaxProxyTries(e)

----------------------------------------------------------------------------
(* The top of the loop. *)

Answer(a) ==
    /\ phase' = "answered" /\ answer' = a
    /\ UNCHANGED <<silence, limit, ep, try, tried, flipped, advanced, gone,
                   sent, charged, fatal>>

Cancelled ==
    /\ phase = "looping" /\ gone
    /\ Answer("cancelled")
    /\ UNCHANGED attempts

\* The budget or the attempts are spent.
Stop ==
    /\ phase = "looping" /\ ~gone
    /\ \/ Exhausted /\ Answer("unavailable")
       \/ /\ ~Exhausted /\ attempts >= MaxAttempts
          /\ Answer("unavailable") \/ Answer("no_vision")
    /\ UNCHANGED attempts

\* walk.next(): from here on the round counts as an attempt.
NextRound ==
    /\ phase = "looping" /\ ~gone /\ ~Exhausted /\ attempts < MaxAttempts
    /\ attempts' = attempts + 1

\* The selection names e.
Send(e) ==
    LET timeout == AttemptTimeout(Budget, silence, attempts + 1, Preferred(e))
    IN /\ NextRound
       /\ e \notin tried
       /\ IF timeout <= 0 THEN Answer("unavailable")
          ELSE /\ phase' = "attempt" /\ ep' = e /\ try' = 1
               /\ limit' = silence + timeout
               /\ sent' = [sent EXCEPT ![e] = @ + 1]
               /\ UNCHANGED <<silence, tried, flipped, advanced, gone, answer,
                              charged, fatal>>

\* The selection names none and reports the shortest cooldown, 0 for nothing.
WaitOrGiveUp(wait) ==
    LET sleeps == CycleBackSleeps(wait, Budget - silence, Shortest)
    IN /\ NextRound
       /\ wait > 0 => tried # Endpoint
       /\ IF sleeps = {} THEN Answer("unavailable") \/ Answer("no_vision")
          ELSE /\ phase' = "pausing"
               /\ \E s \in sleeps : limit' = silence + s
               /\ UNCHANGED <<silence, ep, try, tried, flipped, advanced, gone,
                              answer, sent, charged, fatal>>

Wake ==
    /\ phase = "pausing" /\ (silence >= limit \/ gone)
    /\ phase' = "looping"
    /\ UNCHANGED <<attempts, silence, limit, ep, try, tried, flipped, advanced,
                   gone, answer, sent, charged, fatal>>

----------------------------------------------------------------------------
(* An attempt.  A request whose client left is cancelled everywhere.       *)

Saturated ==
    /\ phase = "attempt" /\ ~gone
    /\ Answer("saturated")
    /\ UNCHANGED attempts

Disconnected ==
    /\ phase \in {"attempt", "reading"} /\ gone
    /\ Answer("disconnected")
    /\ UNCHANGED attempts

\* A proxy failed to deliver: the next one, or the next endpoint, uncharged.
ProxyFails ==
    /\ phase = "attempt" /\ ~gone /\ ProxyTries[ep] > 0
    /\ IF ProxyLeft(ep)
       THEN try' = try + 1 /\ UNCHANGED <<phase, tried>>
       ELSE phase' = "looping" /\ tried' = Retire(ep, FALSE) /\ UNCHANGED try
    /\ UNCHANGED <<attempts, silence, limit, ep, flipped, advanced, gone, answer,
                   sent, charged, fatal>>

\* The endpoint is charged and retired, and the walk goes on.
FailOver(host) ==
    /\ phase' = "looping"
    /\ tried' = Retire(ep, host)
    /\ charged' = ChargeEndpoint(ep)
    /\ UNCHANGED <<attempts, silence, limit, ep, try, flipped, gone, answer, sent>>

TransportFails ==
    /\ phase = "attempt" /\ ~gone
    /\ FailOver(TRUE)
    /\ UNCHANGED <<advanced, fatal>>

\* interAttemptWait after an answer that another endpoint may better.
PauseAndFailOver ==
    /\ tried' = Retire(ep, FALSE)
    /\ charged' = ChargeEndpoint(ep)
    /\ \E pause \in Pauses :
          LET sleeps == CycleBackSleeps(pause, Budget - silence, Patience[ep])
          IN IF sleeps = {} THEN phase' = "looping" /\ UNCHANGED limit
             ELSE phase' = "pausing" /\ \E s \in sleeps : limit' = silence + s
    /\ UNCHANGED <<attempts, silence, ep, try, flipped, advanced, gone, answer,
                   sent, fatal>>

RetryableRefusal == phase = "attempt" /\ ~gone /\ PauseAndFailOver

\* Mutants: the flip is not remembered; the refusal is charged as well.
FlipEveryTime ==
    /\ phase = "attempt" /\ ~gone
    /\ phase' = "looping"
    /\ UNCHANGED <<attempts, silence, limit, ep, try, tried, flipped, advanced,
                   gone, answer, sent, charged, fatal>>

ChargedFlip ==
    /\ phase = "attempt" /\ ~gone
    /\ ep \notin flipped
    /\ flipped' = flipped \cup {ep} /\ phase' = "looping"
    /\ charged' = ChargeEndpoint(ep)
    /\ UNCHANGED <<attempts, silence, limit, ep, try, tried, advanced,
                   gone, answer, sent, fatal>>

\* The endpoint refuses this protocol: it is asked again in the other one,
\* once, and then refused like any other.
ProtocolRefusal ==
    /\ phase = "attempt" /\ ~gone
    /\ \/ /\ ep \notin flipped
          /\ flipped' = flipped \cup {ep} /\ phase' = "looping"
          /\ UNCHANGED <<attempts, silence, limit, ep, try, tried, advanced,
                         gone, answer, sent, charged, fatal>>
       \/ ep \in flipped /\ PauseAndFailOver

\* 400, 401, 403, 404: another endpoint is asked at most once.
FatalRefusal ==
    /\ phase = "attempt" /\ ~gone
    /\ fatal' = fatal + 1
    /\ IF ~advanced
       THEN FailOver(FALSE) /\ advanced' = TRUE
       ELSE /\ phase' = "answered" /\ answer' = "upstream_error"
            /\ tried' = Retire(ep, FALSE) /\ charged' = ChargeEndpoint(ep)
            /\ UNCHANGED <<attempts, silence, limit, ep, try, flipped, advanced,
                           gone, sent>>

HeadersArrive ==
    /\ phase = "attempt" /\ ~gone
    /\ phase' = "reading"
    /\ UNCHANGED <<attempts, silence, limit, ep, try, tried, flipped, advanced,
                   gone, answer, sent, charged, fatal>>

\* The body ends early, or the client is gone and with it the upstream call.
BodyFails ==
    /\ phase = "reading"
    /\ FailOver(TRUE)
    /\ UNCHANGED <<advanced, fatal>>

\* The body is too large, or cannot be folded into a completion.
Unusable ==
    /\ phase = "reading" /\ ~gone
    /\ FailOver(FALSE)
    /\ UNCHANGED <<advanced, fatal>>

Succeed ==
    /\ phase = "reading" /\ ~gone
    /\ Answer("ok")
    /\ UNCHANGED attempts

----------------------------------------------------------------------------

ClientLeaves ==
    /\ phase # "answered" /\ ~gone
    /\ gone' = TRUE
    /\ UNCHANGED <<phase, attempts, silence, limit, ep, try, tried, flipped,
                   advanced, answer, sent, charged, fatal>>

Tick ==
    /\ phase \in {"attempt", "reading", "pausing"}
    /\ silence < limit + Slack
    /\ silence' = silence + 1
    /\ UNCHANGED <<phase, attempts, limit, ep, try, tried, flipped, advanced,
                   gone, answer, sent, charged, fatal>>

Answered == phase = "answered" /\ UNCHANGED vars

Next ==
    \/ Cancelled \/ Stop
    \/ \E e \in Endpoint : Send(e)
    \/ \E wait \in Waits \cup {0} : WaitOrGiveUp(wait)
    \/ Wake
    \/ Saturated \/ Disconnected \/ ProxyFails \/ TransportFails
    \/ RetryableRefusal \/ ProtocolRefusal \/ FatalRefusal
    \/ HeadersArrive \/ BodyFails \/ Unusable \/ Succeed
    \/ ClientLeaves \/ Tick \/ Answered

Spec == Init /\ [][Next]_vars

----------------------------------------------------------------------------
(* Properties. *)

(* Every variable keeps its type, and no endpoint is tried through more     *)
(* proxies than it is configured for.                                       *)
TypeOK ==
    /\ phase \in {"looping", "attempt", "reading", "pausing", "answered"}
    /\ attempts \in 0 .. MaxAttempts
    /\ silence \in Nat /\ limit \in Nat
    /\ ep \in Endpoint \cup {None}
    /\ phase \in {"attempt", "reading"} => ep \in Endpoint /\ try \in 1 .. MaxProxyTries(ep)
    /\ try \in Nat
    /\ tried \subseteq Endpoint /\ flipped \subseteq Endpoint
    /\ advanced \in BOOLEAN /\ gone \in BOOLEAN
    /\ answer \in Answers /\ (answer # "none" <=> phase = "answered")
    /\ sent \in [Endpoint -> Nat] /\ charged \in [Endpoint -> Nat]
    /\ fatal \in Nat

(* "The cumulative walk cannot exceed it either" (maxSessionInterruption):  *)
(* whatever attempts, pauses and cooldown waits add up to, the client has   *)
(* an answer by the end of the budget.                                      *)
SilenceBounded == silence <= Budget + Slack

(* No endpoint is asked twice in one request, save once more in the other   *)
(* protocol (tried, protocolFlips).                                         *)
SentOnce ==
    \A e \in Endpoint : sent[e] <= 1 + Cardinality({e} \cap flipped)

\* A refusal that blames the request advances the chain at most once
\* (isRetryableForChain): the second is what the client is told.
FatalSurfaces == fatal >= 2 => fatal = 2 /\ answer = "upstream_error"

(* No endpoint is charged more than one failure by one request, and one     *)
(* whose answer is served is charged none: neither a refused protocol nor   *)
(* a proxy's failure counts.  Nor does a request that is itself to blame    *)
(* charge its way down the chain.                                           *)
ChargedOnce ==
    /\ \A e \in Endpoint :
          /\ charged[e] <= 1
          /\ (answer = "ok" /\ e = ep) => charged[e] = 0
    /\ FatalSurfaces

----------------------------------------------------------------------------
(* The walk as the client and the endpoints see it. *)

Serving == IF phase \in {"attempt", "reading"} \/ answer = "ok" THEN ep ELSE None

Verdict ==
    IF phase # "answered" THEN "open" ELSE IF answer = "ok" THEN "served" ELSE "failed"

Fallback == INSTANCE FallbackWalk WITH
    Limit <- MaxAttempts, serving <- Serving, retired <- tried, excused <- flipped,
    rounds <- attempts, verdict <- Verdict

(* handleCompletion walks the chain as FallbackWalk says: retiring,          *)
(* charging and letting off go together as there, on each of its paths.     *)
ImplementsFallback == Fallback!Spec

=============================================================================
