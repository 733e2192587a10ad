---------------------------- MODULE ResponsesWalk ----------------------------
(***************************************************************************)
(* One request of the Responses API on its way through the fallback chain, *)
(* on its three surfaces: a JSON answer (handleResponsesCompletion), a     *)
(* stream of server-sent events (handleResponsesStream), and a turn on a   *)
(* WebSocket (serveResponsesWSTurn).  The last two translate the           *)
(* upstream's Chat Completions stream into an envelope of Responses events *)
(* (translateChatSSE, responsesStreamWriter), which is kept back until the *)
(* attempt has succeeded.                                                  *)
(*                                                                         *)
(* As in CompletionWalk the selection and the upstreams are free, and a    *)
(* timer fires at most Slack seconds late.  The stream of a Foreign        *)
(* endpoint is no Chat Completions stream; it is read as one all the same. *)
(* An event is the number of its response, its name and its item.          *)
(***************************************************************************)
EXTENDS WalkBudget, SequencesExt, FiniteSets

CONSTANTS
    Surfaces,       \* surfaces a request may come by: json, sse, ws
    Endpoint,       \* the endpoints a selection may return
    HostOf,         \* the upstream behind each
    Tokens,         \* the size of the prompt
    CommandCode,    \* endpoints that speak the Command Code protocol
    Foreign,        \* endpoints whose stream is not Chat Completions
    Patience,       \* max_interruption of each endpoint's provider
    ProxyTries,     \* proxies to try for each endpoint, 0 for a direct one
    ChainLength,    \* endpoints in the chain asked for
    Waits,          \* cooldowns the selection may report
    StreamIdle,     \* stream_idle_timeout
    Slack,          \* how late a timer may fire
    MaxCalls,       \* bound on the tool calls of an answer
    None            \* no endpoint

ASSUME ResponsesAssumption ==
    /\ Surfaces \subseteq {"json", "sse", "ws"}
    /\ Tokens \in Nat /\ ChainLength \in Nat /\ Slack \in Nat /\ MaxCalls \in Nat
    /\ CommandCode \subseteq Foreign /\ Foreign \subseteq Endpoint /\ None \notin Endpoint
    /\ Patience \in [Endpoint -> 1 .. MaxSessionInterruption]
    /\ ProxyTries \in [Endpoint -> Nat]
    /\ StreamIdle \in Nat \ {0} /\ Waits \subseteq Nat

Timeout == RequestAttemptTimeout(Tokens)

Budget == FallbackBudget(Timeout)

MaxAttempts == ChainLength * 3 + 1

VARIABLES
    surface,    \* the surface of this request
    phase,      \* where the handler is
    attempts,   \* walk.attempts
    silence,    \* time since the request came
    limit,      \* the silence at which the timer being waited for fires
    idle,       \* the window of the attempt's watchdog
    ep,         \* the endpoint being tried
    try,        \* which of its proxies
    proxied,    \* this try goes through a proxy
    tried,      \* endpoints retired for this request
    gone,       \* the client left
    answer,     \* how the request ended
    response,   \* number of the latest response id
    buffer,     \* the events of the attempt
    text,       \* it has text, kept back until the stream ends
    calls,      \* its tool calls
    out,        \* what the client was sent
    charged     \* how often each endpoint was charged with a failure

walk == <<surface, attempts, silence, limit, idle, ep, try, proxied>>
request == <<tried, gone, answer, charged>>
output == <<response, buffer, text, calls, out>>
vars == <<phase, walk, request, output>>

Init ==
    /\ surface \in Surfaces
    /\ phase = "looping" /\ attempts = 0 /\ silence = 0 /\ limit = 0 /\ idle = 0
    /\ ep = None /\ try = 0 /\ proxied = FALSE
    /\ tried = {} /\ gone = FALSE /\ answer = "none"
    /\ charged = [e \in Endpoint |-> 0]
    /\ response = 0 /\ buffer = <<>> /\ text = FALSE /\ calls = 0 /\ out = <<>>

----------------------------------------------------------------------------
(* Budgets. *)

Shortest == LeastOf({Patience[e] : e \in Endpoint} \cup {MaxSessionInterruption})

Ceiling(e) ==
    IF Tokens >= LargeContextTokens /\ Patience[e] < Timeout THEN Timeout ELSE Patience[e]

\* The provider's ceiling is a floor for Command Code and a cap for the others.
Preferred(e) ==
    Least(IF e \in CommandCode <=> Ceiling(e) > Timeout THEN Ceiling(e) ELSE Timeout,
          AttemptCeiling(Tokens))

\* Mutant: an attempt does not know what is left of the budget.
WholeTimeout(e, n) == Preferred(e)

\* What an attempt may take, out of what is left now.
TryTimeout(e, n) == AttemptTimeout(Budget, silence, n, Preferred(e))

Exhausted == attempts > 0 /\ silence > Budget

\* The hijacked connection of a WebSocket has no context that ends with it.
Noticed == gone /\ surface # "ws"

SameHost(e) == {x \in Endpoint : HostOf[x] = HostOf[e]}

\* proxyTries; the WebSocket asks once.
MaxProxyTries(e) == IF ProxyTries[e] <= 0 \/ surface = "ws" THEN 1 ELSE ProxyTries[e]

----------------------------------------------------------------------------
(* The envelope (responsesStreamWriter). *)

Event(name, item) == <<response, name, item>>

\* newResponsesStreamWriter: the lifecycle of the next response begins.
Opening == << <<response + 1, "created", 0>>, <<response + 1, "in_progress", 0>> >>

\* openTextItem, textDelta and the end of the message, item 0.
Message ==
    IF text THEN << Event("added", 0), Event("delta", 0), Event("done", 0) >> ELSE <<>>

\* Calls come after the message.
Base == IF text THEN 1 ELSE 0

Call(i) == << Event("added", Base + i), Event("arguments", Base + i), Event("done", Base + i) >>

\* One call after the other, three events each.
FunctionCalls == [k \in 1 .. 3 * calls |-> Call((k - 1) \div 3)[((k - 1) % 3) + 1]]

\* finish: lastFinishReason knows "tool_calls" and "stop" only.
Finished == buffer \o Message \o FunctionCalls \o << Event("completed", Base + calls) >>

----------------------------------------------------------------------------
(* The end of a request. *)

Finish(a, events) ==
    /\ phase' = "answered" /\ answer' = a /\ out' = events
    /\ UNCHANGED <<surface, silence, limit, idle, ep, try, proxied, tried, gone,
                   charged, response, buffer, text, calls>>

Error == << <<0, "error", 0>> >>

Unavailable == Finish("unavailable", Error)

\* A stream whose client left is ended without a word.
Cancelled == Finish("cancelled", IF surface = "sse" THEN <<>> ELSE Error)

----------------------------------------------------------------------------
(* The top of the loop. *)

Stop ==
    /\ phase = "looping"
    /\ \/ Noticed /\ Cancelled
       \/ ~Noticed /\ (Exhausted \/ attempts >= MaxAttempts) /\ Unavailable
    /\ UNCHANGED attempts

NextRound ==
    /\ phase = "looping" /\ ~Noticed /\ ~Exhausted /\ attempts < MaxAttempts
    /\ attempts' = attempts + 1

\* Mutant: the buffer is not reset.
KeepBuffer ==
    /\ response' = response + 1 /\ buffer' = buffer \o Opening
    /\ text' = FALSE /\ calls' = 0

\* buf.Reset and a new writer, for each try of a stream.
NewBuffer ==
    /\ response' = response + 1 /\ buffer' = Opening
    /\ text' = FALSE /\ calls' = 0

ThroughProxy(e) == proxied' \in (IF ProxyTries[e] > 0 THEN BOOLEAN ELSE {FALSE})

StartTry(e, n, timeout) ==
    /\ phase' = "connecting" /\ ep' = e /\ try' = n /\ ThroughProxy(e)
    /\ limit' = silence + timeout /\ idle' = Least(StreamIdle, timeout)
    /\ IF surface = "json" THEN UNCHANGED <<response, buffer, text, calls>> ELSE NewBuffer
    /\ UNCHANGED <<surface, silence, gone, answer, out>>

\* The endpoint is retired, with its host if no answer came from there, and
\* charged unless a proxy was at fault.
FailOver(e, host, charge) ==
    /\ phase' = "looping" /\ ep' = e
    /\ tried' = tried \cup {e} \cup (IF host THEN SameHost(e) ELSE {})
    /\ charged' = IF charge THEN [charged EXCEPT ![e] = @ + 1] ELSE charged
    /\ UNCHANGED <<surface, silence, limit, idle, try, proxied, gone, answer, output>>

\* A stream that has no time left has failed like one that took it.
Send(e) ==
    LET timeout == TryTimeout(e, attempts + 1)
    IN /\ NextRound
       /\ e \notin tried
       /\ IF timeout > 0 THEN StartTry(e, 1, timeout) /\ UNCHANGED <<tried, charged>>
          ELSE IF surface = "sse" THEN FailOver(e, TRUE, TRUE)
          ELSE Unavailable

WaitOrGiveUp(wait) ==
    LET sleeps == CycleBackSleeps(wait, Budget - silence, Shortest)
    IN /\ NextRound
       /\ wait > 0 => tried # Endpoint
       /\ IF sleeps = {} THEN Unavailable
          ELSE /\ phase' = "pausing"
               /\ \E s \in sleeps : limit' = silence + s
               /\ UNCHANGED <<surface, silence, idle, ep, try, proxied, request, output>>

Wake ==
    /\ phase = "pausing"
    /\ \/ Noticed /\ Cancelled
       \/ /\ ~Noticed /\ silence >= limit
          /\ phase' = "looping"
          /\ UNCHANGED <<surface, silence, limit, idle, ep, try, proxied, request, output>>
    /\ UNCHANGED attempts

----------------------------------------------------------------------------
(* An attempt. *)

\* Mutant: the endpoint pays for each of its proxies.
ChargedProxy ==
    /\ phase = "connecting" /\ ~Noticed /\ proxied
    /\ charged' = [charged EXCEPT ![ep] = @ + 1]
    /\ IF try >= MaxProxyTries(ep)
       THEN /\ phase' = "looping" /\ tried' = tried \cup {ep}
            /\ UNCHANGED <<surface, silence, limit, idle, ep, try, proxied, gone, answer, output>>
       ELSE /\ try' = try + 1 /\ ThroughProxy(ep)
            /\ UNCHANGED <<phase, surface, silence, limit, idle, ep, tried, gone, answer, output>>
    /\ UNCHANGED attempts

\* The proxy fails to deliver: the next one, or the next endpoint.  The proxies
\* of a JSON request share its deadline, those of a stream what is left; if
\* nothing is, the endpoint pays, as it always does on a WebSocket.
ProxyFails ==
    /\ phase = "connecting" /\ ~Noticed /\ proxied
    /\ IF try >= MaxProxyTries(ep) THEN FailOver(ep, FALSE, surface = "ws")
       ELSE IF surface = "json"
       THEN /\ try' = try + 1 /\ ThroughProxy(ep)
            /\ UNCHANGED <<phase, surface, silence, limit, idle, ep, request, output>>
       ELSE IF TryTimeout(ep, attempts) <= 0 THEN FailOver(ep, TRUE, TRUE)
       ELSE StartTry(ep, try + 1, TryTimeout(ep, attempts)) /\ UNCHANGED <<tried, charged>>
    /\ UNCHANGED attempts

\* No response, or no slot for a JSON request.
ConnectFails ==
    /\ phase = "connecting" /\ ~Noticed
    /\ proxied => surface = "json"
    /\ FailOver(ep, TRUE, TRUE)
    /\ UNCHANGED attempts

\* The client's leaving ends the upstream call: told apart for JSON only.
LeftWhileConnecting ==
    /\ phase = "connecting" /\ Noticed
    /\ IF surface = "json" THEN Finish("disconnected", Error) ELSE FailOver(ep, TRUE, TRUE)
    /\ UNCHANGED attempts

\* A status, or what should be a stream and is none.
Refuses ==
    /\ phase = "connecting" /\ ~Noticed
    /\ FailOver(ep, FALSE, TRUE)
    /\ UNCHANGED attempts

\* The watchdog of a stream starts; nothing this translator does resets it.
HeadersArrive ==
    /\ phase = "connecting" /\ ~Noticed
    /\ phase' = "receiving"
    /\ limit' = IF surface = "json" THEN limit ELSE Least(limit, silence + idle)
    /\ UNCHANGED <<attempts, surface, silence, idle, ep, try, proxied, request, output>>

\* translateChatSSE: of an event with text the tool calls are dropped, as
\* the text is never released before the stream ends.
Delta(hasText, hasCall) ==
    /\ phase = "receiving" /\ surface # "json" /\ ep \notin Foreign /\ ~Noticed
    /\ calls < MaxCalls \/ ~hasCall
    /\ text' = (text \/ hasText)
    /\ calls' = IF hasCall /\ ~hasText THEN calls + 1 ELSE calls
    /\ UNCHANGED <<phase, walk, request, response, buffer, out>>

\* The body ends early or is cut by a timer.  A stream's host is retired too;
\* whether a proxy carried it is not asked.
BodyFails ==
    /\ phase = "receiving"
    /\ FailOver(ep, surface # "json", TRUE)
    /\ UNCHANGED attempts

\* A JSON body that is too large, has an error status or is no completion.
UnusableBody == surface = "json"

\* An error event; Command Code's events are not recognised as events.
ErrorEvent == surface # "json" /\ ep \notin CommandCode

Unusable ==
    /\ phase = "receiving" /\ ~Noticed
    /\ UnusableBody \/ ErrorEvent
    /\ FailOver(ep, FALSE, TRUE)
    /\ UNCHANGED attempts

\* What the client is sent of a success.
Replayed == IF surface = "json" THEN << <<1, "envelope", 0>> >> ELSE Finished

Succeed ==
    /\ phase = "receiving" /\ ~Noticed
    /\ Finish("ok", Replayed)
    /\ UNCHANGED attempts

\* Mutant: the timeout ends with the headers.
HeaderTimeout == silence >= limit /\ (ConnectFails \/ ProxyFails)

\* The deadline of the attempt, or the watchdog.
TimerFires ==
    /\ silence >= limit
    /\ ConnectFails \/ ProxyFails \/ BodyFails

----------------------------------------------------------------------------

ClientLeaves ==
    /\ phase # "answered" /\ ~gone
    /\ gone' = TRUE
    /\ UNCHANGED <<phase, walk, tried, answer, charged, output>>

Tick ==
    /\ phase \in {"connecting", "receiving", "pausing"}
    /\ silence < limit + Slack
    /\ silence' = silence + 1
    /\ UNCHANGED <<phase, surface, attempts, limit, idle, ep, try, proxied, request, output>>

Answered == phase = "answered" /\ UNCHANGED vars

Loop ==
    \/ Stop
    \/ \E e \in Endpoint : Send(e)
    \/ \E wait \in Waits \cup {0} : WaitOrGiveUp(wait)

Left == LeftWhileConnecting \/ (Noticed /\ BodyFails)

Next ==
    \/ Loop \/ Wake \/ TimerFires \/ LeftWhileConnecting
    \/ ProxyFails \/ ConnectFails \/ Refuses \/ HeadersArrive
    \/ \E hasText, hasCall \in BOOLEAN : Delta(hasText, hasCall)
    \/ BodyFails \/ Unusable \/ Succeed
    \/ ClientLeaves \/ Tick \/ Answered

Spec == Init /\ [][Next]_vars

\* The handler's own goroutine and its timers run; no upstream need answer.
Fairness ==
    /\ WF_vars(Loop) /\ WF_vars(Wake) /\ WF_vars(TimerFires)
    /\ WF_vars(Left) /\ WF_vars(Tick)

FairSpec == Spec /\ Fairness

----------------------------------------------------------------------------
(* Properties. *)

(* Every variable keeps its type.                                           *)
TypeOK ==
    /\ surface \in Surfaces
    /\ phase \in {"looping", "connecting", "receiving", "pausing", "answered"}
    /\ attempts \in 0 .. MaxAttempts
    /\ silence \in Nat /\ limit \in Nat /\ idle \in Nat
    /\ ep \in Endpoint \cup {None} /\ try \in Nat /\ proxied \in BOOLEAN
    /\ phase \in {"connecting", "receiving"} => ep \in Endpoint
    /\ tried \subseteq Endpoint /\ gone \in BOOLEAN
    /\ answer # "none" <=> phase = "answered"
    /\ response \in Nat /\ text \in BOOLEAN /\ calls \in 0 .. MaxCalls
    /\ charged \in [Endpoint -> Nat]

\* Where in the answer the events of this name are.
Named(name) == {i \in DOMAIN out : out[i][2] = name}

(* "Every attempt here is fully buffered and only replayed to the client on *)
(* success": what the client gets, however many attempts and proxies it     *)
(* took, is one response from its creation to its completion.  Each item is *)
(* announced once, at the place the finished response lists it, and finished*)
(* once, before the next one is announced.                                  *)
OneWholeResponse ==
    (surface # "json" /\ answer = "ok") =>
        /\ Named("created") = {1} /\ Named("completed") = {Len(out)}
        /\ \A i \in DOMAIN out : out[i][1] = out[1][1]
        /\ \A name \in {"added", "done"} :
              /\ {out[i][3] : i \in Named(name)} = 0 .. Last(out)[3] - 1
              /\ \A i, j \in Named(name) : i < j => out[i][3] < out[j][3]
        /\ \A i \in Named("added"), j \in Named("done") :
              i < j <=> out[i][3] <= out[j][3]

(* "Shared policy with the chat loops: this path was the one that shipped   *)
(* unbounded for a while": on every surface the client has an answer by the *)
(* end of the budget.                                                       *)
SilenceBounded == silence <= Budget + Slack

(* One request charges an endpoint at most one failure, whatever its        *)
(* proxies do, and none if it served the answer.                            *)
ChargedOnce ==
    \A e \in Endpoint :
        /\ charged[e] <= 1
        /\ (answer = "ok" /\ e = ep) => charged[e] = 0

(* Every request is answered, whatever the upstreams do.                    *)
EventuallyAnswered == <>(phase = "answered")

----------------------------------------------------------------------------
(* The walk as the client and the endpoints see it. *)

Serving == IF phase \in {"connecting", "receiving"} \/ answer = "ok" THEN ep ELSE None

Verdict ==
    IF phase # "answered" THEN "open" ELSE IF answer = "ok" THEN "served" ELSE "failed"

Fallback == INSTANCE FallbackWalk WITH
    Limit <- MaxAttempts, serving <- Serving, retired <- tried, excused <- {},
    rounds <- attempts, verdict <- Verdict

(* The three loops of the Responses surfaces walk the chain as FallbackWalk *)
(* says, and let no endpoint off.                                           *)
ImplementsFallback == Fallback!Spec

=============================================================================
