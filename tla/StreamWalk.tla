----------------------------- MODULE StreamWalk -----------------------------
(***************************************************************************)
(* One streamed request on its way through the fallback chain              *)
(* (handleStream in api.go, StreamToClient in proxy.go).  Text reaches the *)
(* client while an attempt runs; when the attempt then fails, the text is  *)
(* replayed to the next endpoint, which continues it.  Every write starts  *)
(* a new interruption window.                                              *)
(*                                                                         *)
(* Only text is modelled of the output, not tool calls or reasoning; the   *)
(* relay of one attempt is the subject of StreamRelay.  As in              *)
(* CompletionWalk the selection and the upstreams are free, and a timer    *)
(* fires at most Slack seconds late.  Once it has given text, a stream     *)
(* that is read through a translator is not ended by its watchdog, whose   *)
(* Close reaches no response body.                                         *)
(***************************************************************************)
EXTENDS WalkBudget, SequencesExt, FiniteSets

CONSTANTS
    Endpoint,       \* the endpoints a selection may return
    HostOf,         \* the upstream behind each
    Tokens,         \* the size of the prompt
    CommandCode,    \* endpoints that speak the Command Code protocol
    Translated,     \* endpoints whose stream is read through a translator
    Patience,       \* max_interruption of each endpoint's provider
    ProxyTries,     \* proxies to try for each endpoint, 0 for a direct one
    ChainLength,    \* endpoints in the chain asked for
    Waits,          \* cooldowns the selection may report
    StreamIdle,     \* stream_idle_timeout
    Slack,          \* how late a timer may fire
    Stall,          \* bound on the silence of a stream nothing ends
    Text,           \* pieces of an answer
    MaxText,        \* bound on the pieces one client is sent
    None            \* no endpoint

ASSUME StreamAssumption ==
    /\ Tokens \in Nat /\ ChainLength \in Nat /\ Slack \in Nat /\ MaxText \in Nat
    /\ Stall \in Nat
    /\ CommandCode \subseteq Translated /\ Translated \subseteq Endpoint /\ None \notin Endpoint
    /\ Patience \in [Endpoint -> 1 .. MaxSessionInterruption]
    /\ ProxyTries \in [Endpoint -> Nat]
    /\ StreamIdle \in 1 .. MaxSessionInterruption /\ Waits \subseteq Nat
    /\ Text \cap {"error", "rejection", "done"} = {}

Timeout == RequestAttemptTimeout(Tokens)

Budget == FallbackBudget(Timeout)

MaxAttempts == ChainLength * 3 + 1

VARIABLES
    phase,      \* where the handler is
    attempts,   \* walk.attempts
    silence,    \* time since output last reached the client, or since it came
    limit,      \* the silence at which the timer being waited for fires
    idle,       \* the window of the attempt's idle watchdog
    ep,         \* the endpoint being tried
    try,        \* the proxy try
    proxied,    \* the attempt goes through a proxy
    tried,      \* endpoints retired for this request
    flipped,    \* protocolFlips
    gone,       \* the client left
    answer,     \* how the request was recorded
    out,        \* what the client was sent
    partial,    \* what this attempt sent it
    acc,        \* accumulatedContent
    replay,     \* what the request body shows the next endpoint of the answer
    charged,    \* how often each endpoint was charged with a failure
    spoke       \* endpoints whose text reached the client

walk == <<phase, attempts, silence, limit, idle, ep, try, proxied>>
request == <<tried, flipped, gone, answer>>
output == <<out, partial, acc, replay, charged, spoke>>
vars == <<walk, request, output>>

Init ==
    /\ phase = "looping" /\ attempts = 0 /\ silence = 0 /\ limit = 0 /\ idle = 0
    /\ ep = None /\ try = 0 /\ proxied = FALSE
    /\ tried = {} /\ flipped = {} /\ gone = FALSE /\ answer = "none"
    /\ out = <<>> /\ partial = <<>> /\ acc = <<>> /\ replay = <<>>
    /\ charged = [e \in Endpoint |-> 0] /\ spoke = {}

----------------------------------------------------------------------------
(* Budgets. *)

Shortest == LeastOf({Patience[e] : e \in Endpoint} \cup {MaxSessionInterruption})

\* A large prompt raises its provider's ceiling.
Ceiling(e) ==
    IF Tokens >= LargeContextTokens /\ Patience[e] < Timeout THEN Timeout ELSE Patience[e]

Preferred(e) ==
    Least(IF e \in CommandCode /\ Ceiling(e) > Timeout THEN Ceiling(e) ELSE Timeout,
          AttemptCeiling(Tokens))

\* What one proxy try may take, out of what is left now.
TryTimeout(e, n) == AttemptTimeout(Budget, silence, n, Least(Timeout, Ceiling(e)))

\* Mutant: the watchdog does not know what is left of the budget.
FullIdle(e, timeout) == Least(StreamIdle, Ceiling(e))

\* The longest the client may then see no output.
MaxIdle(e, timeout) ==
    LET window == Least(StreamIdle, Least(Ceiling(e), Budget - silence))
    IN IF Tokens >= LargeContextTokens /\ timeout > window THEN timeout ELSE window

Exhausted == attempts > 0 /\ silence > Budget

SameHost(e) == {x \in Endpoint : HostOf[x] = HostOf[e]}

MaxProxyTries(e) == IF ProxyTries[e] <= 0 THEN 1 ELSE ProxyTries[e]

----------------------------------------------------------------------------
(* The end of a request: every path ends the stream, once. *)

\* Mutant: the relay's own sentinel is not remembered.
DoneTwice(events, done) == out \o events \o <<"done">>

\* sendDone, deferred; done says that the events hold the sentinel already.
Closed(events, done) == out \o events \o (IF done THEN <<>> ELSE <<"done">>)

Finish(a, events, done) ==
    /\ phase' = "answered" /\ answer' = a
    /\ out' = Closed(events, done)
    /\ UNCHANGED <<silence, limit, idle, ep, try, proxied, tried, flipped, gone,
                   partial, acc, replay, charged, spoke>>

SSEError == <<"error">>

Unavailable == Finish("unavailable", SSEError, FALSE)

\* The budget is spent: no error is added to an answer that was replayed.
OutOfBudget == Finish("unavailable", IF acc = <<>> THEN SSEError ELSE <<>>, FALSE)

\* No endpoint of the chain takes images.
VisionRejection == Finish("no_vision", <<"rejection", "done">>, TRUE)

----------------------------------------------------------------------------
(* The top of the loop. *)

Stop ==
    /\ phase = "looping"
    /\ \/ Exhausted /\ OutOfBudget
       \/ ~Exhausted /\ gone /\ Finish("disconnected", <<>>, FALSE)
       \/ /\ ~Exhausted /\ ~gone /\ attempts >= MaxAttempts
          /\ Unavailable \/ VisionRejection
    /\ UNCHANGED attempts

NextRound ==
    /\ phase = "looping" /\ ~Exhausted /\ ~gone /\ attempts < MaxAttempts
    /\ attempts' = attempts + 1

\* StreamToClient begins.
StartTry(e, n, timeout, direct) ==
    /\ phase' = "connecting" /\ ep' = e /\ try' = n
    /\ limit' = silence + timeout
    /\ idle' = MaxIdle(e, timeout)
    /\ proxied' \in (IF ProxyTries[e] > 0 /\ ~direct THEN BOOLEAN ELSE {FALSE})
    /\ partial' = <<>>

Send(e) ==
    /\ NextRound
    /\ e \notin tried
    /\ IF AttemptTimeout(Budget, silence, attempts + 1, Preferred(e)) <= 0
       THEN OutOfBudget
       ELSE /\ StartTry(e, 1, TryTimeout(e, attempts + 1), FALSE)
            /\ UNCHANGED <<silence, request, out, acc, replay, charged, spoke>>

WaitOrGiveUp(wait) ==
    LET sleeps == CycleBackSleeps(wait, Budget - silence, Shortest)
    IN /\ NextRound
       /\ wait > 0 => tried # Endpoint
       /\ IF sleeps = {} THEN Unavailable \/ VisionRejection
          ELSE /\ phase' = "pausing"
               /\ \E s \in sleeps : limit' = silence + s
               /\ UNCHANGED <<silence, idle, ep, try, proxied, request, output>>

Wake ==
    /\ phase = "pausing"
    /\ \/ gone /\ Finish("disconnected", <<>>, FALSE)
       \/ /\ ~gone /\ silence >= limit
          /\ phase' = "looping"
          /\ UNCHANGED <<silence, limit, idle, ep, try, proxied, request, output>>
    /\ UNCHANGED attempts

----------------------------------------------------------------------------
(* A failed attempt. *)

\* Mutant: what was replayed before is replayed again.
ReplayAll(text) == acc \o text

\* Only what was not replayed yet, if the model repeated that first.
Fresh(text) == IF IsPrefix(acc, text) THEN SubSeq(text, Len(acc) + 1, Len(text)) ELSE text

Retire(host) == tried \cup {ep} \cup (IF host THEN SameHost(ep) ELSE {})

\* The endpoint is retired, with its host if no answer came from there, and
\* charged unless a proxy was at fault; what it said is replayed.
FailOver(host, charge) ==
    /\ phase' = "looping"
    /\ tried' = Retire(host)
    /\ charged' = IF charge THEN [charged EXCEPT ![ep] = @ + 1] ELSE charged
    /\ IF partial = <<>> THEN UNCHANGED <<acc, replay>>
       ELSE replay' = replay \o Fresh(partial) /\ acc' = partial
    /\ UNCHANGED <<attempts, silence, limit, idle, ep, try, proxied, flipped,
                   gone, answer, out, partial, spoke>>

Saturated ==
    /\ phase = "connecting" /\ ~gone
    /\ Finish("saturated", SSEError, FALSE)
    /\ UNCHANGED attempts

\* The proxy cannot carry the request: the endpoint is tried once directly,
\* with what is left of the budget; if nothing is, the endpoint pays.
ProxyFails ==
    /\ phase = "connecting" /\ ~gone /\ proxied
    /\ IF try >= MaxProxyTries(ep) THEN FailOver(FALSE, FALSE)
       ELSE IF TryTimeout(ep, attempts) <= 0 THEN FailOver(TRUE, TRUE)
       ELSE /\ StartTry(ep, try + 1, TryTimeout(ep, attempts), TRUE)
            /\ UNCHANGED <<attempts, silence, request, out, acc, replay, charged, spoke>>

\* No response over a direct connection; the client's leaving is one cause.
ConnectFails ==
    /\ phase = "connecting" /\ (proxied => gone)
    /\ FailOver(TRUE, TRUE)

\* A status, or a 200 that is no stream; a protocol is refused once for free.
Refuses(protocol) ==
    /\ phase = "connecting" /\ ~gone
    /\ IF protocol /\ ep \notin flipped
       THEN /\ flipped' = flipped \cup {ep} /\ phase' = "looping"
            /\ UNCHANGED <<attempts, silence, limit, idle, ep, try, proxied,
                           tried, gone, answer, output>>
       ELSE FailOver(FALSE, TRUE)

HeadersArrive ==
    /\ phase = "connecting" /\ ~gone
    /\ phase' = "receiving"
    /\ UNCHANGED <<attempts, silence, limit, idle, ep, try, proxied, request, output>>

\* What the client has of the answer.
Sent == SelectSeq(out, LAMBDA x : x \in Text)

\* Text reaches the client: the attempt's deadline is lifted, and the
\* watchdog and the interruption window start anew.
Emit(t) ==
    /\ phase = "receiving" /\ ~gone
    /\ Len(Sent) < MaxText
    /\ out' = Append(out, t) /\ partial' = Append(partial, t)
    /\ spoke' = spoke \cup {ep}
    /\ silence' = 0 /\ limit' = idle
    /\ UNCHANGED <<phase, attempts, idle, ep, try, proxied, request, acc, replay, charged>>

\* Mutant: a proxy that died under way is replaced on the same endpoint.
BodyFailsAndRetries ==
    /\ phase = "receiving" /\ ~gone
    /\ IF proxied /\ try < MaxProxyTries(ep) /\ TryTimeout(ep, attempts) > 0
       THEN /\ StartTry(ep, try + 1, TryTimeout(ep, attempts), TRUE)
            /\ UNCHANGED <<attempts, silence, request, out, acc, replay, charged, spoke>>
       ELSE FailOver(~proxied, ~proxied)

\* The stream dies or stalls; a proxy in the path is to blame.
BodyFails ==
    /\ phase = "receiving" /\ ~gone
    /\ FailOver(~proxied, ~proxied)

\* An error event in the stream.
ErrorEvent ==
    /\ phase = "receiving" /\ ~gone
    /\ FailOver(TRUE, TRUE)

\* A reset over a direct connection reads like the client's own.
Reset ==
    /\ phase = "receiving" /\ ~gone /\ ~proxied
    /\ Finish("disconnected", <<>>, FALSE)
    /\ UNCHANGED attempts

\* The client left while a slot was awaited or the body was read.
Disconnected ==
    /\ phase \in {"connecting", "receiving"} /\ gone
    /\ Finish("disconnected", <<>>, FALSE)
    /\ UNCHANGED attempts

Succeed ==
    /\ phase = "receiving" /\ ~gone
    /\ Finish("ok", <<"done">>, TRUE)
    /\ UNCHANGED attempts

\* Mutant: no watchdog takes over from the attempt's deadline.
OnlyDeadline ==
    /\ phase = "connecting" /\ silence >= limit
    /\ ConnectFails \/ ProxyFails

\* The stream that gave the client its last text is read through a translator.
Unwatched == ep \in Translated /\ partial # <<>>

\* The attempt's deadline, and the idle watchdog once there is output.
TimerFires ==
    /\ silence >= limit
    /\ ConnectFails \/ ProxyFails \/ (~Unwatched /\ BodyFails)

----------------------------------------------------------------------------

ClientLeaves ==
    /\ phase # "answered" /\ ~gone
    /\ gone' = TRUE
    /\ UNCHANGED <<walk, tried, flipped, answer, output>>

Tick ==
    /\ phase \in {"connecting", "receiving", "pausing"}
    /\ silence < limit + (IF phase = "receiving" /\ Unwatched THEN Stall ELSE Slack)
    /\ silence' = silence + 1
    /\ UNCHANGED <<phase, attempts, limit, idle, ep, try, proxied, request, output>>

Answered == phase = "answered" /\ UNCHANGED vars

Loop ==
    \/ Stop
    \/ \E e \in Endpoint : Send(e)
    \/ \E wait \in Waits \cup {0} : WaitOrGiveUp(wait)

Next ==
    \/ Loop \/ Wake \/ TimerFires
    \/ Saturated \/ ProxyFails \/ ConnectFails
    \/ \E protocol \in BOOLEAN : Refuses(protocol)
    \/ HeadersArrive
    \/ \E t \in Text : Emit(t)
    \/ BodyFails \/ ErrorEvent \/ Reset \/ Disconnected \/ Succeed
    \/ ClientLeaves \/ Tick \/ Answered

Spec == Init /\ [][Next]_vars

\* The handler's own goroutine and its timers run; no upstream need answer.
Fairness ==
    /\ WF_vars(Loop) /\ WF_vars(Wake) /\ WF_vars(TimerFires)
    /\ WF_vars(Disconnected) /\ WF_vars(Tick)

FairSpec == Spec /\ Fairness

----------------------------------------------------------------------------
(* Properties. *)

(* Every variable keeps its type.                                           *)
TypeOK ==
    /\ phase \in {"looping", "connecting", "receiving", "pausing", "answered"}
    /\ attempts \in 0 .. MaxAttempts
    /\ silence \in Nat /\ limit \in Nat /\ idle \in Nat
    /\ ep \in Endpoint \cup {None} /\ try \in Nat /\ proxied \in BOOLEAN
    /\ phase \in {"connecting", "receiving"} => ep \in Endpoint
    /\ tried \subseteq Endpoint /\ flipped \subseteq Endpoint /\ spoke \subseteq Endpoint
    /\ gone \in BOOLEAN /\ (answer # "none" <=> phase = "answered")
    /\ out \in Seq(Text \cup {"error", "rejection", "done"})
    /\ partial \in Seq(Text) /\ acc \in Seq(Text) /\ replay \in Seq(Text)
    /\ charged \in [Endpoint -> Nat]

(* "Once a session has stopped receiving output, it either gets resumed     *)
(* output from another model or a terminal failure" within its budget       *)
(* (maxSessionInterruption): a gap in the output is never longer, whatever  *)
(* number of attempts, proxies and waits it takes to bridge it, unless a    *)
(* stream read through a translator began it.                               *)
InterruptionBounded == silence > Budget + Slack => Unwatched

(* "We must always send it before returning" (doneSent): every path ends    *)
(* the client's stream with one sentinel, and nothing follows it.           *)
OneTerminator ==
    /\ \A i \in DOMAIN out : out[i] = "done" => i = Len(out) /\ phase = "answered"
    /\ phase = "answered" => out # <<>> /\ Last(out) = "done"

(* What the next endpoint is shown of the answer is text the client got, in *)
(* the order it got it, and each piece once (appendAssistantMessage).       *)
ReplayNeverInvents ==
    \E place \in [1 .. Len(replay) -> 1 .. Len(out)] :
        /\ \A i, j \in DOMAIN place : i < j => place[i] < place[j]
        /\ \A i \in DOMAIN place : out[place[i]] = replay[i]

(* "The caller must move to the NEXT model rather than re-run this endpoint,*)
(* which would repeat what the client already saw" (StreamToClient).        *)
NoRerunAfterOutput == phase = "connecting" => ep \notin spoke

(* A stalled upstream never keeps a request: the answer, whose length is    *)
(* bounded here, always comes to its end, unless the client goes on waiting *)
(* for a translated stream that has stalled after it gave text.             *)
StreamEnds ==
    <>(phase = "answered") \/ <>[](phase = "receiving" /\ Unwatched /\ ~gone)

----------------------------------------------------------------------------
(* The walk as the client and the endpoints see it. *)

Serving == IF phase \in {"connecting", "receiving"} \/ answer = "ok" THEN ep ELSE None

Verdict ==
    IF phase # "answered" THEN "open" ELSE IF answer = "ok" THEN "served" ELSE "failed"

Fallback == INSTANCE FallbackWalk WITH
    Limit <- MaxAttempts, serving <- Serving, retired <- tried, excused <- flipped,
    rounds <- attempts, verdict <- Verdict

(* handleStream walks the chain as FallbackWalk says, and as                *)
(* handleCompletion does: text that reached the client changes neither who  *)
(* may be asked next nor who pays.                                          *)
ImplementsFallback == Fallback!Spec

=============================================================================
