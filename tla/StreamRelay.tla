----------------------------- MODULE StreamRelay -----------------------------
(***************************************************************************)
(* One streamed attempt, from the upstream's headers to the return to the  *)
(* fallback walk: StreamToClient in proxy.go with its deadline, its idle   *)
(* watchdog and the relay of events to the client (streamSSE).             *)
(*                                                                         *)
(* Four goroutines take part: the relay, blocked in a read most of the     *)
(* time, the watchdog, the deadline's timer, and the upstream.  The        *)
(* upstream's dialect decides what the relay reads (UpstreamDialect) and   *)
(* whether closing the reader ends the read: of the three readers only a   *)
(* response body has a Close.                                              *)
(*                                                                         *)
(* An event is known by its place in the sequence heard.  Timers run on    *)
(* ticks; a goroutine that is due runs before the next tick, in any order  *)
(* with the others that are due.  Model patches are left out.              *)
(***************************************************************************)
EXTENDS UpstreamDialect, Integers, FiniteSets, SequencesExt

CONSTANTS
    Dialects,   \* protocols of the endpoint
    Coalescing, \* values of the tool_calls setting
    Timeout,    \* the attempt's deadline
    MaxIdle,    \* the window of the watchdog
    MaxEvents,  \* bound on the events of an answer
    Horizon     \* bound on the silence that is counted

ASSUME RelayAssumption ==
    /\ Index \subseteq Nat /\ IsFiniteSet(Index) /\ NoCall \notin Index
    /\ Dialects \subseteq {"chat", "responses", "commandcode"}
    /\ Coalescing \subseteq BOOLEAN
    /\ {Timeout, MaxIdle, MaxEvents, Horizon} \subseteq Nat

VARIABLES
    dialect, coalesce,
    heard,      \* the events read, as Chat Completions events
    tr,         \* the translator
    body,       \* the response body: open, at its end, or broken
    phase,      \* of the relay: reading, handling or returned
    next,       \* the event to handle next
    released, buffered, pending, acc,
    out,        \* what was written to the client
    result,     \* how the attempt ended
    begun,      \* firstByteReader.released
    left,       \* time left on the watchdog's timer
    reset,      \* a reset waits in resetCh
    watchdog,   \* the watchdog's goroutine runs
    closed, idle,
    deadline,   \* time left for the attempt
    timer,      \* the deadline's timer: running, stopped or fired
    gone,       \* the client left
    quiet,      \* time since the client was written to
    waited      \* what quiet was at the last tick

upstream == <<heard, tr, body>>
relay == <<phase, next, released, buffered, pending, acc, out, result, begun>>
dog == <<left, reset, watchdog, closed, idle>>
clock == <<deadline, timer, quiet, waited>>
relay_vars == <<dialect, coalesce, upstream, relay, dog, clock, gone>>

RelayInit ==
    /\ dialect \in Dialects /\ coalesce \in Coalescing
    /\ heard = <<>> /\ tr = NewTranslator /\ body = "open"
    /\ phase = "reading" /\ next = 1 /\ released = FALSE
    /\ buffered = <<>> /\ pending = [i \in Index |-> <<>>] /\ acc = <<>>
    /\ out = <<>> /\ result = "none" /\ begun = FALSE
    /\ left = MaxIdle /\ reset = FALSE /\ watchdog = TRUE
    /\ closed = FALSE /\ idle = FALSE
    /\ deadline = Timeout /\ timer = "running" /\ gone = FALSE
    /\ quiet = 0 /\ waited = 0

\* Mutant: nothing ends a read but the upstream.
StillOpen == body

\* Closing the body, or cancelling its request, ends the read.
Broken == IF body = "open" THEN "broken" ELSE body

Closable == dialect = "chat"

----------------------------------------------------------------------------
(* The end of the attempt. *)

\* Mutant: the watchdog is not woken.
CloseQuietly == closed' = TRUE /\ UNCHANGED <<left, reset, watchdog, idle>>

\* idleTimeoutReader.Close, deferred: the watchdog is woken to exit.
Close ==
    /\ closed' = TRUE
    /\ reset' = (reset \/ ~closed)
    /\ UNCHANGED <<left, watchdog, idle>>

Return(r) ==
    /\ phase' = "returned" /\ result' = r
    /\ Close
    /\ timer' = IF timer = "running" THEN "stopped" ELSE timer
    /\ UNCHANGED <<deadline, waited>>

----------------------------------------------------------------------------
(* Writes to the client. *)

Events(ns) == [k \in DOMAIN ns |-> [what |-> "event", of |-> ns[k], parts |-> <<>>]]
CallItem(i) == [what |-> "call", of |-> i, parts |-> pending[i]]
DoneItem == [what |-> "done", of |-> 0, parts |-> <<>>]

\* Mutant: no write reaches the watchdog.
Unmarked == reset

\* MarkProgress: a reset is left for the watchdog.
Marked == reset \/ ~closed

\* The first write lifts the deadline, every write starts a new window.
Progress(written) ==
    IF written = 0 THEN UNCHANGED <<dog, clock>>
    ELSE /\ reset' = Marked
         /\ timer' = IF timer = "running" THEN "stopped" ELSE timer
         /\ quiet' = 0
         /\ UNCHANGED <<left, watchdog, closed, idle, deadline, waited>>

\* Where a write can fail: what was held back goes out in one, every item after
\* it in one of its own.
Cuts(items) == {c \in 0 .. Len(items) - 1 : c = 0 \/ c >= Len(buffered)}

\* The items are written; the text to replay is noted ahead of the write that
\* it belongs to.
Deliver(items, text, Then) ==
    \/ /\ out' = out \o items /\ acc' = acc \o text
       /\ Then
    \/ /\ gone
       /\ \E c \in Cuts(items) :
            /\ out' = out \o SubSeq(items, 1, c)
            /\ acc' = acc \o (IF c < Len(buffered) THEN buffered ELSE text)
       /\ Return("failed")
       /\ quiet' = 0
       /\ UNCHANGED next

Proceed(written) ==
    /\ next' = next + 1
    /\ phase' = IF next < Len(heard) THEN "handling" ELSE "reading"
    /\ Progress(written)
    /\ UNCHANGED result

----------------------------------------------------------------------------
(* processEvent. *)

\* sseEventIsRelease
Releases(e) == e.kind = "garbage" \/ e.text \/ e.call # NoCall

\* Mutant: content next to a part of a call is not noticed.
AnyToolDelta(e) == e.call # NoCall

\* sseEventIsToolDeltaOnly
ToolDeltaOnly(e) == e.call # NoCall /\ ~e.text

HeldBack == Events(buffered)

\* An event whose part of a call is all there is waits for the end of the call.
Own(e) == IF coalesce /\ ToolDeltaOnly(e) THEN <<>> ELSE Events(<<next>>)

\* Mutant: the event that releases the others overtakes them.
Overtaking(e) == Own(e) \o HeldBack

\* What was held back, and the event.
Forwarded(e) == HeldBack \o Own(e)

\* mergeToolCallDeltas
Merged(e) ==
    IF coalesce /\ e.call # NoCall THEN [pending EXCEPT ![e.call] = Append(@, next)]
    ELSE pending

HandleError ==
    /\ heard[next].kind = "error"
    /\ Return("failed")
    /\ UNCHANGED <<next, released, buffered, pending, acc, out, quiet>>

\* The upstream's sentinel flushes what was held back, and is dropped.
HandleDone ==
    /\ heard[next].kind = "done"
    /\ Deliver(HeldBack, buffered, Proceed(Len(HeldBack)))
    /\ buffered' = <<>>
    /\ UNCHANGED <<released, pending>>

HandleOutput ==
    LET e == heard[next]
    IN /\ e.kind \in {"chunk", "garbage"} /\ (released \/ Releases(e))
       /\ Deliver(Forwarded(e), Append(buffered, next), Proceed(Len(Forwarded(e))))
       /\ released' = TRUE /\ buffered' = <<>>
       /\ pending' = Merged(e)

\* An event that releases nothing is held back.
HoldBack ==
    LET e == heard[next]
    IN /\ e.kind = "chunk" /\ ~released /\ ~Releases(e)
       /\ buffered' = Append(buffered, next)
       /\ Proceed(0)
       /\ UNCHANGED <<released, pending, acc, out>>

Handle ==
    /\ phase = "handling"
    /\ HandleError \/ HandleDone \/ HandleOutput \/ HoldBack
    /\ UNCHANGED <<dialect, coalesce, upstream, begun, gone>>

\* pendingTC.complete: a name is enough.
Complete(i) == \E k \in DOMAIN pending[i] : Names(heard[pending[i][k]])

\* The calls to be sent, by index (sort.Ints).
Sorted(S) == {s \in [1 .. Cardinality(S) -> S] : \A j, k \in DOMAIN s : j < k => s[j] < s[k]}

CallItems(calls) == [k \in DOMAIN calls |-> CallItem(calls[k])]

\* The end of the answer: what is held back, the calls in order, the sentinel.
FinishStream ==
    /\ \E calls \in Sorted({i \in Index : Complete(i)}) :
          Deliver(HeldBack \o CallItems(calls) \o <<DoneItem>>, buffered,
                  Return("ok") /\ quiet' = 0 /\ UNCHANGED next)
    /\ buffered' = <<>>
    /\ UNCHANGED <<released, pending>>

----------------------------------------------------------------------------
(* Reading. *)

\* idleTimeoutReader.Read: once the watchdog fired, nothing more is read.
EnterRead ==
    /\ phase = "reading"
    /\ \/ /\ closed
          /\ Return("failed")
          /\ UNCHANGED <<next, released, buffered, pending, acc, out, quiet>>
       \/ ~closed /\ tr.done /\ FinishStream
       \/ /\ ~closed /\ ~tr.done
          /\ phase' = "blocked"
          /\ UNCHANGED <<next, released, buffered, pending, acc, out, result, dog, clock>>
    /\ UNCHANGED <<dialect, coalesce, upstream, begun, gone>>

Hears(events, t) ==
    /\ phase = "blocked" /\ body = "open" /\ Len(heard) + Len(events) <= MaxEvents
    /\ heard' = heard \o events /\ tr' = t
    /\ phase' = IF events = <<>> THEN "blocked" ELSE "handling"
    /\ begun' = (begun \/ events # <<>>)
    /\ UNCHANGED <<dialect, coalesce, body, next, released, buffered, pending,
                   acc, out, result, dog, clock, gone>>

HearChat(e) == dialect = "chat" /\ Hears(<<e>>, tr)

HearCommandCode(e) ==
    /\ dialect = "commandcode" /\ (e = "tool" => tr.calls \in Index)
    /\ Hears(FromCommandCode(tr, e), AfterCommandCode(tr, e))

HearResponses(e) ==
    /\ dialect = "responses"
    /\ Hears(FromResponses(tr, e), AfterResponses(tr, e))

Hear ==
    \/ \E e \in ChatEvent : HearChat(e)
    \/ \E e \in CommandCodeEvent : HearCommandCode(e)
    \/ \E e \in ResponsesEvent : HearResponses(e)

\* The attempt's context is cancelled.
Cancelled == timer = "fired" \/ gone

\* The read returns, for the body ended or broke.  A translator never lets an
\* error through.  Until the first byte the context's end is awaited too.
ReadEnds ==
    /\ phase = "blocked" /\ body # "open"
    /\ \/ /\ (~begun /\ Cancelled) \/ (dialect = "chat" /\ (body = "broken" \/ idle))
          /\ Return("failed")
          /\ UNCHANGED <<upstream, next, released, buffered, pending, acc, out, begun, quiet>>
       \/ /\ dialect = "chat" /\ body = "eof" /\ ~idle
          /\ FinishStream
          /\ UNCHANGED <<upstream, begun>>
       \/ /\ dialect # "chat"
          /\ \E last \in LastWords(dialect, tr) : heard' = heard \o last
          /\ tr' = [tr EXCEPT !.done = TRUE]
          /\ phase' = "handling" /\ begun' = TRUE
          /\ UNCHANGED <<body, next, released, buffered, pending, acc, out, result, dog, clock>>
    /\ UNCHANGED <<dialect, coalesce, gone>>

\* The upstream closes its stream, or the connection fails.
UpstreamEnds(how) ==
    /\ phase # "returned" /\ body = "open"
    /\ body' = how
    /\ UNCHANGED <<dialect, coalesce, heard, tr, relay, dog, clock, gone>>

----------------------------------------------------------------------------
(* The watchdog, the deadline, the client. *)

\* The select takes the timer: the reader is closed, if it can be.
Bark ==
    /\ watchdog /\ left = 0
    /\ watchdog' = FALSE
    /\ IF closed THEN UNCHANGED <<closed, idle, body>>
       ELSE /\ closed' = TRUE /\ idle' = TRUE
            /\ body' = IF Closable THEN Broken ELSE body
    /\ UNCHANGED <<left, reset>>

NewWindow == MaxIdle

\* The select takes the reset; a fired timer is drained.
Rewind ==
    /\ watchdog /\ reset
    /\ reset' = FALSE
    /\ IF closed THEN watchdog' = FALSE /\ UNCHANGED left
       ELSE left' = NewWindow /\ UNCHANGED watchdog
    /\ UNCHANGED <<body, closed, idle>>

Watchdog ==
    /\ Bark \/ Rewind
    /\ UNCHANGED <<dialect, coalesce, heard, tr, relay, clock, gone>>

DeadlineFires ==
    /\ timer = "running" /\ deadline = 0
    /\ timer' = "fired" /\ body' = Broken
    /\ UNCHANGED <<dialect, coalesce, heard, tr, relay, dog, deadline, quiet, waited, gone>>

ClientLeaves ==
    /\ phase # "returned" /\ ~gone
    /\ gone' = TRUE /\ body' = Broken
    /\ UNCHANGED <<dialect, coalesce, heard, tr, relay, dog, clock>>

\* Nobody is due.
Waiting ==
    /\ phase = "blocked" /\ body = "open"
    /\ watchdog => left > 0 /\ ~reset
    /\ timer = "running" => deadline > 0

TimePasses ==
    /\ Waiting /\ quiet < Horizon
    /\ quiet' = quiet + 1 /\ waited' = quiet + 1
    /\ left' = IF watchdog THEN left - 1 ELSE left
    /\ deadline' = IF timer = "running" THEN deadline - 1 ELSE deadline
    /\ UNCHANGED <<dialect, coalesce, upstream, relay, reset, watchdog, closed, idle, timer, gone>>

Returned == phase = "returned" /\ UNCHANGED relay_vars

RelayNext ==
    \/ Handle \/ EnterRead \/ Hear \/ ReadEnds
    \/ \E how \in {"eof", "broken"} : UpstreamEnds(how)
    \/ Watchdog \/ DeadlineFires \/ ClientLeaves \/ TimePasses \/ Returned

RelaySpec == RelayInit /\ [][RelayNext]_relay_vars

\* The gateway's goroutines and timers run; the upstream need not answer.
RelayFairness ==
    /\ WF_relay_vars(Handle) /\ WF_relay_vars(EnterRead) /\ WF_relay_vars(ReadEnds)
    /\ WF_relay_vars(Watchdog) /\ WF_relay_vars(DeadlineFires) /\ WF_relay_vars(TimePasses)

FairRelaySpec == RelaySpec /\ RelayFairness

----------------------------------------------------------------------------
(* Properties. *)

Increasing(s) == \A j, k \in DOMAIN s : j < k => s[j] < s[k]

At(what) == {j \in DOMAIN out : out[j].what = what}

SentInOrder == \A j, k \in At("event") : j < k => out[j].of < out[k].of

\* The events sent, and those among S that have text.
Sent == {out[j].of : j \in At("event")}
TextOf(S) == {n \in S : heard[n].text}

\* S is what one gets of T by stopping somewhere.
Begins(S, T) == S \subseteq T /\ \A m \in S, n \in T \ S : m < n

(* "A mid-stream fallback can resume on the next model by replaying what    *)
(* the client already received" (accumulateDelta): what the attempt has     *)
(* noted for a replay is the text the client got, each event once and in    *)
(* the order it got them, and at most a rest more when a write to a client  *)
(* that left has failed.                                                    *)
ReplayIsWhatClientHas ==
    /\ SentInOrder /\ Increasing(acc)
    /\ Begins(TextOf(Sent), TextOf(ToSet(acc)))
    /\ ~gone => TextOf(Sent) = TextOf(ToSet(acc))

\* The events an answer consists of.
Visible ==
    {n \in DOMAIN heard : /\ heard[n].kind \in {"chunk", "garbage"}
                          /\ ~(coalesce /\ ToolDeltaOnly(heard[n]))}

EventsInOrder ==
    /\ SentInOrder
    /\ IF result = "ok" THEN Sent = Visible ELSE Begins(Sent, Visible)

PartsOf(i) == {n \in DOMAIN heard : heard[n].call = i}

CallsComeWhole ==
    LET named == {i \in Index : \E n \in PartsOf(i) : Names(heard[n])}
    IN /\ At("done") = IF result = "ok" THEN {Len(out)} ELSE {}
       /\ \A j \in At("event"), k \in At("call") : j < k
       /\ \A j, k \in At("call") : j < k => out[j].of < out[k].of
       /\ \A j \in At("call") :
             Increasing(out[j].parts) /\ ToSet(out[j].parts) = PartsOf(out[j].of)
       /\ coalesce /\ result = "ok" => {out[j].of : j \in At("call")} = named

(* An attempt that succeeds has sent every event of the answer in the       *)
(* upstream's order, wherever the sentinel stood and whatever was held back *)
(* (streamSSE's three flushes and its trailing event); before that, what    *)
(* was sent is a beginning of it.  "The client only ever receives complete, *)
(* well-formed tool call events" before the one sentinel: every call that   *)
(* was named is sent once, with all its parts, after all the text and       *)
(* before the sentinel, which comes once and last.                          *)
WholeAnswer == EventsInOrder /\ CallsComeWhole

(* "Bounds the time the CLIENT may see no output" (streamIdleTimeout): with *)
(* a reader that can be closed, no silence outlasts the window, and with    *)
(* any reader the wait for the first output does not outlast the deadline.  *)
StallNoticed ==
    phase # "returned" =>
        /\ Closable => quiet <= MaxIdle
        /\ out = <<>> => quiet <= Timeout

(* "It is reset only when output actually reaches the client"               *)
(* (streamIdleTimeout), and then it is: the watchdog ends no stream whose   *)
(* client was served within the window.                                     *)
OnlySilenceIsPunished == [][idle' /\ ~idle => waited >= MaxIdle]_relay_vars

(* "It also signals the watchdog goroutine to exit" (Close): an attempt     *)
(* that has returned leaves no watchdog behind; and with a reader that can  *)
(* be closed, an upstream that stalls cannot keep it from returning.        *)
WatchdogEnds ==
    /\ phase = "returned" ~> ~watchdog
    /\ Closable => <>(phase = "returned")

=============================================================================
