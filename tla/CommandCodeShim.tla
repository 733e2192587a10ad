--------------------------- MODULE CommandCodeShim ---------------------------
(***************************************************************************)
(* The Command Code endpoint (commandcode_api.go): Chat Completions on a   *)
(* listener of their own, a bounded number at a time, each on its way      *)
(* through the configured keys until one of them serves it.  A prompt that *)
(* takes long to read is kept alive by a goroutine that writes comments    *)
(* into the same response (startSSEKeepalive), until the first output.     *)
(*                                                                         *)
(* Whether a key is available when its turn comes depends on everything    *)
(* else the gateway does, and is left open.  So is how long an upstream    *)
(* takes: only what a deadline or the client's leaving ends has to end.    *)
(***************************************************************************)
EXTENDS SequencesExt, FiniteSets, Naturals

CONSTANTS
    Request,
    Key,            \* providers that hold a key each
    Keys,           \* lists of configured keys that a reload may leave
    Caps,           \* values of commandcode_proxy_max_concurrent, 0 for no cap
    MaxOut,         \* bound on what an answer consists of
    None            \* no key, no semaphore

ASSUME ShimAssumption ==
    /\ Caps \subseteq Nat /\ MaxOut \in Nat
    /\ Keys \subseteq Seq(Key) /\ None \notin Nat \cup Key

VARIABLES
    cap, keys,      \* the configuration in force
    semaphore,      \* its capacity, None while there is no channel
    queue,          \* who waits for a slot, in order
    holders,        \* who has one
    phase,          \* of each request
    kind,           \* "json" or "stream"
    left,           \* endpoints not tried yet
    key,            \* the one that is
    ticker,         \* the keepalive's goroutine: "off", "waiting" or "writing"
    out,            \* what was written to the client
    gone            \* the client left

config == <<cap, keys>>
slots == <<semaphore, queue, holders>>
walk == <<kind, left, key>>
vars == <<config, slots, phase, walk, ticker, out, gone>>

Init ==
    /\ cap \in Caps /\ keys \in Keys
    /\ semaphore = None /\ queue = <<>> /\ holders = {}
    /\ phase = [r \in Request |-> "away"]
    /\ kind = [r \in Request |-> "json"]
    /\ left = [r \in Request |-> <<>>] /\ key = [r \in Request |-> None]
    /\ ticker = [r \in Request |-> "off"]
    /\ out = [r \in Request |-> <<>>]
    /\ gone = [r \in Request |-> FALSE]

To(r, p) == phase' = [phase EXCEPT ![r] = p]

\* What is written reaches a client that is there.
Says(r, items) == out' = [out EXCEPT ![r] = IF gone[r] THEN @ ELSE @ \o items]

Item(what, k) == [what |-> what, by |-> k]

Status == Item("status", None)
Error == Item("error", None)
Done == Item("done", None)

----------------------------------------------------------------------------
(* Slots. *)

\* ensureSemaphore: the channel is made once, of the cap of that moment.
Ensured == IF semaphore = None /\ cap > 0 THEN cap ELSE semaphore

Arrive(r, k) ==
    /\ phase[r] = "away"
    /\ kind' = [kind EXCEPT ![r] = k]
    /\ semaphore' = Ensured
    /\ IF Ensured = None THEN To(r, "admitted") /\ UNCHANGED queue
       ELSE To(r, "queued") /\ queue' = Append(queue, r)
    /\ UNCHANGED <<config, holders, left, key, ticker, out, gone>>

\* acquire: senders on a full channel are served in turn.
Acquire(r) ==
    /\ phase[r] = "queued" /\ Head(queue) = r /\ Cardinality(holders) < semaphore
    /\ To(r, "admitted")
    /\ queue' = Tail(queue) /\ holders' = holders \cup {r}
    /\ UNCHANGED <<config, semaphore, walk, ticker, out, gone>>

\* The request's context ends while it waits: 503.
LeaveQueue(r) ==
    /\ phase[r] = "queued" /\ gone[r]
    /\ To(r, "answered") /\ Says(r, <<Status>>)
    /\ queue' = Remove(queue, r)
    /\ UNCHANGED <<config, semaphore, holders, walk, ticker, gone>>

\* Mutant: an early return keeps its slot.
ReleaseAfterWalk(r) == IF phase[r] = "admitted" THEN holders ELSE holders \ {r}

\* The deferred release.
Release(r) == holders \ {r}

Finish(r) ==
    /\ To(r, "answered")
    /\ holders' = Release(r)
    /\ left' = [left EXCEPT ![r] = <<>>] /\ key' = [key EXCEPT ![r] = None]
    /\ UNCHANGED <<semaphore, queue, kind>>

----------------------------------------------------------------------------
(* HandleChatCompletions. *)

\* The request is not one, or no key is configured.
Reject(r) ==
    /\ phase[r] = "admitted"
    /\ Finish(r) /\ Says(r, <<Status>>)
    /\ UNCHANGED <<config, ticker, gone>>

\* endpoints: the session's hash says which key comes first.
Rotated(start) == SubSeq(keys, start, Len(keys)) \o SubSeq(keys, 1, start - 1)

Begin(r) ==
    /\ phase[r] = "admitted"
    /\ \E start \in 1 .. Len(keys) : left' = [left EXCEPT ![r] = Rotated(start)]
    /\ To(r, "walking")
    /\ UNCHANGED <<config, slots, kind, key, ticker, out, gone>>

\* The next key of which IsAvailable says yes.  (A stream whose prompt is not
\* long has no ticker: it is one that never fires.)
Ask(r) ==
    /\ phase[r] = "walking"
    /\ \E i \in DOMAIN left[r] :
          /\ key' = [key EXCEPT ![r] = left[r][i]]
          /\ left' = [left EXCEPT ![r] = SubSeq(@, i + 1, Len(@))]
    /\ To(r, "asking")
    /\ ticker' = [ticker EXCEPT ![r] = IF kind[r] = "stream" THEN "waiting" ELSE "off"]
    /\ UNCHANGED <<config, slots, kind, out, gone>>

\* No key is left, or none of those left is available: the last status, or
\* 502; the deferred sentinel of a stream follows it.
GiveUp(r) ==
    /\ phase[r] = "walking"
    /\ Finish(r)
    /\ Says(r, IF kind[r] = "json" THEN <<Status>> ELSE <<Status, Done>>)
    /\ UNCHANGED <<config, ticker, gone>>

----------------------------------------------------------------------------
(* The keepalive. *)

TickerFires(r) ==
    /\ ticker[r] = "waiting" /\ Len(out[r]) < MaxOut
    /\ ticker' = [ticker EXCEPT ![r] = "writing"]
    /\ UNCHANGED <<config, slots, phase, walk, out, gone>>

\* A comment that cannot be written is the last one.
TickerWrites(r) ==
    /\ ticker[r] = "writing"
    /\ Says(r, <<Item("comment", key[r])>>)
    /\ ticker' = [ticker EXCEPT ![r] = IF gone[r] THEN "off" ELSE "waiting"]
    /\ UNCHANGED <<config, slots, phase, walk, gone>>

\* Mutant: the ticker is told to stop and not waited for.
StopOnly(r) ==
    ticker' = [ticker EXCEPT ![r] = IF @ = "writing" THEN @ ELSE "off"]

\* stop blocks until the goroutine has exited.
Stop(r) ==
    /\ ticker[r] # "writing"
    /\ ticker' = [ticker EXCEPT ![r] = "off"]

----------------------------------------------------------------------------
(* An attempt. *)

Asking(r) == phase[r] = "asking"

Streaming(r) == Asking(r) /\ kind[r] # "json"

Has(r, what) == \E i \in DOMAIN out[r] : out[r][i].what = what

\* Output, text or something else, is relayed; the first stops the keepalive
\* (keepaliveWriter.Write).
Emit(r, what) ==
    /\ Streaming(r) /\ ~gone[r] /\ Len(out[r]) < MaxOut
    /\ Stop(r)
    /\ Says(r, <<Item(what, key[r])>>)
    /\ UNCHANGED <<config, slots, phase, walk, gone>>

\* The relay of a stream has written the sentinel itself.
Succeed(r) ==
    /\ Asking(r)
    /\ Stop(r)
    /\ Finish(r)
    /\ Says(r, IF kind[r] = "json" THEN <<Item("body", key[r])>> ELSE <<Done>>)
    /\ UNCHANGED <<config, gone>>

\* The attempt failed and left nothing with the client: the next key.
NextKey(r) ==
    /\ To(r, "walking")
    /\ key' = [key EXCEPT ![r] = None]
    /\ UNCHANGED <<slots, kind, left, out>>

\* A JSON attempt: transport, timeout, size, status or aggregation.
FailJSON(r) ==
    /\ Asking(r) /\ kind[r] = "json"
    /\ NextKey(r)
    /\ UNCHANGED <<config, ticker, gone>>

\* partial # "": the text, and perhaps a piece that a client who left missed.
Partial(r) == IF Has(r, "text") THEN {TRUE} ELSE IF gone[r] THEN BOOLEAN ELSE {FALSE}

Wrote(r) == out[r] # <<>>

FailStream(r) ==
    /\ Streaming(r)
    /\ Stop(r)
    /\ \E partial \in Partial(r) :
          IF partial THEN Finish(r) /\ Says(r, <<Done>>)
          ELSE IF Wrote(r) THEN Finish(r) /\ Says(r, <<Error, Done>>)
          ELSE NextKey(r)
    /\ UNCHANGED <<config, gone>>

Fail(r) == FailJSON(r) \/ FailStream(r)

\* Output lifts the deadline of a stream, and nothing replaces it: the reader
\* of this dialect has nothing for the idle watchdog to close.
Unbounded(r) == Streaming(r) /\ ~gone[r] /\ (Has(r, "text") \/ Has(r, "other"))

EndsByItself(r) == ~Unbounded(r) /\ Fail(r)

----------------------------------------------------------------------------

ClientLeaves(r) ==
    /\ phase[r] \notin {"away", "answered"} /\ ~gone[r]
    /\ gone' = [gone EXCEPT ![r] = TRUE]
    /\ UNCHANGED <<config, slots, phase, walk, ticker, out>>

\* A reload, which does not touch the semaphore.
ReloadConfig(c, list) ==
    /\ cap' = c /\ keys' = list
    /\ UNCHANGED <<slots, phase, walk, ticker, out, gone>>

Handle(r) ==
    \/ Acquire(r) \/ LeaveQueue(r) \/ Reject(r) \/ Begin(r)
    \/ Ask(r) \/ GiveUp(r)

Next ==
    \/ \E r \in Request :
          \/ \E k \in {"json", "stream"} : Arrive(r, k)
          \/ Handle(r)
          \/ TickerFires(r) \/ TickerWrites(r)
          \/ \E what \in {"text", "other"} : Emit(r, what)
          \/ Succeed(r) \/ Fail(r)
          \/ ClientLeaves(r)
    \/ \E c \in Caps, list \in Keys : ReloadConfig(c, list)

\* Handlers and tickers run, and deadlines end what they bound.
Fairness ==
    \A r \in Request :
        /\ WF_vars(Handle(r)) /\ WF_vars(TickerWrites(r)) /\ WF_vars(EndsByItself(r))

Spec == Init /\ [][Next]_vars /\ Fairness

----------------------------------------------------------------------------
(* Properties. *)

Piece ==
    [what : {"comment", "text", "other", "body", "status", "error", "done"},
     by : Key \cup {None}]

(* Every variable keeps its type (CommandCodeShim, HandleChatCompletions).  *)
TypeOK ==
    /\ cap \in Caps /\ keys \in Keys
    /\ semaphore \in Caps \cup {None} /\ holders \subseteq Request
    /\ phase \in [Request -> {"away", "queued", "admitted", "walking", "asking", "answered"}]
    /\ kind \in [Request -> {"json", "stream"}]
    /\ left \in [Request -> Seq(Key)] /\ key \in [Request -> Key \cup {None}]
    /\ ticker \in [Request -> {"off", "waiting", "writing"}]
    /\ out \in [Request -> Seq(Piece)] /\ gone \in [Request -> BOOLEAN]

\* A status or a body is told first or not at all, comments come before what
\* they wait for, and nothing comes after the sentinel.
InOrder(said) ==
    \A i \in 1 .. Len(said) :
        /\ said[i].what \in {"status", "body"} => i = 1
        /\ said[i].what = "comment" => \A j \in 1 .. i : said[j].what = "comment"
        /\ said[i].what = "done" => i = Len(said)

OneAuthor(said) ==
    \A i, j \in 1 .. Len(said) : said[i].by = said[j].by \/ None \in {said[i].by, said[j].by}

\* A client that stayed was told something, and a stream that it ended.
Ended(r) ==
    /\ out[r] # <<>>
    /\ kind[r] = "json" \/ out[r] = <<Status>> \/ out[r][Len(out[r])] = Done

(* "A 502 written into an already-started response corrupts the body": a    *)
(* status is the first thing a client is told or it is not told at all,     *)
(* comments come before all output ("no keepalive can interleave with the   *)
(* first event or with an error body"), everything but an error comes from  *)
(* one key, and every stream ends in one sentinel ("every exit path below   *)
(* must terminate the stream"), though ticker, relay and handler write into *)
(* one response (stream, startSSEKeepalive, StreamToClient).                *)
OneCleanAnswer ==
    \A r \in Request :
        /\ InOrder(out[r]) /\ OneAuthor(out[r])
        /\ phase[r] = "answered" /\ ~gone[r] => Ended(r)

(* "If the cap is exhausted, queue the request until a slot frees": a       *)
(* request waits for ever only while some stream that has begun goes on for *)
(* ever, whichever requests are turned away, give up, fail or leave, and    *)
(* whatever cap a reload leaves (acquire, ensureSemaphore).                 *)
NobodyStarves ==
    \A r \in Request :
        \/ []<>(phase[r] # "queued")
        \/ <>[](\E h \in holders : Unbounded(h))

=============================================================================
