-------------------------- MODULE StreamWalkProofs --------------------------
(***************************************************************************)
(* Invariance proofs about StreamWalk, for prompts of any size, any        *)
(* endpoints, hosts, providers' ceilings, proxies, cooldowns, answers and  *)
(* lateness of the timers.                                                 *)
(***************************************************************************)
EXTENDS StreamWalk, WalkBudgetProofs, SequenceTheorems

----------------------------------------------------------------------------
(* The inductive invariant. *)

\* Every timer the handler may be waiting for fires within the budget, and so
\* does the watchdog that takes over once there is output; only a stream it
\* cannot end goes beyond.
Timed ==
    /\ silence <= Budget + Slack \/ Unwatched
    /\ phase \in {"connecting", "receiving", "pausing"} => limit <= Budget
    /\ phase \in {"connecting", "receiving"} => idle <= Budget

\* Whose text the client has is retired, unless it is still speaking.
Spoken ==
    \A e \in spoke : e \in tried \/ (phase \in {"receiving", "answered"} /\ ep = e)

\* An endpoint being asked is not retired.
Unretired == phase = "connecting" => ep \notin tried

\* The sentinel comes last and only then.
Terminated ==
    /\ phase # "answered" => \A i \in 1 .. Len(out) : out[i] # "done"
    /\ phase = "answered" =>
          /\ Len(out) >= 1 /\ out[Len(out)] = "done"
          /\ \A i \in 1 .. Len(out) : out[i] = "done" => i = Len(out)

IInv == TypeOK /\ Timed /\ Spoken /\ Unretired /\ Terminated

----------------------------------------------------------------------------
(* The constants. *)

LEMMA BudgetNat == Timeout \in Nat /\ Budget \in Nat
<1>1. Timeout \in Nat
  BY StreamAssumption, AttemptTimeoutRange DEF Timeout, MaxLargeContextAttemptTimeout
<1>2. Budget \in 12 .. 480
  BY <1>1, BudgetRange DEF Budget, MaxLargeContextSessionBudget
<1> QED BY <1>1, <1>2

LEMMA ShortestNat == Shortest \in Nat
<1> DEFINE S == {Patience[e] : e \in Endpoint} \cup {MaxSessionInterruption}
<1>1. S \subseteq Nat /\ S # {}
  BY StreamAssumption DEF MaxSessionInterruption
<1> HIDE DEF S
<1>2. LeastOf(S) \in Nat
  BY <1>1, LeastOfIsLeast
<1> QED BY <1>2 DEF Shortest, S

LEMMA CeilingNat == \A e \in Endpoint : Ceiling(e) \in Nat /\ Preferred(e) \in Nat
<1>1. AttemptCeiling(Tokens) \in Nat
  BY DEF AttemptCeiling, MaxLargeContextAttemptTimeout, MaxSessionInterruption
<1>2. \A e \in Endpoint : Ceiling(e) \in Nat
  BY BudgetNat, StreamAssumption DEF Ceiling, MaxSessionInterruption
<1> QED BY <1>1, <1>2, BudgetNat DEF Preferred, Least

LEMMA MaxAttemptsNat == MaxAttempts \in Nat
BY StreamAssumption DEF MaxAttempts

----------------------------------------------------------------------------
(* The timers of an attempt. *)

(* The deadline of a proxy try and the window of the idle watchdog are both *)
(* cut to what is left of the budget when the try begins.                   *)
LEMMA TryFits ==
    ASSUME silence \in Nat, silence <= Budget, NEW e \in Endpoint, NEW n \in Nat
    PROVE  LET timeout == TryTimeout(e, n)
           IN /\ silence + timeout \in Nat /\ silence + timeout <= Budget
              /\ MaxIdle(e, timeout) \in Nat /\ MaxIdle(e, timeout) <= Budget
<1> DEFINE timeout == TryTimeout(e, n)
<1>1. /\ Budget \in Nat /\ silence \in Nat /\ Timeout \in Nat /\ Ceiling(e) \in Nat
      /\ Least(Timeout, Ceiling(e)) \in Nat
  BY BudgetNat, CeilingNat DEF Least
<1>2. timeout \in Nat /\ (timeout > 0 => silence + timeout <= Budget)
  BY <1>1, AttemptFits DEF TryTimeout
<1> HIDE DEF timeout
<1>3. silence + timeout \in Nat /\ silence + timeout <= Budget
  BY <1>1, <1>2
<1> DEFINE window == Least(StreamIdle, Least(Ceiling(e), Budget - silence))
<1>4. window \in Nat /\ window <= Budget
  BY <1>1, StreamAssumption DEF Least, MaxSessionInterruption
<1> HIDE DEF window
<1>5. MaxIdle(e, timeout) \in {window, timeout}
  BY DEF MaxIdle, window
<1>6. timeout <= Budget
  BY <1>1, <1>2
<1> QED BY <1>2, <1>3, <1>4, <1>5, <1>6 DEF timeout

(* A budget that still gives an attempt some time is not spent.             *)
LEMMA SomethingLeft ==
    ASSUME silence \in Nat, NEW n \in Nat, NEW preferred \in Nat,
           AttemptTimeout(Budget, silence, n, preferred) > 0
    PROVE  silence <= Budget
BY BudgetNat DEF AttemptTimeout, Least

LEMMA SleepsEndInBudget ==
    ASSUME IInv, NEW wait \in Nat, NEW ceiling \in Nat,
           NEW s \in CycleBackSleeps(wait, Budget - silence, ceiling)
    PROVE  silence + s \in Nat /\ silence + s <= Budget
<1>1. silence \in Nat /\ Budget \in Nat
  BY BudgetNat DEF IInv, TypeOK
<1>2. Budget - silence \in Int
  BY <1>1
<1>3. s \in Nat /\ s < Budget - silence
  BY <1>2, SleepFits
<1> QED BY <1>1, <1>3

----------------------------------------------------------------------------
(* The end of a request. *)

Piece == Text \cup {"error", "rejection", "done"}

(* Every ending puts one sentinel behind an answer that has none.           *)
LEMMA ClosedEnds ==
    ASSUME out \in Seq(Piece), \A i \in 1 .. Len(out) : out[i] # "done",
           NEW events, NEW done \in BOOLEAN,
           \/ events \in {<<>>, <<"error">>} /\ done = FALSE
           \/ events \in {<<"done">>, <<"rejection", "done">>} /\ done = TRUE
    PROVE  LET end == Closed(events, done)
           IN /\ end \in Seq(Piece) /\ Len(end) >= 1 /\ end[Len(end)] = "done"
              /\ \A i \in 1 .. Len(end) : end[i] = "done" => i = Len(end)
<1> DEFINE sentinel == IF done THEN <<>> ELSE <<"done">>
           tail == events \o sentinel
           end == Closed(events, done)
<1>1. /\ "done" \in Piece /\ "error" \in Piece /\ "rejection" \in Piece
      /\ <<"done">> \in Seq(Piece) /\ Len(<<"done">>) = 1 /\ <<"done">>[1] = "done"
      /\ <<>> \in Seq(Piece) /\ Len(<<>>) = 0
  BY DEF Piece
<1>2. /\ <<"error">> \in Seq(Piece) /\ Len(<<"error">>) = 1 /\ <<"error">>[1] = "error"
      /\ <<"rejection", "done">> \in Seq(Piece) /\ Len(<<"rejection", "done">>) = 2
      /\ <<"rejection", "done">>[1] = "rejection" /\ <<"rejection", "done">>[2] = "done"
  BY <1>1
<1>3. events \in Seq(Piece) /\ sentinel \in Seq(Piece)
  BY <1>1, <1>2
<1>4. /\ tail \in Seq(Piece) /\ Len(tail) \in {1, 2} /\ tail[Len(tail)] = "done"
      /\ \A i \in 1 .. Len(tail) : tail[i] = "done" => i = Len(tail)
  <2>1. CASE done = TRUE
    <3>1. tail = events
      BY <1>3, <2>1, ConcatEmptySeq
    <3> HIDE DEF tail
    <3>2. CASE events = <<"done">>
      BY <1>1, <3>1, <3>2
    <3>3. CASE events = <<"rejection", "done">>
      BY <1>2, <3>1, <3>3
    <3> QED BY <2>1, <3>2, <3>3
  <2>2. CASE done = FALSE
    <3>1. /\ Len(tail) = Len(events) + 1
          /\ \A i \in 1 .. Len(events) + 1 :
                tail[i] = IF i <= Len(events) THEN events[i] ELSE <<"done">>[i - Len(events)]
          /\ tail \in Seq(Piece)
      <4>1. sentinel = <<"done">>
        BY <2>2
      <4> HIDE DEF sentinel
      <4> QED BY <1>1, <1>3, <4>1, ConcatProperties
    <3> HIDE DEF tail
    <3>2. CASE events = <<>>
      <4>1. Len(tail) = 1 /\ tail[1] = "done"
        BY <1>1, <3>1, <3>2
      <4> QED BY <3>1, <4>1
    <3>3. CASE events = <<"error">>
      <4>1. Len(tail) = 2 /\ tail[1] = "error" /\ tail[2] = "done"
        BY <1>1, <1>2, <3>1, <3>3
      <4> QED BY <3>1, <4>1
    <3> QED BY <2>2, <3>2, <3>3
  <2> QED BY <2>1, <2>2
<1>5. end = out \o tail
  <2> HIDE DEF sentinel
  <2>1. end = out \o events \o sentinel
    BY DEF Closed, sentinel
  <2> QED BY <1>3, <2>1, ConcatAssociative
<1> HIDE DEF tail, end, sentinel
<1>6. /\ end \in Seq(Piece) /\ Len(end) = Len(out) + Len(tail)
      /\ \A i \in 1 .. Len(end) : end[i] = IF i <= Len(out) THEN out[i] ELSE tail[i - Len(out)]
  BY <1>4, <1>5, ConcatProperties
<1>7. Len(out) \in Nat
  BY LenProperties
<1> QED BY <1>4, <1>6, <1>7 DEF end

LEMMA FinishKeeps ==
    ASSUME IInv, phase # "answered", NEW a, a # "none",
           NEW events, NEW done \in BOOLEAN, Finish(a, events, done),
           \/ events \in {<<>>, <<"error">>} /\ done = FALSE
           \/ events \in {<<"done">>, <<"rejection", "done">>} /\ done = TRUE,
           attempts' \in 0 .. MaxAttempts
    PROVE  IInv'
<1>1. /\ out' \in Seq(Piece) /\ Len(out') >= 1 /\ out'[Len(out')] = "done"
      /\ \A i \in 1 .. Len(out') : out'[i] = "done" => i = Len(out')
  <2>1. out \in Seq(Piece) /\ \A i \in 1 .. Len(out) : out[i] # "done"
    BY DEF IInv, TypeOK, Terminated, Piece
  <2>2. out' = Closed(events, done)
    BY DEF Finish
  <2> QED BY <2>1, <2>2, ClosedEnds
<1>2. TypeOK'
  <2>1. attempts' \in 0 .. MaxAttempts'
    BY DEF MaxAttempts
  <2>2. phase' = "answered" /\ answer' # "none"
    BY DEF Finish
  <2>3. UNCHANGED <<silence, limit, idle, ep, try, proxied, tried, flipped, gone,
                    partial, acc, replay, charged, spoke>>
    BY DEF Finish
  <2> QED BY <1>1, <2>1, <2>2, <2>3 DEF IInv, TypeOK, Piece
<1>3. Timed' /\ Spoken' /\ Unretired'
  BY DEF Finish, IInv, Unwatched, Timed, Spoken, Unretired
<1>4. Terminated'
  BY <1>1 DEF Finish, Terminated
<1> QED BY <1>2, <1>3, <1>4 DEF IInv

----------------------------------------------------------------------------
(* A failed attempt. *)

LEMMA FreshTyped ==
    ASSUME acc \in Seq(Text), NEW text \in Seq(Text)
    PROVE  Fresh(text) \in Seq(Text)
<1>1. Len(acc) \in Nat /\ Len(text) \in Nat
  BY LenProperties
<1>2. \A j \in Len(acc) + 1 .. Len(text) : text[j] \in Text
  BY <1>1, ElementOfSeq
<1>3. SubSeq(text, Len(acc) + 1, Len(text)) \in Seq(Text)
  BY <1>1, <1>2, SubSeqProperties
<1> QED BY <1>3 DEF Fresh

LEMMA FailOverKeeps ==
    ASSUME IInv, phase \in {"connecting", "receiving"},
           NEW host \in BOOLEAN, NEW charge \in BOOLEAN, FailOver(host, charge)
    PROVE  IInv'
<1>1. /\ phase' = "looping"
      /\ UNCHANGED <<attempts, silence, limit, idle, ep, try, proxied, flipped,
                     gone, answer, out, partial, spoke>>
  BY DEF FailOver
<1>2. ep \in Endpoint /\ tried \subseteq tried' /\ ep \in tried' /\ tried' \subseteq Endpoint
  BY DEF IInv, TypeOK, FailOver, Retire, SameHost
<1>3. acc' \in Seq(Text) /\ replay' \in Seq(Text)
  <2>1. acc \in Seq(Text) /\ replay \in Seq(Text) /\ partial \in Seq(Text)
    BY DEF IInv, TypeOK
  <2>2. replay \o Fresh(partial) \in Seq(Text)
    BY <2>1, FreshTyped, ConcatProperties
  <2> QED BY <2>1, <2>2 DEF FailOver
<1>4. charged' \in [Endpoint -> Nat]
  <2>1. charged \in [Endpoint -> Nat]
    BY DEF IInv, TypeOK
  <2>2. charged' = charged \/ charged' = [charged EXCEPT ![ep] = @ + 1]
    BY DEF FailOver
  <2> QED BY <1>2, <2>1, <2>2
<1>5. TypeOK'
  <2>1. attempts' \in 0 .. MaxAttempts'
    BY <1>1 DEF IInv, TypeOK, MaxAttempts
  <2>2. answer' = "none"
    BY <1>1 DEF IInv, TypeOK
  <2> QED BY <1>1, <1>2, <1>3, <1>4, <2>1, <2>2 DEF IInv, TypeOK
<1>6. Timed' /\ Spoken' /\ Unretired' /\ Terminated'
  BY <1>1, <1>2 DEF IInv, Unwatched, Timed, Spoken, Unretired, Terminated
<1> QED BY <1>5, <1>6 DEF IInv

----------------------------------------------------------------------------
(* Every step preserves the invariant. *)

LEMMA InitHolds == Init => IInv
<1> SUFFICES ASSUME Init PROVE IInv
  OBVIOUS
<1>1. TypeOK
  <2>1. attempts \in 0 .. MaxAttempts /\ silence \in Nat /\ limit \in Nat /\ idle \in Nat
        /\ try \in Nat
    BY MaxAttemptsNat DEF Init
  <2>2. charged \in [Endpoint -> Nat]
    BY DEF Init
  <2>3. /\ out \in Seq(Text \cup {"error", "rejection", "done"})
        /\ partial \in Seq(Text) /\ acc \in Seq(Text) /\ replay \in Seq(Text)
    BY DEF Init
  <2>4. phase = "looping" /\ answer = "none" /\ ep = None /\ proxied = FALSE /\ gone = FALSE
        /\ tried = {} /\ flipped = {} /\ spoke = {}
    BY DEF Init
  <2> QED BY <2>1, <2>2, <2>3, <2>4 DEF TypeOK
<1>2. Timed
  BY BudgetNat, StreamAssumption DEF Init, Unwatched, Timed
<1>3. Spoken /\ Unretired /\ Terminated
  BY DEF Init, Spoken, Unretired, Terminated
<1> QED BY <1>1, <1>2, <1>3 DEF IInv

LEMMA RoundTyped ==
    ASSUME IInv, NextRound
    PROVE  attempts' \in 0 .. MaxAttempts
BY MaxAttemptsNat DEF NextRound, IInv, TypeOK

(* Beginning a try, of an endpoint that the client has no text of.          *)
LEMMA StartTryKeeps ==
    ASSUME IInv, phase \in {"looping", "connecting"}, NEW e \in Endpoint, e \notin tried,
           NEW k \in Nat, NEW n \in Nat, NEW direct \in BOOLEAN,
           silence <= Budget, StartTry(e, k, TryTimeout(e, n), direct),
           attempts' \in 0 .. MaxAttempts,
           UNCHANGED <<silence, request, out, acc, replay, charged, spoke>>
    PROVE  IInv'
<1> DEFINE timeout == TryTimeout(e, n)
<1>1. /\ silence + timeout \in Nat /\ silence + timeout <= Budget
      /\ MaxIdle(e, timeout) \in Nat /\ MaxIdle(e, timeout) <= Budget
  BY TryFits DEF IInv, TypeOK
<1>2. /\ phase' = "connecting" /\ ep' = e /\ try' = k /\ partial' = <<>>
      /\ limit' = silence + timeout /\ idle' = MaxIdle(e, timeout)
      /\ proxied' \in BOOLEAN
  BY DEF StartTry
<1> HIDE DEF timeout
<1>3. TypeOK'
  <2>1. attempts' \in 0 .. MaxAttempts'
    BY DEF MaxAttempts
  <2>2. partial' \in Seq(Text)
    BY <1>2
  <2>3. answer' = "none"
    BY DEF IInv, TypeOK, request
  <2> QED BY <1>1, <1>2, <2>1, <2>2, <2>3 DEF IInv, TypeOK, request
<1>4. Timed'
  BY <1>1, <1>2, BudgetNat, StreamAssumption DEF IInv, TypeOK, Timed
<1>5. Spoken' /\ Unretired' /\ Terminated'
  BY <1>2 DEF IInv, Spoken, Unretired, Terminated, request
<1> QED BY <1>3, <1>4, <1>5 DEF IInv

LEMMA SendKeeps ==
    ASSUME IInv, NEW e \in Endpoint, Send(e)
    PROVE  IInv'
<1> DEFINE timeout == AttemptTimeout(Budget, silence, attempts + 1, Preferred(e))
<1>1. attempts' \in 0 .. MaxAttempts /\ phase = "looping" /\ e \notin tried
  BY RoundTyped DEF Send, NextRound
<1>2. CASE timeout <= 0
  <2>1. \E events \in {<<>>, <<"error">>} : Finish("unavailable", events, FALSE)
    BY <1>2 DEF Send, OutOfBudget, SSEError
  <2> QED BY <1>1, <2>1, FinishKeeps
<1>3. CASE ~(timeout <= 0)
  <2>1. /\ StartTry(e, 1, TryTimeout(e, attempts + 1), FALSE)
        /\ UNCHANGED <<silence, request, out, acc, replay, charged, spoke>>
    BY <1>3 DEF Send
  <2>2. silence \in Nat /\ attempts + 1 \in Nat /\ Preferred(e) \in Nat
    BY CeilingNat, MaxAttemptsNat DEF IInv, TypeOK
  <2>3. silence <= Budget
    <3>1. timeout \in Nat
      BY <2>2, BudgetNat, AttemptFits
    <3> QED BY <1>3, <2>2, <3>1, SomethingLeft
  <2> QED BY <1>1, <2>1, <2>2, <2>3, StartTryKeeps
<1> QED BY <1>2, <1>3

LEMMA ProxyFailsKeeps ==
    ASSUME IInv, ProxyFails
    PROVE  IInv'
<1>1. phase = "connecting" /\ ep \in Endpoint /\ ep \notin tried
  BY DEF ProxyFails, IInv, TypeOK, Unretired
<1>2. CASE FailOver(FALSE, FALSE) \/ FailOver(TRUE, TRUE)
  BY <1>1, <1>2, FailOverKeeps
<1>3. CASE /\ ~(TryTimeout(ep, attempts) <= 0)
           /\ StartTry(ep, try + 1, TryTimeout(ep, attempts), TRUE)
           /\ UNCHANGED <<attempts, silence, request, out, acc, replay, charged, spoke>>
  <2>1. silence \in Nat /\ attempts \in 0 .. MaxAttempts /\ attempts \in Nat /\ try + 1 \in Nat
    BY MaxAttemptsNat DEF IInv, TypeOK
  <2>2. silence <= Budget
    <3>1. Least(Timeout, Ceiling(ep)) \in Nat
      BY <1>1, BudgetNat, CeilingNat DEF Least
    <3>2. TryTimeout(ep, attempts) \in Nat
      BY <2>1, <3>1, BudgetNat, AttemptFits DEF TryTimeout
    <3>3. TryTimeout(ep, attempts) > 0
      BY <1>3, <3>2
    <3> QED BY <2>1, <3>1, <3>3, SomethingLeft DEF TryTimeout
  <2>3. attempts' \in 0 .. MaxAttempts
    BY <1>3, <2>1
  <2> QED BY <1>1, <1>3, <2>1, <2>2, <2>3, StartTryKeeps
<1> QED BY <1>2, <1>3 DEF ProxyFails

LEMMA WaitKeeps ==
    ASSUME IInv, NEW wait \in Nat, WaitOrGiveUp(wait)
    PROVE  IInv'
<1> DEFINE sleeps == CycleBackSleeps(wait, Budget - silence, Shortest)
<1>1. attempts' \in 0 .. MaxAttempts /\ phase = "looping"
  BY RoundTyped DEF WaitOrGiveUp, NextRound
<1>2. CASE sleeps = {}
  <2>1. \/ Finish("unavailable", <<"error">>, FALSE)
        \/ Finish("no_vision", <<"rejection", "done">>, TRUE)
    BY <1>2 DEF WaitOrGiveUp, Unavailable, VisionRejection, SSEError
  <2> QED BY <1>1, <2>1, FinishKeeps
<1>3. CASE sleeps # {}
  <2>1. PICK s \in sleeps : limit' = silence + s
    BY <1>3 DEF WaitOrGiveUp
  <2>2. limit' \in Nat /\ limit' <= Budget
    BY <2>1, ShortestNat, SleepsEndInBudget
  <2> HIDE DEF sleeps
  <2>3. phase' = "pausing" /\ UNCHANGED <<silence, idle, ep, try, proxied, request, output>>
    BY <1>3 DEF WaitOrGiveUp, sleeps
  <2>4. TypeOK'
    BY <1>1, <2>2, <2>3 DEF IInv, TypeOK, MaxAttempts, request, output
  <2>5. Timed' /\ Spoken' /\ Unretired' /\ Terminated'
    BY <1>1, <2>2, <2>3 DEF IInv, Unwatched, Timed, Spoken, Unretired, Terminated, request, output
  <2> QED BY <2>4, <2>5 DEF IInv
<1> QED BY <1>2, <1>3

LEMMA EmitKeeps ==
    ASSUME IInv, NEW t \in Text, Emit(t)
    PROVE  IInv'
<1>1. /\ phase = "receiving" /\ phase' = "receiving" /\ ep \in Endpoint
      /\ out' = Append(out, t) /\ partial' = Append(partial, t)
      /\ spoke' = spoke \cup {ep} /\ silence' = 0 /\ limit' = idle
      /\ UNCHANGED <<attempts, idle, ep, try, proxied, request, acc, replay, charged>>
  BY DEF Emit, IInv, TypeOK
<1>2. t # "done" /\ t \in Piece
  BY StreamAssumption DEF Piece
<1>3. /\ out' \in Seq(Piece) /\ partial' \in Seq(Text)
      /\ \A j \in 1 .. Len(out') : out'[j] # "done"
  <2>1. out \in Seq(Piece) /\ partial \in Seq(Text)
    BY DEF IInv, TypeOK, Piece
  <2>2. \A j \in 1 .. Len(out) : out[j] # "done"
    BY <1>1 DEF IInv, Terminated
  <2> QED BY <1>1, <1>2, <2>1, <2>2, AppendProperties
<1>4. TypeOK'
  <2>1. attempts' \in 0 .. MaxAttempts'
    BY <1>1 DEF IInv, TypeOK, MaxAttempts
  <2>2. silence' \in Nat /\ limit' \in Nat /\ idle' \in Nat /\ try' \in Nat
    BY <1>1 DEF IInv, TypeOK
  <2>3. spoke' \subseteq Endpoint /\ tried' \subseteq Endpoint /\ flipped' \subseteq Endpoint
    BY <1>1 DEF IInv, TypeOK, request
  <2>4. proxied' \in BOOLEAN /\ gone' \in BOOLEAN
    BY <1>1, Zenon DEF IInv, TypeOK, request
  <2>5. answer' = "none" /\ ep' \in Endpoint
    BY <1>1 DEF IInv, TypeOK, request
  <2>6. acc' \in Seq(Text) /\ replay' \in Seq(Text) /\ charged' \in [Endpoint -> Nat]
    BY <1>1 DEF IInv, TypeOK
  <2> QED BY <1>1, <1>3, <2>1, <2>2, <2>3, <2>4, <2>5, <2>6 DEF TypeOK, Piece
<1>5. Timed'
  BY <1>1, BudgetNat, StreamAssumption DEF IInv, Unwatched, Timed
<1>6. Spoken' /\ Unretired'
  BY <1>1 DEF IInv, Spoken, Unretired, request
<1>7. Terminated'
  BY <1>1, <1>3 DEF Terminated
<1> QED BY <1>4, <1>5, <1>6, <1>7 DEF IInv

LEMMA RefusesKeeps ==
    ASSUME IInv, NEW protocol \in BOOLEAN, Refuses(protocol)
    PROVE  IInv'
<1>1. phase = "connecting" /\ ep \in Endpoint /\ ep \notin tried
  BY DEF Refuses, IInv, TypeOK, Unretired
<1>2. CASE FailOver(FALSE, TRUE)
  BY <1>1, <1>2, FailOverKeeps
<1>3. CASE /\ flipped' = flipped \cup {ep} /\ phase' = "looping"
           /\ UNCHANGED <<attempts, silence, limit, idle, ep, try, proxied,
                          tried, gone, answer, output>>
  <2>1. TypeOK'
    BY <1>1, <1>3 DEF IInv, TypeOK, MaxAttempts, output
  <2>2. Timed' /\ Spoken' /\ Unretired' /\ Terminated'
    BY <1>1, <1>3 DEF IInv, Unwatched, Timed, Spoken, Unretired, Terminated, output
  <2> QED BY <2>1, <2>2 DEF IInv
<1> QED BY <1>2, <1>3 DEF Refuses

LEMMA TickKeeps ==
    ASSUME IInv, Tick
    PROVE  IInv'
<1>1. TypeOK'
  BY DEF Tick, IInv, TypeOK, MaxAttempts, request, output
<1>2. Timed'
  <2>1. UNCHANGED <<phase, limit, idle, ep, partial>>
    BY DEF Tick, output
  <2>2. CASE Unwatched
    BY <2>1, <2>2 DEF IInv, Unwatched, Timed
  <2>3. CASE ~Unwatched
    <3>1. silence' = silence + 1 /\ silence < limit + Slack /\ limit <= Budget
      BY <2>3 DEF Tick, IInv, Timed
    <3> QED BY <2>1, <3>1, BudgetNat, StreamAssumption DEF IInv, TypeOK, Timed
  <2> QED BY <2>2, <2>3
<1>3. Spoken' /\ Unretired' /\ Terminated'
  BY DEF Tick, IInv, Spoken, Unretired, Terminated, request, output
<1> QED BY <1>1, <1>2, <1>3 DEF IInv

(* Steps that only move the handler on, or the client away.                 *)
LEMMA MovesKeep ==
    ASSUME IInv, HeadersArrive \/ ClientLeaves \/ (Wake /\ phase' = "looping")
    PROVE  IInv'
<1>1. /\ UNCHANGED <<attempts, silence, limit, idle, ep, try, proxied, tried, flipped, answer,
                     output>>
      /\ gone' \in BOOLEAN /\ (phase = "answered" <=> phase' = "answered")
      /\ \/ phase' = phase
         \/ phase = "connecting" /\ phase' = "receiving"
         \/ phase = "pausing" /\ phase' = "looping"
  <2>1. CASE HeadersArrive
    BY <2>1 DEF HeadersArrive, IInv, TypeOK, request
  <2>2. CASE ClientLeaves
    BY <2>2 DEF ClientLeaves, IInv, TypeOK, walk
  <2>3. CASE Wake /\ phase' = "looping"
    BY <2>3 DEF Wake, Finish, IInv, TypeOK, request
  <2> QED BY <2>1, <2>2, <2>3
<1>2. TypeOK'
  BY <1>1 DEF IInv, TypeOK, MaxAttempts, output
<1>3. Timed' /\ Spoken' /\ Unretired' /\ Terminated'
  BY <1>1 DEF IInv, Unwatched, Timed, Spoken, Unretired, Terminated, output
<1> QED BY <1>2, <1>3 DEF IInv

LEMMA StepKeeps == IInv /\ [Next]_vars => IInv'
<1> SUFFICES ASSUME IInv, [Next]_vars PROVE IInv'
  OBVIOUS
<1>1. ASSUME UNCHANGED vars PROVE IInv'
  BY <1>1 DEF vars, walk, request, output, IInv, TypeOK, Unwatched, Timed, Spoken, Unretired, Terminated,
              MaxAttempts
<1>2. attempts \in 0 .. MaxAttempts /\ ep \in Endpoint \cup {None}
  BY DEF IInv, TypeOK
<1>3. CASE Stop
  <2>1. \/ \E events \in {<<>>, <<"error">>} : Finish("unavailable", events, FALSE)
        \/ Finish("disconnected", <<>>, FALSE)
        \/ Finish("no_vision", <<"rejection", "done">>, TRUE)
    BY <1>3 DEF Stop, OutOfBudget, Unavailable, VisionRejection, SSEError
  <2>2. phase = "looping" /\ UNCHANGED attempts
    BY <1>3 DEF Stop
  <2> QED BY <1>2, <2>1, <2>2, FinishKeeps
<1>4. ASSUME NEW e \in Endpoint, Send(e) PROVE IInv'
  BY <1>4, SendKeeps
<1>5. ASSUME NEW wait \in Waits \cup {0}, WaitOrGiveUp(wait) PROVE IInv'
  <2>1. wait \in Nat
    BY StreamAssumption
  <2> QED BY <1>5, <2>1, WaitKeeps
<1>6. CASE Wake
  <2>1. phase = "pausing" /\ UNCHANGED attempts
    BY <1>6 DEF Wake
  <2>2. CASE Finish("disconnected", <<>>, FALSE)
    BY <1>2, <2>1, <2>2, FinishKeeps
  <2>3. CASE phase' = "looping"
    BY <1>6, <2>3, MovesKeep
  <2> QED BY <1>6, <2>2, <2>3 DEF Wake
<1>7. CASE HeadersArrive \/ ClientLeaves
  BY <1>7, MovesKeep
<1>8. CASE Saturated \/ Reset \/ Disconnected \/ Succeed
  <2>1. phase \in {"connecting", "receiving"} /\ UNCHANGED attempts
    BY <1>8 DEF Saturated, Reset, Disconnected, Succeed
  <2>2. \/ \E a \in {"saturated", "disconnected"} :
              \E events \in {<<>>, <<"error">>} : Finish(a, events, FALSE)
        \/ Finish("ok", <<"done">>, TRUE)
    BY <1>8 DEF Saturated, Reset, Disconnected, Succeed, SSEError
  <2> QED BY <1>2, <2>1, <2>2, FinishKeeps
<1>9. CASE ProxyFails
  BY <1>9, ProxyFailsKeeps
<1>10. CASE ConnectFails
  BY <1>10, FailOverKeeps DEF ConnectFails
<1>11. ASSUME NEW protocol \in BOOLEAN, Refuses(protocol) PROVE IInv'
  BY <1>11, RefusesKeeps
<1>12. ASSUME NEW t \in Text, Emit(t) PROVE IInv'
  BY <1>12, EmitKeeps
<1>13. CASE BodyFails
  <2>1. CASE proxied
    <3>1. FailOver(FALSE, FALSE)
      BY <1>13, <2>1, Zenon DEF BodyFails
    <3> QED BY <1>13, <3>1, FailOverKeeps DEF BodyFails
  <2>2. CASE ~proxied
    <3>1. FailOver(TRUE, TRUE)
      BY <1>13, <2>2, Zenon DEF BodyFails
    <3> QED BY <1>13, <3>1, FailOverKeeps DEF BodyFails
  <2> QED BY <2>1, <2>2
<1>14. CASE ErrorEvent
  BY <1>14, FailOverKeeps DEF ErrorEvent
<1>15. CASE TimerFires
  BY <1>9, <1>10, <1>13, <1>15 DEF TimerFires
<1>16. CASE Tick
  BY <1>16, TickKeeps
<1>17. CASE Answered
  BY <1>1, <1>17 DEF Answered
<1> QED
  BY <1>1, <1>3, <1>4, <1>5, <1>6, <1>7, <1>8, <1>9, <1>10, <1>11, <1>12, <1>13, <1>14,
     <1>15, <1>16, <1>17 DEF Next, Loop

THEOREM Invariance == Spec => []IInv
BY InitHolds, StepKeeps, PTL DEF Spec

(* Every variable keeps its type, for any instance.                         *)
THEOREM TypeCorrect == Spec => []TypeOK
<1>1. IInv => TypeOK
  BY DEF IInv
<1> QED BY <1>1, Invariance, PTL

(* No gap in the output a client sees is longer than the budget, for a      *)
(* prompt of any size and an answer of any length (maxSessionInterruption), *)
(* unless it began while a translated stream was read.                      *)
THEOREM GapsAreBounded == Spec => []InterruptionBounded
<1>1. IInv => InterruptionBounded
  BY BudgetNat, StreamAssumption DEF IInv, TypeOK, Timed, InterruptionBounded
<1> QED BY <1>1, Invariance, PTL

(* The endpoint whose text the client has is never asked again              *)
(* (StreamToClient).                                                        *)
THEOREM NobodyRepeats == Spec => []NoRerunAfterOutput
<1>1. IInv => NoRerunAfterOutput
  BY DEF IInv, Spoken, Unretired, NoRerunAfterOutput
<1> QED BY <1>1, Invariance, PTL

(* Every path ends the stream with one sentinel (doneSent).                 *)
THEOREM SentinelOnce == Spec => []OneTerminator
<1>1. IInv => OneTerminator
  <2> SUFFICES ASSUME IInv PROVE OneTerminator
    OBVIOUS
  <2>1. out \in Seq(Piece) /\ Len(out) \in Nat /\ DOMAIN out = 1 .. Len(out)
    BY LenProperties DEF IInv, TypeOK, Piece
  <2>2. \A i \in DOMAIN out : out[i] = "done" => i = Len(out) /\ phase = "answered"
    BY <2>1 DEF IInv, Terminated
  <2>3. phase = "answered" => out # <<>> /\ Last(out) = "done"
    <3>1. phase = "answered" => Len(out) >= 1 /\ out[Len(out)] = "done"
      BY DEF IInv, Terminated
    <3>2. Len(out) >= 1 => out # <<>>
      BY <2>1, EmptySeq
    <3> QED BY <3>1, <3>2 DEF Last
  <2> QED BY <2>2, <2>3 DEF OneTerminator
<1> QED BY <1>1, Invariance, PTL

----------------------------------------------------------------------------
(* What is replayed. *)

\* The pieces r stand in this order among the first n of o.
Embeds(r, o, n) ==
    \E place \in [1 .. Len(r) -> 1 .. n] :
        /\ \A i, j \in 1 .. Len(r) : i < j => place[i] < place[j]
        /\ \A i \in 1 .. Len(r) : o[place[i]] = r[i]

\* What the client had before this attempt.
Before == Len(out) - Len(partial)

\* What was replayed the client had before this attempt, and what the attempt
\* said is the end of what the client has.
Shown ==
    IF phase \in {"connecting", "receiving"}
    THEN /\ Before \in Nat
         /\ \A k \in 1 .. Len(partial) : out[Before + k] = partial[k]
         /\ Embeds(replay, out, Before)
    ELSE Embeds(replay, out, Len(out))

(* More output hides nothing.                                               *)
LEMMA EmbedsGrows ==
    ASSUME NEW r, NEW o, NEW p, NEW n \in Nat, NEW m \in Nat, n <= m,
           Embeds(r, o, n), \A i \in 1 .. n : p[i] = o[i]
    PROVE  Embeds(r, p, m)
<1>1. PICK place \in [1 .. Len(r) -> 1 .. n] :
          /\ \A i, j \in 1 .. Len(r) : i < j => place[i] < place[j]
          /\ \A i \in 1 .. Len(r) : o[place[i]] = r[i]
  BY DEF Embeds
<1>2. place \in [1 .. Len(r) -> 1 .. m]
  OBVIOUS
<1>3. \A i \in 1 .. Len(r) : p[place[i]] = r[i]
  BY <1>1
<1> QED BY <1>1, <1>2, <1>3 DEF Embeds

(* What follows in the output may follow in the replay.                     *)
LEMMA EmbedsMore ==
    ASSUME NEW r \in Seq(Text), NEW f \in Seq(Text), NEW o,
           NEW n \in Nat, NEW k \in Nat, Embeds(r, o, n),
           \A i \in 1 .. Len(f) : o[n + k + i] = f[i]
    PROVE  Embeds(r \o f, o, n + k + Len(f))
<1>1. PICK place \in [1 .. Len(r) -> 1 .. n] :
          /\ \A i, j \in 1 .. Len(r) : i < j => place[i] < place[j]
          /\ \A i \in 1 .. Len(r) : o[place[i]] = r[i]
  BY DEF Embeds
<1> DEFINE all == r \o f
           longer == [i \in 1 .. Len(all) |->
                         IF i <= Len(r) THEN place[i] ELSE n + k + (i - Len(r))]
<1>2. /\ Len(r) \in Nat /\ Len(f) \in Nat /\ Len(all) = Len(r) + Len(f)
      /\ \A i \in 1 .. Len(all) :
            all[i] = IF i <= Len(r) THEN r[i] ELSE f[i - Len(r)]
  BY ConcatProperties, LenProperties
<1> HIDE DEF all
<1>3. longer \in [1 .. Len(all) -> 1 .. n + k + Len(f)]
  <2> SUFFICES ASSUME NEW i \in 1 .. Len(all)
               PROVE  (IF i <= Len(r) THEN place[i] ELSE n + k + (i - Len(r)))
                          \in 1 .. n + k + Len(f)
    OBVIOUS
  <2>1. CASE i <= Len(r)
    <3>1. place[i] \in 1 .. n
      BY <1>2, <2>1
    <3> QED BY <1>2, <2>1, <3>1
  <2>2. CASE i > Len(r)
    BY <1>2, <2>2
  <2> QED BY <1>2, <2>1, <2>2
<1>4. \A i, j \in 1 .. Len(all) : i < j => longer[i] < longer[j]
  <2> SUFFICES ASSUME NEW i \in 1 .. Len(all), NEW j \in 1 .. Len(all), i < j
               PROVE  longer[i] < longer[j]
    OBVIOUS
  <2>1. CASE j <= Len(r)
    BY <1>1, <1>2, <2>1
  <2>2. CASE i <= Len(r) /\ j > Len(r)
    <3>1. place[i] \in 1 .. n
      BY <1>2, <2>2
    <3> QED BY <1>2, <2>2, <3>1
  <2>3. CASE i > Len(r)
    BY <1>2, <2>3
  <2> QED BY <1>2, <2>1, <2>2, <2>3
<1>5. \A i \in 1 .. Len(all) : o[longer[i]] = all[i]
  <2> SUFFICES ASSUME NEW i \in 1 .. Len(all)
               PROVE  o[longer[i]] = all[i]
    OBVIOUS
  <2>1. CASE i <= Len(r)
    BY <1>1, <1>2, <2>1
  <2>2. CASE i > Len(r)
    <3>1. i - Len(r) \in 1 .. Len(f)
      BY <1>2, <2>2
    <3> QED BY <1>2, <2>2, <3>1
  <2> QED BY <1>2, <2>1, <2>2
<1> QED BY <1>3, <1>4, <1>5 DEF Embeds, all

(* A replay adds the end of what the attempt said.                          *)
LEMMA FreshIsTheEnd ==
    ASSUME TypeOK
    PROVE  \E k \in 0 .. Len(partial) :
               /\ Len(Fresh(partial)) = Len(partial) - k
               /\ \A i \in 1 .. Len(Fresh(partial)) : Fresh(partial)[i] = partial[k + i]
<1>1. partial \in Seq(Text) /\ Len(partial) \in Nat /\ acc \in Seq(Text) /\ Len(acc) \in Nat
  BY LenProperties DEF TypeOK
<1>2. CASE IsPrefix(acc, partial)
  <2>1. Len(acc) <= Len(partial)
    BY <1>2 DEF IsPrefix
  <2>2. Fresh(partial) = SubSeq(partial, Len(acc) + 1, Len(partial))
    BY <1>2 DEF Fresh
  <2>3. /\ Len(SubSeq(partial, Len(acc) + 1, Len(partial))) = Len(partial) - Len(acc)
        /\ \A i \in 1 .. Len(partial) - Len(acc) :
              SubSeq(partial, Len(acc) + 1, Len(partial))[i] = partial[Len(acc) + i]
    BY <1>1, <2>1
  <2>4. Len(acc) \in 0 .. Len(partial)
    BY <1>1, <2>1
  <2> QED BY <2>2, <2>3, <2>4
<1>3. CASE ~IsPrefix(acc, partial)
  <2>1. Fresh(partial) = partial
    BY <1>3 DEF Fresh
  <2> QED BY <1>1, <2>1
<1> QED BY <1>2, <1>3

(* Whatever the handler is at, what was replayed stands in the output.      *)
LEMMA ShownStands ==
    ASSUME TypeOK, Shown
    PROVE  Embeds(replay, out, Len(out))
<1>1. Len(out) \in Nat /\ Len(partial) \in Nat
  BY LenProperties DEF TypeOK
<1>2. CASE phase \in {"connecting", "receiving"}
  <2>1. Before \in Nat /\ Embeds(replay, out, Before) /\ Before <= Len(out)
    BY <1>1, <1>2 DEF Shown, Before
  <2> QED BY <1>1, <2>1, EmbedsGrows
<1>3. CASE phase \notin {"connecting", "receiving"}
  BY <1>3 DEF Shown
<1> QED BY <1>2, <1>3

LEMMA ShownAtFailOver ==
    ASSUME TypeOK, Shown, phase \in {"connecting", "receiving"},
           NEW host, NEW charge, FailOver(host, charge)
    PROVE  Shown'
<1>1. /\ phase' = "looping" /\ out' = out
      /\ replay' = IF partial = <<>> THEN replay ELSE replay \o Fresh(partial)
  BY DEF FailOver
<1>2. /\ Before \in Nat /\ Embeds(replay, out, Before)
      /\ \A k \in 1 .. Len(partial) : out[Before + k] = partial[k]
      /\ Len(out) \in Nat /\ Len(partial) \in Nat /\ Len(out) = Before + Len(partial)
      /\ replay \in Seq(Text) /\ partial \in Seq(Text) /\ Fresh(partial) \in Seq(Text)
  BY LenProperties, FreshTyped DEF Shown, Before, TypeOK
<1>3. PICK k \in 0 .. Len(partial) :
          /\ Len(Fresh(partial)) = Len(partial) - k
          /\ \A i \in 1 .. Len(Fresh(partial)) : Fresh(partial)[i] = partial[k + i]
  BY FreshIsTheEnd
<1>4. \A i \in 1 .. Len(Fresh(partial)) : out[Before + k + i] = Fresh(partial)[i]
  <2> SUFFICES ASSUME NEW i \in 1 .. Len(Fresh(partial))
               PROVE  out[Before + k + i] = Fresh(partial)[i]
    OBVIOUS
  <2>1. k + i \in 1 .. Len(partial) /\ Before + (k + i) = Before + k + i
    BY <1>2, <1>3
  <2>2. out[Before + (k + i)] = partial[k + i]
    BY <1>2, <2>1
  <2> QED BY <1>3, <2>1, <2>2
<1>5. Embeds(replay \o Fresh(partial), out, Before + k + Len(Fresh(partial)))
  <2>1. k \in Nat
    BY <1>2
  <2> HIDE DEF Before
  <2> QED BY <1>2, <1>4, <2>1, EmbedsMore
<1>6. Before + k + Len(Fresh(partial)) = Len(out)
  BY <1>2, <1>3
<1>7. Embeds(replay, out, Len(out))
  BY ShownStands
<1>8. Embeds(replay', out', Len(out'))
  BY <1>1, <1>5, <1>6, <1>7
<1> QED BY <1>1, <1>8 DEF Shown

LEMMA ShownAtFinish ==
    ASSUME TypeOK, Shown, NEW a, NEW events \in Seq(Piece), NEW done \in BOOLEAN,
           Finish(a, events, done)
    PROVE  Shown'
<1>1. /\ phase' = "answered" /\ replay' = replay
      /\ out' = out \o events \o (IF done THEN <<>> ELSE <<"done">>)
  BY DEF Finish, Closed
<1>2. out \in Seq(Piece) /\ <<>> \in Seq(Piece) /\ <<"done">> \in Seq(Piece)
  BY DEF TypeOK, Piece
<1>3. /\ out \o events \in Seq(Piece) /\ Len(out \o events) = Len(out) + Len(events)
      /\ \A i \in 1 .. Len(out) : (out \o events)[i] = out[i]
      /\ Len(out) \in Nat /\ Len(events) \in Nat
  BY <1>2
<1>4. /\ Len(out') \in Nat /\ Len(out') >= Len(out \o events)
      /\ \A i \in 1 .. Len(out \o events) : out'[i] = (out \o events)[i]
  <2> DEFINE sent == out \o events
  <2>1. /\ sent \in Seq(Piece)
        /\ out' = sent \o <<>> \/ out' = sent \o <<"done">>
    BY <1>1, <1>3
  <2> HIDE DEF sent
  <2>2. \A s \in Seq(Piece) :
            /\ Len(sent \o s) = Len(sent) + Len(s) /\ Len(s) \in Nat
            /\ \A i \in 1 .. Len(sent) : (sent \o s)[i] = sent[i]
    BY <2>1
  <2> QED BY <1>2, <2>1, <2>2 DEF sent
<1>5. Len(out') >= Len(out) /\ \A i \in 1 .. Len(out) : out'[i] = out[i]
  BY <1>3, <1>4
<1>6. Embeds(replay, out', Len(out'))
  BY <1>3, <1>4, <1>5, ShownStands, EmbedsGrows
<1> QED BY <1>1, <1>6 DEF Shown

LEMMA ShownAtStart ==
    ASSUME TypeOK, Shown, NEW e, NEW n, NEW timeout, NEW direct,
           StartTry(e, n, timeout, direct), UNCHANGED <<out, replay>>
    PROVE  Shown'
<1>1. phase' = "connecting" /\ partial' = <<>> /\ out' = out /\ replay' = replay
  BY DEF StartTry
<1>2. Len(out) \in Nat
  BY LenProperties DEF TypeOK
<1>3. Len(out) - Len(<<>>) = Len(out) /\ Len(<<>>) = 0
  BY <1>2
<1>4. Before' = Len(out)
  BY <1>1, <1>3 DEF Before
<1> QED BY <1>1, <1>2, <1>3, <1>4, ShownStands DEF Shown

LEMMA ShownAtEmit ==
    ASSUME TypeOK, Shown, NEW t \in Text, Emit(t)
    PROVE  Shown'
<1>1. /\ phase = "receiving" /\ phase' = "receiving" /\ replay' = replay
      /\ out' = Append(out, t) /\ partial' = Append(partial, t)
  BY DEF Emit
<1>2. out \in Seq(Piece) /\ partial \in Seq(Text) /\ t \in Piece
  BY DEF TypeOK, Piece
<1>3. /\ Len(out') = Len(out) + 1 /\ Len(out) \in Nat
      /\ \A i \in 1 .. Len(out) : out'[i] = out[i]
      /\ out'[Len(out) + 1] = t
  BY <1>1, <1>2
<1>4. /\ Len(partial') = Len(partial) + 1 /\ Len(partial) \in Nat
      /\ \A i \in 1 .. Len(partial) : partial'[i] = partial[i]
      /\ partial'[Len(partial) + 1] = t
  BY <1>1, <1>2
<1>5. /\ Before \in Nat /\ Embeds(replay, out, Before)
      /\ \A k \in 1 .. Len(partial) : out[Before + k] = partial[k]
      /\ Before + Len(partial) = Len(out)
  BY <1>1, <1>3, <1>4 DEF Shown, Before
<1>6. Before' = Before
  BY <1>3, <1>4 DEF Before
<1>7. \A k \in 1 .. Len(partial') : out'[Before + k] = partial'[k]
  <2> SUFFICES ASSUME NEW k \in 1 .. Len(partial')
               PROVE  out'[Before + k] = partial'[k]
    OBVIOUS
  <2>1. CASE k <= Len(partial)
    <3>1. k \in 1 .. Len(partial) /\ Before + k \in 1 .. Len(out)
      BY <1>4, <1>5, <2>1
    <3> QED BY <1>3, <1>4, <1>5, <3>1
  <2>2. CASE k = Len(partial) + 1
    <3>1. Before + k = Len(out) + 1
      BY <1>4, <1>5, <2>2
    <3> QED BY <1>3, <1>4, <2>2, <3>1
  <2> QED BY <1>4, <2>1, <2>2
<1>8. Embeds(replay, out', Before)
  <2>1. \A i \in 1 .. Before : out'[i] = out[i]
    BY <1>3, <1>4, <1>5
  <2> QED BY <1>5, <2>1, EmbedsGrows
<1> QED BY <1>1, <1>5, <1>6, <1>7, <1>8 DEF Shown

(* Steps that send nothing and begin no attempt.                            *)
LEMMA ShownOtherwise ==
    ASSUME TypeOK, Shown, UNCHANGED <<out, partial, replay>>,
           phase' \in {"connecting", "receiving"} => phase \in {"connecting", "receiving"}
    PROVE  Shown'
<1>1. Before' = Before
  BY DEF Before
<1>2. CASE phase' \in {"connecting", "receiving"}
  BY <1>1, <1>2 DEF Shown
<1>3. CASE phase' \notin {"connecting", "receiving"}
  BY <1>3, ShownStands DEF Shown
<1> QED BY <1>2, <1>3

LEMMA ShownStep == IInv /\ Shown /\ [Next]_vars => Shown'
<1> SUFFICES ASSUME IInv, Shown, [Next]_vars PROVE Shown'
  OBVIOUS
<1>1. TypeOK
  BY DEF IInv
<1>2. <<>> \in Seq(Piece) /\ <<"error">> \in Seq(Piece) /\ <<"done">> \in Seq(Piece)
      /\ <<"rejection", "done">> \in Seq(Piece)
  BY DEF Piece
<1>3. CASE Stop
  <2>1. \/ \E events \in {<<>>, <<"error">>} : Finish("unavailable", events, FALSE)
        \/ Finish("disconnected", <<>>, FALSE)
        \/ Finish("no_vision", <<"rejection", "done">>, TRUE)
    BY <1>3 DEF Stop, OutOfBudget, Unavailable, VisionRejection, SSEError
  <2> QED BY <1>1, <1>2, <2>1, ShownAtFinish
<1>4. ASSUME NEW e \in Endpoint, Send(e) PROVE Shown'
  <2>1. CASE OutOfBudget
    BY <1>1, <1>2, <2>1, ShownAtFinish DEF OutOfBudget, SSEError
  <2>2. CASE ~OutOfBudget
    BY <1>1, <1>4, <2>2, ShownAtStart DEF Send
  <2> QED BY <2>1, <2>2
<1>5. ASSUME NEW wait \in Waits \cup {0}, WaitOrGiveUp(wait) PROVE Shown'
  <2>1. CASE Unavailable \/ VisionRejection
    BY <1>1, <1>2, <2>1, ShownAtFinish DEF Unavailable, VisionRejection, SSEError
  <2>2. CASE ~(Unavailable \/ VisionRejection)
    BY <1>1, <1>5, <2>2, ShownOtherwise DEF WaitOrGiveUp, output
  <2> QED BY <2>1, <2>2
<1>6. CASE Wake
  <2>1. CASE Finish("disconnected", <<>>, FALSE)
    BY <1>1, <1>2, <2>1, ShownAtFinish
  <2>2. CASE ~Finish("disconnected", <<>>, FALSE)
    BY <1>1, <1>6, <2>2, ShownOtherwise DEF Wake, output
  <2> QED BY <2>1, <2>2
<1>7. CASE HeadersArrive \/ ClientLeaves \/ Tick \/ Answered \/ UNCHANGED vars
  <2>1. UNCHANGED output /\ (phase' = phase \/ phase = "connecting")
    BY <1>7 DEF HeadersArrive, ClientLeaves, Tick, Answered, vars, walk
  <2> QED BY <1>1, <2>1, ShownOtherwise DEF output
<1>8. CASE Saturated \/ Reset \/ Disconnected \/ Succeed
  <2>1. \E a \in {"saturated", "disconnected", "ok"}, done \in BOOLEAN :
            \E events \in {<<>>, <<"error">>, <<"done">>} : Finish(a, events, done)
    BY <1>8 DEF Saturated, Reset, Disconnected, Succeed, SSEError
  <2> QED BY <1>1, <1>2, <2>1, ShownAtFinish
<1>9. CASE ProxyFails
  <2>1. phase \in {"connecting", "receiving"}
    BY <1>9 DEF ProxyFails
  <2>2. CASE FailOver(FALSE, FALSE) \/ FailOver(TRUE, TRUE)
    BY <1>1, <2>1, <2>2, ShownAtFailOver
  <2>3. CASE ~(FailOver(FALSE, FALSE) \/ FailOver(TRUE, TRUE))
    BY <1>1, <1>9, <2>3, ShownAtStart DEF ProxyFails
  <2> QED BY <2>2, <2>3
<1>10. CASE ConnectFails
  BY <1>1, <1>10, ShownAtFailOver DEF ConnectFails
<1>11. ASSUME NEW protocol \in BOOLEAN, Refuses(protocol) PROVE Shown'
  <2>1. phase \in {"connecting", "receiving"}
    BY <1>11 DEF Refuses
  <2>2. CASE FailOver(FALSE, TRUE)
    BY <1>1, <2>1, <2>2, ShownAtFailOver
  <2>3. CASE ~FailOver(FALSE, TRUE)
    BY <1>1, <1>11, <2>3, ShownOtherwise DEF Refuses, output
  <2> QED BY <2>2, <2>3
<1>12. ASSUME NEW t \in Text, Emit(t) PROVE Shown'
  BY <1>1, <1>12, ShownAtEmit
<1>13. CASE BodyFails \/ ErrorEvent
  BY <1>1, <1>13, ShownAtFailOver DEF BodyFails, ErrorEvent
<1>14. CASE TimerFires
  BY <1>9, <1>10, <1>13, <1>14 DEF TimerFires
<1> QED
  BY <1>3, <1>4, <1>5, <1>6, <1>7, <1>8, <1>9, <1>10, <1>11, <1>12, <1>13, <1>14
     DEF Next, Loop

(* However often a stream is resumed elsewhere, what the next endpoint is   *)
(* shown is text the client got, in its order and each piece once, whether  *)
(* or not the model repeated what it was shown (appendAssistantMessage).    *)
(* An attempt is cut off with all it said at the end of the output and all  *)
(* that was replayed in front of that, so the replay can only grow by what  *)
(* follows.                                                                 *)
THEOREM ReplayIsWhatWasSent == Spec => []ReplayNeverInvents
<1>1. Init => Shown
  <2> SUFFICES ASSUME Init PROVE Shown
    OBVIOUS
  <2>1. phase = "looping" /\ replay = <<>> /\ Len(replay) = 0 /\ Len(out) \in Nat
    BY DEF Init
  <2>2. <<>> \in [1 .. 0 -> 1 .. Len(out)] /\ 1 .. 0 = {}
    OBVIOUS
  <2>3. Embeds(replay, out, Len(out))
    BY <2>1, <2>2 DEF Embeds
  <2> QED BY <2>1, <2>3 DEF Shown
<1>2. IInv /\ Shown => ReplayNeverInvents
  <2> SUFFICES ASSUME IInv, Shown PROVE ReplayNeverInvents
    OBVIOUS
  <2>1. Embeds(replay, out, Len(out))
    BY ShownStands DEF IInv
  <2> QED BY <2>1 DEF Embeds, ReplayNeverInvents
<1> QED BY <1>1, <1>2, ShownStep, Invariance, PTL DEF Spec

----------------------------------------------------------------------------
(* The streamed walk is the walk of FallbackWalk. *)

LEMMA AbstractInit == Init => Fallback!Init
BY DEF Init, Fallback!Init, Serving, Verdict

\* Who is being asked, as long as nothing is answered.
LEMMA Asked ==
    ASSUME TypeOK
    PROVE  /\ phase # "answered" => Verdict = "open" /\ answer = "none"
           /\ phase \in {"connecting", "receiving"} => Serving = ep /\ Serving # None
           /\ phase \in {"looping", "pausing"} => Serving = None
BY StreamAssumption DEF TypeOK, Serving, Verdict

\* Every end but a success ends the walk without an endpoint.
LEMMA FinishGivesUp ==
    ASSUME TypeOK, phase # "answered", NEW a, a \notin {"none", "ok"},
           NEW events, NEW done, Finish(a, events, done),
           UNCHANGED attempts \/ NextRound
    PROVE  Fallback!Next
<1>1. Verdict = "open" /\ Verdict' = "failed" /\ Serving' = None
  BY DEF Finish, Verdict, Serving
<1>2. Fallback!Round \/ UNCHANGED attempts
  BY DEF Fallback!Round, NextRound
<1>3. UNCHANGED <<tried, flipped, charged>>
  BY DEF Finish
<1>4. Fallback!GiveUp
  BY <1>1, <1>2, <1>3 DEF Fallback!GiveUp
<1> QED BY <1>4 DEF Fallback!Next

\* An endpoint that is charged has failed; one that is not was passed over.
LEMMA FailOverFails ==
    ASSUME TypeOK, phase \in {"connecting", "receiving"},
           NEW host \in BOOLEAN, NEW charge \in BOOLEAN, host => charge,
           FailOver(host, charge)
    PROVE  Fallback!Next
<1>1. Serving = ep /\ Serving # None /\ Verdict = "open" /\ answer = "none"
  BY Asked
<1>2. /\ phase' = "looping" /\ tried' = Retire(host)
      /\ UNCHANGED <<attempts, flipped, answer>>
  BY DEF FailOver
<1>3. Serving' = None /\ UNCHANGED Verdict
  BY <1>1, <1>2 DEF Serving, Verdict
<1>4. CASE charge
  <2>1. charged' = [charged EXCEPT ![Serving] = @ + 1]
    BY <1>1, <1>4 DEF FailOver
  <2>2. \E others \in {{}, Fallback!Siblings(Serving)} : tried' = tried \cup {Serving} \cup others
    BY <1>1, <1>2 DEF Retire, SameHost, Fallback!Siblings
  <2>3. Fallback!Fail(Serving)
    BY <1>1, <1>2, <1>3, <2>1, <2>2 DEF Fallback!Fail
  <2> QED BY <1>1, <1>2, <2>3 DEF Fallback!FailAsked, Fallback!Next
<1>5. CASE ~charge
  <2>1. UNCHANGED charged /\ tried' = tried \cup {Serving}
    BY <1>1, <1>2, <1>5 DEF FailOver, Retire
  <2>2. Fallback!PassOver
    BY <1>1, <1>2, <1>3, <2>1 DEF Fallback!PassOver
  <2> QED BY <2>2 DEF Fallback!Next
<1> QED BY <1>4, <1>5

LEMMA SendAsks ==
    ASSUME TypeOK, NEW e \in Endpoint, Send(e)
    PROVE  Fallback!Next
<1> DEFINE timeout == AttemptTimeout(Budget, silence, attempts + 1, Preferred(e))
<1>1. phase = "looping" /\ NextRound /\ e \notin tried
  BY DEF Send, NextRound
<1>2. CASE timeout <= 0
  <2>1. \E events : Finish("unavailable", events, FALSE)
    BY <1>2 DEF Send, OutOfBudget
  <2> QED BY <1>1, <2>1, FinishGivesUp
<1>3. CASE ~(timeout <= 0)
  <2>1. /\ phase' = "connecting" /\ ep' = e
        /\ UNCHANGED <<tried, flipped, answer, charged>>
    BY <1>3 DEF Send, StartTry, request
  <2>2. Serving = None /\ Verdict = "open" /\ answer = "none"
    BY <1>1, Asked
  <2>3. Serving' = e /\ UNCHANGED Verdict
    BY <2>1, <2>2, <1>1 DEF Serving, Verdict
  <2>4. Fallback!Ask(e)
    BY <1>1, <2>1, <2>2, <2>3 DEF Fallback!Ask, Fallback!Round, NextRound
  <2> QED BY <2>4 DEF Fallback!Next
<1> QED BY <1>2, <1>3

LEMMA WaitWaits ==
    ASSUME TypeOK, NEW wait, WaitOrGiveUp(wait)
    PROVE  Fallback!Next
<1> DEFINE sleeps == CycleBackSleeps(wait, Budget - silence, Shortest)
<1>1. phase = "looping" /\ NextRound
  BY DEF WaitOrGiveUp, NextRound
<1>2. CASE sleeps = {}
  <2>1. \/ \E events : Finish("unavailable", events, FALSE)
        \/ \E events : Finish("no_vision", events, TRUE)
    BY <1>2 DEF WaitOrGiveUp, Unavailable, VisionRejection
  <2> QED BY <1>1, <2>1, FinishGivesUp
<1>3. CASE sleeps # {}
  <2>1. phase' = "pausing" /\ UNCHANGED <<ep, tried, flipped, answer, charged>>
    BY <1>3 DEF WaitOrGiveUp, request, output
  <2>2. Serving = None /\ Verdict = "open" /\ answer = "none"
    BY <1>1, Asked
  <2>3. UNCHANGED <<Serving, Verdict>>
    BY <1>1, <2>1, <2>2 DEF Serving, Verdict
  <2>4. Fallback!Wait
    BY <1>1, <2>1, <2>2, <2>3 DEF Fallback!Wait, Fallback!Round, NextRound
  <2> QED BY <2>4 DEF Fallback!Next
<1> QED BY <1>2, <1>3

LEMMA ProxyPassesOver ==
    ASSUME TypeOK, ProxyFails
    PROVE  Fallback!Next \/ UNCHANGED Fallback!walk
<1>1. phase = "connecting"
  BY DEF ProxyFails
<1>2. CASE FailOver(FALSE, FALSE) \/ FailOver(TRUE, TRUE)
  BY <1>1, <1>2, FailOverFails
<1>3. CASE ~(FailOver(FALSE, FALSE) \/ FailOver(TRUE, TRUE))
  <2>1. /\ phase' = "connecting" /\ ep' = ep
        /\ UNCHANGED <<attempts, tried, flipped, answer, charged>>
    BY <1>3 DEF ProxyFails, StartTry, request
  <2> QED BY <1>1, <2>1 DEF Fallback!walk, Serving, Verdict
<1> QED BY <1>2, <1>3

LEMMA RefusalIsExcusedOnce ==
    ASSUME TypeOK, NEW protocol \in BOOLEAN, Refuses(protocol)
    PROVE  Fallback!Next
<1>1. phase = "connecting" /\ Serving = ep /\ Serving # None /\ Verdict = "open" /\ answer = "none"
  BY Asked DEF Refuses
<1>2. CASE FailOver(FALSE, TRUE)
  BY <1>1, <1>2, FailOverFails
<1>3. CASE ~FailOver(FALSE, TRUE)
  <2>1. /\ ep \notin flipped /\ flipped' = flipped \cup {ep} /\ phase' = "looping"
        /\ UNCHANGED <<attempts, tried, answer, charged>>
    BY <1>3 DEF Refuses, output
  <2>2. Serving' = None /\ UNCHANGED Verdict
    BY <1>1, <2>1 DEF Serving, Verdict
  <2>3. Fallback!Excuse
    BY <1>1, <2>1, <2>2 DEF Fallback!Excuse
  <2> QED BY <2>3 DEF Fallback!Next
<1> QED BY <1>2, <1>3

LEMMA BodyFailsFails ==
    ASSUME TypeOK, BodyFails
    PROVE  Fallback!Next
<1>1. phase = "receiving" /\ proxied \in BOOLEAN /\ FailOver(~proxied, ~proxied)
  BY DEF BodyFails, TypeOK
<1>2. FailOver(FALSE, FALSE) \/ FailOver(TRUE, TRUE)
  BY <1>1, Zenon
<1> QED BY <1>1, <1>2, FailOverFails

LEMMA SuccessServes ==
    ASSUME TypeOK, Succeed
    PROVE  Fallback!Next
<1>1. phase = "receiving" /\ Serving = ep /\ Serving # None /\ Verdict = "open"
  BY Asked DEF Succeed
<1>2. /\ phase' = "answered" /\ answer' = "ok"
      /\ UNCHANGED <<attempts, ep, tried, flipped, charged>>
  BY DEF Succeed, Finish
<1>3. UNCHANGED Serving /\ Verdict' = "served"
  BY <1>1, <1>2 DEF Serving, Verdict
<1>4. Fallback!Serve
  BY <1>1, <1>2, <1>3 DEF Fallback!Serve
<1> QED BY <1>4 DEF Fallback!Next

LEMMA AbstractStep == TypeOK /\ [Next]_vars => [Fallback!Next]_(Fallback!walk)
<1> SUFFICES ASSUME TypeOK, [Next]_vars
             PROVE  Fallback!Next \/ UNCHANGED Fallback!walk
  OBVIOUS
<1>1. CASE Stop \/ Saturated \/ Reset \/ Disconnected
  <2>1. phase # "answered" /\ UNCHANGED attempts
    BY <1>1 DEF Stop, Saturated, Reset, Disconnected
  <2>2. \E a \in {"unavailable", "disconnected", "no_vision", "saturated"} :
            \E events, done : Finish(a, events, done)
    BY <1>1 DEF Stop, Saturated, Reset, Disconnected, OutOfBudget, Unavailable, VisionRejection
  <2> QED BY <2>1, <2>2, FinishGivesUp
<1>2. CASE \E e \in Endpoint : Send(e)
  BY <1>2, SendAsks
<1>3. CASE \E wait \in Waits \cup {0} : WaitOrGiveUp(wait)
  BY <1>3, WaitWaits
<1>4. CASE Wake
  <2>1. phase = "pausing" /\ UNCHANGED attempts
    BY <1>4 DEF Wake
  <2>2. CASE Finish("disconnected", <<>>, FALSE)
    BY <2>1, <2>2, FinishGivesUp
  <2>3. CASE phase' = "looping" /\ UNCHANGED <<ep, request, output>>
    BY <2>1, <2>3 DEF Fallback!walk, Serving, Verdict, request, output
  <2> QED BY <1>4, <2>2, <2>3 DEF Wake
<1>5. CASE ProxyFails
  BY <1>5, ProxyPassesOver
<1>6. CASE ConnectFails
  BY <1>6, FailOverFails DEF ConnectFails
<1>7. CASE BodyFails
  BY <1>7, BodyFailsFails
<1>8. CASE TimerFires
  BY <1>5, <1>6, <1>7, <1>8 DEF TimerFires
<1>9. CASE \E protocol \in BOOLEAN : Refuses(protocol)
  BY <1>9, RefusalIsExcusedOnce
<1>10. CASE ErrorEvent
  BY <1>10, FailOverFails DEF ErrorEvent
<1>11. CASE Succeed
  BY <1>11, SuccessServes
<1>12. CASE HeadersArrive
  BY <1>12 DEF HeadersArrive, Fallback!walk, Serving, Verdict, request, output
<1>13. CASE (\E t \in Text : Emit(t)) \/ ClientLeaves \/ Tick \/ Answered \/ UNCHANGED vars
  <2>1. UNCHANGED <<phase, attempts, ep, tried, flipped, answer, charged>>
    BY <1>13 DEF Emit, ClientLeaves, Tick, Answered, vars, walk, request, output
  <2> QED BY <2>1 DEF Fallback!walk, Serving, Verdict
<1> QED
  BY <1>1, <1>2, <1>3, <1>4, <1>5, <1>6, <1>7, <1>8, <1>9, <1>10, <1>11, <1>12, <1>13
     DEF Next, Loop

(* For answers of any length and any configuration: handleStream is the     *)
(* walk of FallbackWalk too, whatever text went out before an endpoint      *)
(* failed.                                                                  *)
THEOREM FallbackImplemented == Spec => ImplementsFallback
BY AbstractInit, AbstractStep, TypeCorrect, PTL DEF Spec, ImplementsFallback, Fallback!Spec

=============================================================================
