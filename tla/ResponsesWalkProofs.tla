------------------------ MODULE ResponsesWalkProofs ------------------------
(***************************************************************************)
(* Invariance proofs about ResponsesWalk, for every surface, prompts of    *)
(* any size, any endpoints, hosts, protocols, providers' ceilings, proxies,*)
(* cooldowns, idle windows and lateness of the timers.                     *)
(***************************************************************************)
EXTENDS ResponsesWalk, WalkBudgetProofs

----------------------------------------------------------------------------
(* The inductive invariant. *)

\* Whatever the handler waits for ends within the budget.
Timed ==
    /\ silence <= Budget + Slack
    /\ phase \in {"connecting", "receiving", "pausing"} => limit <= Budget

\* Only a retired endpoint was charged, and that once.
Accounts ==
    \A e \in Endpoint :
        /\ charged[e] <= 1
        /\ e \notin tried => charged[e] = 0

\* An endpoint being asked, or whose answer was served, is not retired.
Unretired == phase \in {"connecting", "receiving"} \/ answer = "ok" => ep \notin tried

IInv == TypeOK /\ Timed /\ Accounts /\ Unretired

----------------------------------------------------------------------------
(* The constants. *)

LEMMA BudgetNat == Timeout \in Nat /\ Budget \in Nat
<1>1. Timeout \in Nat
  BY ResponsesAssumption, AttemptTimeoutRange DEF Timeout, MaxLargeContextAttemptTimeout
<1>2. Budget \in 12 .. 480
  BY <1>1, BudgetRange DEF Budget, MaxLargeContextSessionBudget
<1> QED BY <1>1, <1>2

LEMMA ShortestNat == Shortest \in Nat
<1> DEFINE S == {Patience[e] : e \in Endpoint} \cup {MaxSessionInterruption}
<1>1. S \subseteq Nat /\ S # {}
  BY ResponsesAssumption DEF MaxSessionInterruption
<1> HIDE DEF S
<1>2. LeastOf(S) \in Nat
  BY <1>1, LeastOfIsLeast
<1> QED BY <1>2 DEF Shortest, S

LEMMA PreferredNat == \A e \in Endpoint : Preferred(e) \in Nat
<1>1. AttemptCeiling(Tokens) \in Nat
  BY DEF AttemptCeiling, MaxLargeContextAttemptTimeout, MaxSessionInterruption
<1>2. \A e \in Endpoint : Ceiling(e) \in Nat
  BY ResponsesAssumption, BudgetNat DEF Ceiling, MaxSessionInterruption
<1> QED BY <1>1, <1>2, BudgetNat DEF Preferred, Least

LEMMA MaxAttemptsNat == MaxAttempts \in Nat
BY ResponsesAssumption DEF MaxAttempts

----------------------------------------------------------------------------
(* The kinds of step. *)

(* What a try is given ends within the budget.                              *)
LEMMA TryFits ==
    ASSUME IInv, NEW e \in Endpoint, NEW n \in Nat
    PROVE  /\ TryTimeout(e, n) \in Nat
           /\ TryTimeout(e, n) > 0 => silence + TryTimeout(e, n) <= Budget
<1>1. Budget \in Nat /\ silence \in Nat /\ Preferred(e) \in Nat
  BY BudgetNat, PreferredNat DEF IInv, TypeOK
<1> QED BY <1>1, AttemptFits DEF TryTimeout

(* Answering ends the request wherever it is.                               *)
LEMMA FinishKeeps ==
    ASSUME IInv, NEW a, a # "none", NEW events, Finish(a, events), phase # "answered",
           a = "ok" => phase = "receiving", attempts' \in 0 .. MaxAttempts
    PROVE  IInv'
<1>1. TypeOK'
  BY DEF IInv, TypeOK, Finish, MaxAttempts
<1>2. Timed'
  BY DEF IInv, Timed, Finish
<1>3. Accounts' /\ Unretired'
  BY DEF IInv, Accounts, Unretired, Finish
<1> QED BY <1>1, <1>2, <1>3 DEF IInv

(* A failed attempt retires its endpoint, charged or not.                   *)
LEMMA FailOverKeeps ==
    ASSUME IInv, NEW e \in Endpoint, e \notin tried, phase # "answered",
           NEW host \in BOOLEAN, NEW charge \in BOOLEAN, FailOver(e, host, charge),
           attempts' \in 0 .. MaxAttempts
    PROVE  IInv'
<1>1. charged[e] = 0 /\ charged \in [Endpoint -> Nat]
  BY DEF IInv, TypeOK, Accounts
<1>2. /\ charged' \in [Endpoint -> Nat] /\ charged'[e] <= 1
      /\ \A x \in Endpoint : x # e => charged'[x] = charged[x]
  <2>1. CASE charge
    <3>1. charged' = [charged EXCEPT ![e] = @ + 1]
      BY <2>1 DEF FailOver
    <3> QED BY <1>1, <3>1
  <2>2. CASE ~charge
    <3>1. charged' = charged
      BY <2>2 DEF FailOver
    <3> QED BY <1>1, <3>1
  <2> QED BY <2>1, <2>2
<1>3. tried' \subseteq Endpoint /\ tried \subseteq tried' /\ e \in tried'
  BY DEF FailOver, SameHost, IInv, TypeOK
<1>4. TypeOK'
  BY <1>2, <1>3 DEF IInv, TypeOK, FailOver, output, MaxAttempts
<1>5. Timed'
  BY DEF IInv, Timed, FailOver
<1>6. Accounts'
  BY <1>2, <1>3 DEF IInv, Accounts
<1>7. Unretired'
  BY DEF IInv, TypeOK, Unretired, FailOver
<1> QED BY <1>4, <1>5, <1>6, <1>7 DEF IInv

(* A try of an endpoint that is not retired.                                *)
LEMMA StartKeeps ==
    ASSUME IInv, NEW e \in Endpoint, e \notin tried, phase # "answered", NEW n \in Nat,
           NEW timeout \in Nat, silence + timeout <= Budget, StartTry(e, n, timeout),
           UNCHANGED <<tried, charged>>, attempts' \in 0 .. MaxAttempts
    PROVE  IInv'
<1>1. limit' \in Nat /\ limit' <= Budget /\ idle' \in Nat /\ proxied' \in BOOLEAN
  <2>1. silence \in Nat /\ StreamIdle \in Nat
    BY ResponsesAssumption DEF IInv, TypeOK
  <2>2. proxied' \in BOOLEAN
    BY DEF StartTry, ThroughProxy
  <2> QED BY <2>1, <2>2 DEF StartTry, Least
<1>2. response' \in Nat /\ text' \in BOOLEAN /\ calls' \in 0 .. MaxCalls
  <2>1. CASE surface = "json"
    BY <2>1 DEF StartTry, IInv, TypeOK
  <2>2. CASE surface # "json"
    <3>1. NewBuffer
      BY <2>2 DEF StartTry
    <3>2. response \in Nat /\ MaxCalls \in Nat
      BY ResponsesAssumption DEF IInv, TypeOK
    <3>3. response' = response + 1 /\ text' = FALSE /\ calls' = 0
      BY <3>1 DEF NewBuffer
    <3>4. text' \in BOOLEAN
      BY <3>3
    <3> QED BY <3>2, <3>3, <3>4
  <2> QED BY <2>1, <2>2
<1>3. TypeOK'
  BY <1>1, <1>2 DEF IInv, TypeOK, StartTry, MaxAttempts
<1>4. Timed'
  BY <1>1 DEF IInv, Timed, StartTry
<1>5. Accounts' /\ Unretired'
  BY DEF IInv, TypeOK, Accounts, Unretired, StartTry
<1> QED BY <1>3, <1>4, <1>5 DEF IInv

LEMMA RoundTyped ==
    ASSUME IInv, NextRound
    PROVE  attempts' \in 0 .. MaxAttempts /\ attempts + 1 \in Nat /\ phase = "looping"
BY MaxAttemptsNat DEF NextRound, IInv, TypeOK

----------------------------------------------------------------------------
(* Every step preserves the invariant. *)

LEMMA InitHolds == Init => IInv
<1> SUFFICES ASSUME Init PROVE IInv
  OBVIOUS
<1>1. TypeOK
  <2>1. charged \in [Endpoint -> Nat] /\ calls \in 0 .. MaxCalls /\ attempts \in 0 .. MaxAttempts
    BY ResponsesAssumption, MaxAttemptsNat DEF Init
  <2> QED BY <2>1 DEF Init, TypeOK
<1>2. Timed
  BY BudgetNat, ResponsesAssumption DEF Init, Timed
<1>3. Accounts /\ Unretired
  BY DEF Init, Accounts, Unretired
<1> QED BY <1>1, <1>2, <1>3 DEF IInv

LEMMA SendKeeps ==
    ASSUME IInv, NEW e \in Endpoint, Send(e)
    PROVE  IInv'
<1>1. NextRound /\ e \notin tried
  BY DEF Send
<1>2. attempts' \in 0 .. MaxAttempts /\ attempts + 1 \in Nat /\ phase = "looping"
  BY <1>1, RoundTyped
<1> DEFINE timeout == TryTimeout(e, attempts + 1)
<1>3. timeout \in Nat /\ (timeout > 0 => silence + timeout <= Budget)
  BY <1>2, TryFits
<1>4. CASE timeout > 0
  <2>1. StartTry(e, 1, timeout) /\ UNCHANGED <<tried, charged>>
    BY <1>4 DEF Send
  <2> HIDE DEF timeout
  <2> QED BY <1>1, <1>2, <1>3, <1>4, <2>1, StartKeeps
<1>5. CASE ~(timeout > 0) /\ surface = "sse"
  <2>1. FailOver(e, TRUE, TRUE)
    BY <1>5 DEF Send
  <2> QED BY <1>1, <1>2, <2>1, FailOverKeeps
<1>6. CASE ~(timeout > 0) /\ surface # "sse"
  <2>1. Unavailable
    BY <1>6 DEF Send
  <2> QED BY <1>2, <2>1, FinishKeeps DEF Unavailable
<1> QED BY <1>4, <1>5, <1>6

LEMMA WaitKeeps ==
    ASSUME IInv, NEW wait \in Nat, WaitOrGiveUp(wait)
    PROVE  IInv'
<1> DEFINE sleeps == CycleBackSleeps(wait, Budget - silence, Shortest)
<1>1. attempts' \in 0 .. MaxAttempts /\ phase = "looping"
  BY RoundTyped DEF WaitOrGiveUp
<1>2. CASE sleeps = {}
  <2>1. Unavailable
    BY <1>2 DEF WaitOrGiveUp
  <2> QED BY <1>1, <2>1, FinishKeeps DEF Unavailable
<1>3. CASE sleeps # {}
  <2>1. PICK s \in sleeps : limit' = silence + s
    BY <1>3 DEF WaitOrGiveUp
  <2>2. silence \in Nat /\ Budget \in Nat
    BY BudgetNat DEF IInv, TypeOK
  <2>3. s \in Nat /\ s < Budget - silence
    <3>1. Budget - silence \in Int
      BY <2>2
    <3> QED BY <3>1, ShortestNat, SleepFits
  <2> HIDE DEF sleeps
  <2>4. limit' \in Nat /\ limit' <= Budget
    BY <2>1, <2>2, <2>3
  <2>5. /\ phase' = "pausing"
        /\ UNCHANGED <<surface, silence, idle, ep, try, proxied, request, output>>
    BY <1>3 DEF WaitOrGiveUp, sleeps
  <2>6. TypeOK'
    BY <1>1, <2>4, <2>5 DEF IInv, TypeOK, MaxAttempts, request, output
  <2>7. Timed'
    BY <2>4, <2>5 DEF IInv, Timed
  <2>8. Accounts' /\ Unretired'
    BY <2>5 DEF IInv, Accounts, Unretired, request
  <2> QED BY <2>6, <2>7, <2>8 DEF IInv
<1> QED BY <1>2, <1>3

LEMMA StopKeeps ==
    ASSUME IInv, Stop
    PROVE  IInv'
<1>1. phase = "looping" /\ attempts' \in 0 .. MaxAttempts
  BY DEF Stop, IInv, TypeOK
<1>2. CASE Cancelled
  BY <1>1, <1>2, FinishKeeps DEF Cancelled
<1>3. CASE Unavailable
  BY <1>1, <1>3, FinishKeeps DEF Unavailable
<1> QED BY <1>2, <1>3 DEF Stop

LEMMA WakeKeeps ==
    ASSUME IInv, Wake
    PROVE  IInv'
<1>1. phase = "pausing" /\ attempts' = attempts /\ attempts' \in 0 .. MaxAttempts
  BY DEF Wake, IInv, TypeOK
<1>2. CASE Cancelled
  BY <1>1, <1>2, FinishKeeps DEF Cancelled
<1>3. CASE /\ phase' = "looping"
           /\ UNCHANGED <<surface, silence, limit, idle, ep, try, proxied, request, output>>
  <2>1. TypeOK'
    BY <1>1, <1>3 DEF IInv, TypeOK, MaxAttempts, request, output
  <2>2. Timed'
    BY <1>3 DEF IInv, Timed
  <2>3. Accounts' /\ Unretired'
    BY <1>3 DEF IInv, Accounts, Unretired, request
  <2> QED BY <2>1, <2>2, <2>3 DEF IInv
<1> QED BY <1>2, <1>3 DEF Wake

(* The endpoint of an attempt is a known one that is not retired.           *)
LEMMA Asked ==
    ASSUME IInv, phase \in {"connecting", "receiving"}
    PROVE  ep \in Endpoint /\ ep \notin tried /\ attempts \in 0 .. MaxAttempts /\ attempts \in Nat
BY MaxAttemptsNat DEF IInv, TypeOK, Unretired

LEMMA ProxyFailsKeeps ==
    ASSUME IInv, ProxyFails
    PROVE  IInv'
<1>1. phase = "connecting" /\ attempts' = attempts
  BY DEF ProxyFails
<1>2. ep \in Endpoint /\ ep \notin tried /\ attempts' \in 0 .. MaxAttempts /\ attempts \in Nat
      /\ try \in Nat
  BY <1>1, Asked DEF IInv, TypeOK
<1>3. CASE FailOver(ep, FALSE, surface = "ws")
  <2>1. (surface = "ws") \in BOOLEAN /\ FALSE \in BOOLEAN
    OBVIOUS
  <2> QED BY <1>1, <1>2, <1>3, <2>1, FailOverKeeps
<1>4. CASE /\ try' = try + 1 /\ ThroughProxy(ep)
           /\ UNCHANGED <<phase, surface, silence, limit, idle, ep, request, output>>
  <2>1. proxied' \in BOOLEAN
    BY <1>4 DEF ThroughProxy
  <2>2. TypeOK'
    BY <1>2, <1>4, <2>1 DEF IInv, TypeOK, MaxAttempts, request, output
  <2>3. Timed'
    BY <1>4 DEF IInv, Timed
  <2>4. Accounts' /\ Unretired'
    BY <1>4 DEF IInv, Accounts, Unretired, request
  <2> QED BY <2>2, <2>3, <2>4 DEF IInv
<1>5. CASE FailOver(ep, TRUE, TRUE)
  BY <1>1, <1>2, <1>5, FailOverKeeps
<1>6. CASE /\ ~(TryTimeout(ep, attempts) <= 0)
           /\ StartTry(ep, try + 1, TryTimeout(ep, attempts)) /\ UNCHANGED <<tried, charged>>
  <2> DEFINE timeout == TryTimeout(ep, attempts)
  <2>1. timeout \in Nat /\ silence + timeout <= Budget
    BY <1>2, <1>6, TryFits
  <2>2. StartTry(ep, try + 1, timeout)
    BY <1>6
  <2> HIDE DEF timeout
  <2> QED BY <1>1, <1>2, <1>6, <2>1, <2>2, StartKeeps
<1> QED BY <1>3, <1>4, <1>5, <1>6 DEF ProxyFails

LEMMA ConnectFailsKeeps ==
    ASSUME IInv, ConnectFails
    PROVE  IInv'
<1>1. ep \in Endpoint /\ ep \notin tried /\ attempts' \in 0 .. MaxAttempts
  BY Asked DEF ConnectFails
<1> QED BY <1>1, FailOverKeeps DEF ConnectFails

LEMMA LeftWhileConnectingKeeps ==
    ASSUME IInv, LeftWhileConnecting
    PROVE  IInv'
<1>1. phase = "connecting" /\ ep \in Endpoint /\ ep \notin tried
      /\ attempts' \in 0 .. MaxAttempts
  BY Asked DEF LeftWhileConnecting
<1>2. CASE Finish("disconnected", Error)
  BY <1>1, <1>2, FinishKeeps
<1>3. CASE FailOver(ep, TRUE, TRUE)
  BY <1>1, <1>3, FailOverKeeps
<1> QED BY <1>2, <1>3 DEF LeftWhileConnecting

LEMMA RefusesKeeps ==
    ASSUME IInv, Refuses
    PROVE  IInv'
<1>1. ep \in Endpoint /\ ep \notin tried /\ attempts' \in 0 .. MaxAttempts
  BY Asked DEF Refuses
<1> QED BY <1>1, FailOverKeeps DEF Refuses

LEMMA HeadersArriveKeeps ==
    ASSUME IInv, HeadersArrive
    PROVE  IInv'
<1>1. /\ phase = "connecting" /\ phase' = "receiving"
      /\ UNCHANGED <<attempts, surface, silence, idle, ep, try, proxied, request, output>>
  BY DEF HeadersArrive
<1>2. ep \in Endpoint /\ limit \in Nat /\ silence + idle \in Nat
  BY <1>1, Asked DEF IInv, TypeOK
<1>3. limit' \in Nat /\ limit' <= limit
  BY <1>2 DEF HeadersArrive, Least
<1>4. TypeOK'
  BY <1>1, <1>2, <1>3 DEF IInv, TypeOK, MaxAttempts, request, output
<1>5. Timed'
  BY <1>1, <1>2, <1>3, BudgetNat DEF IInv, Timed
<1>6. Accounts' /\ Unretired'
  BY <1>1 DEF IInv, Accounts, Unretired, request
<1> QED BY <1>4, <1>5, <1>6 DEF IInv

LEMMA DeltaKeeps ==
    ASSUME IInv, NEW hasText \in BOOLEAN, NEW hasCall \in BOOLEAN, Delta(hasText, hasCall)
    PROVE  IInv'
<1>1. UNCHANGED <<phase, walk, request, response, buffer, out>>
  BY DEF Delta
<1>2. text' \in BOOLEAN
  BY ZenonT(20) DEF Delta, IInv, TypeOK
<1>3. calls' \in 0 .. MaxCalls
  <2>1. calls \in 0 .. MaxCalls /\ MaxCalls \in Nat
    BY ResponsesAssumption DEF IInv, TypeOK
  <2> QED BY <2>1 DEF Delta
<1>4. TypeOK'
  BY <1>1, <1>2, <1>3 DEF IInv, TypeOK, MaxAttempts, walk, request
<1>5. Timed'
  BY <1>1 DEF IInv, Timed, walk
<1>6. Accounts' /\ Unretired'
  BY <1>1 DEF IInv, Accounts, Unretired, walk, request
<1> QED BY <1>4, <1>5, <1>6 DEF IInv

LEMMA BodyFailsKeeps ==
    ASSUME IInv, BodyFails
    PROVE  IInv'
<1>1. ep \in Endpoint /\ ep \notin tried /\ attempts' \in 0 .. MaxAttempts
  BY Asked DEF BodyFails
<1>2. (surface # "json") \in BOOLEAN
  OBVIOUS
<1> QED BY <1>1, <1>2, FailOverKeeps DEF BodyFails

LEMMA UnusableKeeps ==
    ASSUME IInv, Unusable
    PROVE  IInv'
<1>1. ep \in Endpoint /\ ep \notin tried /\ attempts' \in 0 .. MaxAttempts
  BY Asked DEF Unusable
<1> QED BY <1>1, FailOverKeeps DEF Unusable

LEMMA SucceedKeeps ==
    ASSUME IInv, Succeed
    PROVE  IInv'
<1>1. phase = "receiving" /\ attempts' \in 0 .. MaxAttempts /\ Finish("ok", Replayed)
  BY Asked DEF Succeed
<1> QED BY <1>1, FinishKeeps

LEMMA ClientLeavesKeeps ==
    ASSUME IInv, ClientLeaves
    PROVE  IInv'
<1>1. gone' = TRUE /\ UNCHANGED <<phase, walk, tried, answer, charged, output>>
  BY DEF ClientLeaves
<1>2. TypeOK'
  BY <1>1 DEF IInv, TypeOK, MaxAttempts, walk, output
<1>3. Timed'
  BY <1>1 DEF IInv, Timed, walk
<1>4. Accounts' /\ Unretired'
  BY <1>1 DEF IInv, Accounts, Unretired, walk
<1> QED BY <1>2, <1>3, <1>4 DEF IInv

LEMMA TickKeeps ==
    ASSUME IInv, Tick
    PROVE  IInv'
<1>1. /\ phase \in {"connecting", "receiving", "pausing"}
      /\ silence < limit + Slack /\ silence' = silence + 1
      /\ UNCHANGED <<phase, surface, attempts, limit, idle, ep, try, proxied, request, output>>
  BY DEF Tick
<1>2. TypeOK'
  BY <1>1 DEF IInv, TypeOK, MaxAttempts, request, output
<1>3. Timed'
  <2>1. silence \in Nat /\ limit \in Nat /\ Budget \in Nat /\ Slack \in Nat /\ limit <= Budget
    BY <1>1, BudgetNat, ResponsesAssumption DEF IInv, TypeOK, Timed
  <2> QED BY <1>1, <2>1 DEF Timed
<1>4. Accounts' /\ Unretired'
  BY <1>1 DEF IInv, Accounts, Unretired, request
<1> QED BY <1>2, <1>3, <1>4 DEF IInv

LEMMA StutterKeeps ==
    ASSUME IInv, UNCHANGED vars
    PROVE  IInv'
BY DEF IInv, TypeOK, Timed, Accounts, Unretired, vars, walk, request, output, MaxAttempts

LEMMA NextKeeps == IInv /\ [Next]_vars => IInv'
<1> SUFFICES ASSUME IInv, [Next]_vars PROVE IInv'
  OBVIOUS
<1>1. CASE Loop
  <2>1. ASSUME NEW wait \in Waits \cup {0}, WaitOrGiveUp(wait) PROVE IInv'
    <3>1. wait \in Nat
      BY ResponsesAssumption
    <3> QED BY <2>1, <3>1, WaitKeeps
  <2> QED BY <1>1, <2>1, StopKeeps, SendKeeps DEF Loop
<1>2. CASE Wake
  BY <1>2, WakeKeeps
<1>3. CASE TimerFires
  BY <1>3, ConnectFailsKeeps, ProxyFailsKeeps, BodyFailsKeeps DEF TimerFires
<1>4. CASE LeftWhileConnecting
  BY <1>4, LeftWhileConnectingKeeps
<1>5. CASE ProxyFails
  BY <1>5, ProxyFailsKeeps
<1>6. CASE ConnectFails
  BY <1>6, ConnectFailsKeeps
<1>7. CASE Refuses \/ HeadersArrive
  BY <1>7, RefusesKeeps, HeadersArriveKeeps
<1>8. CASE \E hasText, hasCall \in BOOLEAN : Delta(hasText, hasCall)
  BY <1>8, DeltaKeeps
<1>9. CASE BodyFails \/ Unusable \/ Succeed
  BY <1>9, BodyFailsKeeps, UnusableKeeps, SucceedKeeps
<1>10. CASE ClientLeaves \/ Tick
  BY <1>10, ClientLeavesKeeps, TickKeeps
<1>11. CASE Answered \/ UNCHANGED vars
  BY <1>11, StutterKeeps DEF Answered
<1> QED BY <1>1, <1>2, <1>3, <1>4, <1>5, <1>6, <1>7, <1>8, <1>9, <1>10, <1>11 DEF Next

LEMMA IInvHolds == Spec => []IInv
BY InitHolds, NextKeeps, PTL DEF Spec

----------------------------------------------------------------------------
(* What follows. *)

(* Every variable of a request keeps its type.                              *)
THEOREM TypeCorrect == Spec => []TypeOK
<1>1. IInv => TypeOK
  BY DEF IInv
<1> QED BY <1>1, IInvHolds, PTL

(* On all three surfaces, whatever the size of the prompt and the patience  *)
(* of the providers, the client has its answer by the end of the budget.    *)
THEOREM SilenceIsBounded == Spec => []SilenceBounded
<1>1. IInv => SilenceBounded
  BY DEF IInv, Timed, SilenceBounded
<1> QED BY <1>1, IInvHolds, PTL

(* However many proxies are between them, a request charges an endpoint at  *)
(* most once, and none if it served the answer.                             *)
THEOREM ChargedAtMostOnce == Spec => []ChargedOnce
<1>1. IInv => ChargedOnce
  <2> SUFFICES ASSUME IInv, NEW e \in Endpoint
               PROVE  charged[e] <= 1 /\ (answer = "ok" /\ e = ep => charged[e] = 0)
    BY DEF ChargedOnce
  <2> QED BY DEF IInv, Accounts, Unretired
<1> QED BY <1>1, IInvHolds, PTL

----------------------------------------------------------------------------
(* The envelope. *)

\* The two events a buffer begins with.
Opened == << Event("created", 0), Event("in_progress", 0) >>

\* An attempt's buffer holds the beginning of its own response and no more;
\* a success was that and what followed.
Enveloped ==
    surface # "json" =>
        /\ phase \in {"connecting", "receiving"} => buffer = Opened
        /\ answer = "ok" => buffer = Opened /\ out = Finished

\* The message, if there is one, and the calls.
Items == Base + calls

Names == {"created", "in_progress", "added", "delta", "arguments", "done", "completed"}

Events == Nat \X Names \X Nat

LEMMA EventIsOne ==
    ASSUME TypeOK, NEW name \in Names, NEW n \in Nat
    PROVE  Event(name, n) \in Events
BY DEF TypeOK, Event, Events

LEMMA Singles == ASSUME NEW E, NEW a \in E PROVE <<a>> \in Seq(E) /\ Len(<<a>>) = 1 /\ <<a>>[1] = a
OBVIOUS

LEMMA Pairs ==
    ASSUME NEW E, NEW a \in E, NEW b \in E
    PROVE  /\ <<a, b>> \in Seq(E) /\ Len(<<a, b>>) = 2
           /\ <<a, b>>[1] = a /\ <<a, b>>[2] = b
OBVIOUS

LEMMA Triples ==
    ASSUME NEW E, NEW a \in E, NEW b \in E, NEW c \in E
    PROVE  /\ <<a, b, c>> \in Seq(E) /\ Len(<<a, b, c>>) = 3
           /\ <<a, b, c>>[1] = a /\ <<a, b, c>>[2] = b /\ <<a, b, c>>[3] = c
OBVIOUS

(* What a concatenation holds, and where.                                   *)
LEMMA Joined ==
    ASSUME NEW E, NEW s \in Seq(E), NEW t \in Seq(E)
    PROVE  /\ s \o t \in Seq(E) /\ Len(s \o t) = Len(s) + Len(t)
           /\ \A i \in 1 .. Len(s) : (s \o t)[i] = s[i]
           /\ \A i \in 1 .. Len(t) : (s \o t)[Len(s) + i] = t[i]
OBVIOUS

(* The events of an item, at their places.                                  *)
Shaped(s, at, middle, k) ==
    /\ s[at + 1] = Event("added", k)
    /\ s[at + 2] = Event(middle, k)
    /\ s[at + 3] = Event("done", k)

LEMMA BaseIs ==
    ASSUME TypeOK
    PROVE  /\ response \in Nat /\ calls \in Nat /\ Base \in {0, 1}
           /\ text = TRUE => Base = 1
           /\ text = FALSE => Base = 0
           /\ text = TRUE \/ text = FALSE
           /\ Items = Base + calls /\ Items \in Nat
BY ResponsesAssumption DEF TypeOK, Base, Items

LEMMA MessageShape ==
    ASSUME TypeOK
    PROVE  /\ Message \in Seq(Events) /\ Len(Message) = 3 * Base
           /\ Base = 1 => Shaped(Message, 0, "delta", 0)
<1>1. /\ Event("added", 0) \in Events /\ Event("delta", 0) \in Events
      /\ Event("done", 0) \in Events
  BY EventIsOne DEF Names
<1> DEFINE m == << Event("added", 0), Event("delta", 0), Event("done", 0) >>
<1>2. CASE text = TRUE
  <2>1. Message = m /\ Base = 1
    BY <1>2, BaseIs DEF Message
  <2>2. /\ m \in Seq(Events) /\ Len(m) = 3
        /\ m[1] = Event("added", 0) /\ m[2] = Event("delta", 0) /\ m[3] = Event("done", 0)
    BY <1>1, Triples
  <2> HIDE DEF m
  <2> QED BY <2>1, <2>2 DEF Shaped
<1>3. CASE text = FALSE
  <2>1. Message = <<>> /\ Base = 0
    BY <1>3, BaseIs DEF Message
  <2> QED BY <2>1
<1> QED BY <1>2, <1>3, BaseIs

LEMMA CallShape ==
    ASSUME TypeOK, NEW i \in Nat
    PROVE  /\ \A j \in 1 .. 3 : Call(i)[j] \in Events
           /\ Shaped(Call(i), 0, "arguments", Base + i)
<1>1. Base + i \in Nat
  BY BaseIs
<1>2. /\ Event("added", Base + i) \in Events /\ Event("arguments", Base + i) \in Events
      /\ Event("done", Base + i) \in Events
  BY <1>1, EventIsOne DEF Names
<1>3. /\ Call(i)[1] = Event("added", Base + i)
      /\ Call(i)[2] = Event("arguments", Base + i)
      /\ Call(i)[3] = Event("done", Base + i)
  BY <1>2, Triples DEF Call
<1>4. \A j \in 1 .. 3 : j = 1 \/ j = 2 \/ j = 3
  OBVIOUS
<1> QED BY <1>2, <1>3, <1>4 DEF Shaped

LEMMA FunctionCallsShape ==
    ASSUME TypeOK
    PROVE  /\ FunctionCalls \in Seq(Events) /\ Len(FunctionCalls) = 3 * calls
           /\ \A k \in 0 .. calls - 1 : Shaped(FunctionCalls, 3 * k, "arguments", Base + k)
<1>1. calls \in Nat
  BY BaseIs
<1>2. \A k \in 1 .. 3 * calls : (k - 1) \div 3 \in Nat /\ ((k - 1) % 3) + 1 \in 1 .. 3
  BY <1>1
<1>3. FunctionCalls \in [1 .. 3 * calls -> Events]
  BY <1>2, CallShape DEF FunctionCalls
<1>4. FunctionCalls \in Seq(Events) /\ Len(FunctionCalls) = 3 * calls
  BY <1>1, <1>3
<1>5. ASSUME NEW k \in 0 .. calls - 1, NEW j \in 0 .. 2
      PROVE  FunctionCalls[3 * k + j + 1] = Call(k)[j + 1]
  <2>1. /\ 3 * k + j + 1 \in 1 .. 3 * calls
        /\ (3 * k + j) \div 3 = k /\ (3 * k + j) % 3 = j
        /\ (3 * k + j + 1) - 1 = 3 * k + j
    BY <1>1
  <2> QED BY <2>1 DEF FunctionCalls
<1>6. ASSUME NEW k \in 0 .. calls - 1
      PROVE  Shaped(FunctionCalls, 3 * k, "arguments", Base + k)
  <2>1. /\ FunctionCalls[3 * k + 0 + 1] = Call(k)[0 + 1]
        /\ FunctionCalls[3 * k + 1 + 1] = Call(k)[1 + 1]
        /\ FunctionCalls[3 * k + 2 + 1] = Call(k)[2 + 1]
    BY <1>5
  <2>2. k \in Nat /\ 3 * k + 0 + 1 = 3 * k + 1 /\ 3 * k + 1 + 1 = 3 * k + 2
        /\ 3 * k + 2 + 1 = 3 * k + 3
    BY <1>1
  <2> QED BY CallShape, <2>1, <2>2 DEF Shaped
<1> QED BY <1>4, <1>6

(* The announcement of item k is event 3 k + 3, its content follows, and the*)
(* event after that finishes it; there is nothing else in between.          *)
LEMMA FinishedShape ==
    ASSUME TypeOK, buffer = Opened
    PROVE  /\ Items \in Nat /\ Finished \in Seq(Events) /\ Len(Finished) = 3 * Items + 3
           /\ Finished[1] = Event("created", 0) /\ Finished[2] = Event("in_progress", 0)
           /\ Finished[3 * Items + 3] = Event("completed", Items)
           /\ \A k \in 0 .. Items - 1 :
                 \E name \in {"delta", "arguments"} : Shaped(Finished, 3 * k + 2, name, k)
<1> DEFINE front == Opened \o Message
           body == front \o FunctionCalls
           last == << Event("completed", Items) >>
<1>1. Finished = body \o last
  BY DEF Finished, Items
<1>2. /\ Opened \in Seq(Events) /\ Len(Opened) = 2
      /\ Opened[1] = Event("created", 0) /\ Opened[2] = Event("in_progress", 0)
  <2>1. Event("created", 0) \in Events /\ Event("in_progress", 0) \in Events
    BY EventIsOne DEF Names
  <2> QED BY <2>1, Pairs DEF Opened
<1>3. last \in Seq(Events) /\ Len(last) = 1 /\ last[1] = Event("completed", Items)
  <2>1. Event("completed", Items) \in Events
    BY EventIsOne, BaseIs DEF Names
  <2> QED BY <2>1, Singles
<1> HIDE DEF last
<1>4. /\ front \in Seq(Events) /\ Len(front) = 2 + 3 * Base
      /\ \A i \in 1 .. 2 : front[i] = Opened[i]
      /\ \A i \in 1 .. 3 * Base : front[2 + i] = Message[i]
  <2>1. Opened \in Seq(Events) /\ Message \in Seq(Events)
    BY <1>2, MessageShape
  <2>2. /\ front \in Seq(Events) /\ Len(front) = Len(Opened) + Len(Message)
        /\ \A i \in 1 .. Len(Opened) : front[i] = Opened[i]
        /\ \A i \in 1 .. Len(Message) : front[Len(Opened) + i] = Message[i]
    BY <2>1, Joined
  <2>3. Len(Opened) = 2 /\ Len(Message) = 3 * Base
    BY <1>2, MessageShape
  <2> QED BY <2>2, <2>3
<1> HIDE DEF front
<1>5. /\ body \in Seq(Events) /\ Len(body) = 3 * Items + 2
      /\ \A i \in 1 .. 2 + 3 * Base : body[i] = front[i]
      /\ \A i \in 1 .. 3 * calls : body[2 + 3 * Base + i] = FunctionCalls[i]
  <2>1. /\ body \in Seq(Events) /\ Len(body) = 2 + 3 * Base + 3 * calls
        /\ \A i \in 1 .. 2 + 3 * Base : body[i] = front[i]
        /\ \A i \in 1 .. 3 * calls : body[2 + 3 * Base + i] = FunctionCalls[i]
    <3>1. 2 + 3 * Base \in Nat /\ 3 * calls \in Nat
      BY BaseIs
    <3>2. FunctionCalls \in Seq(Events) /\ Len(FunctionCalls) = 3 * calls
      BY FunctionCallsShape
    <3> QED BY <1>4, <3>1, <3>2
  <2>2. 2 + 3 * Base + 3 * calls = 3 * Items + 2
    BY BaseIs
  <2> QED BY <2>1, <2>2
<1> HIDE DEF body
<1>6. /\ Finished \in Seq(Events) /\ Len(Finished) = 3 * Items + 3
      /\ \A i \in 1 .. 3 * Items + 2 : Finished[i] = body[i]
      /\ Finished[3 * Items + 3] = last[1]
  <2>1. /\ Finished \in Seq(Events) /\ Len(Finished) = 3 * Items + 2 + 1
        /\ \A i \in 1 .. 3 * Items + 2 : Finished[i] = body[i]
        /\ \A i \in 1 .. 1 : Finished[3 * Items + 2 + i] = last[i]
    <3>1. 3 * Items + 2 \in Nat /\ 1 \in Nat
      BY BaseIs
    <3>2. body \in Seq(Events) /\ last \in Seq(Events)
      BY <1>3, <1>5
    <3>3. /\ Finished \in Seq(Events) /\ Len(Finished) = Len(body) + Len(last)
          /\ \A i \in 1 .. Len(body) : Finished[i] = body[i]
          /\ \A i \in 1 .. Len(last) : Finished[Len(body) + i] = last[i]
      BY <1>1, <3>2, Joined
    <3>4. Len(body) = 3 * Items + 2 /\ Len(last) = 1
      BY <1>3, <1>5
    <3> QED BY <3>3, <3>4
  <2>2. 3 * Items + 2 + 1 = 3 * Items + 3 /\ 1 \in 1 .. 1
    BY BaseIs
  <2> QED BY <2>1, <2>2
<1>7. Finished[1] = Event("created", 0) /\ Finished[2] = Event("in_progress", 0)
  <2>1. /\ 1 \in 1 .. 3 * Items + 2 /\ 2 \in 1 .. 3 * Items + 2
        /\ 1 \in 1 .. 2 + 3 * Base /\ 2 \in 1 .. 2 + 3 * Base
        /\ 1 \in 1 .. 2 /\ 2 \in 1 .. 2
    BY BaseIs
  <2> QED BY <1>2, <1>4, <1>5, <1>6, <2>1
<1>8. ASSUME NEW k \in 0 .. Items - 1, k < Base
      PROVE  Shaped(Finished, 3 * k + 2, "delta", k)
  <2>1. k = 0 /\ Base = 1
    BY <1>8, BaseIs
  <2>2. \A i \in 1 .. 3 : Finished[2 + i] = Message[i]
    <3> SUFFICES ASSUME NEW i \in 1 .. 3 PROVE Finished[2 + i] = Message[i]
      OBVIOUS
    <3>1. 2 + i \in 1 .. 3 * Items + 2 /\ 2 + i \in 1 .. 2 + 3 * Base /\ i \in 1 .. 3 * Base
      BY <2>1, BaseIs
    <3> QED BY <1>4, <1>5, <1>6, <3>1
  <2>3. /\ Message[1] = Event("added", 0) /\ Message[2] = Event("delta", 0)
        /\ Message[3] = Event("done", 0)
    BY <2>1, MessageShape DEF Shaped
  <2>4. /\ Finished[2 + 1] = Message[1] /\ Finished[2 + 2] = Message[2]
        /\ Finished[2 + 3] = Message[3] /\ 3 * k + 2 = 2
    BY <2>1, <2>2
  <2> QED BY <2>1, <2>3, <2>4 DEF Shaped
<1>9. ASSUME NEW k \in 0 .. Items - 1, k >= Base
      PROVE  Shaped(Finished, 3 * k + 2, "arguments", k)
  <2> DEFINE c == k - Base
  <2>1. c \in 0 .. calls - 1 /\ Base + c = k /\ k \in Nat /\ c \in Nat
    BY <1>9, BaseIs
  <2>2. ASSUME NEW j \in 1 .. 3
        PROVE  Finished[3 * k + 2 + j] = FunctionCalls[3 * c + j]
    <3>1. /\ calls \in Nat /\ Base \in {0, 1} /\ Items = Base + calls
          /\ c \in Nat /\ c <= calls - 1 /\ k = Base + c
      BY <2>1, BaseIs
    <3> HIDE DEF c
    <3>2. /\ 3 * k + 2 + j = 2 + 3 * Base + (3 * c + j)
          /\ 3 * k + 2 + j \in 1 .. 3 * Items + 2 /\ 3 * c + j \in 1 .. 3 * calls
      BY <3>1
    <3> QED BY <1>5, <1>6, <3>2
  <2> HIDE DEF c
  <2>3. Shaped(FunctionCalls, 3 * c, "arguments", k)
    BY <2>1, FunctionCallsShape
  <2> QED BY <2>2, <2>3 DEF Shaped
<1>10. \A k \in 0 .. Items - 1 : k < Base \/ k >= Base
  BY BaseIs
<1> QED BY <1>3, <1>6, <1>7, <1>8, <1>9, <1>10, BaseIs

LEMMA EventParts ==
    ASSUME NEW name, NEW n
    PROVE  Event(name, n)[1] = response /\ Event(name, n)[2] = name /\ Event(name, n)[3] = n
BY DEF Event

\* Where item k is announced, and where it is finished.
AddedAt(k) == 3 * k + 3

DoneAt(k) == 3 * k + 5

(* Of such an answer every event is of one response, and an announcement or *)
(* a finish of an item is where its number puts it.                         *)
LEMMA FinishedPlaces ==
    ASSUME TypeOK, buffer = Opened, out = Finished
    PROVE  /\ Len(out) = 3 * Items + 3 /\ DOMAIN out = 1 .. Len(out)
           /\ out[Len(out)][3] = Items
           /\ \A i \in DOMAIN out : out[i][1] = response
           /\ Named("created") = {1} /\ Named("completed") = {Len(out)}
           /\ Named("added") = {AddedAt(k) : k \in 0 .. Items - 1}
           /\ Named("done") = {DoneAt(k) : k \in 0 .. Items - 1}
           /\ \A k \in 0 .. Items - 1 : out[AddedAt(k)][3] = k /\ out[DoneAt(k)][3] = k
<1> DEFINE N == 3 * Items + 3
<1>1. /\ Items \in Nat /\ Len(out) = N /\ DOMAIN out = 1 .. N
      /\ out[1] = Event("created", 0) /\ out[2] = Event("in_progress", 0)
      /\ out[N] = Event("completed", Items)
  BY FinishedShape
<1>2. \A k \in 0 .. Items - 1 : /\ out[AddedAt(k)] = Event("added", k)
                                /\ out[DoneAt(k)] = Event("done", k)
                                /\ out[3 * k + 4] \in {Event("delta", k), Event("arguments", k)}
  <2> SUFFICES ASSUME NEW k \in 0 .. Items - 1
               PROVE  /\ out[AddedAt(k)] = Event("added", k)
                      /\ out[DoneAt(k)] = Event("done", k)
                      /\ out[3 * k + 4] \in {Event("delta", k), Event("arguments", k)}
    OBVIOUS
  <2>1. PICK name \in {"delta", "arguments"} : Shaped(out, 3 * k + 2, name, k)
    BY FinishedShape
  <2>2. /\ 3 * k + 2 + 1 = AddedAt(k) /\ 3 * k + 2 + 2 = 3 * k + 4
        /\ 3 * k + 2 + 3 = DoneAt(k)
    BY <1>1 DEF AddedAt, DoneAt
  <2> QED BY <2>1, <2>2 DEF Shaped
<1>3. ASSUME NEW i \in DOMAIN out
      PROVE  \/ i = 1 \/ i = 2 \/ i = N
             \/ \E k \in 0 .. Items - 1 : i = AddedAt(k) \/ i = 3 * k + 4 \/ i = DoneAt(k)
  <2>1. CASE i \in 3 .. 3 * Items + 2
    <3> DEFINE k == (i - 3) \div 3
    <3>1. i - 3 \in Nat /\ i - 3 < 3 * Items /\ Items \in Nat /\ i \in Int
      BY <1>1, <2>1
    <3>2. k \in Int /\ 3 * k <= i - 3 /\ i - 3 < 3 * k + 3
      BY <3>1
    <3> HIDE DEF k
    <3>3. k \in 0 .. Items - 1 /\ (i = 3 * k + 3 \/ i = 3 * k + 4 \/ i = 3 * k + 5)
      BY <3>1, <3>2
    <3> QED BY <3>3 DEF AddedAt, DoneAt
  <2>2. i = 1 \/ i = 2 \/ i = N \/ i \in 3 .. 3 * Items + 2
    BY <1>1
  <2> QED BY <2>1, <2>2
<1>4. \A k \in 0 .. Items - 1 : /\ AddedAt(k) \in DOMAIN out /\ DoneAt(k) \in DOMAIN out
                                /\ out[3 * k + 4][2] \in {"delta", "arguments"}
                                /\ out[3 * k + 4][1] = response
  <2>1. \A k \in 0 .. Items - 1 : AddedAt(k) \in DOMAIN out /\ DoneAt(k) \in DOMAIN out
    BY <1>1 DEF AddedAt, DoneAt
  <2> QED BY <1>2, <2>1, EventParts
<1>5. /\ 1 \in DOMAIN out /\ N \in DOMAIN out
      /\ out[1][2] = "created" /\ out[2][2] = "in_progress" /\ out[N][2] = "completed"
      /\ out[1][1] = response /\ out[2][1] = response /\ out[N][1] = response
      /\ out[N][3] = Items
  BY <1>1, EventParts
<1>6. \A k \in 0 .. Items - 1 :
         /\ out[AddedAt(k)][1] = response /\ out[AddedAt(k)][2] = "added" /\ out[AddedAt(k)][3] = k
         /\ out[DoneAt(k)][1] = response /\ out[DoneAt(k)][2] = "done" /\ out[DoneAt(k)][3] = k
  BY <1>2, EventParts
<1> HIDE DEF N
<1>7. \A i \in DOMAIN out : out[i][1] = response
  BY <1>3, <1>4, <1>5, <1>6
<1>8. Named("created") = {1} /\ Named("completed") = {N}
  BY <1>3, <1>4, <1>5, <1>6 DEF Named
<1>9. Named("added") = {AddedAt(k) : k \in 0 .. Items - 1}
  BY <1>3, <1>4, <1>5, <1>6 DEF Named
<1>10. Named("done") = {DoneAt(k) : k \in 0 .. Items - 1}
  BY <1>3, <1>4, <1>5, <1>6 DEF Named
<1> QED BY <1>1, <1>5, <1>6, <1>7, <1>8, <1>9, <1>10 DEF N

(* So it is one whole response.                                             *)
LEMMA FinishedWhole ==
    ASSUME TypeOK, buffer = Opened, out = Finished
    PROVE  OneWholeResponse
<1>1. Items \in Nat /\ Last(out)[3] = Items
  BY BaseIs, FinishedPlaces DEF Last
<1>2. \A i \in DOMAIN out : out[i][1] = out[1][1]
  <2>1. 1 \in DOMAIN out
    BY <1>1, FinishedPlaces
  <2> QED BY <2>1, FinishedPlaces
<1>3. {out[i][3] : i \in Named("added")} = 0 .. Items - 1
  BY FinishedPlaces
<1>4. {out[i][3] : i \in Named("done")} = 0 .. Items - 1
  BY FinishedPlaces
<1>5. \A i, j \in Named("added") : i < j => out[i][3] < out[j][3]
  <2> SUFFICES ASSUME NEW k \in 0 .. Items - 1, NEW l \in 0 .. Items - 1,
                      AddedAt(k) < AddedAt(l)
               PROVE  out[AddedAt(k)][3] < out[AddedAt(l)][3]
    BY FinishedPlaces
  <2>1. k < l
    BY <1>1 DEF AddedAt
  <2> QED BY <2>1, FinishedPlaces
<1>6. \A i, j \in Named("done") : i < j => out[i][3] < out[j][3]
  <2> SUFFICES ASSUME NEW k \in 0 .. Items - 1, NEW l \in 0 .. Items - 1,
                      DoneAt(k) < DoneAt(l)
               PROVE  out[DoneAt(k)][3] < out[DoneAt(l)][3]
    BY FinishedPlaces
  <2>1. k < l
    BY <1>1 DEF DoneAt
  <2> QED BY <2>1, FinishedPlaces
<1>7. \A i \in Named("added"), j \in Named("done") : i < j <=> out[i][3] <= out[j][3]
  <2> SUFFICES ASSUME NEW k \in 0 .. Items - 1, NEW l \in 0 .. Items - 1
               PROVE  AddedAt(k) < DoneAt(l) <=> out[AddedAt(k)][3] <= out[DoneAt(l)][3]
    BY FinishedPlaces
  <2>1. AddedAt(k) < DoneAt(l) <=> k <= l
    BY <1>1 DEF AddedAt, DoneAt
  <2> QED BY <2>1, FinishedPlaces
<1> QED BY <1>1, <1>2, <1>3, <1>4, <1>5, <1>6, <1>7, FinishedPlaces DEF OneWholeResponse

LEMMA SameAnswer ==
    ASSUME UNCHANGED <<response, buffer, text, calls>>
    PROVE  Finished' = Finished /\ Opened' = Opened
BY DEF Finished, Opened, Message, FunctionCalls, Call, Base, Event

(* Between the attempts, and after a failure, nothing is asked of a buffer. *)
LEMMA NothingAsked ==
    ASSUME phase' \notin {"connecting", "receiving"}, answer' # "ok"
    PROVE  Enveloped'
BY DEF Enveloped

LEMMA StartEnvelopes ==
    ASSUME IInv, phase # "answered", NEW e, NEW n, NEW timeout, StartTry(e, n, timeout)
    PROVE  Enveloped'
<1>1. answer' # "ok" /\ surface' = surface
  BY DEF IInv, TypeOK, StartTry
<1>2. ASSUME surface # "json"
      PROVE  buffer' = Opened'
  <2>1. NewBuffer
    BY <1>2 DEF StartTry
  <2> QED BY <2>1 DEF NewBuffer, Opening, Opened, Event
<1> QED BY <1>1, <1>2 DEF Enveloped

LEMMA FailOverEnvelopes ==
    ASSUME IInv, phase # "answered", NEW e, NEW host, NEW charge, FailOver(e, host, charge)
    PROVE  Enveloped'
<1>1. phase' = "looping" /\ answer' # "ok"
  BY DEF IInv, TypeOK, FailOver
<1> QED BY <1>1, NothingAsked

LEMMA FinishEnvelopes ==
    ASSUME NEW a, a # "ok", NEW events, Finish(a, events)
    PROVE  Enveloped'
BY NothingAsked DEF Finish

LEMMA LoopEnvelopes ==
    ASSUME IInv, Loop \/ Wake
    PROVE  Enveloped'
<1>1. CASE Stop
  <2>1. phase # "answered" /\ (Cancelled \/ Unavailable)
    BY <1>1 DEF Stop
  <2> QED BY <2>1, FinishEnvelopes DEF Cancelled, Unavailable
<1>2. CASE \E e \in Endpoint : Send(e)
  <2> SUFFICES ASSUME NEW e \in Endpoint, Send(e) PROVE Enveloped'
    BY <1>2
  <2>1. phase # "answered"
    BY DEF Send, NextRound
  <2>2. \/ StartTry(e, 1, TryTimeout(e, attempts + 1))
        \/ FailOver(e, TRUE, TRUE)
        \/ Unavailable
    BY DEF Send
  <2> QED BY <2>1, <2>2, StartEnvelopes, FailOverEnvelopes, FinishEnvelopes DEF Unavailable
<1>3. CASE \E wait \in Waits \cup {0} : WaitOrGiveUp(wait)
  <2> SUFFICES ASSUME NEW wait \in Waits \cup {0}, WaitOrGiveUp(wait) PROVE Enveloped'
    BY <1>3
  <2>1. Unavailable \/ (phase' = "pausing" /\ answer' = answer /\ phase = "looping")
    BY DEF WaitOrGiveUp, NextRound, request
  <2>2. CASE Unavailable
    BY <2>2, FinishEnvelopes DEF Unavailable
  <2>3. CASE phase' = "pausing" /\ answer' = answer /\ phase = "looping"
    BY <2>3, NothingAsked DEF IInv, TypeOK
  <2> QED BY <2>1, <2>2, <2>3
<1>4. CASE Wake
  <2>1. CASE Cancelled
    BY <2>1, FinishEnvelopes DEF Cancelled
  <2>2. CASE phase = "pausing" /\ phase' = "looping" /\ answer' = answer
    BY <2>2, NothingAsked DEF IInv, TypeOK
  <2> QED BY <1>4, <2>1, <2>2 DEF Wake, request
<1> QED BY <1>1, <1>2, <1>3, <1>4 DEF Loop

LEMMA ProxyFailsEnvelopes ==
    ASSUME IInv, Enveloped, ProxyFails
    PROVE  Enveloped'
<1>1. phase = "connecting" /\ phase # "answered"
  BY DEF ProxyFails
<1>2. CASE FailOver(ep, FALSE, surface = "ws") \/ FailOver(ep, TRUE, TRUE)
  BY <1>1, <1>2, FailOverEnvelopes
<1>3. CASE surface = "json" /\ surface' = surface
  BY <1>3 DEF Enveloped
<1>4. CASE StartTry(ep, try + 1, TryTimeout(ep, attempts))
  BY <1>1, <1>4, StartEnvelopes
<1> QED BY <1>2, <1>3, <1>4 DEF ProxyFails

LEMMA AttemptEnvelopes ==
    ASSUME IInv, Enveloped,
           ConnectFails \/ LeftWhileConnecting \/ Refuses \/ BodyFails \/ Unusable
    PROVE  Enveloped'
<1>1. phase # "answered"
  BY DEF ConnectFails, LeftWhileConnecting, Refuses, BodyFails, Unusable
<1>2. \/ \E host, charge \in BOOLEAN : FailOver(ep, host, charge)
      \/ Finish("disconnected", Error)
  BY DEF ConnectFails, LeftWhileConnecting, Refuses, BodyFails, Unusable
<1> QED BY <1>1, <1>2, FailOverEnvelopes, FinishEnvelopes

(* A step that neither begins nor ends an attempt.                          *)
LEMMA UnderWayEnvelopes ==
    ASSUME IInv, Enveloped,
           HeadersArrive \/ \E hasText, hasCall \in BOOLEAN : Delta(hasText, hasCall)
    PROVE  Enveloped'
<1>1. /\ phase \in {"connecting", "receiving"} /\ answer' = answer
      /\ UNCHANGED <<surface, response, buffer>>
  BY DEF HeadersArrive, Delta, walk, request, output
<1>2. answer' # "ok"
  BY <1>1 DEF IInv, TypeOK
<1>3. Opened' = Opened
  BY <1>1 DEF Opened, Event
<1> QED BY <1>1, <1>2, <1>3 DEF Enveloped

LEMMA SucceedEnvelopes ==
    ASSUME IInv, Enveloped, Succeed
    PROVE  Enveloped'
<1>1. /\ phase = "receiving" /\ phase' = "answered" /\ out' = Replayed
      /\ UNCHANGED <<surface, response, buffer, text, calls>>
  BY DEF Succeed, Finish
<1>2. surface # "json" => buffer = Opened /\ out' = Finished
  BY <1>1 DEF Enveloped, Replayed
<1> QED BY <1>1, <1>2, SameAnswer DEF Enveloped

LEMMA IdleEnvelopes ==
    ASSUME Enveloped, ClientLeaves \/ Tick \/ UNCHANGED vars
    PROVE  Enveloped'
<1>1. UNCHANGED <<surface, phase, answer, output>>
  BY DEF ClientLeaves, Tick, vars, walk, request
<1>2. UNCHANGED <<response, buffer, text, calls, out>>
  BY <1>1 DEF output
<1> QED BY <1>1, <1>2, SameAnswer DEF Enveloped

LEMMA InitEnvelopes == Init => Enveloped
BY DEF Init, Enveloped

LEMMA NextEnvelopes == IInv /\ Enveloped /\ [Next]_vars => Enveloped'
<1> SUFFICES ASSUME IInv, Enveloped, [Next]_vars PROVE Enveloped'
  OBVIOUS
<1>1. CASE Loop \/ Wake
  BY <1>1, LoopEnvelopes
<1>2. CASE TimerFires \/ ProxyFails \/ ConnectFails \/ LeftWhileConnecting \/ Refuses
           \/ BodyFails \/ Unusable
  BY <1>2, ProxyFailsEnvelopes, AttemptEnvelopes DEF TimerFires
<1>3. CASE HeadersArrive \/ \E hasText, hasCall \in BOOLEAN : Delta(hasText, hasCall)
  BY <1>3, UnderWayEnvelopes
<1>4. CASE Succeed
  BY <1>4, SucceedEnvelopes
<1>5. CASE ClientLeaves \/ Tick \/ Answered \/ UNCHANGED vars
  BY <1>5, IdleEnvelopes DEF Answered
<1> QED BY <1>1, <1>2, <1>3, <1>4, <1>5 DEF Next

(* However many attempts and proxies it took, and however many calls the    *)
(* answer has, a client whose request succeeded was sent one response from  *)
(* its creation to its completion, its items in order and each finished     *)
(* before the next one is announced.                                        *)
THEOREM ResponseIsWhole == Spec => []OneWholeResponse
<1>1. IInv /\ Enveloped => OneWholeResponse
  <2> SUFFICES ASSUME IInv, Enveloped, surface # "json", answer = "ok"
               PROVE  OneWholeResponse
    BY DEF OneWholeResponse
  <2>1. TypeOK /\ buffer = Opened /\ out = Finished
    BY DEF IInv, Enveloped
  <2> QED BY <2>1, FinishedWhole
<1> QED BY <1>1, InitEnvelopes, NextEnvelopes, IInvHolds, PTL DEF Spec

----------------------------------------------------------------------------
(* The walk of every Responses surface is the walk of FallbackWalk. *)

LEMMA AbstractInit == Init => Fallback!Init
BY DEF Init, Fallback!Init, Serving, Verdict

\* Who is being served, as long as nothing is answered.
LEMMA ServingIs ==
    ASSUME TypeOK
    PROVE  /\ phase # "answered" => Verdict = "open" /\ answer = "none"
           /\ phase \in {"connecting", "receiving"} => Serving = ep /\ Serving # None
           /\ phase \in {"looping", "pausing"} => Serving = None
BY ResponsesAssumption DEF TypeOK, Serving, Verdict

\* Every end but a success ends the walk without an endpoint.
LEMMA FinishGivesUp ==
    ASSUME TypeOK, phase # "answered", NEW a, a \notin {"none", "ok"},
           NEW events, Finish(a, events), UNCHANGED attempts \/ NextRound
    PROVE  Fallback!Next
<1>1. Verdict = "open" /\ Verdict' = "failed" /\ Serving' = None
  BY DEF Finish, Verdict, Serving
<1>2. Fallback!Round \/ UNCHANGED attempts
  BY DEF Fallback!Round, NextRound
<1>3. UNCHANGED <<tried, charged>>
  BY DEF Finish
<1>4. Fallback!GiveUp
  BY <1>1, <1>2, <1>3 DEF Fallback!GiveUp
<1> QED BY <1>4 DEF Fallback!Next

\* What failing over leaves of the endpoint.
LEMMA FailOverRetires ==
    ASSUME TypeOK, phase # "answered", NEW e \in Endpoint,
           NEW host \in BOOLEAN, NEW charge \in BOOLEAN, FailOver(e, host, charge)
    PROVE  /\ Serving' = None /\ UNCHANGED Verdict
           /\ charge => Fallback!Fail(e)
           /\ ~host /\ ~charge => tried' = tried \cup {e} /\ UNCHANGED charged
<1>1. Verdict = "open" /\ answer = "none" /\ phase' = "looping" /\ UNCHANGED answer
  BY ServingIs DEF FailOver
<1>2. Serving' = None /\ UNCHANGED Verdict
  BY <1>1 DEF Serving, Verdict
<1>3. ASSUME charge PROVE Fallback!Fail(e)
  <2>1. charged' = [charged EXCEPT ![e] = @ + 1]
    BY <1>3 DEF FailOver
  <2>2. \E others \in {{}, Fallback!Siblings(e)} : tried' = tried \cup {e} \cup others
    BY DEF FailOver, SameHost, Fallback!Siblings
  <2> QED BY <1>1, <1>2, <2>1, <2>2 DEF Fallback!Fail
<1>4. ASSUME ~host, ~charge PROVE tried' = tried \cup {e} /\ UNCHANGED charged
  BY <1>4 DEF FailOver
<1> QED BY <1>2, <1>3, <1>4

\* During an attempt whoever is charged has failed, and who is not was passed over.
LEMMA FailOverFails ==
    ASSUME TypeOK, phase \in {"connecting", "receiving"}, UNCHANGED attempts,
           NEW host \in BOOLEAN, NEW charge \in BOOLEAN, host => charge,
           FailOver(ep, host, charge)
    PROVE  Fallback!Next
<1>1. Serving = ep /\ Serving # None /\ Verdict = "open" /\ ep \in Endpoint
  BY ServingIs DEF TypeOK
<1>2. CASE charge
  BY <1>1, <1>2, FailOverRetires DEF Fallback!FailAsked, Fallback!Next
<1>3. CASE ~charge
  <2>1. Serving' = None /\ UNCHANGED Verdict /\ tried' = tried \cup {ep} /\ UNCHANGED charged
    BY <1>1, <1>3, FailOverRetires
  <2>2. Fallback!PassOver
    BY <1>1, <2>1 DEF Fallback!PassOver
  <2> QED BY <2>2 DEF Fallback!Next
<1> QED BY <1>2, <1>3

LEMMA SendAsks ==
    ASSUME TypeOK, NEW e \in Endpoint, Send(e)
    PROVE  Fallback!Next
<1> DEFINE timeout == TryTimeout(e, attempts + 1)
<1>1. phase = "looping" /\ NextRound /\ e \notin tried
  BY DEF Send, NextRound
<1>2. Serving = None /\ Verdict = "open" /\ answer = "none"
  BY <1>1, ServingIs
<1>3. Fallback!Round
  BY <1>1 DEF Fallback!Round, NextRound
<1>4. CASE timeout > 0
  <2>1. /\ phase' = "connecting" /\ ep' = e
        /\ UNCHANGED <<tried, answer, charged>>
    BY <1>4 DEF Send, StartTry
  <2>2. Serving' = e /\ UNCHANGED Verdict
    BY <1>1, <1>2, <2>1 DEF Serving, Verdict
  <2>3. Fallback!Ask(e)
    BY <1>1, <1>2, <1>3, <2>1, <2>2 DEF Fallback!Ask
  <2> QED BY <2>3 DEF Fallback!Next
<1>5. CASE ~(timeout > 0) /\ surface = "sse"
  <2>1. FailOver(e, TRUE, TRUE)
    BY <1>5 DEF Send
  <2>2. Fallback!Fail(e)
    BY <1>1, <2>1, FailOverRetires
  <2>3. Fallback!FailUnasked(e)
    BY <1>1, <1>2, <1>3, <2>2 DEF Fallback!FailUnasked
  <2> QED BY <2>3 DEF Fallback!Next
<1>6. CASE ~(timeout > 0) /\ surface # "sse"
  <2>1. Finish("unavailable", Error)
    BY <1>6 DEF Send, Unavailable
  <2> QED BY <1>1, <2>1, FinishGivesUp
<1> QED BY <1>4, <1>5, <1>6

LEMMA WaitWaits ==
    ASSUME TypeOK, NEW wait, WaitOrGiveUp(wait)
    PROVE  Fallback!Next
<1> DEFINE sleeps == CycleBackSleeps(wait, Budget - silence, Shortest)
<1>1. phase = "looping" /\ NextRound
  BY DEF WaitOrGiveUp, NextRound
<1>2. CASE sleeps = {}
  <2>1. Finish("unavailable", Error)
    BY <1>2 DEF WaitOrGiveUp, Unavailable
  <2> QED BY <1>1, <2>1, FinishGivesUp
<1>3. CASE sleeps # {}
  <2>1. phase' = "pausing" /\ UNCHANGED <<ep, tried, answer, charged>>
    BY <1>3 DEF WaitOrGiveUp, request
  <2>2. Serving = None /\ Verdict = "open" /\ answer = "none"
    BY <1>1, ServingIs
  <2>3. UNCHANGED <<Serving, Verdict>>
    BY <1>1, <2>1, <2>2 DEF Serving, Verdict
  <2>4. Fallback!Wait
    BY <1>1, <2>1, <2>2, <2>3 DEF Fallback!Wait, Fallback!Round, NextRound
  <2> QED BY <2>4 DEF Fallback!Next
<1> QED BY <1>2, <1>3

LEMMA ProxyPassesOver ==
    ASSUME TypeOK, ProxyFails
    PROVE  Fallback!Next \/ UNCHANGED Fallback!walk
<1>1. phase = "connecting" /\ UNCHANGED attempts
  BY DEF ProxyFails
<1>2. CASE FailOver(ep, FALSE, surface = "ws")
  <2>1. FailOver(ep, FALSE, TRUE) \/ FailOver(ep, FALSE, FALSE)
    BY <1>2 DEF FailOver
  <2> QED BY <1>1, <2>1, FailOverFails
<1>3. CASE FailOver(ep, TRUE, TRUE)
  BY <1>1, <1>3, FailOverFails
<1>4. CASE ~(FailOver(ep, FALSE, surface = "ws") \/ FailOver(ep, TRUE, TRUE))
  <2>1. /\ phase' = "connecting" /\ ep' = ep
        /\ UNCHANGED <<attempts, tried, answer, charged>>
    BY <1>1, <1>4 DEF ProxyFails, StartTry, request
  <2> QED BY <1>1, <2>1 DEF Fallback!walk, Serving, Verdict
<1> QED BY <1>2, <1>3, <1>4

LEMMA AttemptFails ==
    ASSUME TypeOK, \/ ConnectFails \/ LeftWhileConnecting \/ Refuses
                   \/ BodyFails \/ Unusable
    PROVE  Fallback!Next
<1>1. phase \in {"connecting", "receiving"} /\ UNCHANGED attempts
  BY DEF ConnectFails, LeftWhileConnecting, Refuses, BodyFails, Unusable
<1>2. \/ Finish("disconnected", Error)
      \/ FailOver(ep, TRUE, TRUE) \/ FailOver(ep, FALSE, TRUE)
  BY DEF ConnectFails, LeftWhileConnecting, Refuses, BodyFails, Unusable, FailOver
<1> QED BY <1>1, <1>2, FinishGivesUp, FailOverFails

LEMMA SuccessServes ==
    ASSUME TypeOK, Succeed
    PROVE  Fallback!Next
<1>1. phase = "receiving" /\ Serving = ep /\ Serving # None /\ Verdict = "open"
  BY ServingIs DEF Succeed
<1>2. /\ phase' = "answered" /\ answer' = "ok"
      /\ UNCHANGED <<attempts, ep, tried, charged>>
  BY DEF Succeed, Finish
<1>3. UNCHANGED Serving /\ Verdict' = "served"
  BY <1>1, <1>2 DEF Serving, Verdict
<1>4. Fallback!Serve
  BY <1>1, <1>2, <1>3 DEF Fallback!Serve
<1> QED BY <1>4 DEF Fallback!Next

LEMMA AbstractStep == TypeOK /\ [Next]_vars => [Fallback!Next]_(Fallback!walk)
<1> SUFFICES ASSUME TypeOK, [Next]_vars
             PROVE  Fallback!Next \/ UNCHANGED Fallback!walk
  OBVIOUS
<1>1. CASE Stop
  <2>1. /\ phase = "looping" /\ UNCHANGED attempts
        /\ \E a \in {"cancelled", "unavailable"} : \E events : Finish(a, events)
    BY <1>1 DEF Stop, Cancelled, Unavailable
  <2> QED BY <2>1, FinishGivesUp
<1>2. CASE Loop
  BY <1>1, <1>2, SendAsks, WaitWaits DEF Loop
<1>3. CASE Wake
  <2>1. phase = "pausing" /\ UNCHANGED attempts
    BY <1>3 DEF Wake
  <2>2. CASE Cancelled
    BY <2>1, <2>2, FinishGivesUp DEF Cancelled
  <2>3. CASE phase' = "looping" /\ UNCHANGED <<ep, request>>
    BY <2>1, <2>3 DEF Fallback!walk, Serving, Verdict, request
  <2> QED BY <1>3, <2>2, <2>3 DEF Wake
<1>4. CASE ProxyFails
  BY <1>4, ProxyPassesOver
<1>5. CASE ConnectFails \/ LeftWhileConnecting \/ Refuses \/ BodyFails \/ Unusable
  BY <1>5, AttemptFails
<1>6. CASE TimerFires
  BY <1>4, <1>5, <1>6 DEF TimerFires
<1>7. CASE Succeed
  BY <1>7, SuccessServes
<1>8. CASE HeadersArrive
  BY <1>8 DEF HeadersArrive, Fallback!walk, Serving, Verdict, request
<1>9. CASE \/ \E hasText, hasCall \in BOOLEAN : Delta(hasText, hasCall)
           \/ ClientLeaves \/ Tick \/ Answered \/ UNCHANGED vars
  <2>1. UNCHANGED <<phase, attempts, ep, tried, answer, charged>>
    BY <1>9 DEF Delta, ClientLeaves, Tick, Answered, vars, walk, request
  <2> QED BY <2>1 DEF Fallback!walk, Serving, Verdict
<1> QED
  BY <1>2, <1>3, <1>4, <1>5, <1>6, <1>7, <1>8, <1>9 DEF Next

(* On each surface and for any configuration: handleResponses and the       *)
(* WebSocket's loop are the walk of FallbackWalk, with nothing excused; an  *)
(* endpoint a stream had no time left to ask fails like one that was asked. *)
THEOREM FallbackImplemented == Spec => ImplementsFallback
BY AbstractInit, AbstractStep, TypeCorrect, PTL DEF Spec, ImplementsFallback, Fallback!Spec

=============================================================================
