------------------------ MODULE CompletionWalkProofs ------------------------
(***************************************************************************)
(* Invariance proofs about CompletionWalk, for prompts of any size, any    *)
(* endpoints, hosts, providers' ceilings, proxies, cooldowns, pauses and   *)
(* lateness of the timers.                                                 *)
(***************************************************************************)
EXTENDS CompletionWalk, WalkBudgetProofs, FiniteSetTheorems

----------------------------------------------------------------------------
(* The inductive invariant. *)

\* Whatever the handler waits for ends within the budget.
Timed ==
    /\ silence <= Budget + Slack
    /\ phase \in {"attempt", "reading", "pausing"} => limit <= Budget

\* An endpoint that may still be selected: not retired, not being asked.
Selectable(e) == e \notin tried /\ (phase \in {"looping", "pausing"} \/ ep # e)

Flips(e) == IF e \in flipped THEN 1 ELSE 0

\* What was asked and charged so far.
Accounts ==
    \A e \in Endpoint :
        /\ sent[e] <= 1 + Flips(e)
        /\ Selectable(e) => sent[e] <= Flips(e)
        /\ charged[e] <= 1
        /\ e \notin tried => charged[e] = 0

\* An endpoint being asked, or whose answer was served, is not retired.
Unretired == phase \in {"attempt", "reading"} \/ answer = "ok" => ep \notin tried

\* advanced remembers the first refusal that blames the request.
Refusals ==
    /\ fatal <= 2
    /\ ~advanced => fatal = 0
    /\ fatal >= 2 => answer = "upstream_error"

IInv == TypeOK /\ Timed /\ Accounts /\ Unretired /\ Refusals

----------------------------------------------------------------------------
(* The constants. *)

LEMMA BudgetNat == Timeout \in Nat /\ Budget \in Nat
<1>1. Timeout \in Nat
  BY WalkAssumption, AttemptTimeoutRange DEF Timeout, MaxLargeContextAttemptTimeout
<1>2. Budget \in 12 .. 480
  BY <1>1, BudgetRange DEF Budget, MaxLargeContextSessionBudget
<1> QED BY <1>1, <1>2

LEMMA ShortestNat == Shortest \in Nat
<1> DEFINE S == {Patience[e] : e \in Endpoint} \cup {MaxSessionInterruption}
<1>1. S \subseteq Nat /\ S # {}
  BY WalkAssumption DEF MaxSessionInterruption
<1> HIDE DEF S
<1>2. LeastOf(S) \in Nat
  BY <1>1, LeastOfIsLeast
<1> QED BY <1>2 DEF Shortest, S

LEMMA PreferredNat == \A e \in Endpoint : Preferred(e) \in Nat /\ Patience[e] \in Nat
<1>1. AttemptCeiling(Tokens) \in Nat
  BY DEF AttemptCeiling, MaxLargeContextAttemptTimeout, MaxSessionInterruption
<1>2. \A e \in Endpoint : Patience[e] \in Nat
  BY WalkAssumption DEF MaxSessionInterruption
<1> QED BY <1>1, <1>2, BudgetNat DEF Preferred, Least

LEMMA MaxAttemptsNat == MaxAttempts \in Nat
BY WalkAssumption DEF MaxAttempts

LEMMA MaxProxyTriesPositive == \A e \in Endpoint : MaxProxyTries(e) \in Nat /\ MaxProxyTries(e) >= 1
BY WalkAssumption DEF MaxProxyTries

----------------------------------------------------------------------------
(* The kinds of step. *)

\* Where a step leaves the accounts alone.
LEMMA AccountsStay ==
    ASSUME IInv, TypeOK',
           UNCHANGED <<sent, charged, tried, fatal, advanced, flipped>>,
           UNCHANGED ep \/ phase \in {"looping", "pausing"},
           phase' \in {"looping", "pausing"} => phase \in {"looping", "pausing"},
           answer' = "ok" => phase \in {"attempt", "reading"} /\ UNCHANGED ep,
           phase' \in {"attempt", "reading"} => phase \in {"attempt", "reading"} /\ UNCHANGED ep,
           answer = "upstream_error" => UNCHANGED answer
    PROVE  Accounts' /\ Unretired' /\ Refusals'
<1>1. Accounts'
  BY DEF IInv, Accounts, Selectable, Flips
<1>2. Unretired'
  BY DEF IInv, Unretired
<1>3. Refusals'
  BY DEF IInv, Refusals
<1> QED BY <1>1, <1>2, <1>3

(* The endpoint being asked is charged once, and then it is retired.        *)
LEMMA ChargedAndRetired ==
    ASSUME IInv, phase \in {"attempt", "reading"}, NEW host \in BOOLEAN,
           tried' = Retire(ep, host), charged' = ChargeEndpoint(ep),
           UNCHANGED <<sent, flipped, ep>>
    PROVE  /\ Accounts' /\ ep' \in tried'
           /\ tried' \subseteq Endpoint /\ charged' \in [Endpoint -> Nat]
<1>1. ep \in Endpoint /\ ep \notin tried /\ charged[ep] = 0
  BY DEF IInv, TypeOK, Unretired, Accounts
<1>2. ep' \in tried' /\ tried \subseteq tried' /\ tried' \subseteq Endpoint
  BY <1>1 DEF Retire, SameHost, IInv, TypeOK
<1>3. charged \in [Endpoint -> Nat]
  BY DEF IInv, TypeOK
<1>4. /\ charged'[ep] = 1
      /\ \A e \in Endpoint : e # ep => charged'[e] = charged[e]
      /\ charged' \in [Endpoint -> Nat]
  BY <1>1, <1>3 DEF ChargeEndpoint
<1>5. ASSUME NEW e \in Endpoint
      PROVE  /\ sent'[e] <= 1 + Flips(e)' /\ (Selectable(e)' => sent'[e] <= Flips(e)')
             /\ charged'[e] <= 1 /\ (e \notin tried' => charged'[e] = 0)
  <2>1. CASE e = ep
    <3>1. sent[e] <= 1 + Flips(e)
      BY DEF IInv, Accounts
    <3> QED BY <1>2, <1>4, <2>1, <3>1 DEF Selectable, Flips
  <2>2. CASE e # ep
    <3>1. Selectable(e)' => Selectable(e)
      BY <1>2, <2>2 DEF Selectable
    <3>2. Flips(e)' = Flips(e) /\ sent'[e] = sent[e] /\ charged'[e] = charged[e]
      BY <1>4, <2>2 DEF Flips
    <3> QED BY <1>2, <3>1, <3>2 DEF IInv, Accounts
  <2> QED BY <2>1, <2>2
<1> QED BY <1>2, <1>4, <1>5 DEF Accounts

(* Answering ends the request wherever it is.                               *)
LEMMA AnswerKeeps ==
    ASSUME IInv, NEW a \in Answers \ {"none"}, Answer(a), phase # "answered",
           a = "ok" => phase = "reading", attempts' \in 0 .. MaxAttempts
    PROVE  IInv'
<1>1. TypeOK'
  BY DEF IInv, TypeOK, Answer, MaxAttempts, MaxProxyTries
<1>2. Timed'
  BY DEF IInv, Timed, Answer
<1>3. Accounts' /\ Unretired' /\ Refusals'
  BY <1>1, AccountsStay DEF Answer, IInv, TypeOK
<1> QED BY <1>1, <1>2, <1>3 DEF IInv

(* A failed attempt is followed by the next round or by a pause.            *)
LEMMA RetiringKeeps ==
    ASSUME IInv, phase \in {"attempt", "reading"}, NEW host \in BOOLEAN,
           tried' = Retire(ep, host), charged' = ChargeEndpoint(ep),
           phase' \in {"looping", "pausing"}, limit' \in Nat,
           phase' = "pausing" => limit' <= Budget,
           UNCHANGED <<attempts, silence, ep, try, flipped, gone, answer, sent>>,
           \/ UNCHANGED <<advanced, fatal>>
           \/ ~advanced /\ advanced' = TRUE /\ fatal' = fatal + 1
    PROVE  IInv'
<1>1. Accounts' /\ tried' \subseteq Endpoint /\ charged' \in [Endpoint -> Nat]
  BY ChargedAndRetired
<1>2. TypeOK'
  <2>1. advanced' \in BOOLEAN /\ fatal' \in Nat
    <3>1. advanced' \in BOOLEAN
      BY ZenonT(20) DEF IInv, TypeOK
    <3>2. fatal \in Nat
      BY DEF IInv, TypeOK
    <3>3. fatal' \in Nat
      BY <3>2
    <3> QED BY <3>1, <3>3
  <2>2. attempts' \in 0 .. MaxAttempts'
    BY DEF IInv, TypeOK, MaxAttempts
  <2> QED BY <1>1, <2>1, <2>2 DEF IInv, TypeOK
<1>3. Timed'
  BY DEF IInv, Timed
<1>4. Unretired'
  BY DEF IInv, TypeOK, Unretired
<1>5. Refusals'
  BY DEF IInv, TypeOK, Refusals
<1> QED BY <1>1, <1>2, <1>3, <1>4, <1>5 DEF IInv

(* A wait that was worth it ends before the budget does.                    *)
LEMMA SleepsEndInBudget ==
    ASSUME IInv, NEW wait \in Nat, NEW ceiling \in Nat,
           NEW s \in CycleBackSleeps(wait, Budget - silence, ceiling)
    PROVE  silence + s \in Nat /\ silence + s <= Budget
<1>1. silence \in Nat /\ Budget \in Nat
  BY BudgetNat DEF IInv, TypeOK
<1>2. Budget - silence \in Int
  BY <1>1
<1>3. s \in Nat /\ s < Budget - silence
  BY <1>2, SleepFits
<1> QED BY <1>1, <1>3

LEMMA PauseKeeps ==
    ASSUME IInv, phase = "attempt", PauseAndFailOver
    PROVE  IInv'
<1>1. ep \in Endpoint /\ Patience[ep] \in Nat
  BY PreferredNat DEF IInv, TypeOK
<1>2. PICK pause \in Pauses :
        LET sleeps == CycleBackSleeps(pause, Budget - silence, Patience[ep])
        IN IF sleeps = {} THEN phase' = "looping" /\ UNCHANGED limit
           ELSE phase' = "pausing" /\ \E s \in sleeps : limit' = silence + s
  BY DEF PauseAndFailOver
<1>3. pause \in Nat
  BY WalkAssumption
<1>4. /\ phase' \in {"looping", "pausing"} /\ limit' \in Nat
      /\ phase' = "pausing" => limit' <= Budget
  BY <1>1, <1>2, <1>3, SleepsEndInBudget DEF IInv, TypeOK
<1> QED BY <1>4, RetiringKeeps DEF PauseAndFailOver

(* failed transports, bodies that end early, and unusable ones.             *)
LEMMA FailOverKeeps ==
    ASSUME IInv, phase \in {"attempt", "reading"}, NEW host \in BOOLEAN, FailOver(host),
           \/ UNCHANGED <<advanced, fatal>>
           \/ ~advanced /\ advanced' = TRUE /\ fatal' = fatal + 1
    PROVE  IInv'
<1>1. limit \in Nat
  BY DEF IInv, TypeOK
<1> QED BY <1>1, RetiringKeeps DEF FailOver

----------------------------------------------------------------------------
(* Every step preserves the invariant. *)

LEMMA InitHolds == Init => IInv
<1> SUFFICES ASSUME Init PROVE IInv
  OBVIOUS
<1>1. TypeOK
  <2>1. attempts \in 0 .. MaxAttempts /\ silence \in Nat /\ limit \in Nat /\ try \in Nat
        /\ fatal \in Nat
    BY MaxAttemptsNat DEF Init
  <2>2. sent \in [Endpoint -> Nat] /\ charged \in [Endpoint -> Nat]
    BY DEF Init
  <2>3. /\ phase \in {"looping", "attempt", "reading", "pausing", "answered"}
        /\ phase \notin {"attempt", "reading", "answered"}
        /\ answer \in Answers /\ answer = "none"
    BY DEF Init, Answers
  <2>4. tried \subseteq Endpoint /\ flipped \subseteq Endpoint /\ ep \in Endpoint \cup {None}
    BY DEF Init
  <2>5. advanced \in BOOLEAN /\ gone \in BOOLEAN
    BY DEF Init
  <2> QED BY <2>1, <2>2, <2>3, <2>4, <2>5 DEF TypeOK
<1>2. Timed
  BY BudgetNat, WalkAssumption DEF Init, Timed
<1>3. Accounts /\ Unretired /\ Refusals
  BY DEF Init, Accounts, Unretired, Refusals, Selectable, Flips
<1> QED BY <1>1, <1>2, <1>3 DEF IInv

LEMMA RoundTyped ==
    ASSUME IInv, NextRound
    PROVE  attempts' \in 0 .. MaxAttempts
BY MaxAttemptsNat DEF NextRound, IInv, TypeOK

LEMMA SendKeeps ==
    ASSUME IInv, NEW e \in Endpoint, Send(e)
    PROVE  IInv'
<1> DEFINE timeout == AttemptTimeout(Budget, silence, attempts + 1, Preferred(e))
<1>1. attempts' \in 0 .. MaxAttempts /\ phase = "looping" /\ e \notin tried
  BY RoundTyped DEF Send, NextRound
<1>2. CASE timeout <= 0
  BY <1>1, <1>2, AnswerKeeps DEF Send, Answers
<1>3. CASE ~(timeout <= 0)
  <2>1. /\ phase' = "attempt" /\ ep' = e /\ try' = 1
        /\ limit' = silence + timeout
        /\ sent' = [sent EXCEPT ![e] = @ + 1]
        /\ UNCHANGED <<silence, tried, flipped, advanced, gone, answer, charged, fatal>>
    BY <1>3 DEF Send
  <2>2. timeout \in Nat /\ silence + timeout <= Budget
    <3>1. Budget \in Nat /\ silence \in Nat /\ attempts + 1 \in Nat /\ Preferred(e) \in Nat
      BY BudgetNat, PreferredNat, MaxAttemptsNat DEF IInv, TypeOK
    <3>2. timeout \in Nat /\ (timeout > 0 => silence + timeout <= Budget)
      BY <3>1, AttemptFits
    <3> QED BY <1>3, <3>2
  <2> HIDE DEF timeout
  <2>3. sent' \in [Endpoint -> Nat]
    BY <2>1 DEF IInv, TypeOK
  <2>4. TypeOK'
    <3>1. try' \in 1 .. MaxProxyTries(e)
      BY <2>1, MaxProxyTriesPositive
    <3>2. limit' \in Nat
      BY <2>1, <2>2 DEF IInv, TypeOK
    <3>3. attempts' \in 0 .. MaxAttempts'
      BY <1>1 DEF MaxAttempts
    <3>4. try' \in 1 .. MaxProxyTries(ep)'
      BY <2>1, <3>1 DEF MaxProxyTries
    <3>5. answer' # "none" <=> phase' = "answered"
      BY <1>1, <2>1 DEF IInv, TypeOK
    <3> QED BY <2>1, <2>3, <3>2, <3>3, <3>4, <3>5 DEF IInv, TypeOK
  <2>5. Timed'
    BY <2>1, <2>2 DEF IInv, Timed
  <2>6. Accounts'
    <3>1. ASSUME NEW x \in Endpoint
          PROVE  /\ sent'[x] <= 1 + Flips(x)' /\ (Selectable(x)' => sent'[x] <= Flips(x)')
                 /\ charged'[x] <= 1 /\ (x \notin tried' => charged'[x] = 0)
      <4>1. sent[x] \in Nat /\ Flips(x)' = Flips(x) /\ Flips(x) \in Nat
        BY <2>1 DEF IInv, TypeOK, Flips
      <4>2. CASE x = e
        <5>1. sent'[x] = sent[x] + 1 /\ sent[x] <= Flips(x) /\ ~Selectable(x)'
          BY <1>1, <2>1, <4>2 DEF IInv, TypeOK, Accounts, Selectable
        <5> QED BY <2>1, <4>1, <5>1 DEF IInv, Accounts
      <4>3. CASE x # e
        <5>1. sent'[x] = sent[x]
          BY <2>1, <4>3 DEF IInv, TypeOK
        <5>2. Selectable(x)' => Selectable(x)
          BY <1>1, <2>1, <4>3 DEF Selectable
        <5> QED BY <2>1, <4>1, <5>1, <5>2 DEF IInv, Accounts
      <4> QED BY <4>2, <4>3
    <3> QED BY <3>1 DEF Accounts
  <2>7. Unretired' /\ Refusals'
    BY <1>1, <2>1 DEF IInv, Unretired, Refusals
  <2> QED BY <2>4, <2>5, <2>6, <2>7 DEF IInv
<1> QED BY <1>2, <1>3

LEMMA WaitKeeps ==
    ASSUME IInv, NEW wait \in Nat, WaitOrGiveUp(wait)
    PROVE  IInv'
<1> DEFINE sleeps == CycleBackSleeps(wait, Budget - silence, Shortest)
<1>1. attempts' \in 0 .. MaxAttempts /\ phase = "looping"
  BY RoundTyped DEF WaitOrGiveUp, NextRound
<1>2. CASE sleeps = {}
  <2>1. Answer("unavailable") \/ Answer("no_vision")
    BY <1>2 DEF WaitOrGiveUp
  <2>2. {"unavailable", "no_vision"} \subseteq Answers \ {"none"}
    BY DEF Answers
  <2> QED BY <1>1, <2>1, <2>2, AnswerKeeps
<1>3. CASE sleeps # {}
  <2>1. PICK s \in sleeps : limit' = silence + s
    BY <1>3 DEF WaitOrGiveUp
  <2>2. limit' \in Nat /\ limit' <= Budget
    BY <2>1, ShortestNat, SleepsEndInBudget
  <2> HIDE DEF sleeps
  <2>3. phase' = "pausing" /\ UNCHANGED <<silence, ep, try, tried, flipped, advanced, gone,
                                          answer, sent, charged, fatal>>
    BY <1>3 DEF WaitOrGiveUp, sleeps
  <2>4. TypeOK'
    BY <1>1, <2>2, <2>3 DEF IInv, TypeOK, MaxAttempts
  <2>5. Timed'
    BY <2>2, <2>3 DEF IInv, Timed
  <2>6. Accounts' /\ Unretired' /\ Refusals'
    BY <1>1, <2>3, <2>4, AccountsStay DEF IInv, TypeOK
  <2> QED BY <2>4, <2>5, <2>6 DEF IInv
<1> QED BY <1>2, <1>3

LEMMA ProxyFailsKeeps ==
    ASSUME IInv, ProxyFails
    PROVE  IInv'
<1>1. phase = "attempt" /\ ep \in Endpoint
  BY DEF ProxyFails, IInv, TypeOK
<1>2. CASE ProxyLeft(ep)
  <2>1. try' = try + 1 /\ try + 1 \in 1 .. MaxProxyTries(ep)
    BY <1>1, <1>2, MaxProxyTriesPositive DEF ProxyFails, ProxyLeft, IInv, TypeOK
  <2>2. TypeOK'
    <3>1. try' \in Nat /\ try' \in 1 .. MaxProxyTries(ep)'
      BY <1>1, <1>2, <2>1 DEF ProxyFails, MaxProxyTries
    <3>2. attempts' \in 0 .. MaxAttempts'
      BY <1>2 DEF ProxyFails, IInv, TypeOK, MaxAttempts
    <3> QED BY <1>1, <1>2, <3>1, <3>2 DEF ProxyFails, IInv, TypeOK
  <2>3. Timed'
    BY <1>2 DEF ProxyFails, IInv, Timed
  <2>4. Accounts' /\ Unretired' /\ Refusals'
    BY <1>1, <1>2, <2>2, AccountsStay DEF ProxyFails, IInv, TypeOK
  <2> QED BY <2>2, <2>3, <2>4 DEF IInv
<1>3. CASE ~ProxyLeft(ep)
  <2>1. /\ phase' = "looping" /\ tried' = tried \cup {ep} /\ UNCHANGED try
        /\ UNCHANGED <<attempts, silence, limit, ep, flipped, advanced, gone, answer,
                       sent, charged, fatal>>
    BY <1>3 DEF ProxyFails, Retire
  <2>2. TypeOK'
    BY <1>1, <2>1 DEF IInv, TypeOK, MaxAttempts
  <2>3. Timed'
    BY <2>1 DEF IInv, Timed
  <2>4. Accounts'
    <3>1. \A e \in Endpoint : (Selectable(e)' => Selectable(e)) /\ Flips(e)' = Flips(e)
      BY <2>1 DEF Selectable, Flips
    <3> QED BY <2>1, <3>1 DEF IInv, Accounts
  <2>5. Unretired' /\ Refusals'
    BY <1>1, <2>1 DEF IInv, TypeOK, Unretired, Refusals
  <2> QED BY <2>2, <2>3, <2>4, <2>5 DEF IInv
<1> QED BY <1>2, <1>3

LEMMA ProtocolRefusalKeeps ==
    ASSUME IInv, ProtocolRefusal
    PROVE  IInv'
<1>1. phase = "attempt" /\ ep \in Endpoint
  BY DEF ProtocolRefusal, IInv, TypeOK
<1>2. CASE ep \in flipped
  BY <1>1, <1>2, PauseKeeps DEF ProtocolRefusal
<1>3. CASE ep \notin flipped
  <2>1. /\ flipped' = flipped \cup {ep} /\ phase' = "looping"
        /\ UNCHANGED <<attempts, silence, limit, ep, try, tried, advanced,
                       gone, answer, sent, charged, fatal>>
    BY <1>3 DEF ProtocolRefusal
  <2>2. TypeOK'
    BY <1>1, <2>1 DEF IInv, TypeOK, MaxAttempts
  <2>3. Timed'
    BY <2>1 DEF IInv, Timed
  <2>4. Accounts'
    <3>1. ASSUME NEW x \in Endpoint
          PROVE  /\ sent'[x] <= 1 + Flips(x)' /\ (Selectable(x)' => sent'[x] <= Flips(x)')
                 /\ charged'[x] <= 1 /\ (x \notin tried' => charged'[x] = 0)
      <4>1. sent'[x] = sent[x] /\ sent[x] \in Nat
        BY <2>1 DEF IInv, TypeOK
      <4>2. CASE x = ep
        <5>1. Flips(x)' = 1 /\ Flips(x) = 0
          BY <1>3, <2>1, <4>2 DEF Flips
        <5> QED BY <2>1, <4>1, <5>1 DEF IInv, Accounts
      <4>3. CASE x # ep
        <5>1. Flips(x)' = Flips(x) /\ (Selectable(x)' => Selectable(x))
          BY <2>1, <4>3 DEF Flips, Selectable
        <5> QED BY <2>1, <4>1, <5>1 DEF IInv, Accounts
      <4> QED BY <4>2, <4>3
    <3> QED BY <3>1 DEF Accounts
  <2>5. Unretired' /\ Refusals'
    BY <1>1, <2>1 DEF IInv, TypeOK, Unretired, Refusals
  <2> QED BY <2>2, <2>3, <2>4, <2>5 DEF IInv
<1> QED BY <1>2, <1>3

LEMMA FatalRefusalKeeps ==
    ASSUME IInv, FatalRefusal
    PROVE  IInv'
<1>1. phase = "attempt" /\ ep \in Endpoint
  BY DEF FatalRefusal, IInv, TypeOK
<1>2. CASE ~advanced
  BY <1>1, <1>2, FailOverKeeps DEF FatalRefusal
<1>3. CASE advanced
  <2>1. /\ phase' = "answered" /\ answer' = "upstream_error" /\ fatal' = fatal + 1
        /\ tried' = Retire(ep, FALSE) /\ charged' = ChargeEndpoint(ep)
        /\ UNCHANGED <<attempts, silence, limit, ep, try, flipped, advanced, gone, sent>>
    BY <1>3 DEF FatalRefusal, Answer
  <2>2. fatal <= 1
    BY <1>1 DEF IInv, TypeOK, Refusals
  <2>3. Accounts' /\ tried' \subseteq Endpoint /\ charged' \in [Endpoint -> Nat]
    BY <1>1, <2>1, ChargedAndRetired
  <2>4. TypeOK'
    <3>1. "upstream_error" \in Answers
      BY DEF Answers
    <3>2. fatal' \in Nat
      BY <2>1 DEF IInv, TypeOK
    <3>3. attempts' \in 0 .. MaxAttempts'
      BY <2>1 DEF IInv, TypeOK, MaxAttempts
    <3>4. /\ limit' \in Nat /\ silence' \in Nat /\ try' \in Nat /\ ep' \in Endpoint \cup {None}
          /\ sent' \in [Endpoint -> Nat]
      BY <2>1 DEF IInv, TypeOK
    <3>5. flipped' \subseteq Endpoint /\ advanced' \in BOOLEAN /\ gone' \in BOOLEAN
      BY <2>1, Zenon DEF IInv, TypeOK
    <3> QED BY <2>1, <2>3, <3>1, <3>2, <3>3, <3>4, <3>5 DEF TypeOK
  <2>5. Timed' /\ Unretired'
    BY <2>1 DEF IInv, Timed, Unretired
  <2>6. Refusals'
    BY <1>3, <2>1, <2>2 DEF IInv, TypeOK, Refusals
  <2> QED BY <2>3, <2>4, <2>5, <2>6 DEF IInv
<1> QED BY <1>2, <1>3

LEMMA TickKeeps ==
    ASSUME IInv, Tick
    PROVE  IInv'
<1>1. TypeOK'
  BY DEF Tick, IInv, TypeOK, MaxAttempts, MaxProxyTries
<1>2. Timed'
  BY BudgetNat, WalkAssumption DEF Tick, IInv, TypeOK, Timed
<1>3. Accounts' /\ Unretired' /\ Refusals'
  BY <1>1, AccountsStay DEF Tick, IInv, TypeOK
<1> QED BY <1>1, <1>2, <1>3 DEF IInv

LEMMA StepKeeps == IInv /\ [Next]_vars => IInv'
<1> SUFFICES ASSUME IInv, [Next]_vars PROVE IInv'
  OBVIOUS
<1>1. ASSUME UNCHANGED vars PROVE IInv'
  BY <1>1 DEF vars, IInv, TypeOK, Timed, Accounts, Selectable, Flips, Unretired, Refusals,
              MaxAttempts, MaxProxyTries
<1>2. ASSUME NEW a \in {"unavailable", "no_vision", "saturated", "cancelled", "disconnected", "ok"},
             Answer(a), UNCHANGED attempts, phase # "answered", a = "ok" => phase = "reading"
      PROVE  IInv'
  <2>1. a \in Answers \ {"none"}
    BY DEF Answers
  <2>2. attempts' \in 0 .. MaxAttempts
    BY <1>2 DEF IInv, TypeOK
  <2> QED BY <1>2, <2>1, <2>2, AnswerKeeps
<1>3. CASE Cancelled \/ Stop
  BY <1>2, <1>3 DEF Cancelled, Stop
<1>4. CASE Saturated \/ Disconnected \/ Succeed
  BY <1>2, <1>4 DEF Saturated, Disconnected, Succeed
<1>5. ASSUME NEW e \in Endpoint, Send(e) PROVE IInv'
  BY <1>5, SendKeeps
<1>6. ASSUME NEW wait \in Waits \cup {0}, WaitOrGiveUp(wait) PROVE IInv'
  <2>1. wait \in Nat
    BY WalkAssumption
  <2> QED BY <1>6, <2>1, WaitKeeps
<1>7. CASE Wake \/ HeadersArrive \/ ClientLeaves
  <2>1. TypeOK'
    BY <1>7 DEF Wake, HeadersArrive, ClientLeaves, IInv, TypeOK, MaxAttempts, MaxProxyTries
  <2>2. Timed'
    BY <1>7 DEF Wake, HeadersArrive, ClientLeaves, IInv, Timed
  <2>3. Accounts' /\ Unretired' /\ Refusals'
    BY <1>7, <2>1, AccountsStay DEF Wake, HeadersArrive, ClientLeaves, IInv, TypeOK
  <2> QED BY <2>1, <2>2, <2>3 DEF IInv
<1>8. CASE ProxyFails
  BY <1>8, ProxyFailsKeeps
<1>9. CASE TransportFails
  BY <1>9, FailOverKeeps DEF TransportFails
<1>10. CASE RetryableRefusal
  BY <1>10, PauseKeeps DEF RetryableRefusal
<1>11. CASE ProtocolRefusal
  BY <1>11, ProtocolRefusalKeeps
<1>12. CASE FatalRefusal
  BY <1>12, FatalRefusalKeeps
<1>13. CASE BodyFails \/ Unusable
  BY <1>13, FailOverKeeps DEF BodyFails, Unusable
<1>14. CASE Tick
  BY <1>14, TickKeeps
<1>15. CASE Answered
  BY <1>1, <1>15 DEF Answered
<1> QED
  BY <1>1, <1>3, <1>4, <1>5, <1>6, <1>7, <1>8, <1>9, <1>10, <1>11, <1>12, <1>13, <1>14, <1>15
     DEF Next

THEOREM Invariance == Spec => []IInv
BY InitHolds, StepKeeps, PTL DEF Spec

(* Every variable keeps its type, for any instance.                         *)
THEOREM TypeCorrect == Spec => []TypeOK
<1>1. IInv => TypeOK
  BY DEF IInv
<1> QED BY <1>1, Invariance, PTL

(* The client has an answer by the end of the budget: no number of          *)
(* attempts, proxies, pauses and cooldown waits adds up to more             *)
(* (maxSessionInterruption), for a prompt of any size.                      *)
THEOREM WalkEndsInBudget == Spec => []SilenceBounded
<1>1. IInv => SilenceBounded
  BY DEF IInv, Timed, SilenceBounded
<1> QED BY <1>1, Invariance, PTL

(* One request asks an endpoint once, and once more after its protocol was  *)
(* changed.                                                                 *)
THEOREM NoEndpointTwice == Spec => []SentOnce
<1>1. IInv => SentOnce
  <2> SUFFICES ASSUME IInv, NEW e \in Endpoint
               PROVE  sent[e] <= 1 + Cardinality({e} \cap flipped)
    BY DEF SentOnce
  <2>1. sent[e] <= 1 + Flips(e)
    BY DEF IInv, Accounts
  <2>2. Cardinality({e} \cap flipped) = Flips(e)
    <3>1. CASE e \in flipped
      <4>1. {e} \cap flipped = {e}
        BY <3>1
      <4> QED BY <3>1, <4>1, FS_Singleton DEF Flips
    <3>2. CASE e \notin flipped
      <4>1. {e} \cap flipped = {}
        BY <3>2
      <4> QED BY <3>2, <4>1, FS_EmptySet DEF Flips
    <3> QED BY <3>1, <3>2
  <2> QED BY <2>1, <2>2
<1> QED BY <1>1, Invariance, PTL

(* One request costs an endpoint at most one failure, and none if its       *)
(* answer is served, and its second refusal that blames the request is what *)
(* the client is told.                                                      *)
THEOREM OneChargePerRequest == Spec => []ChargedOnce
<1>1. IInv => ChargedOnce
  <2>1. ASSUME IInv, NEW e \in Endpoint
        PROVE  charged[e] <= 1 /\ (answer = "ok" /\ e = ep => charged[e] = 0)
    BY <2>1 DEF IInv, Accounts, Unretired
  <2>2. IInv => FatalSurfaces
    BY DEF IInv, TypeOK, Refusals, FatalSurfaces
  <2> QED BY <2>1, <2>2 DEF ChargedOnce
<1> QED BY <1>1, Invariance, PTL

----------------------------------------------------------------------------
(* The buffered walk is the walk of FallbackWalk. *)

LEMMA AbstractInit == Init => Fallback!Init
BY DEF Init, Fallback!Init, Serving, Verdict

\* Who is being asked, as long as nothing is answered.
LEMMA Asked ==
    ASSUME TypeOK
    PROVE  /\ phase \in {"attempt", "reading"} =>
                  Serving = ep /\ Serving # None /\ Verdict = "open"
           /\ phase \in {"looping", "pausing"} => Serving = None /\ Verdict = "open"
BY WalkAssumption DEF TypeOK, Serving, Verdict

\* Every answer but the one that succeeds ends the walk without an endpoint.
LEMMA AnswerGivesUp ==
    ASSUME TypeOK, phase # "answered", NEW a \in Answers \ {"none", "ok"}, Answer(a),
           UNCHANGED attempts \/ NextRound
    PROVE  Fallback!GiveUp
<1>1. Verdict = "open" /\ Verdict' = "failed" /\ Serving' = None
  BY DEF Answer, Verdict, Serving
<1>2. Fallback!Round \/ UNCHANGED attempts
  BY DEF Fallback!Round, NextRound
<1>3. UNCHANGED <<tried, flipped, charged>>
  BY DEF Answer
<1> QED BY <1>1, <1>2, <1>3 DEF Fallback!GiveUp

\* An endpoint that is charged is retired in the same step.
LEMMA ChargeFails ==
    ASSUME TypeOK, phase \in {"attempt", "reading"}, NEW host \in BOOLEAN,
           tried' = Retire(ep, host), charged' = ChargeEndpoint(ep),
           UNCHANGED <<attempts, flipped>>,
           \/ phase' \in {"looping", "pausing"} /\ answer' = "none"
           \/ phase' = "answered" /\ answer' = "upstream_error"
    PROVE  Fallback!FailAsked
<1>1. Serving = ep /\ Serving # None /\ Verdict = "open"
  BY Asked
<1>2. Serving' = None /\ Verdict' \in {"open", "failed"}
  BY DEF Serving, Verdict
<1>3. \E others \in {{}, Fallback!Siblings(Serving)} : tried' = tried \cup {Serving} \cup others
  BY <1>1 DEF Retire, SameHost, Fallback!Siblings
<1>4. charged' = [charged EXCEPT ![Serving] = @ + 1]
  BY <1>1 DEF ChargeEndpoint
<1>5. Fallback!Fail(Serving)
  BY <1>1, <1>2, <1>3, <1>4 DEF Fallback!Fail
<1> QED BY <1>1, <1>5 DEF Fallback!FailAsked

LEMMA FailOverFails ==
    ASSUME TypeOK, phase \in {"attempt", "reading"}, NEW host \in BOOLEAN, FailOver(host)
    PROVE  Fallback!FailAsked
<1>1. answer = "none"
  BY DEF TypeOK
<1> QED BY <1>1, ChargeFails DEF FailOver

LEMMA PauseFails ==
    ASSUME TypeOK, phase = "attempt", PauseAndFailOver
    PROVE  Fallback!FailAsked
<1>1. answer' = "none"
  BY DEF TypeOK, PauseAndFailOver
<1>2. phase' \in {"looping", "pausing"}
  BY DEF PauseAndFailOver
<1>3. /\ tried' = Retire(ep, FALSE) /\ charged' = ChargeEndpoint(ep)
      /\ UNCHANGED <<attempts, flipped>>
  BY DEF PauseAndFailOver
<1> QED BY <1>1, <1>2, <1>3, ChargeFails

LEMMA SendAsks ==
    ASSUME TypeOK, NEW e \in Endpoint, Send(e)
    PROVE  Fallback!Next
<1> DEFINE timeout == AttemptTimeout(Budget, silence, attempts + 1, Preferred(e))
<1>1. phase = "looping" /\ NextRound /\ e \notin tried
  BY DEF Send, NextRound
<1>2. CASE timeout <= 0
  <2>1. Answer("unavailable")
    BY <1>2 DEF Send
  <2>2. Fallback!GiveUp
    BY <1>1, <2>1, AnswerGivesUp DEF Answers
  <2> QED BY <2>2 DEF Fallback!Next
<1>3. CASE ~(timeout <= 0)
  <2>1. /\ phase' = "attempt" /\ ep' = e
        /\ UNCHANGED <<tried, flipped, answer, charged>>
    BY <1>3 DEF Send
  <2>2. Serving = None /\ Verdict = "open" /\ answer = "none"
    BY <1>1, Asked DEF TypeOK
  <2>3. Serving' = e /\ UNCHANGED Verdict
    BY <2>1, <2>2, <1>1 DEF Serving, Verdict
  <2>4. Fallback!Ask(e)
    BY <1>1, <2>1, <2>2, <2>3 DEF Fallback!Ask, Fallback!Round, NextRound
  <2> QED BY <2>4 DEF Fallback!Next
<1> QED BY <1>2, <1>3

LEMMA WaitWaits ==
    ASSUME TypeOK, NEW wait, WaitOrGiveUp(wait)
    PROVE  Fallback!Next
<1> DEFINE sleeps == CycleBackSleeps(wait, Budget - silence, Shortest)
<1>1. phase = "looping" /\ NextRound
  BY DEF WaitOrGiveUp, NextRound
<1>2. CASE sleeps = {}
  <2>1. Answer("unavailable") \/ Answer("no_vision")
    BY <1>2 DEF WaitOrGiveUp
  <2>2. Fallback!GiveUp
    BY <1>1, <2>1, AnswerGivesUp DEF Answers
  <2> QED BY <2>2 DEF Fallback!Next
<1>3. CASE sleeps # {}
  <2>1. phase' = "pausing" /\ UNCHANGED <<ep, tried, flipped, answer, charged>>
    BY <1>3 DEF WaitOrGiveUp
  <2>2. Serving = None /\ Verdict = "open" /\ answer = "none"
    BY <1>1, Asked DEF TypeOK
  <2>3. UNCHANGED <<Serving, Verdict>>
    BY <1>1, <2>1, <2>2 DEF Serving, Verdict
  <2>4. Fallback!Wait
    BY <1>1, <2>1, <2>2, <2>3 DEF Fallback!Wait, Fallback!Round, NextRound
  <2> QED BY <2>4 DEF Fallback!Next
<1> QED BY <1>2, <1>3

LEMMA ProxyPassesOver ==
    ASSUME TypeOK, ProxyFails
    PROVE  Fallback!Next \/ UNCHANGED Fallback!walk
<1>1. phase = "attempt" /\ Serving = ep /\ Serving # None /\ Verdict = "open" /\ answer = "none"
  BY Asked DEF ProxyFails, TypeOK
<1>2. UNCHANGED <<attempts, ep, flipped, answer, charged>>
  BY DEF ProxyFails
<1>3. CASE ProxyLeft(ep)
  <2>1. UNCHANGED <<phase, tried>>
    BY <1>3 DEF ProxyFails
  <2> QED BY <1>2, <2>1 DEF Fallback!walk, Serving, Verdict
<1>4. CASE ~ProxyLeft(ep)
  <2>1. phase' = "looping" /\ tried' = tried \cup {ep}
    BY <1>4 DEF ProxyFails, Retire
  <2>2. Serving' = None /\ UNCHANGED Verdict
    BY <1>1, <1>2, <2>1 DEF Serving, Verdict
  <2>3. Fallback!PassOver
    BY <1>1, <1>2, <2>1, <2>2 DEF Fallback!PassOver
  <2> QED BY <2>3 DEF Fallback!Next
<1> QED BY <1>3, <1>4

LEMMA ProtocolIsExcused ==
    ASSUME TypeOK, ProtocolRefusal
    PROVE  Fallback!Next
<1>1. phase = "attempt" /\ Serving = ep /\ Serving # None /\ Verdict = "open" /\ answer = "none"
  BY Asked DEF ProtocolRefusal, TypeOK
<1>2. CASE ep \notin flipped
  <2>1. /\ flipped' = flipped \cup {ep} /\ phase' = "looping"
        /\ UNCHANGED <<attempts, tried, answer, charged>>
    BY <1>2 DEF ProtocolRefusal
  <2>2. Serving' = None /\ UNCHANGED Verdict
    BY <1>1, <2>1 DEF Serving, Verdict
  <2>3. Fallback!Excuse
    BY <1>1, <1>2, <2>1, <2>2 DEF Fallback!Excuse
  <2> QED BY <2>3 DEF Fallback!Next
<1>3. CASE ep \in flipped
  BY <1>1, <1>3, PauseFails DEF ProtocolRefusal, Fallback!Next
<1> QED BY <1>2, <1>3

LEMMA FatalFails ==
    ASSUME TypeOK, FatalRefusal
    PROVE  Fallback!FailAsked
<1>1. phase = "attempt"
  BY DEF FatalRefusal
<1>2. CASE ~advanced
  BY <1>1, <1>2, FailOverFails DEF FatalRefusal
<1>3. CASE advanced
  <2>1. /\ phase' = "answered" /\ answer' = "upstream_error"
        /\ tried' = Retire(ep, FALSE) /\ charged' = ChargeEndpoint(ep)
        /\ UNCHANGED <<attempts, flipped>>
    BY <1>3 DEF FatalRefusal
  <2> QED BY <1>1, <2>1, ChargeFails
<1> QED BY <1>2, <1>3

LEMMA SuccessServes ==
    ASSUME TypeOK, Succeed
    PROVE  Fallback!Serve
<1>1. phase = "reading" /\ Serving = ep /\ Serving # None /\ Verdict = "open"
  BY Asked DEF Succeed
<1>2. /\ phase' = "answered" /\ answer' = "ok"
      /\ UNCHANGED <<attempts, ep, tried, flipped, charged>>
  BY DEF Succeed, Answer
<1>3. UNCHANGED Serving /\ Verdict' = "served"
  BY <1>1, <1>2 DEF Serving, Verdict
<1> QED BY <1>1, <1>2, <1>3 DEF Fallback!Serve

LEMMA AbstractStep == TypeOK /\ [Next]_vars => [Fallback!Next]_(Fallback!walk)
<1> SUFFICES ASSUME TypeOK, [Next]_vars
             PROVE  Fallback!Next \/ UNCHANGED Fallback!walk
  OBVIOUS
<1>1. CASE Cancelled \/ Stop \/ Saturated \/ Disconnected
  <2>1. /\ phase # "answered" /\ UNCHANGED attempts
        /\ \E a \in Answers \ {"none", "ok"} : Answer(a)
    BY <1>1 DEF Cancelled, Stop, Saturated, Disconnected, Answers
  <2> QED BY <2>1, AnswerGivesUp DEF Fallback!Next
<1>2. CASE \E e \in Endpoint : Send(e)
  BY <1>2, SendAsks
<1>3. CASE \E wait \in Waits \cup {0} : WaitOrGiveUp(wait)
  BY <1>3, WaitWaits
<1>4. CASE ProxyFails
  BY <1>4, ProxyPassesOver
<1>5. CASE ProtocolRefusal
  BY <1>5, ProtocolIsExcused
<1>6. CASE FatalRefusal
  BY <1>6, FatalFails DEF Fallback!Next
<1>7. CASE TransportFails \/ BodyFails \/ Unusable
  BY <1>7, FailOverFails DEF TransportFails, BodyFails, Unusable, Fallback!Next
<1>8. CASE RetryableRefusal
  BY <1>8, PauseFails DEF RetryableRefusal, Fallback!Next
<1>9. CASE Succeed
  BY <1>9, SuccessServes DEF Fallback!Next
<1>10. CASE Wake \/ HeadersArrive
  <2>1. UNCHANGED <<attempts, ep, tried, flipped, answer, charged>>
    BY <1>10 DEF Wake, HeadersArrive
  <2>2. UNCHANGED <<Serving, Verdict>>
    BY <1>10, <2>1 DEF Wake, HeadersArrive, Serving, Verdict
  <2> QED BY <2>1, <2>2 DEF Fallback!walk
<1>11. CASE ClientLeaves \/ Tick \/ Answered \/ UNCHANGED vars
  <2>1. UNCHANGED <<phase, attempts, ep, tried, flipped, answer, charged>>
    BY <1>11 DEF ClientLeaves, Tick, Answered, vars
  <2> QED BY <2>1 DEF Fallback!walk, Serving, Verdict
<1> QED
  BY <1>1, <1>2, <1>3, <1>4, <1>5, <1>6, <1>7, <1>8, <1>9, <1>10, <1>11 DEF Next

(* Whatever the endpoints, their hosts and proxies, and the upstreams'      *)
(* answers: handleCompletion is a walk of FallbackWalk, which it shares     *)
(* with the streams and the Responses surfaces.                             *)
THEOREM FallbackImplemented == Spec => ImplementsFallback
BY AbstractInit, AbstractStep, TypeCorrect, PTL DEF Spec, ImplementsFallback, Fallback!Spec

=============================================================================
