----------------------------- MODULE WalkBudget -----------------------------
(***************************************************************************)
(* The arithmetic of a request's fallback walk (api.go): how long one      *)
(* attempt may take, how long the client may be kept waiting for output,   *)
(* and whether a cooldown is worth waiting for.  Durations are whole       *)
(* seconds.                                                                *)
(***************************************************************************)
EXTENDS Integers

MaxSessionInterruption == 30

MaxRequestAttemptTimeout == MaxSessionInterruption - 5

MaxLargeContextAttemptTimeout == 300

LargeContextTokens == 50000

MaxLargeContextSessionBudget == 480

Least(a, b) == IF a < b THEN a ELSE b

LeastOf(S) == CHOOSE p \in S : \A q \in S : p <= q

\* One second for every ten thousand tokens begun.
TenThousands(n) == (n + 9999) \div 10000

RequestTimeout(tokens) ==
    IF tokens <= 1000 THEN 5
    ELSE Least(5 + TenThousands(tokens - 1000), MaxRequestAttemptTimeout)

RequestAttemptTimeout(tokens) ==
    IF tokens < LargeContextTokens THEN RequestTimeout(tokens)
    ELSE Least(MaxSessionInterruption + 2 * TenThousands(tokens - LargeContextTokens),
               MaxLargeContextAttemptTimeout)

AttemptCeiling(tokens) ==
    IF tokens >= LargeContextTokens THEN MaxLargeContextAttemptTimeout
    ELSE MaxSessionInterruption

FallbackBudget(timeout) ==
    LET flat == IF timeout <= 5 THEN 12
                ELSE IF timeout <= 8 THEN 20 ELSE MaxSessionInterruption
    IN IF timeout > MaxRequestAttemptTimeout
       THEN Least(2 * timeout + 10, MaxLargeContextSessionBudget)
       ELSE IF flat < 2 * timeout /\ 2 * timeout <= MaxSessionInterruption
       THEN 2 * timeout ELSE flat

\* What one attempt may use of a budget of which silence is spent, 0 for none;
\* the first leaves a third of it.
AttemptTimeout(budget, silence, attempts, preferred) ==
    LET left == budget - silence
        usable == IF attempts <= 1 THEN Least(left, budget - budget \div 3) ELSE left
    IN IF preferred <= 0 \/ left <= 0 THEN 0 ELSE Least(preferred, usable)

\* Mutant: the capped sleep is compared with what is left, not the cooldown.
SleepsWhatever(wait, left, ceiling) ==
    IF wait <= 0 THEN {}
    ELSE LET sleep == Least(wait, Least(ceiling, MaxSessionInterruption))
         IN (sleep - sleep \div 4) .. sleep

\* The sleeps cycleBackSleep may choose; none when waiting cannot help.
CycleBackSleeps(wait, left, ceiling) ==
    LET sleep == Least(wait, Least(ceiling, MaxSessionInterruption))
    IN IF wait <= 0 \/ wait >= left THEN {} ELSE (sleep - sleep \div 4) .. sleep

=============================================================================
