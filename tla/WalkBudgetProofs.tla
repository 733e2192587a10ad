-------------------------- MODULE WalkBudgetProofs --------------------------
(***************************************************************************)
(* What the arithmetic of the fallback walk guarantees for every prompt    *)
(* and every state of the walk.                                            *)
(***************************************************************************)
EXTENDS WalkBudget, WellFoundedInduction, TLAPS

LEMMA LeastBounds ==
    ASSUME NEW a \in Int, NEW b \in Int
    PROVE  Least(a, b) \in Int /\ Least(a, b) <= a /\ Least(a, b) <= b
           /\ Least(a, b) \in {a, b}
BY DEF Least

(* The smallest of the providers' ceilings exists.                          *)
LEMMA LeastOfIsLeast ==
    ASSUME NEW S, S \subseteq Nat, S # {}
    PROVE  LeastOf(S) \in S /\ \A q \in S : LeastOf(S) <= q
<1> DEFINE below == OpToRel(<, Nat)
<1>1. PICK x \in S : \A y \in S : <<y, x>> \notin below
  <2> HIDE DEF below
  <2>1. IsWellFoundedOn(below, Nat)
    BY NatLessThanWellFounded DEF below
  <2> QED BY <2>1, WFMin
<1>2. \A y \in S : ~(y < x)
  BY <1>1 DEF OpToRel
<1>3. \A y \in S : x <= y
  BY <1>2
<1> QED BY <1>3 DEF LeastOf

LEMMA TenThousandsNat ==
    ASSUME NEW n \in Nat
    PROVE  TenThousands(n) \in Nat
BY DEF TenThousands

(* requestAttemptTimeout: five seconds at least, and never more than the    *)
(* ceiling of its size.                                                     *)
LEMMA AttemptTimeoutRange ==
    ASSUME NEW tokens \in Nat
    PROVE  /\ RequestAttemptTimeout(tokens) \in 5 .. MaxLargeContextAttemptTimeout
           /\ tokens < LargeContextTokens => RequestAttemptTimeout(tokens) <= MaxRequestAttemptTimeout
           /\ tokens >= LargeContextTokens => RequestAttemptTimeout(tokens) >= MaxSessionInterruption
<1>1. tokens > 1000 => TenThousands(tokens - 1000) \in Nat
  <2>1. tokens > 1000 => tokens - 1000 \in Nat
    OBVIOUS
  <2> QED BY <2>1, TenThousandsNat
<1>2. tokens >= LargeContextTokens => TenThousands(tokens - LargeContextTokens) \in Nat
  <2>1. tokens >= LargeContextTokens => tokens - LargeContextTokens \in Nat
    BY DEF LargeContextTokens
  <2> QED BY <2>1, TenThousandsNat
<1>3. RequestTimeout(tokens) \in 5 .. MaxRequestAttemptTimeout
  BY <1>1 DEF RequestTimeout, Least, MaxRequestAttemptTimeout, MaxSessionInterruption
<1> QED
  BY <1>2, <1>3 DEF RequestAttemptTimeout, Least, MaxRequestAttemptTimeout,
     MaxSessionInterruption, MaxLargeContextAttemptTimeout, LargeContextTokens

LEMMA BudgetRange ==
    ASSUME NEW timeout \in Nat
    PROVE  FallbackBudget(timeout) \in 12 .. MaxLargeContextSessionBudget
BY DEF FallbackBudget, Least, MaxRequestAttemptTimeout, MaxSessionInterruption,
       MaxLargeContextSessionBudget

(* "The budget always allows at least two full attempts where that fits     *)
(* inside the ceiling" (fallbackBudget): for a prompt of any size it is     *)
(* worth two of its attempts, or it is the ceiling; a first attempt with a  *)
(* large prompt is never cut short for the reserve; and whatever is below   *)
(* the large-context threshold keeps to thirty seconds.                     *)
THEOREM TwoAttemptsFit ==
    ASSUME NEW tokens \in Nat
    PROVE  LET timeout == RequestAttemptTimeout(tokens)
               budget == FallbackBudget(timeout)
           IN /\ timeout <= budget
              /\ 2 * timeout <= budget \/ budget \in {MaxSessionInterruption, MaxLargeContextSessionBudget}
              /\ tokens >= LargeContextTokens => timeout <= budget - budget \div 3
              /\ tokens < LargeContextTokens => budget <= MaxSessionInterruption
<1> DEFINE timeout == RequestAttemptTimeout(tokens)
           budget == FallbackBudget(timeout)
<1>1. /\ timeout \in 5 .. 300
      /\ tokens < LargeContextTokens => timeout <= 25
      /\ tokens >= LargeContextTokens => timeout >= 30
  BY AttemptTimeoutRange
     DEF MaxLargeContextAttemptTimeout, MaxRequestAttemptTimeout, MaxSessionInterruption
<1> HIDE DEF timeout
<1>2. /\ timeout > 25 => budget = Least(2 * timeout + 10, 480)
      /\ timeout <= 25 => /\ budget <= 30 /\ timeout <= budget
                          /\ 2 * timeout <= budget \/ budget = 30
  BY <1>1 DEF FallbackBudget, Least, MaxRequestAttemptTimeout, MaxSessionInterruption,
              MaxLargeContextSessionBudget
<1>3. timeout > 25 => /\ timeout <= budget - budget \div 3
                      /\ timeout <= budget
                      /\ 2 * timeout <= budget \/ budget = 480
  <2>1. CASE 2 * timeout + 10 < 480
    BY <1>1, <1>2, <2>1 DEF Least
  <2>2. CASE ~(2 * timeout + 10 < 480)
    <3>1. timeout > 25 => budget = 480
      BY <1>1, <1>2, <2>2 DEF Least
    <3> QED BY <1>1, <3>1
  <2> QED BY <2>1, <2>2
<1>4. LargeContextTokens \in Nat
  BY DEF LargeContextTokens
<1> HIDE DEF budget
<1>5. /\ timeout <= budget
      /\ 2 * timeout <= budget \/ budget \in {30, 480}
      /\ tokens >= LargeContextTokens => timeout <= budget - budget \div 3
      /\ tokens < LargeContextTokens => budget <= 30
  BY <1>1, <1>2, <1>3, <1>4
<1> QED
  BY <1>5 DEF timeout, budget, MaxSessionInterruption, MaxLargeContextSessionBudget

(* attemptTimeout: no attempt outlasts what is left of the budget, nor what *)
(* it was meant to take.                                                    *)
LEMMA AttemptFits ==
    ASSUME NEW budget \in Nat, NEW silence \in Nat, NEW attempts \in Nat,
           NEW preferred \in Nat
    PROVE  LET timeout == AttemptTimeout(budget, silence, attempts, preferred)
           IN /\ timeout \in Nat /\ timeout <= preferred
              /\ timeout > 0 => silence + timeout <= budget
              /\ attempts <= 1 => timeout <= budget - budget \div 3
<1> DEFINE third == budget \div 3
<1>1. third \in Nat /\ 3 * third <= budget
  OBVIOUS
<1> HIDE DEF third
<1> QED
  BY <1>1 DEF AttemptTimeout, Least, third

(* cycleBackSleep: whoever sleeps wakes inside the budget.                  *)
LEMMA SleepFits ==
    ASSUME NEW wait \in Nat, NEW left \in Int, NEW ceiling \in Nat,
           NEW sleep \in CycleBackSleeps(wait, left, ceiling)
    PROVE  sleep \in Nat /\ sleep < left
<1> DEFINE most == Least(wait, Least(ceiling, MaxSessionInterruption))
<1>1. most \in Nat /\ most <= wait
  BY DEF Least, MaxSessionInterruption
<1>2. wait > 0 /\ wait < left /\ sleep \in (most - most \div 4) .. most
  BY DEF CycleBackSleeps
<1> HIDE DEF most
<1>3. most - most \div 4 \in Nat
  BY <1>1
<1> QED BY <1>1, <1>2, <1>3

=============================================================================
