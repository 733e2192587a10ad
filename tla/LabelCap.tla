------------------------------ MODULE LabelCap ------------------------------
(***************************************************************************)
(* The bounded label maps of metrics.go.  Two kinds share one cap and one  *)
(* mutex: the attempt series, which make room for a new endpoint by        *)
(* recycling the one admitted first and rolling its counts up into a       *)
(* bucket, and the collapsing maps, which count a new label in the bucket  *)
(* once they are full.  An attempt is recorded in one critical section; a  *)
(* count in a collapsing map is a lookup, perhaps an admission, and an     *)
(* addition to the counter after the lock is gone.                         *)
(*                                                                         *)
(* The four attempt maps have one set of keys and are one map of records   *)
(* here.  Latency sums are rolled up as failures are and are left out.     *)
(***************************************************************************)
EXTENDS SequencesExt, FiniteSets, Naturals

CONSTANTS
    Label,          \* endpoints, as label values
    Bucket,         \* overflowKey
    Recorder,       \* goroutines that count
    LabelCaps,      \* values of max_label_cardinality
    MaxAttempts,    \* bounds the attempts
    MaxCounts       \* bounds the other counts

\* SetLabelCap ignores caps that would leave no room for named labels.
ASSUME CapAssumption ==
    /\ Bucket \notin Label
    /\ LabelCaps # {} /\ \A c \in LabelCaps : c \in Nat /\ c >= 3
    /\ MaxAttempts \in Nat /\ MaxCounts \in Nat

VARIABLES
    labelsCap,      \* the most series a map may have
    series,         \* the attempt maps
    order,          \* attemptLabels: who was admitted when
    store,          \* one collapsing map
    recorder,       \* where each goroutine is in a count
    seen,           \* history: attempts and failures recorded, counts added
    widest          \* history: the widest cap so far

label_vars == <<labelsCap, series, order, store, recorder, seen, widest>>

----------------------------------------------------------------------------

\* direct: the observations in the histogram, which is not rolled up.
Series == [attempts : Nat, failures : Nat, direct : Nat]

NoAttempts == [attempts |-> 0, failures |-> 0, direct |-> 0]

Idle == [phase |-> "idle"]

LabelInit ==
    /\ labelsCap \in LabelCaps
    /\ series = <<>> /\ order = <<>> /\ store = <<>>
    /\ recorder = [r \in Recorder |-> Idle]
    /\ seen = [attempts |-> 0, failures |-> 0, counts |-> 0]
    /\ widest = labelsCap

Held == DOMAIN series

----------------------------------------------------------------------------
(* The attempt series. A window is the pair of the maps and their order.    *)

Window == [series |-> series, order |-> order]

\* admitLocked: the bucket is pinned outside the order.
Admitted(w, l) ==
    IF l \in DOMAIN w.series THEN w
    ELSE [series |-> [k \in DOMAIN w.series \cup {l} |->
                          IF k = l THEN NoAttempts ELSE w.series[k]],
          order |-> IF l = Bucket THEN w.order ELSE Append(w.order, l)]

\* The labels admitted first.
First(o, n) == {o[i] : i \in 1 .. n}

\* Mutant: the victims' history goes with them.
Dropped(w, n) ==
    IF n = 0 THEN w
    ELSE LET with == Admitted(w, Bucket)
         IN [series |-> [k \in DOMAIN with.series \ First(w.order, n) |-> with.series[k]],
             order |-> SubSeq(w.order, n + 1, Len(w.order))]

Rolled(w, n, field) ==
    FoldFunctionOnSet(LAMBDA x, y : x[field] + y, 0, w.series, First(w.order, n))

\* rollUpToOverflowLocked, of n victims one after the other; the first of them
\* makes the bucket.
RolledUp(w, n) ==
    IF n = 0 THEN w
    ELSE LET with == Admitted(w, Bucket)
         IN [series |-> [k \in DOMAIN with.series \ First(w.order, n) |->
                             IF k # Bucket THEN with.series[k]
                             ELSE [with.series[k] EXCEPT
                                      !.attempts = @ + Rolled(w, n, "attempts"),
                                      !.failures = @ + Rolled(w, n, "failures")]],
             order |-> SubSeq(w.order, n + 1, Len(w.order))]

\* Mutant: the slot of the bucket is not reserved.
FullWithoutReserve(w) == Cardinality(DOMAIN w.series) >= labelsCap

\* No room for a new label and the bucket.
Full(w) == Cardinality(DOMAIN w.series) >= labelsCap - 1

\* boundedAttemptKeyLocked: the label that came first makes room.
WithRoomFor(w, l) ==
    IF l \in DOMAIN w.series THEN w
    ELSE Admitted(IF Full(w) THEN RolledUp(w, 1) ELSE w, l)

\* Attempt.
Attempt(l, ok) ==
    LET w == WithRoomFor(Window, l)
        failed == IF ok THEN 0 ELSE 1
    IN /\ seen.attempts < MaxAttempts
       /\ series' = [w.series EXCEPT ![l] = [attempts |-> @.attempts + 1,
                                             failures |-> @.failures + failed,
                                             direct |-> @.direct + 1]]
       /\ order' = w.order
       /\ seen' = [seen EXCEPT !.attempts = @ + 1, !.failures = @ + failed]
       /\ UNCHANGED <<labelsCap, store, recorder, widest>>

\* How many have to go until no more than c are left, the bucket included.
Excess(w, c) ==
    LET n == Cardinality(DOMAIN w.series)
    IN IF n <= c THEN 0 ELSE IF Bucket \in DOMAIN w.series THEN n - c ELSE n - c + 1

\* SetLabelCap prunes to the new cap at once.
Pruned(w, c) == RolledUp(w, Excess(w, c))

SetLabelCap(c) ==
    /\ c # labelsCap
    /\ labelsCap' = c
    /\ widest' = IF c > widest THEN c ELSE widest
    /\ series' = Pruned(Window, c).series
    /\ order' = Pruned(Window, c).order
    /\ UNCHANGED <<store, recorder, seen>>

----------------------------------------------------------------------------
(* A collapsing map (admitCollapsible). *)

\* The fast path, under the read lock.
Look(r, l) ==
    /\ recorder[r] = Idle
    /\ recorder' = [recorder EXCEPT ![r] =
           [phase |-> IF l \in DOMAIN store THEN "adding" ELSE "missed", key |-> l]]
    /\ UNCHANGED <<labelsCap, series, order, store, seen, widest>>

\* boundedCollapsibleKeyLocked, after the second look at the map.
KeyFor(l) ==
    IF l \in DOMAIN store \/ Cardinality(DOMAIN store) < labelsCap - 1 THEN l ELSE Bucket

MakeCounter(k) ==
    [x \in DOMAIN store \cup {k} |-> IF x \in DOMAIN store THEN store[x] ELSE 0]

Admit(r) ==
    /\ recorder[r].phase = "missed"
    /\ LET k == KeyFor(recorder[r].key)
       IN /\ store' = MakeCounter(k)
          /\ recorder' = [recorder EXCEPT ![r] = [phase |-> "adding", key |-> k]]
    /\ UNCHANGED <<labelsCap, series, order, seen, widest>>

Add(r) ==
    /\ recorder[r].phase = "adding" /\ seen.counts < MaxCounts
    /\ store' = [store EXCEPT ![recorder[r].key] = @ + 1]
    /\ recorder' = [recorder EXCEPT ![r] = Idle]
    /\ seen' = [seen EXCEPT !.counts = @ + 1]
    /\ UNCHANGED <<labelsCap, series, order, widest>>

----------------------------------------------------------------------------

LabelNext ==
    \/ \E l \in Label, ok \in BOOLEAN : Attempt(l, ok)
    \/ \E c \in LabelCaps : SetLabelCap(c)
    \/ \E r \in Recorder : (\E l \in Label : Look(r, l)) \/ Admit(r) \/ Add(r)

LabelSpec == LabelInit /\ [][LabelNext]_label_vars

----------------------------------------------------------------------------
(* Properties. *)

Sum(m, Of(_)) == FoldFunction(LAMBDA x, y : Of(x) + y, 0, m)

(* "Evicting rolls the victim's counters into __overflow__ rather than      *)
(* dropping them, so the totals stay truthful": whatever is evicted, pruned *)
(* or collapsed meanwhile, and whoever admits the same label at once, every *)
(* attempt, failure and count is in exactly one series; and what is still   *)
(* named reports the whole distribution of its attempts                     *)
(* (rollUpToOverflowLocked).                                                *)
NothingLost ==
    /\ Sum(series, LAMBDA s : s.attempts) = seen.attempts
    /\ Sum(series, LAMBDA s : s.failures) = seen.failures
    /\ Sum(store, LAMBDA n : n) = seen.counts
    /\ \A l \in Held \ {Bucket} : series[l].direct = series[l].attempts

(* The cap, the bucket included, holds whatever is admitted at once and by  *)
(* whom, and right after a smaller cap was set; and the order and the maps  *)
(* speak of the same endpoints, each once, so there is one to recycle and   *)
(* it is never the bucket (oldestAdmittedLocked).  A map that a smaller cap *)
(* left full of named labels has no slot for the bucket and may be one over,*)
(* though "that makes len(map) <= labelsCap an invariant" (metrics.go       *)
(* 609-612): nothing is pruned, and the next new label evicts one and makes *)
(* the bucket.  The collapsing maps, never pruned, keep to the widest cap.  *)
CapHeld ==
    /\ Cardinality(Held) <= labelsCap + 1
    /\ labelsCap = widest => Cardinality(Held) <= labelsCap
    /\ Cardinality(DOMAIN store) <= widest
    /\ ToSet(order) = Held \ {Bucket}
    /\ Len(order) = Cardinality(Held \ {Bucket})

=============================================================================
