---------------------------- MODULE FallbackWalk ----------------------------
(***************************************************************************)
(* What a walk through the fallback chain promises, whatever the surface   *)
(* of the request and however it keeps time.  One endpoint at a time is    *)
(* asked, and never one that was retired.  Whoever fails is retired, with  *)
(* its host perhaps, and charged in the same step; what a proxy did retires*)
(* the endpoint alone and charges nobody; a refused protocol does neither, *)
(* once for an endpoint.  Asking and waiting both use up a round.  The walk*)
(* ends once, with the answer of the endpoint being asked or with none, and*)
(* then changes nothing more.                                              *)
(*                                                                         *)
(* CompletionWalk, StreamWalk and ResponsesWalk implement this.            *)
(***************************************************************************)
EXTENDS Naturals

CONSTANTS Endpoint, HostOf, Limit, None

VARIABLES
    serving,    \* the endpoint being asked, or whose answer was given
    retired,    \* the endpoints this request asks no more
    excused,    \* those that were let off a failure
    charged,    \* the failures each was charged with
    rounds,     \* selections so far
    verdict     \* "open", "served" or "failed"

walk == <<serving, retired, excused, charged, rounds, verdict>>

Init ==
    /\ serving = None /\ retired = {} /\ excused = {}
    /\ charged = [e \in Endpoint |-> 0]
    /\ rounds = 0 /\ verdict = "open"

Siblings(e) == {x \in Endpoint : HostOf[x] = HostOf[e]}

Round == rounds < Limit /\ rounds' = rounds + 1

Ask(e) ==
    /\ verdict = "open" /\ serving = None /\ Round
    /\ e \notin retired
    /\ serving' = e
    /\ UNCHANGED <<retired, excused, charged, verdict>>

Wait ==
    /\ verdict = "open" /\ serving = None /\ Round
    /\ UNCHANGED <<serving, retired, excused, charged, verdict>>

Fail(e) ==
    /\ verdict = "open"
    /\ \E others \in {{}, Siblings(e)} : retired' = retired \cup {e} \cup others
    /\ charged' = [charged EXCEPT ![e] = @ + 1]
    /\ serving' = None /\ verdict' \in {"open", "failed"}
    /\ UNCHANGED excused

\* The endpoint that was asked, or one there was no time left to ask.
FailAsked == serving # None /\ Fail(serving) /\ UNCHANGED rounds

FailUnasked(e) == serving = None /\ e \notin retired /\ Round /\ Fail(e)

\* None of its proxies delivers.
PassOver ==
    /\ verdict = "open" /\ serving # None
    /\ retired' = retired \cup {serving} /\ serving' = None
    /\ UNCHANGED <<excused, charged, rounds, verdict>>

Excuse ==
    /\ verdict = "open" /\ serving # None
    /\ serving \notin excused
    /\ excused' = excused \cup {serving} /\ serving' = None
    /\ UNCHANGED <<retired, charged, rounds, verdict>>

Serve ==
    /\ verdict = "open" /\ serving # None
    /\ verdict' = "served"
    /\ UNCHANGED <<serving, retired, excused, charged, rounds>>

\* Whoever is being asked is let go, and pays nothing.
GiveUp ==
    /\ verdict = "open"
    /\ verdict' = "failed" /\ serving' = None
    /\ Round \/ UNCHANGED rounds
    /\ UNCHANGED <<retired, excused, charged>>

Next ==
    \/ \E e \in Endpoint : Ask(e) \/ FailUnasked(e)
    \/ Wait \/ FailAsked \/ PassOver \/ Excuse \/ Serve \/ GiveUp

Spec == Init /\ [][Next]_walk

=============================================================================
