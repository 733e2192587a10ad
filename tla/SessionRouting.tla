--------------------------- MODULE SessionRouting ---------------------------
(***************************************************************************)
(* Sticky sessions and the selection of an endpoint (router.go): a session *)
(* lives on one endpoint of one chain; a request asks for an endpoint, may *)
(* fail on it, asks again with what it tried, and may move its session to  *)
(* another chain.  Requests of one session run concurrently; a selection   *)
(* is one critical section of r.mu.                                        *)
(*                                                                         *)
(* A session's id is a hash over the model it asks for (bodySessionID), so *)
(* its logical model is ModelOf[s] and sessionEntry.model never differs    *)
(* from it.  Endpoint health is what a selection can tell of the state of  *)
(* EndpointHealth, with the default budget of one half-open probe.  The    *)
(* hash that spreads new sessions is the constant operator StartAt.  The   *)
(* sessions modelled share the map with others that are not, and may be    *)
(* evicted for their sake at any time.                                     *)
(***************************************************************************)
EXTENDS SequencesExt, FiniteSets, Naturals

CONSTANTS
    Session,        \* conversations
    Request,        \* client requests that may run together
    Endpoint,       \* provider:model pairs
    Chain,          \* logical models
    ModelOf,        \* the logical model a session's requests name
    Substitutes,    \* substituteChains, in order
    Catalogue,      \* the configurations a reload may install
    Need,           \* what a request may require: images, a large window
    NeedsOf,        \* what each request requires
    Blind,          \* endpoints whose upstream refuses images
    HostOf,         \* the upstream behind an endpoint's provider
    Window,         \* initial_rotation_window
    StartAt(_, _),  \* the rotation's choice for a session among candidates
    None            \* no endpoint

\* chain: the endpoints of each chain in order, none if it is not configured.
\* can: what each endpoint is configured to be able to do.
CatalogueType ==
    [chain : [Chain -> Seq(Endpoint)], can : [Endpoint -> SUBSET Need]]

ASSUME RoutingAssumption ==
    /\ ModelOf \in [Session -> Chain]
    /\ Substitutes \in Seq(Chain)
    /\ Catalogue # {} /\ Catalogue \subseteq CatalogueType /\ None \notin Endpoint
    /\ NeedsOf \in [Request -> SUBSET Need] /\ Blind \subseteq Endpoint
    /\ Window \in Nat
    /\ \A s \in Session, es \in SUBSET Endpoint \ {{}} : StartAt(s, es) \in es

VARIABLES
    catalogue,      \* the configuration in force
    health,         \* what an availability check of each endpoint finds
    noVision,       \* endpoints learned to refuse images
    session,        \* the sessions map
    request         \* the requests being served

vars == <<catalogue, health, noVision, session, request>>

----------------------------------------------------------------------------
(* State. *)

\* probing: half-open with its probe to give; spent: half-open without.
Health == {"up", "cooling", "probing", "spent"}

\* No entry.  An entry has its own copy of what the endpoint can do.
Unknown == [known |-> FALSE]

Idle == [phase |-> "idle"]

Failed == [phase |-> "failed"]

\* A session's entry.
Entry == [known : {TRUE}, ep : Endpoint, chain : Chain, can : SUBSET Need]

\* A request that asks for an endpoint, and one that was given one.
Asking == [phase : {"selecting", "waiting"}, session : Session, needs : SUBSET Need,
           tried : SUBSET Endpoint]

Sent == [phase : {"sent"}, session : Session, needs : SUBSET Need,
         tried : SUBSET Endpoint, ep : Endpoint]

Init ==
    /\ catalogue \in Catalogue
    /\ health = [e \in Endpoint |-> "up"]
    /\ noVision = {}
    /\ session = [s \in Session |-> Unknown]
    /\ request = [r \in Request |-> Idle]

----------------------------------------------------------------------------
(* Selection.  A search carries the health as the checks leave it and the   *)
(* endpoint picked, if any: a check of a half-open endpoint spends its      *)
(* probe, whether or not the endpoint is then picked.                       *)

Available(h, e) == h[e] \in {"up", "probing"}

Checked(h, es) ==
    [e \in Endpoint |-> IF e \in es /\ h[e] = "probing" THEN "spent" ELSE h[e]]

VisionEligible(q, e, can) ==
    "vision" \in q.needs => "vision" \in can /\ e \notin noVision

\* An unknown window is no limit.
ContextFits(q, can) == q.needs \ {"vision"} \subseteq can

Eligible(q, e, can) == VisionEligible(q, e, can) /\ ContextFits(q, can)

\* One candidate: available is asked first, then the rest.
Look(q, search, e, can) ==
    [search EXCEPT
        !.health = Checked(@, {e}),
        !.pick = IF Available(search.health, e) /\ Eligible(q, e, can) /\ e \notin q.tried
                 THEN e ELSE None]

\* Candidates in order, up to the first that will do.
Walk(q, search, es) ==
    LET fits == {i \in DOMAIN es : /\ Available(search.health, es[i])
                                   /\ Eligible(q, es[i], catalogue.can[es[i]])
                                   /\ es[i] \notin q.tried}
        last == IF fits = {} THEN Len(es) ELSE Min(fits)
    IN [search EXCEPT !.health = Checked(@, {es[i] : i \in 1 .. last}),
                      !.pick = IF fits = {} THEN None ELSE es[last]]

InChain(e, c) == e \in ToSet(catalogue.chain[c])

\* Mutant: the sticky endpoint is trusted to be configured still.
StickyWithoutMembership(q, search, se) == Look(q, search, se.ep, se.can)

\* The endpoint the session lives on, if a reload did not remove it.
Sticky(q, search, se) ==
    IF InChain(se.ep, se.chain) THEN Look(q, search, se.ep, se.can) ELSE search

\* selectInitialEndpoint: a new session starts anywhere in the window.
Rotate(q, search) ==
    LET es == catalogue.chain[ModelOf[q.session]]
        n == IF Window < Len(es) THEN Window ELSE Len(es)
        window == ToSet(SubSeq(es, 1, n))
        candidates == {e \in window : /\ Available(search.health, e)
                                      /\ Eligible(q, e, catalogue.can[e])}
        looked == [search EXCEPT !.health = Checked(@, window)]
        found == IF candidates # {}
                 THEN [looked EXCEPT !.pick = StartAt(q.session, candidates)]
                 ELSE Walk([q EXCEPT !.tried = {}], looked, SubSeq(es, n + 1, Len(es)))
    IN IF found.pick \in q.tried THEN [found EXCEPT !.pick = None] ELSE found

\* Mutant: a session is tied to the chain it asks for.
OwnChainOnly(s) == <<ModelOf[s]>>

\* Where the session lives, what it asks for, the others.
Preferences(s) ==
    (IF session[s].known THEN <<session[s].chain>> ELSE <<>>)
        \o <<ModelOf[s]>> \o Substitutes

\* chainOrderLocked: the preferences that are configured, each the first time.
ChainOrder(s) ==
    {i \in DOMAIN Preferences(s) :
        /\ catalogue.chain[Preferences(s)[i]] # <<>>
        /\ \A j \in 1 .. i - 1 : Preferences(s)[j] # Preferences(s)[i]}

\* Where the session lives, or a start for a new one, comes before the walk.
SearchChain(q, search, c) ==
    LET se == session[q.session]
        first == IF se.known /\ c = se.chain THEN Sticky(q, search, se)
                 ELSE IF ~se.known /\ c = ModelOf[q.session] THEN Rotate(q, search)
                 ELSE search
        found == IF first.pick # None THEN [first EXCEPT !.settled = TRUE]
                 ELSE Walk(q, first, catalogue.chain[c])
    IN [found EXCEPT !.chain = c]

\* The endpoints of the chains at these places in the order.
Passed(s, turns) == UNION {ToSet(catalogue.chain[Preferences(s)[i]]) : i \in turns}

\* settled: picked where the session lives or was just started, not by a walk.
NewSearch(q) == [health |-> health, pick |-> None, settled |-> FALSE,
                 chain |-> ModelOf[q.session]]

\* The search of the i-th chain: those before it were searched in vain.
Turn(q, i) ==
    LET before == Passed(q.session, {j \in ChainOrder(q.session) : j < i})
    IN SearchChain(q, [NewSearch(q) EXCEPT !.health = Checked(@, before)],
                   Preferences(q.session)[i])

\* The first chain in which something is found.
Search(q) ==
    LET hits == {i \in ChainOrder(q.session) : Turn(q, i).pick # None}
    IN IF catalogue.chain[ModelOf[q.session]] = <<>> THEN NewSearch(q)
       ELSE IF hits # {} THEN Turn(q, Min(hits))
       ELSE [NewSearch(q) EXCEPT !.health = Checked(@, Passed(q.session, ChainOrder(q.session)))]

\* Something untried that could serve q is backing off (cooldownWaitLocked).
WorthWaiting(q) ==
    \E e \in Passed(q.session, ChainOrder(q.session)) :
        /\ e \notin q.tried
        /\ Eligible(q, e, catalogue.can[e])
        /\ health[e] = "cooling"

----------------------------------------------------------------------------
(* The sessions map. *)

\* A walk inside the session's own chain is a step of this request only.
Rebinds(q, found) ==
    LET se == session[q.session] IN
    \/ ~se.known
    \/ ~found.settled /\ (found.chain # se.chain \/ q.tried = {})

\* bindSessionLocked.
Bound(found) == [known |-> TRUE, ep |-> found.pick, chain |-> found.chain,
                 can |-> catalogue.can[found.pick]]

----------------------------------------------------------------------------
(* Requests. *)

Arrive(r, s) ==
    /\ request[r] = Idle
    /\ request' = [request EXCEPT ![r] =
           [phase |-> "selecting", session |-> s, needs |-> NeedsOf[r], tried |-> {}]]
    /\ UNCHANGED <<catalogue, health, noVision, session>>

\* SelectEndpointForTokens finds an endpoint.
SelectEndpoint(r) ==
    LET q == request[r]
        found == Search(q)
    IN /\ q.phase = "selecting"
       /\ found.pick # None
       /\ health' = found.health
       /\ session' = [session EXCEPT
              ![q.session] = IF Rebinds(q, found) THEN Bound(found) ELSE @]
       /\ request' = [request EXCEPT ![r] =
              [phase |-> "sent", session |-> q.session, needs |-> q.needs,
               tried |-> q.tried, ep |-> found.pick]]
       /\ UNCHANGED <<catalogue, noVision>>

\* It finds none: the caller is told how long to wait, or answers an error.
FindNone(r) ==
    LET q == request[r]
        found == Search(q)
    IN /\ q.phase = "selecting"
       /\ found.pick = None
       /\ health' = found.health
       /\ request' = [request EXCEPT ![r] =
              IF WorthWaiting(q) THEN [q EXCEPT !.phase = "waiting"] ELSE Failed]
       /\ UNCHANGED <<catalogue, noVision, session>>

\* The caller slept and asks again.
CycleBack(r) ==
    /\ request[r].phase = "waiting"
    /\ request' = [request EXCEPT ![r].phase = "selecting"]
    /\ UNCHANGED <<catalogue, health, noVision, session>>

\* The request is answered with an error, or its client leaves.
GiveUp(r) ==
    /\ request[r].phase \in {"waiting", "failed", "sent"}
    /\ request' = [request EXCEPT ![r] = Idle]
    /\ UNCHANGED <<catalogue, health, noVision, session>>

Succeed(r) ==
    /\ request[r].phase = "sent"
    /\ health' = [health EXCEPT ![request[r].ep] = "up"]
    /\ request' = [request EXCEPT ![r] = Idle]
    /\ UNCHANGED <<catalogue, noVision, session>>

\* SkipSameHost: every endpoint behind the same upstream.
SameHost(e) == {x \in Endpoint : HostOf[x] = HostOf[e]}

\* isVisionUnsupported, of an answer to a request with images.
RefusesImages(q) == "vision" \in q.needs /\ q.ep \in Blind

\* The attempt fails: a cooldown, a reopened circuit that has no cooldown, or
\* no backoff at all; the endpoint may be learned to refuse images
\* (applyCooldown), and the whole upstream skipped by this request.
Fail(r, outcome, host, blind) ==
    LET q == request[r] IN
    /\ q.phase = "sent"
    /\ outcome = "probing" => health[q.ep] = "spent"
    /\ blind => RefusesImages(q)
    /\ health' = [health EXCEPT ![q.ep] = IF outcome = "same" THEN @ ELSE outcome]
    /\ noVision' = IF blind THEN noVision \cup {q.ep} ELSE noVision
    /\ request' = [request EXCEPT ![r] =
           [phase |-> "selecting", session |-> q.session, needs |-> q.needs,
            tried |-> q.tried \cup (IF host THEN SameHost(q.ep) ELSE {q.ep})]]
    /\ UNCHANGED <<catalogue, session>>

----------------------------------------------------------------------------
(* The environment. *)

\* A cooldown expires, under a closed circuit or an open one; a window whose
\* probe was lost is armed again.
Recover(e, to) ==
    /\ health[e] \in {"cooling", "spent"} /\ to \in {"up", "probing"}
    /\ health[e] = "spent" => to = "probing"
    /\ health' = [health EXCEPT ![e] = to]
    /\ UNCHANGED <<catalogue, noVision, session, request>>

\* ReloadConfig keeps sessions and cooldowns.
Reload(c) ==
    /\ c # catalogue
    /\ catalogue' = c
    /\ UNCHANGED <<health, noVision, session, request>>

Configured == UNION {ToSet(catalogue.chain[c]) : c \in Chain}

\* Other conversations fill the map to its cap, and this one was used least
\* recently; or it was idle for the TTL when the sweeper came.
Evict(s) ==
    /\ session[s].known
    /\ session' = [session EXCEPT ![s] = Unknown]
    /\ UNCHANGED <<catalogue, health, noVision, request>>

\* cleanupStaleEntries forgets what it learned of endpoints no longer configured.
SweepNoVision ==
    /\ ~(noVision \subseteq Configured)
    /\ noVision' = noVision \cap Configured
    /\ UNCHANGED <<catalogue, health, session, request>>

\* What a row of the table may say: it can be older than the map, by the
\* endpoint's name only, of a catalogue since replaced (SessionTable).  What
\* has no stated limits can do anything.
Rows == {b \in Entry : b.can = Need /\ \E c \in Catalogue : b.ep \in ToSet(c.chain[b.chain])}

\* The process ends and starts again: loadSessions restores the rows it finds.
Restart(restored, c) ==
    /\ catalogue' = c
    /\ session' = restored
    /\ noVision' = {}
    /\ request' = [r \in Request |-> Idle]
    /\ UNCHANGED health

----------------------------------------------------------------------------

Serve(r) ==
    \/ \E s \in Session : Arrive(r, s)
    \/ SelectEndpoint(r) \/ FindNone(r) \/ CycleBack(r) \/ GiveUp(r) \/ Succeed(r)
    \/ \E outcome \in {"same", "cooling", "probing"}, host, blind \in BOOLEAN :
          Fail(r, outcome, host, blind)

Next ==
    \/ \E r \in Request : Serve(r)
    \/ \E e \in Endpoint, to \in {"up", "probing"} : Recover(e, to)
    \/ \E c \in Catalogue : Reload(c)
    \/ \E s \in Session : Evict(s)
    \/ SweepNoVision
    \/ \E restored \in [Session -> Rows \cup {Unknown}], c \in Catalogue : Restart(restored, c)

Spec == Init /\ [][Next]_vars

----------------------------------------------------------------------------
(* Properties. *)

(* Every variable keeps its type.                                           *)
TypeOK ==
    /\ catalogue \in Catalogue
    /\ health \in [Endpoint -> Health]
    /\ noVision \subseteq Endpoint
    /\ session \in [Session -> Entry \cup {Unknown}]
    /\ request \in [Request -> Asking \cup Sent \cup {Idle, Failed}]

\* Steps that give request r an endpoint, and that give it none.
Picks(r) == request[r].phase = "selecting" /\ request'[r].phase = "sent"

Misses(r) == request[r].phase = "selecting" /\ request'[r].phase \in {"waiting", "failed"}

\* The chains a selection for s may turn to.
Consulted(s) == {ModelOf[s]} \cup ToSet(Substitutes)
                \cup (IF session[s].known THEN {session[s].chain} ELSE {})

\* What r could be given: untried, up, and able to serve it.
Usable(r, e) ==
    /\ health[e] = "up" /\ e \notin request[r].tried
    /\ Eligible(request[r], e, catalogue.can[e])

\* Where a selection for r must go, and what it may do to its session.
Sticks(r) ==
    LET q == request[r]
        se == session[q.session]
    IN se.known =>
       /\ (/\ Available(health, se.ep) /\ se.ep \notin q.tried
           /\ InChain(se.ep, se.chain) /\ Eligible(q, se.ep, se.can))
            => request'[r].ep = se.ep /\ session' = session
       /\ (q.tried # {} /\ session'[q.session].chain = se.chain)
            => session'[q.session] = se

(* "The same session is always routed to the same model": while the         *)
(* endpoint a session lives on can serve a request and the request has not  *)
(* tried it, the request gets it, whatever the session's other requests     *)
(* tried meanwhile and whatever else is usable; and a request that has      *)
(* failed moves its session only to another chain (SelectEndpointForTokens).*)
StickyUnlessForced == [][\A r \in Request : Picks(r) => Sticks(r)]_vars

\* What the endpoint given to r must be.
Proper(r) ==
    LET q == request[r]
        e == request'[r].ep
    IN /\ \E c \in Consulted(q.session) : InChain(e, c)
       /\ e \notin q.tried /\ health[e] \in {"up", "probing"}
       /\ "vision" \in q.needs => e \notin noVision
       /\ \/ q.needs \subseteq catalogue.can[e]
          \/ session[q.session].known /\ session[q.session].ep = e

(* No request is sent to an endpoint that a reload removed, that it tried   *)
(* before, that is known to refuse its images, or that is backing off; only *)
(* the endpoint its session already lives on may be taken on older terms.   *)
PickedFromTheCatalogue == [][\A r \in Request : Picks(r) => Proper(r)]_vars

(* Both of every selection: where a session lives decides, and what a       *)
(* reload, a restart or another request changed meanwhile is respected.     *)
PicksAreRight == StickyUnlessForced /\ PickedFromTheCatalogue

\* A usable endpoint of this chain.
Left(r, c) == \E e \in ToSet(catalogue.chain[c]) : Usable(r, e)

NothingLeft(r) ==
    LET q == request[r]
        se == session[q.session]
        own == ModelOf[q.session]
    IN /\ Misses(r) /\ catalogue.chain[own] # <<>> =>
             \A c \in Consulted(q.session) : ~Left(r, c)
       /\ Picks(r) /\ ~InChain(request'[r].ep, own) =>
             ~Left(r, own) \/ (se.known /\ se.chain # own)

(* A request is not told that nothing can serve it, nor sent beyond its own *)
(* chain or past where its session lives, while something usable that it    *)
(* has not tried is left there: every chain is searched, whatever probes    *)
(* the search itself spends (SelectEndpointForTokens, chainOrderLocked).    *)
NothingLeftBehind == [][\A r \in Request : NothingLeft(r)]_vars

=============================================================================
