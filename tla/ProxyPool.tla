----------------------------- MODULE ProxyPool -----------------------------
(***************************************************************************)
(* The outbound proxy pool (proxyservice.go) and the requests that use it  *)
(* (proxy.go).  One goroutine, the keeper, replaces the pool, prunes what  *)
(* is known of dropped proxies and probes members until enough are ready;  *)
(* requests pick a proxy, use it and report how it did.  The pool and each *)
(* of the maps down, ready and readyLatency have a lock of their own, so a *)
(* step here is one critical section, except that the look at one member   *)
(* by pick, and by a top-up, reads the maps together.                      *)
(*                                                                         *)
(* Durations are in units of the cfg's choosing; the refresh interval is   *)
(* free.  What the keeper does between two waits takes no time, nor does a *)
(* pick, which reads the clock once; the ticker runs from the first fetch. *)
(***************************************************************************)
EXTENDS SequencesExt, FiniteSets, Naturals

CONSTANTS
    Proxy,          \* every address a source ever lists
    Request,        \* attempts that may run together
    Lists,          \* the pools a fetch may return, in order of preference
    Answers,        \* what a probe of each proxy may find: TRUE is reachable
    Latencies,      \* dial times of the reachable, none of them zero
    Required,       \* the ready proxies wanted
    MaxProbes,      \* maxProbesPerCycle
    Interval,       \* proxyVerifyInterval
    ProbeTimeout,   \* proxyVerifyTimeout
    ReadyTTL,       \* proxyReadyTTL
    DownTime,       \* proxyCooldown
    None            \* no proxy

ASSUME PoolAssumption ==
    /\ Lists \subseteq Seq(Proxy) /\ None \notin Proxy
    /\ Answers \in [Proxy -> SUBSET BOOLEAN]
    /\ Latencies \subseteq Nat \ {0}
    /\ Required \in Nat /\ MaxProbes \in Nat /\ Interval \in Nat \ {0}
    /\ ProbeTimeout \in Nat /\ ReadyTTL \in Nat /\ DownTime \in Nat

VARIABLES
    pool,       \* proxyPool.list
    down,       \* time left of the cooldown of each proxy that has one
    ready,      \* age of each proxy's readiness mark
    latency,    \* readyLatency
    keeper,     \* where the keeper is
    ticker,     \* time since the top-up ticker last fired
    refreshDue, \* the refresh ticker has fired
    request,    \* where each attempt is
    stale       \* history: proxies held by requests when the pool was replaced

vars == <<pool, down, ready, latency, keeper, ticker, refreshDue, request, stale>>

----------------------------------------------------------------------------
(* State. *)

\* What a pick has found so far.
Nothing == [best |-> None, latency |-> 0, fallback |-> None]

Unused ==
    [phase |-> "idle", proxy |-> None, list |-> <<>>, cands |-> <<>>, so |-> Nothing]

Init ==
    /\ pool = <<>> /\ stale = {}
    /\ down = <<>> /\ ready = <<>> /\ latency = <<>>
    /\ keeper = [phase |-> "fetching", at |-> 1, probes |-> 0, elapsed |-> 0]
    /\ ticker = 0 /\ refreshDue = FALSE
    /\ request = [r \in Request |-> Unused]

\* Maps keyed by proxy: an entry set, an entry deleted.
Put(f, p, v) == [x \in DOMAIN f \cup {p} |-> IF x = p THEN v ELSE f[x]]

Only(f, S) == Restrict(f, DOMAIN f \cap S)

Drop(f, p) == Only(f, DOMAIN f \ {p})

Down(p) == p \in DOMAIN down /\ down[p] > 0

Ready(p) == p \in DOMAIN ready /\ ready[p] <= ReadyTTL

\* readyCount, and the expired marks it drops.
ReadyProxies == {p \in DOMAIN ready : Ready(p)}

Enough == Cardinality(ReadyProxies) >= Required

\* The proxies a request may still report on.
Held == UNION {ToSet(request[r].list) \cup ({request[r].proxy} \ {None}) : r \in Request}

Keeps(phase) == keeper' = [keeper EXCEPT !.phase = phase]

----------------------------------------------------------------------------
(* The keeper's refresh. *)

Fetched(list) ==
    /\ keeper.phase = "fetching"
    /\ pool' = list /\ stale' = Held
    /\ Keeps("pruning down")
    /\ UNCHANGED <<down, ready, latency, ticker, refreshDue, request>>

PruneDown ==
    /\ keeper.phase = "pruning down"
    /\ down' = Only(down, {p \in ToSet(pool) : Down(p)})
    /\ Keeps("pruning ready")
    /\ UNCHANGED <<pool, ready, latency, ticker, refreshDue, request, stale>>

PruneReady ==
    /\ keeper.phase = "pruning ready"
    /\ ready' = Only(ready, ToSet(pool))
    /\ Keeps("pruning latency")
    /\ UNCHANGED <<pool, down, latency, ticker, refreshDue, request, stale>>

\* Mutant: latencies are left to be withdrawn with the mark.
PruneNoLatency ==
    /\ keeper.phase = "pruning latency"
    /\ ready' = Only(ready, ReadyProxies)
    /\ Keeps("counting")
    /\ UNCHANGED <<pool, down, latency, ticker, refreshDue, request, stale>>

\* And the log line, whose readyCount drops expired marks.
PruneLatency ==
    /\ keeper.phase = "pruning latency"
    /\ latency' = Only(latency, ToSet(pool)) /\ ready' = Only(ready, ReadyProxies)
    /\ Keeps("counting")
    /\ UNCHANGED <<pool, down, ticker, refreshDue, request, stale>>

----------------------------------------------------------------------------
(* The keeper's top-up. *)

Count ==
    /\ keeper.phase = "counting"
    /\ IF Required = 0 THEN Keeps("waiting") /\ UNCHANGED ready
       ELSE /\ ready' = Only(ready, ReadyProxies)
            /\ keeper' = [phase |-> IF Enough THEN "waiting" ELSE "walking",
                          at |-> 1, probes |-> 0, elapsed |-> 0]
    /\ UNCHANGED <<pool, down, latency, ticker, refreshDue, request, stale>>

\* Mutant: a proxy that was once measured is taken for ready.
SkippedIfMeasured(p) == p \in DOMAIN latency \/ Down(p)

\* No probe is due: isReady, isDown.
Skipped(p) == Ready(p) \/ Down(p)

Exhausted == keeper.probes >= MaxProbes

\* The next member of the pool is probed, passed over, or the pass ends.
Walk ==
    /\ keeper.phase = "walking"
    /\ ready' = Only(ready, ReadyProxies)
    /\ IF keeper.at > Len(pool) \/ Enough
       THEN Keeps("waiting") /\ UNCHANGED down
       ELSE LET p == pool[keeper.at] IN
            /\ down' = IF Ready(p) \/ Down(p) THEN down ELSE Drop(down, p)
            /\ keeper' = IF Skipped(p) THEN [keeper EXCEPT !.at = @ + 1]
                         ELSE IF Exhausted
                         THEN [keeper EXCEPT !.phase = "waiting"]
                         ELSE [keeper EXCEPT !.phase = "probing",
                                             !.probes = @ + 1, !.elapsed = 0]
    /\ UNCHANGED <<pool, latency, ticker, refreshDue, request, stale>>

\* probeReachable records the latency before the proxy is marked.
ProbeSucceeds ==
    /\ keeper.phase = "probing"
    /\ TRUE \in Answers[pool[keeper.at]]
    /\ \E l \in Latencies : latency' = Put(latency, pool[keeper.at], l)
    /\ Keeps("marking")
    /\ UNCHANGED <<pool, down, ready, ticker, refreshDue, request, stale>>

Mark ==
    /\ keeper.phase = "marking"
    /\ ready' = Put(ready, pool[keeper.at], 0)
    /\ keeper' = [keeper EXCEPT !.phase = "walking", !.at = @ + 1]
    /\ UNCHANGED <<pool, down, latency, ticker, refreshDue, request, stale>>

ProbeFails ==
    /\ keeper.phase = "probing"
    /\ FALSE \in Answers[pool[keeper.at]]
    /\ down' = Put(down, pool[keeper.at], DownTime)
    /\ Keeps("withdrawing")
    /\ UNCHANGED <<pool, ready, latency, ticker, refreshDue, request, stale>>

\* The rest of MarkDown: dropReady.
KeeperWithdraws ==
    /\ keeper.phase = "withdrawing"
    /\ ready' = Drop(ready, pool[keeper.at])
    /\ Keeps("forgetting")
    /\ UNCHANGED <<pool, down, latency, ticker, refreshDue, request, stale>>

KeeperForgets ==
    /\ keeper.phase = "forgetting"
    /\ latency' = Drop(latency, pool[keeper.at])
    /\ keeper' = [keeper EXCEPT !.phase = "walking", !.at = @ + 1]
    /\ UNCHANGED <<pool, down, ready, ticker, refreshDue, request, stale>>

\* The ticker keeps its schedule while a pass is late.
StartTopUp ==
    /\ keeper.phase = "waiting" /\ ticker >= Interval
    /\ Keeps("counting")
    /\ ticker' \in 0 .. (Interval - 1)
    /\ UNCHANGED <<pool, down, ready, latency, refreshDue, request, stale>>

StartRefresh ==
    /\ keeper.phase = "waiting" /\ refreshDue
    /\ Keeps("fetching") /\ refreshDue' = FALSE
    /\ UNCHANGED <<pool, down, ready, latency, ticker, request, stale>>

----------------------------------------------------------------------------
(* An attempt. *)

Goes(r, phase) == request' = [request EXCEPT ![r].phase = phase]

StartPick(r) ==
    /\ request[r].phase = "idle"
    /\ request' = [request EXCEPT ![r] = [Unused EXCEPT !.phase = "picking", !.list = pool]]
    /\ UNCHANGED <<pool, down, ready, latency, keeper, ticker, refreshDue, stale>>

\* Mutant: never measured is infinitely fast.
Sooner(a, best) == a < best

\* Zero is never measured: slower than any measurement.
Faster(a, best) == a # best /\ (best = 0 \/ (a # 0 /\ a < best))

\* One turn of the loop over the candidates: the best of the ready, the first
\* of the others.
Better(so, c) ==
    IF c.down THEN so
    ELSE IF c.ready
    THEN IF so.best = None \/ Faster(c.latency, so.latency)
         THEN [so EXCEPT !.best = c.proxy, !.latency = c.latency] ELSE so
    ELSE IF so.fallback = None THEN [so EXCEPT !.fallback = c.proxy] ELSE so

Candidate(p) ==
    [proxy |-> p, down |-> Down(p), ready |-> Ready(p),
     latency |-> IF p \in DOMAIN latency THEN latency[p] ELSE 0]

\* The next member of the list is looked up, and compared at once.
Look(r) ==
    LET q == request[r]
        c == Candidate(q.list[Len(q.cands) + 1])
    IN /\ q.phase = "picking" /\ Len(q.cands) < Len(q.list)
       /\ request' = [request EXCEPT ![r].cands = Append(@, c), ![r].so = Better(@, c)]
       /\ UNCHANGED <<pool, down, ready, latency, keeper, ticker, refreshDue, stale>>

Chosen(so) == IF so.best # None THEN so.best ELSE so.fallback

\* With nothing to pick the attempt goes direct, and its log line counts.
Choose(r) ==
    LET q == request[r]
        p == Chosen(q.so)
    IN /\ q.phase = "picking" /\ Len(q.cands) = Len(q.list)
       /\ request' = [request EXCEPT ![r] =
              IF p = None THEN Unused
              ELSE [Unused EXCEPT !.phase = "connecting", !.proxy = p]]
       /\ ready' = IF p = None THEN Only(ready, ReadyProxies) ELSE ready
       /\ UNCHANGED <<pool, down, latency, keeper, ticker, refreshDue, stale>>

\* Headers arrived through the proxy: MarkProxyReady.
HeadersArrive(r) ==
    /\ request[r].phase = "connecting"
    /\ ready' = Put(ready, request[r].proxy, 0)
    /\ Goes(r, "streaming")
    /\ UNCHANGED <<pool, down, latency, keeper, ticker, refreshDue, stale>>

\* The proxy is at fault, before or after headers: MarkProxyDown.
ProxyFails(r) ==
    /\ request[r].phase \in {"connecting", "streaming"}
    /\ down' = Put(down, request[r].proxy, DownTime)
    /\ Goes(r, "withdrawing")
    /\ UNCHANGED <<pool, ready, latency, keeper, ticker, refreshDue, stale>>

Withdraw(r) ==
    /\ request[r].phase = "withdrawing"
    /\ ready' = Drop(ready, request[r].proxy)
    /\ Goes(r, "forgetting")
    /\ UNCHANGED <<pool, down, latency, keeper, ticker, refreshDue, stale>>

Forget(r) ==
    /\ request[r].phase = "forgetting"
    /\ latency' = Drop(latency, request[r].proxy)
    /\ request' = [request EXCEPT ![r] = Unused]
    /\ UNCHANGED <<pool, down, ready, keeper, ticker, refreshDue, stale>>

\* The attempt ends otherwise: nobody blames the proxy.
Finish(r) ==
    /\ request[r].phase \in {"connecting", "streaming"}
    /\ request' = [request EXCEPT ![r] = Unused]
    /\ UNCHANGED <<pool, down, ready, latency, keeper, ticker, refreshDue, stale>>

----------------------------------------------------------------------------

Least(a, b) == IF a < b THEN a ELSE b

Tick ==
    /\ keeper.phase \in {"waiting", "fetching", "probing"}
    /\ keeper.phase = "waiting" => ticker < Interval /\ ~refreshDue
    /\ \A r \in Request : request[r].phase # "picking"
    /\ keeper.phase = "probing" => keeper.elapsed < ProbeTimeout
    /\ down' = [p \in DOMAIN down |-> IF down[p] > 0 THEN down[p] - 1 ELSE 0]
    /\ ready' = [p \in DOMAIN ready |-> Least(ready[p] + 1, ReadyTTL + 1)]
    /\ ticker' = Least(ticker + 1, Interval)
    /\ refreshDue' \in {refreshDue, TRUE}
    /\ keeper' = IF keeper.phase = "probing" THEN [keeper EXCEPT !.elapsed = @ + 1]
                 ELSE keeper
    /\ UNCHANGED <<pool, latency, request, stale>>

Refresh ==
    \/ \E list \in Lists : Fetched(list)
    \/ PruneDown \/ PruneReady \/ PruneLatency \/ StartRefresh

TopUp ==
    \/ StartTopUp \/ Count \/ Walk \/ ProbeSucceeds \/ Mark
    \/ ProbeFails \/ KeeperWithdraws \/ KeeperForgets

\* What a request does without waiting for the network.
Compute(r) == Look(r) \/ Choose(r) \/ Withdraw(r) \/ Forget(r)

Attempt(r) ==
    StartPick(r) \/ Compute(r) \/ HeadersArrive(r) \/ ProxyFails(r) \/ Finish(r)

Next ==
    \/ Refresh \/ TopUp
    \/ \E r \in Request : Attempt(r)
    \/ Tick

Spec == Init /\ [][Next]_vars

\* Goroutines run, fetches and probes time out, and time passes between picks.
Fairness ==
    /\ WF_vars(Refresh) /\ WF_vars(TopUp) /\ SF_vars(Tick)
    /\ \A r \in Request : WF_vars(Compute(r))

FairSpec == Spec /\ Fairness

----------------------------------------------------------------------------
(* Properties. *)

Phases == {"idle", "picking", "connecting", "streaming", "withdrawing", "forgetting"}

(* Every variable keeps its type, and a top-up stays within the pool and    *)
(* within its probes.                                                       *)
TypeOK ==
    /\ pool \in Seq(Proxy) /\ stale \subseteq Proxy
    /\ DOMAIN down \subseteq Proxy /\ DOMAIN ready \subseteq Proxy
    /\ DOMAIN latency \subseteq Proxy
    /\ keeper.probes \in 0 .. MaxProbes
    /\ keeper.phase = "walking" => keeper.at \in 1 .. Len(pool) + 1
    /\ keeper.phase \in {"probing", "marking", "withdrawing", "forgetting"} =>
          keeper.at \in 1 .. Len(pool)
    /\ \A r \in Request :
          /\ request[r].phase \in Phases
          /\ request[r].proxy \in Proxy \cup {None}
          /\ request[r].list \in Seq(Proxy)
          /\ request[r].phase \in Phases \ {"idle", "picking"} => request[r].proxy # None

(* "Without this the cooldown and latency maps would grow for the life of   *)
(* the process" (refresh): once a map was pruned it speaks of members of    *)
(* the pool, and of proxies that a request held when the pool was replaced, *)
(* however late that request reports.                                       *)
NothingKeptOfDropped ==
    LET known == ToSet(pool) \cup stale IN
    /\ keeper.phase # "pruning down" => DOMAIN down \subseteq known
    /\ keeper.phase \notin {"pruning down", "pruning ready"} =>
          DOMAIN ready \subseteq known
    /\ keeper.phase \notin {"pruning down", "pruning ready", "pruning latency"} =>
          DOMAIN latency \subseteq known

\* What a pick may return of what it saw, by the comment over pick.
Best(cands) ==
    LET Up(i) == i \in DOMAIN cands /\ ~cands[i].down
        Proven(i) == Up(i) /\ cands[i].ready
        Measured(i) == Proven(i) /\ cands[i].latency # 0
        OK(i) == IF \E j \in DOMAIN cands : Measured(j)
                 THEN Measured(i) /\ \A j \in DOMAIN cands :
                          Measured(j) => cands[i].latency <= cands[j].latency
                 ELSE IF \E j \in DOMAIN cands : Proven(j) THEN Proven(i)
                 ELSE Up(i)
    IN {cands[i].proxy : i \in {j \in DOMAIN cands : OK(j)}}

(* "Among ready proxies, the one with the lowest measured dial latency";    *)
(* one never measured only if no other is ready; one not ready only if none *)
(* is; and "nil only when the whole pool is down" (pick, faster).           *)
PickIsBest ==
    [][\A r \in Request : (request[r].phase = "picking" /\ request'[r].phase # "picking") =>
          LET best == Best(request[r].cands) IN
          IF best = {} THEN request'[r].proxy = None
          ELSE request'[r].proxy \in best]_vars

(* "A proxy is ready available when a request needs one" (topUpReady): the  *)
(* ready proxies are always brought up to the number wanted again, unless   *)
(* proxies keep failing or the sources do not list as many.                 *)
ReadyRefilled ==
    \/ []<>Enough
    \/ []<>(keeper.phase = "withdrawing")
    \/ []<>(\E r \in Request : request[r].phase = "withdrawing")
    \/ []<>(Cardinality(ToSet(pool)) < Required)

=============================================================================
