---------------------------- MODULE UpstreamProofs ----------------------------
(***************************************************************************)
(* Invariance proofs about the way to the upstream and back: the outbound  *)
(* proxies an attempt goes through (ProxyPool), for pools and fetches of   *)
(* any size, any requests, latencies, answers to probes and durations; and *)
(* the relay of a streamed answer (StreamRelay), for answers, windows and  *)
(* deadlines of any length.                                                *)
(***************************************************************************)
EXTENDS ProxyPool, StreamRelay, FiniteSetTheorems, SequenceTheorems, TLAPS

----------------------------------------------------------------------------
(* The inductive invariant. *)

KeeperPhases ==
    {"fetching", "pruning down", "pruning ready", "pruning latency", "counting",
     "walking", "probing", "marking", "withdrawing", "forgetting", "waiting"}

Candidates == [proxy : Proxy, down : BOOLEAN, ready : BOOLEAN, latency : Nat]

Maybe == Proxy \cup {None}

Attempts ==
    [phase : Phases, proxy : Maybe, list : Seq(Proxy), cands : Seq(Candidates),
     so : [best : Maybe, latency : Nat, fallback : Maybe]]

(* Types: the parts of TypeOK, and what it leaves open. *)

MapsTyped ==
    /\ pool \in Seq(Proxy) /\ stale \subseteq Proxy
    /\ DOMAIN down \subseteq Proxy /\ DOMAIN ready \subseteq Proxy
    /\ DOMAIN latency \subseteq Proxy /\ \A p \in DOMAIN latency : latency[p] \in Nat

KeeperTyped ==
    /\ keeper \in [phase : KeeperPhases, at : Nat, probes : Nat, elapsed : Nat]
    /\ keeper.probes <= MaxProbes
    /\ keeper.phase = "walking" => keeper.at \in 1 .. Len(pool) + 1
    /\ keeper.phase \in {"probing", "marking", "withdrawing", "forgetting"} =>
          keeper.at \in 1 .. Len(pool)

RequestsTyped ==
    /\ request \in [Request -> Attempts]
    /\ \A r \in Request :
          request[r].phase \in Phases \ {"idle", "picking"} => request[r].proxy # None

Known == ToSet(pool) \cup stale

\* A request can only report on what the maps may speak of, and a pick only
\* finds what is on its list.
HeldKnown ==
    \A r \in Request :
        /\ ToSet(request[r].list) \subseteq Known
        /\ request[r].proxy \in Known \cup {None}
        /\ request[r].so.best \in ToSet(request[r].list) \cup {None}
        /\ request[r].so.fallback \in ToSet(request[r].list) \cup {None}

\* What the loop of pick has found is right about the candidates so far.
Right(cands, so) ==
    LET Up(i) == ~cands[i].down
        Proven(i) == Up(i) /\ cands[i].ready
    IN /\ so.best = None => \A i \in 1 .. Len(cands) : ~Proven(i)
       /\ so.best # None =>
              /\ \E i \in 1 .. Len(cands) :
                     Proven(i) /\ cands[i].proxy = so.best /\ cands[i].latency = so.latency
              /\ \A i \in 1 .. Len(cands) :
                     Proven(i) /\ cands[i].latency # 0 =>
                         so.latency # 0 /\ so.latency <= cands[i].latency
       /\ so.fallback = None => \A i \in 1 .. Len(cands) : Up(i) => cands[i].ready
       /\ so.fallback # None =>
              \E i \in 1 .. Len(cands) :
                  Up(i) /\ ~cands[i].ready /\ cands[i].proxy = so.fallback

Picked == \A r \in Request : Right(request[r].cands, request[r].so)

Types == MapsTyped /\ KeeperTyped /\ RequestsTyped

IInv == Types /\ NothingKeptOfDropped /\ HeldKnown /\ Picked

----------------------------------------------------------------------------
(* The maps and the lists. *)

LEMMA OnlyShrinks ==
    ASSUME NEW f, NEW S
    PROVE  /\ DOMAIN Only(f, S) = DOMAIN f \cap S
           /\ \A x \in DOMAIN f \cap S : Only(f, S)[x] = f[x]
BY DEF Only, Restrict

LEMMA DropShrinks ==
    ASSUME NEW f, NEW p
    PROVE  /\ DOMAIN Drop(f, p) = DOMAIN f \ {p}
           /\ \A x \in DOMAIN f \ {p} : Drop(f, p)[x] = f[x]
BY DEF Only, Drop, Restrict

LEMMA PutAdds ==
    ASSUME NEW f, NEW p, NEW v
    PROVE  /\ DOMAIN Put(f, p, v) = DOMAIN f \cup {p}
           /\ \A x \in DOMAIN f \cup {p} :
                  Put(f, p, v)[x] = v \/ (x \in DOMAIN f /\ Put(f, p, v)[x] = f[x])
BY DEF Put

LEMMA Members ==
    ASSUME NEW S, NEW s \in Seq(S)
    PROVE  /\ ToSet(s) \subseteq S
           /\ \A i \in 1 .. Len(s) : s[i] \in ToSet(s)
BY DEF ToSet

LEMMA CandidateTyped ==
    ASSUME MapsTyped, NEW p \in Proxy
    PROVE  Candidate(p) \in Candidates
<1>1. Down(p) \in BOOLEAN /\ Ready(p) \in BOOLEAN
  BY Zenon DEF Down, Ready
<1>2. (IF p \in DOMAIN latency THEN latency[p] ELSE 0) \in Nat
  BY DEF MapsTyped
<1> QED BY <1>1, <1>2, Zenon DEF Candidate, Candidates

(* One turn of the loop keeps what was found right, for whatever the next   *)
(* candidate is.                                                            *)
LEMMA BetterIsRight ==
    ASSUME NEW cands \in Seq(Candidates), NEW c \in Candidates,
           NEW so \in [best : Maybe, latency : Nat, fallback : Maybe],
           Right(cands, so)
    PROVE  /\ Better(so, c) \in [best : Maybe, latency : Nat, fallback : Maybe]
           /\ Better(so, c).best \in {so.best, c.proxy}
           /\ Better(so, c).fallback \in {so.fallback, c.proxy}
           /\ Right(Append(cands, c), Better(so, c))
<1> DEFINE longer == Append(cands, c)
           after == Better(so, c)
           Bests == [best : Maybe, latency : Nat, fallback : Maybe]
<1>1. /\ Len(cands) \in Nat /\ Len(longer) = Len(cands) + 1
      /\ longer[Len(cands) + 1] = c
      /\ \A i \in 1 .. Len(cands) : longer[i] = cands[i] /\ cands[i] \in Candidates
  OBVIOUS
<1>2. \A i \in 1 .. Len(longer) : i \in 1 .. Len(cands) \/ i = Len(cands) + 1
  BY <1>1
<1>3. 1 .. Len(cands) \subseteq 1 .. Len(longer) /\ Len(cands) + 1 \in 1 .. Len(longer)
  BY <1>1
<1>4. c.proxy \in Maybe /\ c.proxy # None /\ c.latency \in Nat
  BY PoolAssumption DEF Candidates, Maybe
<1>5. after \in Bests /\ after.best \in {so.best, c.proxy}
      /\ after.fallback \in {so.fallback, c.proxy}
  BY <1>4 DEF Better
<1> HIDE DEF longer
<1>6. CASE c.down
  <2>1. after = so BY <1>6 DEF Better
  <2>2. Right(longer, so) BY <1>1, <1>2, <1>3, <1>6, SMTT(40) DEF Right
  <2> QED BY <2>1, <2>2, <1>5 DEF longer
<1>7. CASE ~c.down /\ c.ready /\ ~(so.best = None \/ Faster(c.latency, so.latency))
  <2>1. after = so BY <1>7 DEF Better
  <2>2. c.latency # 0 => so.latency # 0 /\ so.latency <= c.latency
    BY <1>4, <1>7 DEF Faster
  <2>3. Right(longer, so) BY <2>2, <1>1, <1>2, <1>3, <1>7, SMTT(40) DEF Right
  <2> QED BY <2>1, <2>3, <1>5 DEF longer
<1>8. CASE ~c.down /\ c.ready /\ (so.best = None \/ Faster(c.latency, so.latency))
  <2>1. after.best = c.proxy /\ after.latency = c.latency /\ after.fallback = so.fallback
    BY <1>8 DEF Better
  <2>2. \A i \in 1 .. Len(cands) :
            ~cands[i].down /\ cands[i].ready /\ cands[i].latency # 0 =>
                c.latency # 0 /\ c.latency <= cands[i].latency
    BY <1>1, <1>4, <1>8 DEF Right, Faster, Candidates
  <2> HIDE DEF after
  <2>3. Right(longer, after) BY <2>1, <2>2, <1>1, <1>2, <1>3, <1>4, <1>8, SMTT(40) DEF Right
  <2> QED BY <2>3, <1>5 DEF longer, after
<1>9. CASE ~c.down /\ ~c.ready /\ so.fallback = None
  <2>1. after.best = so.best /\ after.latency = so.latency /\ after.fallback = c.proxy
    BY <1>9 DEF Better
  <2> HIDE DEF after
  <2>2. Right(longer, after) BY <2>1, <1>1, <1>2, <1>3, <1>4, <1>9, SMTT(40) DEF Right
  <2> QED BY <2>2, <1>5 DEF longer, after
<1>10. CASE ~c.down /\ ~c.ready /\ so.fallback # None
  <2>1. after = so BY <1>10 DEF Better
  <2>2. Right(longer, so) BY <1>1, <1>2, <1>3, <1>10, SMTT(40) DEF Right
  <2> QED BY <2>1, <2>2, <1>5 DEF longer
<1> QED BY <1>6, <1>7, <1>8, <1>9, <1>10

----------------------------------------------------------------------------
(* Types. *)

LEMMA TypesImply == Types => TypeOK
<1>1. MaxProbes \in Nat BY PoolAssumption
<1>2. \A n \in Nat : n <= MaxProbes => n \in 0 .. MaxProbes BY <1>1
<1>3. RequestsTyped => \A r \in Request :
          /\ request[r].phase \in Phases
          /\ request[r].proxy \in Proxy \cup {None}
          /\ request[r].list \in Seq(Proxy)
  BY DEF RequestsTyped, Attempts, Maybe
<1> QED BY <1>2, <1>3 DEF TypeOK, Types, MapsTyped, KeeperTyped, RequestsTyped

LEMMA UnusedTyped == Unused \in Attempts
BY DEF Unused, Nothing, Attempts, Phases, Maybe

LEMMA TypeInit == Init => MapsTyped /\ KeeperTyped /\ RequestsTyped
<1> SUFFICES ASSUME Init PROVE MapsTyped /\ KeeperTyped /\ RequestsTyped
  OBVIOUS
<1>1. DOMAIN <<>> = {} /\ MaxProbes \in Nat
  BY PoolAssumption
<1>2. MapsTyped
  BY <1>1 DEF Init, MapsTyped
<1>3. KeeperTyped
  BY <1>1 DEF Init, KeeperTyped, KeeperPhases
<1>4. RequestsTyped
  BY UnusedTyped DEF Init, RequestsTyped, Unused, Phases
<1> QED BY <1>2, <1>3, <1>4

(* The keeper. *)

LEMMA KeeperMapsTyped ==
    ASSUME MapsTyped, KeeperTyped, RequestsTyped, Refresh \/ TopUp \/ Tick
    PROVE  MapsTyped'
<1>1. ASSUME NEW list \in Lists, Fetched(list) PROVE MapsTyped'
  <2>1. Held \subseteq Proxy
    <3>1. \A r \in Request : ToSet(request[r].list) \subseteq Proxy
                              /\ request[r].proxy \in Proxy \cup {None}
      BY Members DEF RequestsTyped, Attempts, Maybe
    <3> QED BY <3>1 DEF Held
  <2>2. list \in Seq(Proxy) BY PoolAssumption
  <2> QED BY <2>1, <2>2, <1>1 DEF Fetched, MapsTyped
<1>2. CASE PruneDown
  BY <1>2, OnlyShrinks DEF PruneDown, MapsTyped
<1>3. CASE PruneReady
  BY <1>3, OnlyShrinks DEF PruneReady, MapsTyped
<1>4. CASE PruneLatency
  <2>1. latency' = Only(latency, ToSet(pool)) /\ ready' = Only(ready, ReadyProxies)
    BY <1>4 DEF PruneLatency
  <2>2. /\ DOMAIN ready' \subseteq DOMAIN ready /\ DOMAIN latency' \subseteq DOMAIN latency
        /\ \A x \in DOMAIN latency' : latency'[x] = latency[x]
    BY <2>1, OnlyShrinks
  <2> QED BY <1>4, <2>2 DEF PruneLatency, MapsTyped
<1>5. CASE StartTopUp \/ StartRefresh
  BY <1>5 DEF StartTopUp, StartRefresh, MapsTyped
<1>6. CASE Count
  <2>1. ready' = ready \/ ready' = Only(ready, ReadyProxies)
    BY <1>6 DEF Count
  <2>2. DOMAIN ready' \subseteq DOMAIN ready
    BY <2>1, OnlyShrinks
  <2> QED BY <1>6, <2>2 DEF Count, MapsTyped
<1>7. CASE Walk
  <2>1. /\ ready' = Only(ready, ReadyProxies)
        /\ down' = down \/ down' = Drop(down, pool[keeper.at])
    BY <1>7 DEF Walk
  <2>2. DOMAIN ready' \subseteq DOMAIN ready
    BY <2>1, OnlyShrinks
  <2>3. DOMAIN down' \subseteq DOMAIN down
    BY <2>1, DropShrinks
  <2>4. UNCHANGED <<pool, latency, stale>>
    BY <1>7 DEF Walk
  <2> QED BY <2>2, <2>3, <2>4 DEF MapsTyped
<1>8. ASSUME ProbeSucceeds \/ Mark \/ ProbeFails \/ KeeperWithdraws \/ KeeperForgets
      PROVE  MapsTyped'
  <2> DEFINE p == pool[keeper.at]
  <2>1. keeper.at \in 1 .. Len(pool)
    BY <1>8 DEF ProbeSucceeds, Mark, ProbeFails, KeeperWithdraws, KeeperForgets, KeeperTyped
  <2>2. p \in Proxy
    BY <2>1 DEF MapsTyped
  <2> HIDE DEF p
  <2>3. CASE ProbeSucceeds
    <3>1. PICK l \in Latencies : latency' = Put(latency, p, l)
      BY <2>3 DEF ProbeSucceeds, p
    <3>2. l \in Nat BY PoolAssumption
    <3> DEFINE new == Put(latency, p, l)
    <3>03. /\ DOMAIN new = DOMAIN latency \cup {p}
          /\ \A x \in DOMAIN latency \cup {p} :
                new[x] = l \/ (x \in DOMAIN latency /\ new[x] = latency[x])
      BY DEF Put
    <3>04. latency' = new
      BY <3>1
    <3> HIDE DEF new
    <3>3. /\ DOMAIN latency' = DOMAIN latency \cup {p}
          /\ \A x \in DOMAIN latency \cup {p} :
                latency'[x] = l \/ (x \in DOMAIN latency /\ latency'[x] = latency[x])
      BY <3>03, <3>04
    <3>4. UNCHANGED <<pool, down, ready, stale>>
      BY <2>3 DEF ProbeSucceeds
    <3> QED BY <2>2, <3>2, <3>3, <3>4 DEF MapsTyped
  <2>4. CASE Mark
    <3>1. ready' = Put(ready, p, 0)
      BY <2>4 DEF Mark, p
    <3>2. DOMAIN ready' = DOMAIN ready \cup {p}
      BY <3>1, PutAdds
    <3>3. UNCHANGED <<pool, down, latency, stale>>
      BY <2>4 DEF Mark
    <3> QED BY <2>2, <3>2, <3>3 DEF MapsTyped
  <2>5. CASE ProbeFails
    <3>1. down' = Put(down, p, DownTime)
      BY <2>5 DEF ProbeFails, p
    <3>2. DOMAIN down' = DOMAIN down \cup {p}
      BY <3>1, PutAdds
    <3>3. UNCHANGED <<pool, ready, latency, stale>>
      BY <2>5 DEF ProbeFails
    <3> QED BY <2>2, <3>2, <3>3 DEF MapsTyped
  <2>6. CASE KeeperWithdraws
    <3>1. ready' = Drop(ready, p)
      BY <2>6 DEF KeeperWithdraws, p
    <3>2. DOMAIN ready' = DOMAIN ready \ {p}
      BY <3>1, DropShrinks
    <3>3. UNCHANGED <<pool, down, latency, stale>>
      BY <2>6 DEF KeeperWithdraws
    <3> QED BY <2>2, <3>2, <3>3 DEF MapsTyped
  <2>7. CASE KeeperForgets
    <3>1. latency' = Drop(latency, p)
      BY <2>7 DEF KeeperForgets, p
    <3>2. /\ DOMAIN latency' = DOMAIN latency \ {p}
          /\ \A x \in DOMAIN latency' : latency'[x] = latency[x]
      BY <3>1, DropShrinks
    <3>3. UNCHANGED <<pool, down, ready, stale>>
      BY <2>7 DEF KeeperForgets
    <3> QED BY <3>2, <3>3 DEF MapsTyped
  <2> QED BY <1>8, <2>3, <2>4, <2>5, <2>6, <2>7
<1>9. CASE Tick
  <2>1. DOMAIN down' = DOMAIN down /\ DOMAIN ready' = DOMAIN ready
    BY <1>9 DEF Tick
  <2> QED BY <1>9, <2>1 DEF Tick, MapsTyped
<1> QED BY <1>1, <1>2, <1>3, <1>4, <1>5, <1>6, <1>7, <1>8, <1>9 DEF Refresh, TopUp

LEMMA KeeperKeeperTyped ==
    ASSUME MapsTyped, KeeperTyped, Refresh \/ TopUp \/ Tick
    PROVE  KeeperTyped'
<1> USE DEF Keeps
<1>0. MaxProbes \in Nat /\ Len(pool) \in Nat
  BY PoolAssumption DEF MapsTyped
<1>01. keeper.at \in Nat /\ keeper.probes \in Nat /\ keeper.elapsed \in Nat
  BY DEF KeeperTyped
<1>02. "walking" \in KeeperPhases /\ "probing" \in KeeperPhases
  BY DEF KeeperPhases
<1>03. /\ keeper.at + 1 \in Nat /\ keeper.probes + 1 \in Nat /\ keeper.at \in Nat
      /\ keeper.probes \in Nat /\ keeper.elapsed \in Nat /\ 0 \in Nat
      /\ "walking" \in KeeperPhases /\ "probing" \in KeeperPhases
  BY <1>01, <1>02
<1>1. ASSUME NEW list \in Lists, Fetched(list) PROVE KeeperTyped'
  BY <1>1 DEF Fetched, KeeperTyped, KeeperPhases
<1>2. CASE PruneDown \/ PruneReady \/ PruneLatency
  BY <1>2 DEF PruneDown, PruneReady, PruneLatency, KeeperTyped, KeeperPhases
<1>3. CASE StartTopUp \/ StartRefresh
  BY <1>3 DEF StartTopUp, StartRefresh, KeeperTyped, KeeperPhases
<1>4. CASE Count
  <2>1. /\ pool' = pool
        /\ \/ keeper' = [keeper EXCEPT !.phase = "waiting"]
           \/ \E ph \in {"waiting", "walking"} :
                  keeper' = [phase |-> ph, at |-> 1, probes |-> 0, elapsed |-> 0]
    BY <1>4 DEF Count
  <2>2. CASE keeper' = [keeper EXCEPT !.phase = "waiting"]
    BY <2>1, <2>2 DEF KeeperTyped, KeeperPhases
  <2>3. ASSUME NEW ph \in {"waiting", "walking"},
               keeper' = [phase |-> ph, at |-> 1, probes |-> 0, elapsed |-> 0]
        PROVE  KeeperTyped'
    <3>1. 1 \in 1 .. Len(pool) + 1 /\ 0 <= MaxProbes
      BY <1>0
    <3> QED BY <2>1, <2>3, <3>1 DEF KeeperTyped, KeeperPhases
  <2> QED BY <2>1, <2>2, <2>3
<1>5. CASE Walk
  <2>1. /\ pool' = pool /\ keeper.phase = "walking"
        /\ \/ keeper' = [keeper EXCEPT !.phase = "waiting"]
           \/ /\ keeper.at <= Len(pool)
              /\ \/ keeper' = [keeper EXCEPT !.at = @ + 1]
                 \/ /\ ~(keeper.probes >= MaxProbes)
                    /\ keeper' = [keeper EXCEPT !.phase = "probing", !.probes = @ + 1,
                                                !.elapsed = 0]
    BY <1>5, <1>0 DEF Walk, Exhausted, KeeperTyped
  <2>2. CASE keeper' = [keeper EXCEPT !.phase = "waiting"]
    BY <2>1, <2>2 DEF KeeperTyped, KeeperPhases
  <2>3. CASE keeper.at <= Len(pool) /\ keeper' = [keeper EXCEPT !.at = @ + 1]
    BY <1>0, <2>1, <2>3 DEF KeeperTyped
  <2>4. CASE /\ keeper.at <= Len(pool) /\ ~(keeper.probes >= MaxProbes)
             /\ keeper' = [keeper EXCEPT !.phase = "probing", !.probes = @ + 1,
                                          !.elapsed = 0]
    <3> DEFINE turned == [phase |-> "probing", at |-> keeper.at,
                          probes |-> keeper.probes + 1, elapsed |-> 0]
    <3>0. keeper' = turned
      BY <2>4 DEF KeeperTyped
    <3>1. /\ keeper' \in [phase : KeeperPhases, at : Nat, probes : Nat, elapsed : Nat]
          /\ keeper'.phase = "probing" /\ keeper'.at = keeper.at
          /\ keeper'.probes = keeper.probes + 1
      BY <1>03, <3>0
    <3>2. keeper'.probes <= MaxProbes /\ keeper.at \in 1 .. Len(pool)
      BY <1>0, <2>1, <2>4, <3>1 DEF KeeperTyped
    <3> QED BY <2>1, <3>1, <3>2 DEF KeeperTyped
  <2> QED BY <2>1, <2>2, <2>3, <2>4
<1>6. CASE ProbeSucceeds \/ ProbeFails \/ KeeperWithdraws
  BY <1>6 DEF ProbeSucceeds, ProbeFails, KeeperWithdraws, KeeperTyped, KeeperPhases
<1>7. CASE Mark \/ KeeperForgets
  <2>1. /\ pool' = pool /\ keeper.at \in 1 .. Len(pool)
        /\ keeper' = [keeper EXCEPT !.phase = "walking", !.at = @ + 1]
    BY <1>7 DEF Mark, KeeperForgets, KeeperTyped
  <2> DEFINE turned == [phase |-> "walking", at |-> keeper.at + 1,
                        probes |-> keeper.probes, elapsed |-> keeper.elapsed]
  <2>02. keeper' = turned
    BY <2>1 DEF KeeperTyped
  <2>2. /\ keeper' \in [phase : KeeperPhases, at : Nat, probes : Nat, elapsed : Nat]
        /\ keeper'.phase = "walking" /\ keeper'.at = keeper.at + 1
        /\ keeper'.probes = keeper.probes
    BY <1>03, <2>02
  <2>3. keeper'.at \in 1 .. Len(pool) + 1
    BY <1>0, <2>1, <2>2
  <2> QED BY <2>1, <2>2, <2>3 DEF KeeperTyped
<1>8. CASE Tick
  <2>1. pool' = pool /\ keeper' \in {keeper, [keeper EXCEPT !.elapsed = @ + 1]}
    BY <1>8 DEF Tick
  <2> QED BY <2>1 DEF KeeperTyped
<1> QED BY <1>1, <1>2, <1>3, <1>4, <1>5, <1>6, <1>7, <1>8 DEF Refresh, TopUp

(* The requests. *)

Busy == Phases \ {"idle", "picking"}

\* An attempt moves to x.
Moves(r, x) ==
    /\ request' = [request EXCEPT ![r] = x]
    /\ x \in Attempts /\ (x.phase \in Busy => x.proxy # None)

LEMMA MoveTyped ==
    ASSUME RequestsTyped, NEW r \in Request, NEW x, Moves(r, x)
    PROVE  /\ RequestsTyped' /\ request'[r] = x
           /\ \A q \in Request \ {r} : request'[q] = request[q]
BY DEF RequestsTyped, Moves, Busy

LEMMA Listed ==
    ASSUME RequestsTyped, NEW r \in Request, request[r].phase = "picking",
           Len(request[r].cands) < Len(request[r].list)
    PROVE  /\ Len(request[r].cands) + 1 \in 1 .. Len(request[r].list)
           /\ request[r].list[Len(request[r].cands) + 1] \in Proxy
<1>1. request[r].cands \in Seq(Candidates) /\ request[r].list \in Seq(Proxy)
  BY DEF RequestsTyped, Attempts
<1>2. Len(request[r].cands) + 1 \in 1 .. Len(request[r].list)
  BY <1>1
<1> QED BY <1>1, <1>2

\* What a look makes of an attempt.
Looked(q, c) == [q EXCEPT !.cands = Append(@, c), !.so = Better(@, c)]

LEMMA LookMoves ==
    ASSUME MapsTyped, RequestsTyped, Picked, NEW r \in Request, Look(r)
    PROVE  LET q == request[r]
               c == Candidate(q.list[Len(q.cands) + 1])
           IN /\ c \in Candidates /\ c.proxy = q.list[Len(q.cands) + 1]
              /\ Looked(q, c).list = q.list /\ Looked(q, c).proxy = q.proxy
              /\ Looked(q, c).phase = "picking"
              /\ Looked(q, c).so.best \in {q.so.best, c.proxy}
              /\ Looked(q, c).so.fallback \in {q.so.fallback, c.proxy}
              /\ Right(Looked(q, c).cands, Looked(q, c).so)
              /\ Moves(r, Looked(q, c))
<1> DEFINE q == request[r]
           p == q.list[Len(q.cands) + 1]
           c == Candidate(p)
           x == Looked(q, c)
<1>1. p \in Proxy /\ q.phase = "picking"
  BY Listed DEF Look
<1>2. c \in Candidates /\ c.proxy = p
  BY <1>1, CandidateTyped DEF Candidate
<1>3. q \in Attempts /\ Right(q.cands, q.so)
  BY DEF RequestsTyped, Picked
<1>4. /\ q.cands \in Seq(Candidates)
      /\ q.so \in [best : Maybe, latency : Nat, fallback : Maybe]
  BY <1>3 DEF Attempts
<1>5. request' = [request EXCEPT ![r] = x]
  BY DEF Look, Looked
<1> HIDE DEF q, c
<1>6. /\ Better(q.so, c) \in [best : Maybe, latency : Nat, fallback : Maybe]
      /\ Better(q.so, c).best \in {q.so.best, c.proxy}
      /\ Better(q.so, c).fallback \in {q.so.fallback, c.proxy}
      /\ Right(Append(q.cands, c), Better(q.so, c))
  BY <1>2, <1>3, <1>4, BetterIsRight
<1>7. x.cands = Append(q.cands, c) /\ x.so = Better(q.so, c) /\ x.list = q.list
      /\ x.phase = "picking" /\ x.proxy = q.proxy
  BY <1>1, <1>3 DEF Looked, Attempts
<1>8. Append(q.cands, c) \in Seq(Candidates)
  BY <1>2, <1>4
<1>9. x \in Attempts
  BY <1>3, <1>6, <1>8 DEF Looked, Attempts
<1>10. x.phase \notin Busy
  BY <1>7 DEF Busy
<1> QED BY <1>2, <1>5, <1>6, <1>7, <1>9, <1>10 DEF Moves, q, c

LEMMA AttemptMoves ==
    ASSUME MapsTyped, RequestsTyped, Picked, NEW r \in Request, Attempt(r)
    PROVE  \E x : Moves(r, x)
<1>1. request[r] \in Attempts /\ Unused \in Attempts
  BY UnusedTyped DEF RequestsTyped
<1>2. CASE StartPick(r)
  <2> DEFINE x == [Unused EXCEPT !.phase = "picking", !.list = pool]
  <2>1. x \in Attempts /\ x.phase \notin Busy
    BY <1>1 DEF Attempts, Unused, Phases, Busy, MapsTyped
  <2>2. request' = [request EXCEPT ![r] = x]
    BY <1>2 DEF StartPick
  <2> QED BY <2>1, <2>2 DEF Moves
<1>3. CASE Look(r)
  BY <1>3, LookMoves
<1>4. CASE Choose(r)
  <2> DEFINE p == Chosen(request[r].so)
             y == [Unused EXCEPT !.phase = "connecting", !.proxy = p]
             x == IF p = None THEN Unused ELSE y
  <2>1. p \in Maybe
    BY <1>1 DEF Attempts, Chosen
  <2>2. request' = [request EXCEPT ![r] = x]
    BY <1>4 DEF Choose
  <2> HIDE DEF p
  <2>3. y \in Attempts /\ y.proxy = p
    BY <1>1, <2>1 DEF Attempts, Phases, Unused
  <2>4. Unused.phase \notin Busy
    BY DEF Unused, Busy
  <2>5. x \in Attempts /\ (x.phase \in Busy => x.proxy # None)
    BY <1>1, <2>3, <2>4
  <2> QED BY <2>2, <2>5 DEF Moves
<1>5. ASSUME HeadersArrive(r) \/ ProxyFails(r) \/ Withdraw(r)
      PROVE  \E x : Moves(r, x)
  <2>1. request[r].phase \in Busy
    BY <1>5 DEF HeadersArrive, ProxyFails, Withdraw, Busy, Phases
  <2>2. request[r].proxy # None
    BY <2>1 DEF RequestsTyped, Busy
  <2>3. PICK ph \in Phases : request' = [request EXCEPT ![r].phase = ph]
    BY <1>5 DEF HeadersArrive, ProxyFails, Withdraw, Goes, Phases
  <2> DEFINE x == [request[r] EXCEPT !.phase = ph]
  <2>4. x \in Attempts /\ x.proxy # None
    BY <1>1, <2>2 DEF Attempts
  <2>5. request' = [request EXCEPT ![r] = x]
    BY <2>3
  <2> QED BY <2>4, <2>5 DEF Moves
<1>6. CASE Forget(r) \/ Finish(r)
  <2>1. request' = [request EXCEPT ![r] = Unused]
    BY <1>6 DEF Forget, Finish
  <2>2. Unused.phase \notin Busy
    BY DEF Unused, Busy
  <2> QED BY <1>1, <2>1, <2>2 DEF Moves
<1> QED BY <1>2, <1>3, <1>4, <1>5, <1>6 DEF Attempt, Compute

LEMMA AttemptMapsTyped ==
    ASSUME MapsTyped, RequestsTyped, NEW r \in Request, Attempt(r)
    PROVE  MapsTyped'
<1> DEFINE p == request[r].proxy
<1>1. request[r].phase \in Busy => p \in Proxy
  BY DEF RequestsTyped, Attempts, Maybe, Busy
<1> HIDE DEF p
<1>2. CASE StartPick(r) \/ Look(r) \/ Finish(r)
  BY <1>2 DEF StartPick, Look, Finish, MapsTyped
<1>3. CASE Choose(r)
  <2>1. ready' = ready \/ ready' = Only(ready, ReadyProxies)
    BY <1>3 DEF Choose
  <2>2. DOMAIN ready' \subseteq DOMAIN ready
    BY <2>1, OnlyShrinks
  <2>3. UNCHANGED <<pool, down, latency, stale>>
    BY <1>3 DEF Choose
  <2> QED BY <2>2, <2>3 DEF MapsTyped
<1>4. CASE HeadersArrive(r)
  <2>1. ready' = Put(ready, p, 0) /\ request[r].phase = "connecting"
    BY <1>4 DEF HeadersArrive, p
  <2>2. DOMAIN ready' = DOMAIN ready \cup {p}
    BY <2>1, PutAdds
  <2>3. UNCHANGED <<pool, down, latency, stale>>
    BY <1>4 DEF HeadersArrive
  <2> QED BY <1>1, <2>1, <2>2, <2>3 DEF MapsTyped, Busy, Phases
<1>5. CASE ProxyFails(r)
  <2>1. down' = Put(down, p, DownTime) /\ request[r].phase \in {"connecting", "streaming"}
    BY <1>5 DEF ProxyFails, p
  <2>2. DOMAIN down' = DOMAIN down \cup {p}
    BY <2>1, PutAdds
  <2>3. UNCHANGED <<pool, ready, latency, stale>>
    BY <1>5 DEF ProxyFails
  <2> QED BY <1>1, <2>1, <2>2, <2>3 DEF MapsTyped, Busy, Phases
<1>6. CASE Withdraw(r)
  <2>1. ready' = Drop(ready, p)
    BY <1>6 DEF Withdraw, p
  <2>2. DOMAIN ready' = DOMAIN ready \ {p}
    BY <2>1, DropShrinks
  <2>3. UNCHANGED <<pool, down, latency, stale>>
    BY <1>6 DEF Withdraw
  <2> QED BY <2>2, <2>3 DEF MapsTyped
<1>7. CASE Forget(r)
  <2>1. latency' = Drop(latency, p)
    BY <1>7 DEF Forget, p
  <2>2. /\ DOMAIN latency' = DOMAIN latency \ {p}
        /\ \A x \in DOMAIN latency' : latency'[x] = latency[x]
    BY <2>1, DropShrinks
  <2>3. UNCHANGED <<pool, down, ready, stale>>
    BY <1>7 DEF Forget
  <2> QED BY <2>2, <2>3 DEF MapsTyped
<1> QED BY <1>2, <1>3, <1>4, <1>5, <1>6, <1>7 DEF Attempt, Compute

LEMMA TypeStep == IInv /\ [Next]_vars => Types'
<1> SUFFICES ASSUME IInv, [Next]_vars PROVE Types'
  OBVIOUS
<1>0. MapsTyped /\ KeeperTyped /\ RequestsTyped /\ Picked
  BY DEF IInv, Types
<1>1. CASE Refresh \/ TopUp \/ Tick
  <2>1. request' = request
    BY <1>1 DEF Refresh, TopUp, Tick, Fetched, PruneDown, PruneReady, PruneLatency,
                StartRefresh, StartTopUp, Count, Walk, ProbeSucceeds, Mark, ProbeFails,
                KeeperWithdraws, KeeperForgets
  <2>2. RequestsTyped'
    BY <1>0, <2>1 DEF RequestsTyped
  <2> QED BY <1>0, <1>1, <2>2, KeeperMapsTyped, KeeperKeeperTyped DEF Types
<1>2. ASSUME NEW r \in Request, Attempt(r) PROVE Types'
  <2>1. pool' = pool /\ keeper' = keeper
    BY <1>2 DEF Attempt, Compute, StartPick, Look, Choose, HeadersArrive, ProxyFails,
                Withdraw, Forget, Finish
  <2>2. KeeperTyped'
    BY <1>0, <2>1 DEF KeeperTyped
  <2>3. RequestsTyped'
    BY <1>0, <1>2, AttemptMoves, MoveTyped
  <2> QED BY <1>0, <1>2, <2>2, <2>3, AttemptMapsTyped DEF Types
<1>3. CASE UNCHANGED vars
  BY <1>0, <1>3 DEF vars, Types, MapsTyped, KeeperTyped, RequestsTyped
<1> QED BY <1>1, <1>2, <1>3 DEF Next

----------------------------------------------------------------------------
(* What the maps speak of. *)

\* Nothing new is known, and what is known is not forgotten.
LEMMA KnownStays ==
    ASSUME [Next]_vars, ~\E list \in Lists : Fetched(list)
    PROVE  Known' = Known
<1>1. UNCHANGED <<pool, stale>>
  BY DEF Next, Refresh, TopUp, Tick, PruneDown, PruneReady, PruneLatency,
         StartRefresh, StartTopUp, Count, Walk, ProbeSucceeds, Mark, ProbeFails,
         KeeperWithdraws, KeeperForgets, Attempt, Compute, StartPick, Look, Choose,
         HeadersArrive, ProxyFails, Withdraw, Forget, Finish, vars
<1> QED BY <1>1 DEF Known

LEMMA HeldInit == Init => HeldKnown
BY DEF Init, HeldKnown, Unused, Nothing, ToSet

(* A pick copies the pool and returns what it copied; a refresh notes who   *)
(* still holds what it drops.                                               *)
LEMMA HeldStep == IInv /\ [Next]_vars => HeldKnown'
<1> SUFFICES ASSUME IInv, [Next]_vars PROVE HeldKnown'
  OBVIOUS
<1>0. MapsTyped /\ RequestsTyped /\ HeldKnown /\ Picked
  BY DEF IInv, Types
<1>1. ASSUME NEW list \in Lists, Fetched(list) PROVE HeldKnown'
  <2>1. \A r \in Request : /\ ToSet(request[r].list) \subseteq Held
                            /\ request[r].proxy \in Held \cup {None}
    BY DEF Held
  <2>2. request' = request /\ Held \subseteq Known'
    BY <1>1 DEF Fetched, Known
  <2> QED BY <1>0, <2>1, <2>2 DEF HeldKnown
<1>2. ASSUME request' = request, Known' = Known PROVE HeldKnown'
  BY <1>0, <1>2 DEF HeldKnown
<1>3. ASSUME NEW r \in Request, Attempt(r), Known' = Known PROVE HeldKnown'
  <2> DEFINE Fine(x) == /\ ToSet(x.list) \subseteq Known /\ x.proxy \in Known \cup {None}
                        /\ x.so.best \in ToSet(x.list) \cup {None}
                        /\ x.so.fallback \in ToSet(x.list) \cup {None}
  <2>1. ASSUME NEW x, Moves(r, x), Fine(x) PROVE HeldKnown'
    <3>1. request'[r] = x /\ \A q \in Request \ {r} : request'[q] = request[q]
      BY <1>0, <2>1, MoveTyped
    <3>2. \A q \in Request : Fine(request'[q])
      BY <1>0, <2>1, <3>1 DEF HeldKnown
    <3> QED BY <3>2, <1>3 DEF HeldKnown
  <2>2. Fine(request[r])
    BY <1>0 DEF HeldKnown
  <2>3. PICK x : Moves(r, x)
    BY <1>0, <1>3, AttemptMoves
  <2>4. request'[r] = x /\ request[r] \in Attempts
    BY <1>0, <2>3, MoveTyped DEF RequestsTyped
  <2>5. ToSet(<<>>) = {}
    BY DEF ToSet
  <2>6. CASE StartPick(r)
    <3>1. x = [Unused EXCEPT !.phase = "picking", !.list = pool]
      BY <1>0, <2>4, <2>6 DEF StartPick, RequestsTyped
    <3>2. x.list = pool /\ x.proxy = None /\ x.so.best = None /\ x.so.fallback = None
      BY <3>1 DEF Unused, Nothing
    <3> QED BY <2>1, <2>3, <3>2 DEF Known
  <2>7. CASE Look(r)
    <3> DEFINE c == Candidate(request[r].list[Len(request[r].cands) + 1])
               y == Looked(request[r], c)
    <3>1. /\ y.list = request[r].list /\ y.proxy = request[r].proxy
          /\ y.so.best \in {request[r].so.best, c.proxy}
          /\ y.so.fallback \in {request[r].so.fallback, c.proxy}
          /\ c.proxy = request[r].list[Len(request[r].cands) + 1] /\ Moves(r, y)
      BY <1>0, <2>7, LookMoves
    <3>2. c.proxy \in ToSet(request[r].list)
      BY <1>0, <2>4, <2>7, <3>1, Listed, Members DEF Look, Attempts
    <3> HIDE DEF y, c
    <3> QED BY <2>1, <2>2, <3>1, <3>2
  <2>8. CASE Choose(r)
    <3> DEFINE p == Chosen(request[r].so)
               y == [Unused EXCEPT !.phase = "connecting", !.proxy = p]
    <3>1. x = Unused \/ x = y
      BY <1>0, <2>4, <2>8 DEF Choose, RequestsTyped
    <3>2. p \in Known \cup {None}
      BY <2>2 DEF Chosen
    <3> HIDE DEF p
    <3>3. /\ Unused.list = <<>> /\ Unused.proxy = None /\ Unused.so = Nothing
          /\ y.list = <<>> /\ y.proxy = p /\ y.so = Nothing
      BY DEF Unused
    <3>4. Nothing.best = None /\ Nothing.fallback = None
      BY DEF Nothing
    <3> HIDE DEF y
    <3> QED BY <2>1, <2>3, <2>5, <3>1, <3>2, <3>3, <3>4
  <2>9. CASE HeadersArrive(r) \/ ProxyFails(r) \/ Withdraw(r)
    <3>1. PICK ph : request' = [request EXCEPT ![r].phase = ph]
      BY <2>9 DEF HeadersArrive, ProxyFails, Withdraw, Goes
    <3>2. x = [request[r] EXCEPT !.phase = ph]
      BY <1>0, <2>4, <3>1 DEF RequestsTyped
    <3>3. x.list = request[r].list /\ x.proxy = request[r].proxy /\ x.so = request[r].so
      BY <2>4, <3>2 DEF Attempts
    <3> QED BY <2>1, <2>2, <2>3, <3>3
  <2>10. CASE Forget(r) \/ Finish(r)
    <3>1. x = Unused
      BY <1>0, <2>4, <2>10 DEF Forget, Finish, RequestsTyped
    <3> QED BY <2>1, <2>3, <2>5, <3>1 DEF Unused, Nothing
  <2> QED BY <1>3, <2>6, <2>7, <2>8, <2>9, <2>10 DEF Attempt, Compute
<1>4. CASE Refresh \/ TopUp \/ Tick \/ UNCHANGED vars
  <2>1. request' = request
    BY <1>4 DEF Refresh, TopUp, Tick, Fetched, PruneDown, PruneReady, PruneLatency,
                StartRefresh, StartTopUp, Count, Walk, ProbeSucceeds, Mark, ProbeFails,
                KeeperWithdraws, KeeperForgets, vars
  <2> QED BY <1>1, <1>2, <2>1, KnownStays
<1>5. ASSUME NEW r \in Request, Attempt(r) PROVE HeldKnown'
  <2> QED BY <1>1, <1>3, <1>5, KnownStays
<1> QED BY <1>4, <1>5 DEF Next

Pruning == {"pruning down", "pruning ready", "pruning latency"}

LEMMA KeptInit == Init => NothingKeptOfDropped
BY DEF Init, NothingKeptOfDropped

(* A map is pruned to the pool, and from then on only told of members of    *)
(* the pool and of proxies that were held when it was replaced.             *)
LEMMA KeptStep == IInv /\ [Next]_vars => NothingKeptOfDropped'
<1> SUFFICES ASSUME IInv, [Next]_vars PROVE NothingKeptOfDropped'
  OBVIOUS
<1> DEFINE DownKept == keeper.phase # "pruning down" => DOMAIN down \subseteq Known
           ReadyKept == keeper.phase \notin {"pruning down", "pruning ready"} =>
                            DOMAIN ready \subseteq Known
           LatencyKept == keeper.phase \notin Pruning => DOMAIN latency \subseteq Known
<1>0. MapsTyped /\ KeeperTyped /\ RequestsTyped /\ HeldKnown
  BY DEF IInv, Types
<1>1. DownKept /\ ReadyKept /\ LatencyKept
  BY DEF IInv, NothingKeptOfDropped, Known, Pruning
<1>2. SUFFICES DownKept' /\ ReadyKept' /\ LatencyKept'
  BY DEF NothingKeptOfDropped, Known, Pruning
<1>3. ASSUME NEW list \in Lists, Fetched(list) PROVE DownKept' /\ ReadyKept' /\ LatencyKept'
  BY <1>0, <1>3 DEF Fetched, Keeps, KeeperTyped, Pruning
<1>4. ASSUME ~\E list \in Lists : Fetched(list) PROVE Known' = Known
  BY <1>4, KnownStays
<1> HIDE DEF Known
<1>5. ASSUME PruneDown, Known' = Known PROVE DownKept' /\ ReadyKept' /\ LatencyKept'
  <2>1. DOMAIN down' \subseteq ToSet(pool) /\ keeper'.phase = "pruning ready"
    <3>1. down' = Only(down, {q \in ToSet(pool) : Down(q)})
      BY <1>5 DEF PruneDown
    <3>2. DOMAIN down' = DOMAIN down \cap {q \in ToSet(pool) : Down(q)}
      BY <3>1, OnlyShrinks
    <3>3. keeper'.phase = "pruning ready"
      BY <1>0, <1>5 DEF PruneDown, Keeps, KeeperTyped
    <3> QED BY <3>2, <3>3
  <2> QED BY <1>5, <2>1 DEF Known, Pruning
<1>6. ASSUME PruneReady, Known' = Known PROVE DownKept' /\ ReadyKept' /\ LatencyKept'
  <2>1. DOMAIN ready' \subseteq ToSet(pool) /\ keeper'.phase = "pruning latency"
    <3>1. ready' = Only(ready, ToSet(pool))
      BY <1>6 DEF PruneReady
    <3>2. DOMAIN ready' = DOMAIN ready \cap ToSet(pool)
      BY <3>1, OnlyShrinks
    <3>3. keeper'.phase = "pruning latency"
      BY <1>0, <1>6 DEF PruneReady, Keeps, KeeperTyped
    <3> QED BY <3>2, <3>3
  <2>2. down' = down /\ keeper.phase = "pruning ready" /\ ToSet(pool) \subseteq Known
    BY <1>6 DEF PruneReady, Known
  <2> QED BY <1>1, <1>6, <2>1, <2>2 DEF Pruning
<1>7. ASSUME PruneLatency, Known' = Known PROVE DownKept' /\ ReadyKept' /\ LatencyKept'
  <2>1. latency' = Only(latency, ToSet(pool)) /\ ready' = Only(ready, ReadyProxies)
    BY <1>7 DEF PruneLatency
  <2>02. DOMAIN latency' = DOMAIN latency \cap ToSet(pool)
    BY <2>1, OnlyShrinks
  <2>03. DOMAIN ready' = DOMAIN ready \cap ReadyProxies
    BY <2>1, OnlyShrinks
  <2>2. DOMAIN latency' \subseteq ToSet(pool) /\ DOMAIN ready' \subseteq DOMAIN ready
    BY <2>02, <2>03
  <2>3. down' = down /\ keeper.phase = "pruning latency" /\ ToSet(pool) \subseteq Known
    BY <1>7 DEF PruneLatency, Known
  <2> QED BY <1>1, <1>7, <2>2, <2>3 DEF Pruning
<1>8. ASSUME keeper.phase \notin Pruning, Known' = Known,
             DOMAIN down' \subseteq Known, DOMAIN ready' \subseteq Known,
             DOMAIN latency' \subseteq Known
      PROVE  DownKept' /\ ReadyKept' /\ LatencyKept'
  BY <1>8
<1>9. ASSUME TopUp \/ Tick \/ StartRefresh, Known' = Known
      PROVE  DownKept' /\ ReadyKept' /\ LatencyKept'
  <2> DEFINE p == pool[keeper.at]
  <2>1. keeper.phase \notin Pruning
    BY <1>9 DEF TopUp, Tick, StartRefresh, StartTopUp, Count, Walk, ProbeSucceeds, Mark,
                ProbeFails, KeeperWithdraws, KeeperForgets, Pruning
  <2>2. /\ DOMAIN down \subseteq Known /\ DOMAIN ready \subseteq Known
        /\ DOMAIN latency \subseteq Known
    BY <1>1, <2>1 DEF Pruning
  <2>3. keeper.phase \in {"probing", "marking", "withdrawing", "forgetting"} => p \in Known
    BY <1>0, Members DEF KeeperTyped, MapsTyped, Known
  <2> HIDE DEF p
  <2>4. CASE StartRefresh \/ StartTopUp
    BY <1>8, <1>9, <2>1, <2>2, <2>4 DEF StartRefresh, StartTopUp
  <2>5. CASE Count
    <3>1. ready' = ready \/ ready' = Only(ready, ReadyProxies)
      BY <2>5 DEF Count
    <3>2. DOMAIN ready' \subseteq DOMAIN ready /\ UNCHANGED <<down, latency>>
      BY <2>5, <3>1, OnlyShrinks DEF Count
    <3> QED BY <1>8, <1>9, <2>1, <2>2, <3>2
  <2>6. CASE Walk
    <3>1. /\ ready' = Only(ready, ReadyProxies)
          /\ down' = down \/ \E q : down' = Drop(down, q)
      BY <2>6 DEF Walk
    <3>02. DOMAIN ready' \subseteq DOMAIN ready
      BY <3>1, OnlyShrinks
    <3>03. DOMAIN down' \subseteq DOMAIN down
      BY <3>1, DropShrinks
    <3>2. DOMAIN ready' \subseteq DOMAIN ready /\ DOMAIN down' \subseteq DOMAIN down
      BY <3>02, <3>03
    <3>3. latency' = latency
      BY <2>6 DEF Walk
    <3> QED BY <1>8, <1>9, <2>1, <2>2, <3>2, <3>3
  <2>7. CASE ProbeSucceeds
    <3>1. (\E l : latency' = Put(latency, p, l)) /\ UNCHANGED <<down, ready>> /\ p \in Known
      BY <2>3, <2>7 DEF ProbeSucceeds, p
    <3>2. DOMAIN latency' = DOMAIN latency \cup {p}
      BY <3>1, PutAdds
    <3> QED BY <1>8, <1>9, <2>1, <2>2, <3>1, <3>2
  <2>8. CASE Mark
    <3>1. ready' = Put(ready, p, 0) /\ UNCHANGED <<down, latency>> /\ p \in Known
      BY <2>3, <2>8 DEF Mark, p
    <3>2. DOMAIN ready' = DOMAIN ready \cup {p}
      BY <3>1, PutAdds
    <3> QED BY <1>8, <1>9, <2>1, <2>2, <3>1, <3>2
  <2>9. CASE ProbeFails
    <3>1. down' = Put(down, p, DownTime) /\ UNCHANGED <<ready, latency>> /\ p \in Known
      BY <2>3, <2>9 DEF ProbeFails, p
    <3>2. DOMAIN down' = DOMAIN down \cup {p}
      BY <3>1, PutAdds
    <3> QED BY <1>8, <1>9, <2>1, <2>2, <3>1, <3>2
  <2>10. CASE KeeperWithdraws
    <3>1. ready' = Drop(ready, p) /\ UNCHANGED <<down, latency>>
      BY <2>10 DEF KeeperWithdraws, p
    <3>2. DOMAIN ready' \subseteq DOMAIN ready
      BY <3>1, DropShrinks
    <3> QED BY <1>8, <1>9, <2>1, <2>2, <3>1, <3>2
  <2>11. CASE KeeperForgets
    <3>1. latency' = Drop(latency, p) /\ UNCHANGED <<down, ready>>
      BY <2>11 DEF KeeperForgets, p
    <3>2. DOMAIN latency' \subseteq DOMAIN latency
      BY <3>1, DropShrinks
    <3> QED BY <1>8, <1>9, <2>1, <2>2, <3>1, <3>2
  <2>12. CASE Tick
    <3>1. DOMAIN down' = DOMAIN down /\ DOMAIN ready' = DOMAIN ready /\ latency' = latency
      BY <2>12 DEF Tick
    <3> QED BY <1>8, <1>9, <2>1, <2>2, <3>1
  <2> QED BY <1>9, <2>4, <2>5, <2>6, <2>7, <2>8, <2>9, <2>10, <2>11, <2>12 DEF TopUp
<1>10. ASSUME NEW r \in Request, Attempt(r), Known' = Known
       PROVE  DownKept' /\ ReadyKept' /\ LatencyKept'
  <2> DEFINE p == request[r].proxy
  <2>1. request[r].phase \in Busy => p \in Known
    BY <1>0 DEF HeldKnown, RequestsTyped, Busy
  <2> HIDE DEF p
  <2>2. keeper' = keeper
    BY <1>10 DEF Attempt, Compute, StartPick, Look, Choose, HeadersArrive, ProxyFails,
                 Withdraw, Forget, Finish
  <2>3. ASSUME DOMAIN down' \subseteq DOMAIN down \cup Known,
               DOMAIN ready' \subseteq DOMAIN ready \cup Known,
               DOMAIN latency' \subseteq DOMAIN latency \cup Known
        PROVE  DownKept' /\ ReadyKept' /\ LatencyKept'
    BY <1>1, <1>10, <2>2, <2>3
  <2>4. CASE StartPick(r) \/ Look(r) \/ Finish(r)
    BY <2>3, <2>4 DEF StartPick, Look, Finish
  <2>5. CASE Choose(r)
    <3>1. ready' = ready \/ ready' = Only(ready, ReadyProxies)
      BY <2>5 DEF Choose
    <3>2. DOMAIN ready' \subseteq DOMAIN ready
      BY <3>1, OnlyShrinks
    <3>3. UNCHANGED <<down, latency>>
      BY <2>5 DEF Choose
    <3> QED BY <2>3, <3>2, <3>3
  <2>6. CASE HeadersArrive(r)
    <3>1. ready' = Put(ready, p, 0) /\ UNCHANGED <<down, latency>> /\ p \in Known
      BY <2>1, <2>6 DEF HeadersArrive, p, Busy, Phases
    <3>2. DOMAIN ready' = DOMAIN ready \cup {p}
      BY <3>1, PutAdds
    <3> QED BY <2>3, <3>1, <3>2
  <2>7. CASE ProxyFails(r)
    <3>1. down' = Put(down, p, DownTime) /\ UNCHANGED <<ready, latency>> /\ p \in Known
      BY <2>1, <2>7 DEF ProxyFails, p, Busy, Phases
    <3>2. DOMAIN down' = DOMAIN down \cup {p}
      BY <3>1, PutAdds
    <3> QED BY <2>3, <3>1, <3>2
  <2>8. CASE Withdraw(r)
    <3>1. ready' = Drop(ready, p) /\ UNCHANGED <<down, latency>>
      BY <2>8 DEF Withdraw, p
    <3>2. DOMAIN ready' \subseteq DOMAIN ready
      BY <3>1, DropShrinks
    <3> QED BY <2>3, <3>1, <3>2
  <2>9. CASE Forget(r)
    <3>1. latency' = Drop(latency, p) /\ UNCHANGED <<down, ready>>
      BY <2>9 DEF Forget, p
    <3>2. DOMAIN latency' \subseteq DOMAIN latency
      BY <3>1, DropShrinks
    <3> QED BY <2>3, <3>1, <3>2
  <2> QED BY <1>10, <2>4, <2>5, <2>6, <2>7, <2>8, <2>9 DEF Attempt, Compute
<1>11. ASSUME UNCHANGED vars, Known' = Known PROVE DownKept' /\ ReadyKept' /\ LatencyKept'
  BY <1>1, <1>11 DEF vars
<1> QED
  <2>1. CASE \E list \in Lists : Fetched(list)
    BY <1>3, <2>1
  <2>2. CASE ~\E list \in Lists : Fetched(list)
    <3>1. Known' = Known BY <1>4, <2>2
    <3> HIDE DEF DownKept, ReadyKept, LatencyKept
    <3> QED BY <2>2, <3>1, <1>5, <1>6, <1>7, <1>9, <1>10, <1>11 DEF Next, Refresh
  <2> QED BY <2>1, <2>2

----------------------------------------------------------------------------
(* What a pick finds. *)

LEMMA NothingRight == Right(<<>>, Nothing)
BY DEF Right, Nothing

LEMMA PickedInit == Init => Picked
BY NothingRight DEF Init, Picked, Unused

LEMMA PickedStep == IInv /\ [Next]_vars => Picked'
<1> SUFFICES ASSUME IInv, [Next]_vars PROVE Picked'
  OBVIOUS
<1>0. MapsTyped /\ RequestsTyped /\ Picked
  BY DEF IInv, Types
<1>1. ASSUME request' = request PROVE Picked'
  BY <1>0, <1>1 DEF Picked
<1>2. ASSUME NEW r \in Request, Attempt(r) PROVE Picked'
  <2>1. ASSUME NEW x, Moves(r, x), Right(x.cands, x.so) PROVE Picked'
    <3>1. request'[r] = x /\ \A q \in Request \ {r} : request'[q] = request[q]
      BY <1>0, <2>1, MoveTyped
    <3> QED BY <1>0, <2>1, <3>1 DEF Picked
  <2>2. PICK x : Moves(r, x)
    BY <1>0, <1>2, AttemptMoves
  <2>3. request'[r] = x /\ request[r] \in Attempts
    BY <1>0, <2>2, MoveTyped DEF RequestsTyped
  <2>4. CASE StartPick(r)
    <3>1. x = [Unused EXCEPT !.phase = "picking", !.list = pool]
      BY <1>0, <2>3, <2>4 DEF StartPick, RequestsTyped
    <3>2. x.cands = <<>> /\ x.so = Nothing
      BY <3>1 DEF Unused
    <3> QED BY <2>1, <2>2, <3>2, NothingRight
  <2>5. CASE Look(r)
    BY <1>0, <2>1, <2>5, LookMoves
  <2>6. CASE Choose(r)
    <3> DEFINE y == [Unused EXCEPT !.phase = "connecting", !.proxy = Chosen(request[r].so)]
    <3>1. x = Unused \/ x = y
      BY <1>0, <2>3, <2>6 DEF Choose, RequestsTyped
    <3>2. y.cands = <<>> /\ y.so = Nothing /\ Unused.cands = <<>> /\ Unused.so = Nothing
      BY DEF Unused
    <3> HIDE DEF y
    <3> QED BY <2>1, <2>2, <3>1, <3>2, NothingRight
  <2>7. CASE HeadersArrive(r) \/ ProxyFails(r) \/ Withdraw(r)
    <3>1. PICK ph : request' = [request EXCEPT ![r].phase = ph]
      BY <2>7 DEF HeadersArrive, ProxyFails, Withdraw, Goes
    <3>2. x = [request[r] EXCEPT !.phase = ph]
      BY <1>0, <2>3, <3>1 DEF RequestsTyped
    <3>3. x.cands = request[r].cands /\ x.so = request[r].so
      BY <2>3, <3>2 DEF Attempts
    <3> QED BY <1>0, <2>1, <2>2, <3>3 DEF Picked
  <2>8. CASE Forget(r) \/ Finish(r)
    <3>1. x = Unused
      BY <1>0, <2>3, <2>8 DEF Forget, Finish, RequestsTyped
    <3> QED BY <2>1, <2>2, <3>1, NothingRight DEF Unused
  <2> QED BY <1>2, <2>4, <2>5, <2>6, <2>7, <2>8 DEF Attempt, Compute
<1>3. CASE Refresh \/ TopUp \/ Tick \/ UNCHANGED vars
  <2>1. request' = request
    BY <1>3 DEF Refresh, TopUp, Tick, Fetched, PruneDown, PruneReady, PruneLatency,
                StartRefresh, StartTopUp, Count, Walk, ProbeSucceeds, Mark, ProbeFails,
                KeeperWithdraws, KeeperForgets, vars
  <2> QED BY <1>1, <2>1
<1> QED BY <1>2, <1>3 DEF Next

(* What the loop has found once all are compared is what the comment over   *)
(* pick promises of them.                                                   *)
LEMMA RightIsBest ==
    ASSUME NEW cands \in Seq(Candidates), NEW so, Right(cands, so)
    PROVE  IF Best(cands) = {} THEN Chosen(so) = None ELSE Chosen(so) \in Best(cands)
<1> DEFINE Up(i) == i \in DOMAIN cands /\ ~cands[i].down
           Proven(i) == Up(i) /\ cands[i].ready
           Measured(i) == Proven(i) /\ cands[i].latency # 0
           OK(i) == IF \E j \in DOMAIN cands : Measured(j)
                    THEN Measured(i) /\ \A j \in DOMAIN cands :
                             Measured(j) => cands[i].latency <= cands[j].latency
                    ELSE IF \E j \in DOMAIN cands : Proven(j) THEN Proven(i)
                    ELSE Up(i)
<1>1. Best(cands) = {cands[i].proxy : i \in {j \in DOMAIN cands : OK(j)}}
  BY DEF Best
<1>2. DOMAIN cands = 1 .. Len(cands)
  OBVIOUS
<1>3. \A i \in DOMAIN cands : cands[i].latency \in Nat /\ cands[i].proxy # None
  <2>1. \A i \in DOMAIN cands : cands[i] \in Candidates
    OBVIOUS
  <2>2. None \notin Proxy
    BY PoolAssumption
  <2> QED BY <2>1, <2>2 DEF Candidates
<1>4. CASE so.best # None
  <2>1. PICK i \in DOMAIN cands :
            Proven(i) /\ cands[i].proxy = so.best /\ cands[i].latency = so.latency
    BY <1>2, <1>4 DEF Right
  <2>2. \A j \in DOMAIN cands :
            Measured(j) => so.latency # 0 /\ so.latency <= cands[j].latency
    BY <1>2, <1>4 DEF Right
  <2>3. OK(i)
    BY <2>1, <2>2
  <2> QED BY <1>1, <1>4, <2>1, <2>3 DEF Chosen
<1>5. CASE so.best = None /\ so.fallback # None
  <2>1. PICK i \in DOMAIN cands : Up(i) /\ cands[i].proxy = so.fallback
    BY <1>2, <1>5 DEF Right
  <2>2. \A j \in DOMAIN cands : ~Proven(j)
    BY <1>2, <1>5 DEF Right
  <2>3. OK(i)
    BY <2>1, <2>2
  <2> QED BY <1>1, <1>5, <2>1, <2>3 DEF Chosen
<1>6. CASE so.best = None /\ so.fallback = None
  <2>1. \A j \in DOMAIN cands : ~Up(j)
    BY <1>2, <1>6 DEF Right
  <2>2. \A j \in DOMAIN cands : ~OK(j)
    BY <2>1
  <2> QED BY <1>1, <1>6, <2>2 DEF Chosen
<1> QED BY <1>4, <1>5, <1>6

----------------------------------------------------------------------------
(* The theorems. *)

LEMMA Inductive == Spec => []IInv
<1>1. Init => IInv
  BY TypeInit, HeldInit, KeptInit, PickedInit DEF IInv, Types
<1>2. IInv /\ [Next]_vars => IInv'
  BY TypeStep, HeldStep, KeptStep, PickedStep DEF IInv
<1> QED BY <1>1, <1>2, PTL DEF Spec

(* Every variable keeps its type, and a top-up stays within the pool and    *)
(* within its probes (topUpReady), whatever the sources list and whatever   *)
(* requests report meanwhile.                                               *)
THEOREM TypeCorrect == Spec => []TypeOK
<1>1. IInv => TypeOK
  BY TypesImply DEF IInv
<1> QED BY <1>1, Inductive, PTL

(* Once pruned, the maps speak of members of the pool and of proxies that   *)
(* requests held when the pool was replaced (pruneDroppedProxies, MarkDown, *)
(* markReady): they do not grow for the life of the process.                *)
THEOREM PrunedForGood == Spec => []NothingKeptOfDropped
<1>1. IInv => NothingKeptOfDropped
  BY DEF IInv
<1> QED BY <1>1, Inductive, PTL

(* A pick returns the best of what it saw, in the order of preference that  *)
(* pick documents, for lists and latencies of any size.                     *)
THEOREM PickCorrect == Spec => PickIsBest
<1> DEFINE Leaves(r) == request[r].phase = "picking" /\ request'[r].phase # "picking"
           Served(r) == LET best == Best(request[r].cands) IN
                        IF best = {} THEN request'[r].proxy = None
                        ELSE request'[r].proxy \in best
<1>1. ASSUME IInv, Next, NEW r \in Request, Leaves(r) PROVE Served(r)
  <2>0. MapsTyped /\ RequestsTyped /\ Picked
    BY <1>1 DEF IInv, Types
  <2>1. PICK q \in Request : Attempt(q)
    <3>1. CASE Refresh \/ TopUp \/ Tick
      <4>1. request' = request
        BY <3>1 DEF Refresh, TopUp, Tick, Fetched, PruneDown, PruneReady, PruneLatency,
                    StartRefresh, StartTopUp, Count, Walk, ProbeSucceeds, Mark, ProbeFails,
                    KeeperWithdraws, KeeperForgets
      <4> QED BY <1>1, <4>1
    <3> QED BY <1>1, <3>1 DEF Next
  <2>2. q = r
    <3>1. PICK x : Moves(q, x)
      BY <2>0, <2>1, AttemptMoves
    <3> QED BY <1>1, <2>0, <3>1, MoveTyped
  <2>3. ~Look(r)
    <3> SUFFICES ASSUME Look(r) PROVE FALSE
      OBVIOUS
    <3>1. \E x : Moves(r, x) /\ x.phase = "picking"
      BY <2>0, LookMoves
    <3> QED BY <1>1, <2>0, <3>1, MoveTyped
  <2>4. Choose(r)
    BY <1>1, <2>1, <2>2, <2>3
    DEF Attempt, Compute, StartPick, HeadersArrive, ProxyFails, Withdraw, Forget, Finish
  <2> DEFINE p == Chosen(request[r].so)
             y == [Unused EXCEPT !.phase = "connecting", !.proxy = p]
  <2>5. request'[r] = IF p = None THEN Unused ELSE y
    BY <2>0, <2>4 DEF Choose, RequestsTyped
  <2>6. request[r].cands \in Seq(Candidates) /\ Right(request[r].cands, request[r].so)
    BY <2>0 DEF RequestsTyped, Attempts, Picked
  <2>7. IF Best(request[r].cands) = {} THEN p = None ELSE p \in Best(request[r].cands)
    BY <2>6, RightIsBest
  <2> HIDE DEF p
  <2>8. Unused.proxy = None /\ y.proxy = p
    BY DEF Unused
  <2>9. request'[r].proxy = p
    BY <2>5, <2>8
  <2> QED BY <2>7, <2>9
<1>2. IInv /\ [Next]_vars => [\A r \in Request : Leaves(r) => Served(r)]_vars
  BY <1>1
<1> HIDE DEF Leaves, Served
<1>3. IInv /\ [Next]_vars => [\A r \in Request :
          (request[r].phase = "picking" /\ request'[r].phase # "picking") =>
              LET best == Best(request[r].cands) IN
              IF best = {} THEN request'[r].proxy = None ELSE request'[r].proxy \in best]_vars
  BY <1>2 DEF Leaves, Served
<1> QED BY <1>3, Inductive, PTL DEF Spec, PickIsBest

----------------------------------------------------------------------------
(* The relay of a stream. *)

(* What is read. *)

\* Only a chunk has a part of a call.
Event ==
    {e \in [kind : {"chunk", "garbage", "error", "done"}, text : BOOLEAN,
            call : Index \cup {NoCall}, part : {"none", "name", "args", "whole", "open"}] :
        e.call # NoCall => e.kind = "chunk"}

LEMMA EventTypes ==
    /\ Preamble \in Event /\ TextEvent \in Event /\ ErrorEvent \in Event /\ DoneEvent \in Event
    /\ \A i \in Index, part \in {"name", "args", "whole", "open"} : CallEvent(i, part) \in Event
    /\ ChatEvent \subseteq Event
<1>1. /\ \A text \in BOOLEAN, i \in Index \cup {NoCall},
             part \in {"none", "name", "args", "whole", "open"} : Chunk(text, i, part) \in Event
      /\ \A kind \in {"garbage", "error", "done"} : Special(kind) \in Event
  BY DEF Chunk, Special, Event
<1>2. /\ Preamble \in Event /\ TextEvent \in Event /\ ErrorEvent \in Event /\ DoneEvent \in Event
  BY <1>1 DEF Preamble, TextEvent, ErrorEvent, DoneEvent
<1>3. \A i \in Index, part \in {"name", "args", "whole", "open"} : CallEvent(i, part) \in Event
  BY <1>1 DEF CallEvent
<1>4. /\ \A i \in Index, part \in {"name", "args"} : CallEvent(i, part) \in Event
      /\ \A i \in Index : Chunk(TRUE, i, "name") \in Event
      /\ Special("garbage") \in Event
  BY <1>1, <1>3
<1> HIDE DEF Event
<1>5. ASSUME NEW e \in ChatEvent PROVE e \in Event
  <2>1. \/ e \in {Preamble, TextEvent, Special("garbage"), ErrorEvent, DoneEvent}
        \/ \E i \in Index, part \in {"name", "args"} : e = CallEvent(i, part)
        \/ \E i \in Index : e = Chunk(TRUE, i, "name")
    BY DEF ChatEvent, Chunk, Special, CallEvent, Preamble, TextEvent, ErrorEvent, DoneEvent
  <2> QED BY <1>2, <1>4, <2>1
<1> QED BY <1>2, <1>3, <1>5

LEMMA OneEvent ==
    ASSUME NEW e \in Event
    PROVE  <<e>> \in Seq(Event)
OBVIOUS

(* Every translation of an event consists of events.                        *)
LEMMA TranslationTypes ==
    ASSUME NEW t
    PROVE  /\ \A e \in CommandCodeEvent :
                  (e = "tool" => t.calls \in Index) => FromCommandCode(t, e) \in Seq(Event)
           /\ \A e \in ResponsesEvent : FromResponses(t, e) \in Seq(Event)
<1>1. <<>> \in Seq(Event)
  OBVIOUS
<1>2. ASSUME NEW e \in CommandCodeEvent, e = "tool" => t.calls \in Index
      PROVE  FromCommandCode(t, e) \in Seq(Event)
  <2>1. CASE Fails(t, e)
    BY <2>1, EventTypes, OneEvent DEF FromCommandCode
  <2>2. CASE ~Fails(t, e) /\ e = "text"
    BY <2>2, EventTypes, OneEvent DEF FromCommandCode
  <2>3. CASE ~Fails(t, e) /\ e = "tool"
    <3>1. CallEvent(t.calls, "whole") \in Event
      BY <1>2, <2>3, EventTypes
    <3>2. FromCommandCode(t, e) = <<CallEvent(t.calls, "whole")>>
      BY <2>3 DEF FromCommandCode
    <3> QED BY <3>1, <3>2, OneEvent
  <2>4. CASE ~Fails(t, e) /\ e \in {"reasoning", "finish", "empty finish", "bare finish"}
    BY <2>4, EventTypes, OneEvent DEF FromCommandCode
  <2>5. CASE /\ ~Fails(t, e)
             /\ e \notin {"text", "tool", "reasoning", "finish", "empty finish", "bare finish"}
    BY <2>5, <1>1 DEF FromCommandCode
  <2> QED BY <2>1, <2>2, <2>3, <2>4, <2>5
<1>3. ASSUME NEW e \in ResponsesEvent PROVE FromResponses(t, e) \in Seq(Event)
  <2>1. e.type \in {"item", "arguments"} => e.at \in Index
    BY <1>3 DEF ResponsesEvent
  <2>2. CASE e.type = "text"
    BY <2>2, EventTypes, OneEvent DEF FromResponses
  <2>3. CASE e.type = "item"
    <3>1. FromResponses(t, e) = <<CallEvent(e.at, "name")>>
      BY <2>3 DEF FromResponses
    <3> QED BY <2>1, <2>3, <3>1, EventTypes, OneEvent
  <2>4. CASE e.type = "arguments"
    <3> DEFINE a == IF e.at \in t.opened THEN <<>> ELSE <<CallEvent(e.at, "open")>>
               b == <<CallEvent(e.at, "args")>>
    <3>1. FromResponses(t, e) = a \o b
      BY <2>4 DEF FromResponses
    <3>2. a \in Seq(Event) /\ b \in Seq(Event)
      BY <1>1, <2>1, <2>4, EventTypes, OneEvent
    <3> HIDE DEF a, b
    <3> QED BY <3>1, <3>2
  <2>5. CASE e.type = "terminal"
    BY <2>5, EventTypes, OneEvent DEF FromResponses
  <2>6. CASE e.type \notin {"text", "item", "arguments", "terminal"}
    BY <2>6, <1>1 DEF FromResponses
  <2> QED BY <2>2, <2>3, <2>4, <2>5, <2>6
<1> QED BY <1>2, <1>3

LEMMA LastWordsTypes ==
    ASSUME NEW d, NEW t, NEW words \in LastWords(d, t)
    PROVE  words \in Seq(Event) /\ words # <<>>
<1>1. AtEnd(d, t) \in Seq(Event) /\ AtEnd(d, t) # <<>>
  BY EventTypes, OneEvent DEF AtEnd
<1>2. ASSUME words \in LastLine(d, t) PROVE words \in Seq(Event) /\ words # <<>>
  <2>1. words # <<>>
    BY <1>2 DEF LastLine
  <2>2. CASE d = "commandcode"
    BY <1>2, <2>2, TranslationTypes DEF LastLine
  <2>3. CASE d # "commandcode"
    BY <1>2, <2>3, TranslationTypes DEF LastLine
  <2> QED BY <2>1, <2>2, <2>3
<1> QED BY <1>1, <1>2 DEF LastWords

----------------------------------------------------------------------------
(* The types. *)

Item == [what : {"event", "call", "done"}, of : Nat, parts : Seq(Nat)]

RelayTypeOK ==
    /\ dialect \in Dialects /\ coalesce \in BOOLEAN
    /\ heard \in Seq(Event) /\ body \in {"open", "eof", "broken"}
    /\ phase \in {"reading", "blocked", "handling", "returned"}
    /\ next \in Nat /\ released \in BOOLEAN
    /\ buffered \in Seq(Nat) /\ acc \in Seq(Nat) /\ pending \in [Index -> Seq(Nat)]
    /\ out \in Seq(Item) /\ result \in {"none", "ok", "failed"} /\ begun \in BOOLEAN
    /\ left \in Nat /\ reset \in BOOLEAN /\ watchdog \in BOOLEAN
    /\ closed \in BOOLEAN /\ idle \in BOOLEAN
    /\ deadline \in Nat /\ timer \in {"running", "stopped", "fired"}
    /\ gone \in BOOLEAN /\ quiet \in Nat /\ waited \in Nat

LEMMA EventsTypes ==
    ASSUME NEW ns \in Seq(Nat)
    PROVE  Events(ns) \in Seq(Item) /\ Len(Events(ns)) = Len(ns)
<1> DEFINE s == [k \in 1 .. Len(ns) |-> [what |-> "event", of |-> ns[k], parts |-> <<>>]]
<1>1. Events(ns) = s
  BY DEF Events
<1>2. \A k \in 1 .. Len(ns) : [what |-> "event", of |-> ns[k], parts |-> <<>>] \in Item
  BY DEF Item
<1> QED BY <1>1, <1>2

LEMMA CallItemsTypes ==
    ASSUME RelayTypeOK, NEW calls \in Seq(Index), RelayAssumption
    PROVE  CallItems(calls) \in Seq(Item) /\ Len(CallItems(calls)) = Len(calls)
<1> DEFINE s == [k \in 1 .. Len(calls) |-> CallItem(calls[k])]
<1>1. CallItems(calls) = s
  BY DEF CallItems
<1>2. \A k \in 1 .. Len(calls) : CallItem(calls[k]) \in Item
  <2> TAKE k \in 1 .. Len(calls)
  <2>1. calls[k] \in Index /\ Index \subseteq Nat
    BY RelayAssumption DEF RelayAssumption
  <2>2. pending[calls[k]] \in Seq(Nat)
    BY <2>1 DEF RelayTypeOK
  <2> QED BY <2>1, <2>2 DEF CallItem, Item
<1> HIDE DEF Item
<1> QED BY <1>1, <1>2

LEMMA SortedTypes ==
    ASSUME NEW S, IsFiniteSet(S), NEW s \in Sorted(S)
    PROVE  s \in Seq(S) /\ Len(s) = Cardinality(S)
<1>1. Cardinality(S) \in Nat
  BY FS_CardinalityType
<1> QED BY <1>1 DEF Sorted

LEMMA Concatenated ==
    ASSUME NEW S, NEW s \in Seq(S), NEW t \in Seq(S)
    PROVE  /\ s \o t \in Seq(S) /\ Len(s \o t) = Len(s) + Len(t)
           /\ s \o t = <<>> => s = <<>> /\ t = <<>>
OBVIOUS

LEMMA Beginning ==
    ASSUME NEW S, NEW s \in Seq(S), NEW c \in 0 .. Len(s)
    PROVE  SubSeq(s, 1, c) \in Seq(S) /\ Len(SubSeq(s, 1, c)) = c
BY SubSeqProperties

LEMMA TypesAtFirst ==
    ASSUME RelayInit
    PROVE  RelayTypeOK
<1>1. <<>> \in Seq(Event) /\ <<>> \in Seq(Nat) /\ <<>> \in Seq(Item)
  OBVIOUS
<1> QED BY <1>1, RelayAssumption DEF RelayInit, RelayTypeOK, RelayAssumption

\* What the relay changes is of the right type.
Relayed ==
    /\ phase' \in {"reading", "blocked", "handling", "returned"}
    /\ next' \in Nat /\ released' \in BOOLEAN
    /\ buffered' \in Seq(Nat) /\ acc' \in Seq(Nat) /\ pending' \in [Index -> Seq(Nat)]
    /\ out' \in Seq(Item) /\ result' \in {"none", "ok", "failed"}

\* What a move of the relay can mean to the timers: the attempt is over, the
\* client was served, or neither.
Returns ==
    /\ phase' = "returned" /\ closed' = TRUE /\ reset' \in BOOLEAN
    /\ timer' \in {timer, "stopped"} /\ quiet' \in {quiet, 0}
    /\ UNCHANGED <<left, watchdog, idle, deadline, waited>>

Serves ==
    /\ phase' # "returned" /\ out' # <<>> /\ quiet' = 0
    /\ reset' = (reset \/ ~closed) /\ timer' \in {timer, "stopped"}
    /\ UNCHANGED <<left, watchdog, closed, idle, deadline, waited>>

Silent == phase' # "returned" /\ UNCHANGED <<out, dog, clock>>

RelayMoved == Relayed /\ (Returns \/ Serves \/ Silent)

LEMMA ReturnReturns ==
    ASSUME RelayTypeOK, NEW r, Return(r), quiet' \in {quiet, 0}
    PROVE  Returns
BY DEF Return, Close, Returns, RelayTypeOK

LEMMA ProceedMoves ==
    ASSUME RelayTypeOK, NEW n \in Nat, Proceed(n), n = 0 => out' = out, n # 0 => out' # <<>>
    PROVE  /\ Serves \/ Silent
           /\ next' \in Nat /\ phase' \in {"reading", "handling"} /\ result' = result
<1>1. CASE n = 0
  BY <1>1 DEF Proceed, Progress, Silent, RelayTypeOK
<1>2. CASE n # 0
  BY <1>2 DEF Proceed, Progress, Serves, Marked, RelayTypeOK
<1> QED BY <1>1, <1>2

(* Whatever a write delivers, and wherever it fails.                        *)
LEMMA DeliverFails ==
    ASSUME RelayTypeOK, NEW items \in Seq(Item), NEW text \in Seq(Nat),
           \E c \in Cuts(items) :
              /\ out' = out \o SubSeq(items, 1, c)
              /\ acc' = acc \o (IF c < Len(buffered) THEN buffered ELSE text)
    PROVE  out' \in Seq(Item) /\ acc' \in Seq(Nat)
<1>1. PICK c \in Cuts(items) :
              /\ out' = out \o SubSeq(items, 1, c)
              /\ acc' = acc \o (IF c < Len(buffered) THEN buffered ELSE text)
  OBVIOUS
<1>2. SubSeq(items, 1, c) \in Seq(Item)
  <2>1. c \in 0 .. Len(items)
    BY DEF Cuts
  <2> QED BY <2>1, Beginning
<1>3. out \in Seq(Item) /\ acc \in Seq(Nat) /\ buffered \in Seq(Nat)
  BY DEF RelayTypeOK
<1> HIDE DEF Item
<1> QED BY <1>1, <1>2, <1>3, Concatenated

\* What a delivery changes.
Delivered ==
    /\ out' \in Seq(Item) /\ acc' \in Seq(Nat) /\ next' \in Nat
    /\ phase' \in {"reading", "handling", "returned"} /\ result' \in {"none", "ok", "failed"}

LEMMA DeliverProceeds ==
    ASSUME RelayTypeOK, NEW items \in Seq(Item), NEW text \in Seq(Nat),
           Deliver(items, text, Proceed(Len(items)))
    PROVE  Delivered /\ (Returns \/ Serves \/ Silent)
<1> USE DEF RelayTypeOK
<1>1. CASE out' = out \o items /\ acc' = acc \o text /\ Proceed(Len(items))
  <2>1. out' \in Seq(Item) /\ acc' \in Seq(Nat)
    BY <1>1
  <2>2. Len(items) \in Nat /\ (Len(items) = 0 => out' = out) /\ (Len(items) # 0 => out' # <<>>)
    BY <1>1
  <2> QED BY <1>1, <2>1, <2>2, ProceedMoves DEF Delivered
<1>2. CASE ~(out' = out \o items /\ acc' = acc \o text /\ Proceed(Len(items)))
  <2>1. /\ Return("failed") /\ quiet' = 0 /\ UNCHANGED next
        /\ \E c \in Cuts(items) :
              /\ out' = out \o SubSeq(items, 1, c)
              /\ acc' = acc \o (IF c < Len(buffered) THEN buffered ELSE text)
    BY <1>2 DEF Deliver
  <2>2. out' \in Seq(Item) /\ acc' \in Seq(Nat)
    BY <2>1, DeliverFails
  <2> QED BY <2>1, <2>2, ReturnReturns DEF Delivered, Return
<1> QED BY <1>1, <1>2

LEMMA DeliverFinishes ==
    ASSUME RelayTypeOK, NEW items \in Seq(Item), NEW text \in Seq(Nat),
           Deliver(items, text, Return("ok") /\ quiet' = 0 /\ UNCHANGED next)
    PROVE  Delivered /\ Returns
<1> USE DEF RelayTypeOK
<1>1. CASE /\ out' = out \o items /\ acc' = acc \o text
           /\ Return("ok") /\ quiet' = 0 /\ UNCHANGED next
  BY <1>1, ReturnReturns DEF Delivered, Return
<1>2. CASE ~(/\ out' = out \o items /\ acc' = acc \o text
             /\ Return("ok") /\ quiet' = 0 /\ UNCHANGED next)
  <2>1. /\ Return("failed") /\ quiet' = 0 /\ UNCHANGED next
        /\ \E c \in Cuts(items) :
              /\ out' = out \o SubSeq(items, 1, c)
              /\ acc' = acc \o (IF c < Len(buffered) THEN buffered ELSE text)
    BY <1>2 DEF Deliver
  <2>2. out' \in Seq(Item) /\ acc' \in Seq(Nat)
    BY <2>1, DeliverFails
  <2> QED BY <2>1, <2>2, ReturnReturns DEF Delivered, Return
<1> QED BY <1>1, <1>2

LEMMA ForwardedTypes ==
    ASSUME RelayTypeOK, NEW e
    PROVE  /\ HeldBack \in Seq(Item) /\ Len(HeldBack) = Len(buffered)
           /\ Own(e) \in Seq(Item) /\ Len(Own(e)) \in {0, 1}
           /\ Forwarded(e) \in Seq(Item)
           /\ Merged(e) \in [Index -> Seq(Nat)]
<1>1. HeldBack \in Seq(Item) /\ Len(HeldBack) = Len(buffered)
  BY EventsTypes DEF RelayTypeOK, HeldBack
<1>2. Own(e) \in Seq(Item) /\ Len(Own(e)) \in {0, 1}
  <2>1. <<next>> \in Seq(Nat) /\ Len(<<next>>) = 1
    BY DEF RelayTypeOK
  <2>2. Events(<<next>>) \in Seq(Item) /\ Len(Events(<<next>>)) = 1
    BY <2>1, EventsTypes
  <2> QED BY <2>2 DEF Own
<1>3. Merged(e) \in [Index -> Seq(Nat)]
  <2>1. ASSUME NEW i \in Index PROVE [pending EXCEPT ![i] = Append(@, next)] \in [Index -> Seq(Nat)]
    <3>1. Append(pending[i], next) \in Seq(Nat) /\ pending \in [Index -> Seq(Nat)]
      BY DEF RelayTypeOK
    <3> QED BY <3>1
  <2>2. ASSUME NEW i, i \notin Index PROVE [pending EXCEPT ![i] = Append(@, next)] = pending
    BY <2>2 DEF RelayTypeOK
  <2> QED BY <2>1, <2>2 DEF RelayTypeOK, Merged
<1> HIDE DEF Item
<1> QED BY <1>1, <1>2, <1>3 DEF Forwarded

LEMMA HandleMoves ==
    ASSUME RelayTypeOK, Handle
    PROVE  RelayMoved
<1> USE DEF RelayTypeOK
<1>1. CASE HandleError
  BY <1>1, ReturnReturns DEF HandleError, Return, RelayMoved, Relayed
<1>2. CASE HandleDone
  <2>1. Delivered /\ (Returns \/ Serves \/ Silent)
    BY <1>2, ForwardedTypes, DeliverProceeds DEF HandleDone
  <2> QED BY <1>2, <2>1 DEF HandleDone, Delivered, RelayMoved, Relayed
<1>3. CASE HandleOutput
  <2>1. Append(buffered, next) \in Seq(Nat)
    OBVIOUS
  <2>2. Delivered /\ (Returns \/ Serves \/ Silent)
    BY <1>3, <2>1, ForwardedTypes, DeliverProceeds DEF HandleOutput
  <2> QED BY <1>3, <2>2, ForwardedTypes DEF HandleOutput, Delivered, RelayMoved, Relayed
<1>4. CASE HoldBack
  <2>1. Append(buffered, next) \in Seq(Nat)
    OBVIOUS
  <2> QED BY <1>4, <2>1, ProceedMoves DEF HoldBack, RelayMoved, Relayed
<1> QED BY <1>1, <1>2, <1>3, <1>4 DEF Handle

(* The calls of an answer, in order, are one sequence of them.              *)
LEMMA CallsTypes ==
    ASSUME RelayTypeOK, NEW calls \in Sorted({i \in Index : Complete(i)})
    PROVE  HeldBack \o CallItems(calls) \o <<DoneItem>> \in Seq(Item)
<1> DEFINE S == {i \in Index : Complete(i)}
<1>1. IsFiniteSet(S)
  BY RelayAssumption, FS_Subset DEF RelayAssumption
<1>2. calls \in Seq(Index)
  <2> HIDE DEF S
  <2>1. calls \in Seq(S)
    BY <1>1, SortedTypes DEF S
  <2> QED BY <2>1 DEF S
<1>3. HeldBack \in Seq(Item)
  BY ForwardedTypes
<1>4. CallItems(calls) \in Seq(Item)
  BY <1>2, RelayAssumption, CallItemsTypes
<1>5. DoneItem \in Item
  BY DEF DoneItem, Item
<1> HIDE DEF Item
<1> QED BY <1>3, <1>4, <1>5

LEMMA FinishMoves ==
    ASSUME RelayTypeOK, FinishStream
    PROVE  RelayMoved /\ Returns
<1>1. PICK calls \in Sorted({i \in Index : Complete(i)}) :
          Deliver(HeldBack \o CallItems(calls) \o <<DoneItem>>, buffered,
                  Return("ok") /\ quiet' = 0 /\ UNCHANGED next)
  BY DEF FinishStream
<1>2. Delivered /\ Returns
  BY <1>1, CallsTypes, DeliverFinishes DEF RelayTypeOK
<1> QED BY <1>2 DEF FinishStream, Delivered, RelayMoved, Relayed, RelayTypeOK

LEMMA EnterMoves ==
    ASSUME RelayTypeOK, EnterRead
    PROVE  RelayMoved
<1>1. CASE closed /\ Return("failed")
           /\ UNCHANGED <<next, released, buffered, pending, acc, out, quiet>>
  BY <1>1, ReturnReturns DEF Return, RelayMoved, Relayed, RelayTypeOK
<1>2. CASE phase' = "blocked"
           /\ UNCHANGED <<next, released, buffered, pending, acc, out, result, dog, clock>>
  BY <1>2 DEF RelayMoved, Relayed, Silent, RelayTypeOK
<1> QED BY <1>1, <1>2, FinishMoves DEF EnterRead

LEMMA ReadEndsMoves ==
    ASSUME RelayTypeOK, ReadEnds
    PROVE  RelayMoved /\ heard' \in Seq(Event) /\ body' = body /\ begun' \in BOOLEAN
<1>1. CASE Return("failed")
           /\ UNCHANGED <<upstream, next, released, buffered, pending, acc, out, begun, quiet>>
  BY <1>1, ReturnReturns DEF Return, RelayMoved, Relayed, RelayTypeOK, upstream
<1>2. CASE FinishStream /\ UNCHANGED <<upstream, begun>>
  BY <1>2, FinishMoves DEF upstream, RelayTypeOK
<1>3. CASE /\ \E last \in LastWords(dialect, tr) : heard' = heard \o last
           /\ phase' = "handling" /\ begun' = TRUE
           /\ UNCHANGED <<body, next, released, buffered, pending, acc, out, result, dog, clock>>
  <2>1. heard' \in Seq(Event)
    <3>1. PICK last \in LastWords(dialect, tr) : heard' = heard \o last
      BY <1>3
    <3>2. last \in Seq(Event) /\ heard \in Seq(Event)
      BY LastWordsTypes DEF RelayTypeOK
    <3> HIDE DEF Event
    <3> QED BY <3>1, <3>2
  <2> QED BY <1>3, <2>1 DEF RelayMoved, Relayed, Silent, RelayTypeOK
<1> QED BY <1>1, <1>2, <1>3 DEF ReadEnds

(* What is heard consists of events, whatever the dialect.                  *)
LEMMA HearsEvents ==
    ASSUME RelayTypeOK, Hear
    PROVE  \E events \in Seq(Event) : \E t : Hears(events, t)
<1>1. ASSUME NEW e \in ChatEvent, HearChat(e)
      PROVE  \E events \in Seq(Event) : \E t : Hears(events, t)
  BY <1>1, EventTypes, OneEvent DEF HearChat
<1>2. ASSUME NEW e \in CommandCodeEvent, HearCommandCode(e)
      PROVE  \E events \in Seq(Event) : \E t : Hears(events, t)
  BY <1>2, TranslationTypes DEF HearCommandCode
<1>3. ASSUME NEW e \in ResponsesEvent, HearResponses(e)
      PROVE  \E events \in Seq(Event) : \E t : Hears(events, t)
  BY <1>3, TranslationTypes DEF HearResponses
<1> QED BY <1>1, <1>2, <1>3 DEF Hear

LEMMA HearMoves ==
    ASSUME RelayTypeOK, Hear
    PROVE  /\ RelayMoved /\ heard' \in Seq(Event) /\ body' = body /\ begun' \in BOOLEAN
           /\ UNCHANGED <<dialect, coalesce, gone>>
<1>1. PICK events \in Seq(Event) : \E t : Hears(events, t)
  BY HearsEvents
<1>2. heard' \in Seq(Event)
  <2>1. heard \in Seq(Event) /\ heard' = heard \o events
    BY <1>1 DEF Hears, RelayTypeOK
  <2> HIDE DEF Event
  <2> QED BY <2>1
<1> QED BY <1>1, <1>2 DEF Hears, RelayMoved, Relayed, Silent, RelayTypeOK

(* What the relay does: a move of its own, that never touches the body.     *)
LEMMA RelayMoves ==
    ASSUME RelayTypeOK, Handle \/ EnterRead \/ Hear \/ ReadEnds
    PROVE  /\ RelayMoved /\ heard' \in Seq(Event) /\ phase # "returned"
           /\ UNCHANGED <<dialect, coalesce, body, gone>> /\ begun' \in BOOLEAN
<1>1. CASE Handle
  BY <1>1, HandleMoves DEF Handle, upstream, RelayTypeOK
<1>2. CASE EnterRead
  BY <1>2, EnterMoves DEF EnterRead, upstream, RelayTypeOK
<1>3. CASE Hear
  BY <1>3, HearMoves DEF Hear, HearChat, HearCommandCode, HearResponses, Hears
<1>4. CASE ReadEnds
  BY <1>4, ReadEndsMoves DEF ReadEnds
<1> QED BY <1>1, <1>2, <1>3, <1>4

LEMMA TypesAlways ==
    ASSUME RelayTypeOK, [RelayNext]_relay_vars
    PROVE  RelayTypeOK'
<1> USE DEF RelayTypeOK
<1>1. CASE Handle \/ EnterRead \/ Hear \/ ReadEnds
  <2>1. /\ Relayed /\ (Returns \/ Serves \/ Silent) /\ heard' \in Seq(Event)
        /\ UNCHANGED <<dialect, coalesce, body, gone>> /\ begun' \in BOOLEAN
    BY <1>1, RelayMoves DEF RelayMoved
  <2>2. /\ left' \in Nat /\ reset' \in BOOLEAN /\ watchdog' \in BOOLEAN
        /\ closed' \in BOOLEAN /\ idle' \in BOOLEAN
        /\ deadline' \in Nat /\ timer' \in {"running", "stopped", "fired"}
        /\ quiet' \in Nat /\ waited' \in Nat
    <3>1. CASE Returns
      BY <3>1 DEF Returns
    <3>2. CASE Serves
      BY <3>2 DEF Serves
    <3>3. CASE Silent
      BY <3>3 DEF Silent, dog, clock
    <3> QED BY <2>1, <3>1, <3>2, <3>3
  <2> QED BY <2>1, <2>2 DEF Relayed
<1>2. ASSUME NEW how \in {"eof", "broken"}, UpstreamEnds(how) PROVE RelayTypeOK'
  BY <1>2 DEF UpstreamEnds, relay, dog, clock
<1>3. CASE Watchdog
  <2>1. CASE Bark
    <3>1. UNCHANGED <<dialect, coalesce, heard, gone>> /\ UNCHANGED relay /\ UNCHANGED clock
      BY <1>3 DEF Watchdog
    <3>2. /\ watchdog' \in BOOLEAN /\ closed' \in BOOLEAN /\ idle' \in BOOLEAN
          /\ UNCHANGED <<left, reset>> /\ body' \in {body, "broken"}
      BY <2>1 DEF Bark, Broken
    <3> QED BY <3>1, <3>2 DEF relay, clock
  <2>2. CASE Rewind
    <3>1. NewWindow \in Nat
      BY RelayAssumption DEF RelayAssumption, NewWindow
    <3>2. UNCHANGED <<dialect, coalesce, heard, gone>> /\ UNCHANGED relay /\ UNCHANGED clock
      BY <1>3 DEF Watchdog
    <3>3. /\ reset' \in BOOLEAN /\ watchdog' \in BOOLEAN /\ left' \in Nat
          /\ UNCHANGED <<body, closed, idle>>
      BY <2>2, <3>1 DEF Rewind
    <3> QED BY <3>2, <3>3 DEF relay, clock
  <2> QED BY <1>3, <2>1, <2>2 DEF Watchdog
<1>4. CASE DeadlineFires
  BY <1>4 DEF DeadlineFires, Broken, relay, dog
<1>5. CASE ClientLeaves
  BY <1>5 DEF ClientLeaves, Broken, relay, dog, clock
<1>6. CASE TimePasses
  BY <1>6 DEF TimePasses, Waiting, upstream, relay
<1>7. CASE UNCHANGED relay_vars
  BY <1>7 DEF relay_vars, upstream, relay, dog, clock
<1> QED BY <1>1, <1>2, <1>3, <1>4, <1>5, <1>6, <1>7 DEF RelayNext, Returned

----------------------------------------------------------------------------
(* The timers. *)

\* While the reader is open the watchdog waits, and unless a reset is on its
\* way its timer has what is left of the window since the last write.
WindowIsOpen ==
    /\ watchdog /\ left + waited >= MaxIdle
    /\ IF reset THEN quiet = 0 ELSE quiet + left = MaxIdle

\* Before the attempt returns only the watchdog closes the reader.
ClosedForSilence == idle /\ (Closable => body # "open")

\* Until the first write the deadline runs, or it has ended the read.
FirstOutputIsDue ==
    \/ timer = "running" /\ quiet + deadline <= Timeout
    \/ timer = "fired" /\ body # "open" /\ quiet <= Timeout

Clocked ==
    /\ phase = "returned" => closed
    /\ ~closed => WindowIsOpen
    /\ phase # "returned" =>
          /\ closed => ClosedForSilence
          /\ Closable => quiet <= MaxIdle
          /\ out = <<>> => FirstOutputIsDue

LEMMA ClockedAtFirst ==
    ASSUME RelayInit
    PROVE  Clocked
<1>1. MaxIdle \in Nat /\ Timeout \in Nat
  BY RelayAssumption DEF RelayAssumption
<1> QED BY <1>1 DEF RelayInit, Clocked, WindowIsOpen, FirstOutputIsDue

LEMMA ClockedAlways ==
    ASSUME RelayTypeOK, Clocked, [RelayNext]_relay_vars
    PROVE  Clocked'
<1> USE DEF RelayTypeOK
<1>0. MaxIdle \in Nat /\ Timeout \in Nat
  BY RelayAssumption DEF RelayAssumption
<1>1. CASE Handle \/ EnterRead \/ Hear \/ ReadEnds
  <2>1. Returns \/ Serves \/ Silent
    BY <1>1, RelayMoves DEF RelayMoved
  <2>2. phase # "returned" /\ UNCHANGED <<dialect, body>>
    BY <1>1, RelayMoves
  <2>3. CASE Returns
    BY <2>3 DEF Returns, Clocked
  <2>4. CASE Serves
    <3>1. out' # <<>> /\ quiet' = 0 /\ (~closed => reset') /\ phase' # "returned"
          /\ UNCHANGED <<left, watchdog, closed, idle, waited>>
      BY <2>4 DEF Serves
    <3>2. ~closed' => WindowIsOpen'
      BY <3>1 DEF Clocked, WindowIsOpen
    <3>3. closed' => ClosedForSilence'
      BY <2>2, <3>1 DEF Clocked, ClosedForSilence, Closable
    <3> QED BY <1>0, <3>1, <3>2, <3>3 DEF Clocked
  <2>5. CASE Silent
    BY <2>2, <2>5
       DEF Silent, dog, clock, Clocked, WindowIsOpen, ClosedForSilence, FirstOutputIsDue, Closable
  <2> QED BY <2>1, <2>3, <2>4, <2>5
<1>2. ASSUME body' # "open", UNCHANGED <<dialect, relay, dog, clock>> PROVE Clocked'
  BY <1>2 DEF relay, dog, clock, Clocked, WindowIsOpen, ClosedForSilence, FirstOutputIsDue, Closable
<1>3. ASSUME NEW how \in {"eof", "broken"}, UpstreamEnds(how) PROVE Clocked'
  BY <1>2, <1>3 DEF UpstreamEnds
<1>4. CASE ClientLeaves
  BY <1>2, <1>4 DEF ClientLeaves, Broken
<1>5. CASE Bark /\ Watchdog
  <2>1. /\ closed' /\ watchdog' = FALSE
        /\ closed => UNCHANGED <<idle, body>>
        /\ ~closed => idle' /\ (Closable => body' # "open")
        /\ body # "open" => body' # "open"
    BY <1>5 DEF Bark, Broken
  <2>2. UNCHANGED <<dialect, relay, clock>>
    BY <1>5 DEF Watchdog
  <2>3. phase # "returned" => ClosedForSilence'
    BY <2>1, <2>2 DEF Clocked, ClosedForSilence, Closable, relay
  <2>4. FirstOutputIsDue => FirstOutputIsDue'
    BY <2>1, <2>2 DEF FirstOutputIsDue, clock
  <2> QED BY <2>1, <2>2, <2>3, <2>4 DEF Clocked, relay, clock, Closable
<1>6. CASE Rewind /\ Watchdog
  <2>1. UNCHANGED <<dialect, relay, clock, closed, idle, body>>
    BY <1>6 DEF Rewind, Watchdog
  <2>2. ~closed => WindowIsOpen'
    BY <1>0, <1>6, <2>1 DEF Rewind, NewWindow, Clocked, WindowIsOpen, clock
  <2> QED BY <2>1, <2>2 DEF relay, clock, Clocked, ClosedForSilence, FirstOutputIsDue, Closable
<1>7. CASE DeadlineFires
  <2>1. body' # "open" /\ timer = "running" /\ deadline = 0 /\ timer' = "fired"
        /\ UNCHANGED <<dialect, relay, dog, quiet, waited>>
    BY <1>7 DEF DeadlineFires, Broken
  <2>2. FirstOutputIsDue => FirstOutputIsDue'
    BY <1>0, <2>1 DEF FirstOutputIsDue
  <2> QED BY <2>1, <2>2 DEF relay, dog, Clocked, WindowIsOpen, ClosedForSilence, Closable
<1>8. CASE TimePasses
  <2>1. /\ phase = "blocked" /\ body = "open"
        /\ watchdog => left > 0 /\ ~reset
        /\ timer = "running" => deadline > 0
        /\ quiet' = quiet + 1 /\ waited' = quiet + 1
        /\ left' = IF watchdog THEN left - 1 ELSE left
        /\ deadline' = IF timer = "running" THEN deadline - 1 ELSE deadline
        /\ UNCHANGED <<dialect, body, relay, reset, watchdog, closed, idle, timer>>
    BY <1>8 DEF TimePasses, Waiting, upstream
  <2>2. ~closed => /\ WindowIsOpen' /\ quiet' <= MaxIdle
    BY <1>0, <2>1 DEF Clocked, WindowIsOpen
  <2>3. Closable => ~closed
    BY <2>1 DEF Clocked, ClosedForSilence
  <2>4. out = <<>> => FirstOutputIsDue'
    BY <1>0, <2>1 DEF Clocked, FirstOutputIsDue
  <2> QED BY <2>1, <2>2, <2>3, <2>4 DEF Clocked, ClosedForSilence, Closable, relay
<1>9. CASE UNCHANGED relay_vars
  BY <1>9 DEF relay_vars, upstream, relay, dog, clock, Clocked, WindowIsOpen, ClosedForSilence,
              FirstOutputIsDue, Closable
<1> QED
  BY <1>1, <1>3, <1>4, <1>5, <1>6, <1>7, <1>8, <1>9 DEF RelayNext, Watchdog, Returned

----------------------------------------------------------------------------
(* Increasing sequences of places. *)

LEMMA PlacesOf ==
    ASSUME NEW s \in Seq(Nat)
    PROVE  /\ ToSet(s) = {s[k] : k \in 1 .. Len(s)} /\ ToSet(s) \subseteq Nat
           /\ DOMAIN s = 1 .. Len(s) /\ Len(s) \in Nat
BY DEF ToSet

LEMMA JoinedPlaces ==
    ASSUME NEW s \in Seq(Nat), NEW t \in Seq(Nat)
    PROVE  /\ s \o t \in Seq(Nat) /\ ToSet(s \o t) = ToSet(s) \cup ToSet(t)
           /\ Increasing(s \o t) <=>
                  /\ Increasing(s) /\ Increasing(t)
                  /\ \A m \in ToSet(s), n \in ToSet(t) : m < n
<1> DEFINE w == s \o t
<1>1. /\ w \in Seq(Nat) /\ Len(w) = Len(s) + Len(t) /\ Len(s) \in Nat /\ Len(t) \in Nat
      /\ \A k \in 1 .. Len(s) : w[k] = s[k]
      /\ \A k \in 1 .. Len(t) : w[Len(s) + k] = t[k]
      /\ \A k \in 1 .. Len(w) :
            \/ k \in 1 .. Len(s)
            \/ k - Len(s) \in 1 .. Len(t) /\ w[k] = t[k - Len(s)]
  OBVIOUS
<1>2. /\ DOMAIN w = 1 .. Len(w) /\ DOMAIN s = 1 .. Len(s) /\ DOMAIN t = 1 .. Len(t)
      /\ \A k \in 1 .. Len(s) : s[k] \in Nat
      /\ \A k \in 1 .. Len(t) : t[k] \in Nat
  BY <1>1
<1>3. /\ ToSet(w) = {w[k] : k \in 1 .. Len(w)}
      /\ ToSet(s) = {s[k] : k \in 1 .. Len(s)}
      /\ ToSet(t) = {t[k] : k \in 1 .. Len(t)}
  BY <1>1, PlacesOf
<1> HIDE DEF w
<1>4. ToSet(w) = ToSet(s) \cup ToSet(t)
  <2>1. \A k \in 1 .. Len(t) : Len(s) + k \in 1 .. Len(w)
    BY <1>1
  <2>2. \A k \in 1 .. Len(s) : k \in 1 .. Len(w)
    BY <1>1
  <2> QED BY <1>1, <1>3, <2>1, <2>2
<1>5. ASSUME Increasing(w)
      PROVE  Increasing(s) /\ Increasing(t) /\ \A m \in ToSet(s), n \in ToSet(t) : m < n
  <2>1. Increasing(s)
    BY <1>1, <1>2, <1>5 DEF Increasing
  <2>2. ASSUME NEW j \in 1 .. Len(t), NEW k \in 1 .. Len(t), j < k PROVE t[j] < t[k]
    <3>1. /\ Len(s) + j \in 1 .. Len(w) /\ Len(s) + k \in 1 .. Len(w)
          /\ Len(s) + j < Len(s) + k
      BY <1>1, <2>2
    <3> QED BY <1>1, <1>2, <1>5, <3>1 DEF Increasing
  <2>3. ASSUME NEW j \in 1 .. Len(s), NEW k \in 1 .. Len(t) PROVE s[j] < t[k]
    <3>1. /\ j \in 1 .. Len(w) /\ Len(s) + k \in 1 .. Len(w) /\ j < Len(s) + k
      BY <1>1
    <3> QED BY <1>1, <1>2, <1>5, <3>1 DEF Increasing
  <2>4. Increasing(t)
    BY <1>2, <2>2 DEF Increasing
  <2> QED BY <1>3, <2>1, <2>3, <2>4
<1>6. ASSUME Increasing(s), Increasing(t), \A m \in ToSet(s), n \in ToSet(t) : m < n
      PROVE  Increasing(w)
  <2> SUFFICES ASSUME NEW j \in 1 .. Len(w), NEW k \in 1 .. Len(w), j < k PROVE w[j] < w[k]
    BY <1>2 DEF Increasing
  <2>1. CASE j \in 1 .. Len(s) /\ k \in 1 .. Len(s)
    BY <1>1, <1>2, <1>6, <2>1 DEF Increasing
  <2>2. CASE j \in 1 .. Len(s) /\ k \notin 1 .. Len(s)
    BY <1>1, <1>3, <1>6, <2>2
  <2>3. CASE j \notin 1 .. Len(s)
    <3>1. /\ j - Len(s) \in 1 .. Len(t) /\ w[j] = t[j - Len(s)]
      BY <1>1, <2>3
    <3>2. k \notin 1 .. Len(s)
      BY <1>1, <2>3
    <3>3. k - Len(s) \in 1 .. Len(t) /\ w[k] = t[k - Len(s)]
      BY <1>1, <3>2
    <3>4. j - Len(s) < k - Len(s)
      BY <1>1
    <3> QED BY <1>2, <1>6, <3>1, <3>3, <3>4 DEF Increasing
  <2> QED BY <2>1, <2>2, <2>3
<1> QED BY <1>1, <1>4, <1>5, <1>6 DEF w

LEMMA OnePlace ==
    ASSUME NEW n \in Nat
    PROVE  <<n>> \in Seq(Nat) /\ Increasing(<<n>>) /\ ToSet(<<n>>) = {n}
<1> DEFINE s == <<n>>
<1>1. s \in Seq(Nat) /\ Len(s) = 1 /\ s[1] = n
  OBVIOUS
<1> HIDE DEF s
<1>2. ToSet(s) = {n}
  BY <1>1, PlacesOf
<1>3. Increasing(s)
  BY <1>1, PlacesOf DEF Increasing
<1> QED BY <1>1, <1>2, <1>3 DEF s

LEMMA NoPlace ==
    <<>> \in Seq(Nat) /\ Increasing(<<>>) /\ ToSet(<<>>) = {}
<1> DEFINE s == <<>>
<1>1. s \in Seq(Nat) /\ Len(s) = 0
  OBVIOUS
<1> HIDE DEF s
<1>0. 1 .. 0 = {}
  OBVIOUS
<1>2. DOMAIN s = {} /\ ToSet(s) = {}
  <2>1. DOMAIN s = 1 .. 0
    BY <1>1, PlacesOf
  <2>2. ToSet(s) = {s[k] : k \in 1 .. 0}
    BY <1>1, PlacesOf
  <2> QED BY <1>0, <2>1, <2>2
<1>3. Increasing(s)
  BY <1>2 DEF Increasing
<1> QED BY <1>1, <1>2, <1>3 DEF s

(* One more place behind the others.                                        *)
LEMMA OneMorePlace ==
    ASSUME NEW s \in Seq(Nat), NEW n \in Nat, Increasing(s), \A m \in ToSet(s) : m < n
    PROVE  /\ s \o <<n>> \in Seq(Nat) /\ Append(s, n) = s \o <<n>>
           /\ Increasing(s \o <<n>>) /\ ToSet(s \o <<n>>) = ToSet(s) \cup {n}
<1>1. Append(s, n) = s \o <<n>>
  OBVIOUS
<1> DEFINE t == <<n>>
<1>2. t \in Seq(Nat) /\ Increasing(t) /\ ToSet(t) = {n}
  BY OnePlace
<1> HIDE DEF t
<1>3. s \o t \in Seq(Nat) /\ Increasing(s \o t) /\ ToSet(s \o t) = ToSet(s) \cup {n}
  BY <1>2, JoinedPlaces
<1> QED BY <1>1, <1>3 DEF t

----------------------------------------------------------------------------
(* What was sent, and what was noted for a replay. *)

VisibleAt(n) ==
    heard[n].kind \in {"chunk", "garbage"} /\ ~(coalesce /\ ToolDeltaOnly(heard[n]))

EventItem(n) == [what |-> "event", of |-> n, parts |-> <<>>]

\* The client was sent the events s, the calls cs and d sentinels, in this order.
Laid(s, cs, d) ==
    /\ Len(out) = Len(s) + Len(cs) + d
    /\ \A k \in 1 .. Len(s) : out[k] = EventItem(s[k])
    /\ \A k \in 1 .. Len(cs) : out[Len(s) + k] = CallItem(cs[k])
    /\ d = 1 => out[Len(out)] = DoneItem

\* The parts of a call that were put aside are the parts handled so far.
Gathered(i) ==
    IF coalesce
    THEN /\ Increasing(pending[i])
         /\ ToSet(pending[i]) = {n \in 1 .. next - 1 : heard[n].call = i}
    ELSE pending[i] = <<>>

\* The relay's place in the answer.
InPlace ==
    /\ next \in 1 .. Len(heard) + 1
    /\ phase # "returned" => (phase = "handling" <=> next <= Len(heard))
    /\ result = "none" <=> phase # "returned"

\* While the relay runs: the events sent and then those held back are what is
\* visible of the events handled; what is noted has the text of what was sent.
SendingAs(told) ==
    /\ Laid(told, <<>>, 0)
    /\ Increasing(told \o buffered)
    /\ ToSet(told \o buffered) = {n \in 1 .. next - 1 : VisibleAt(n)}
    /\ Increasing(acc \o buffered) /\ ToSet(acc \o buffered) \subseteq 1 .. next - 1
    /\ TextOf(ToSet(told)) = TextOf(ToSet(acc)) /\ TextOf(ToSet(buffered)) = {}

Sending == (\E told \in Seq(Nat) : SendingAs(told)) /\ \A i \in Index : Gathered(i)

\* Once it has returned: a beginning of the answer, or all of it.
SentAs(s, cs, d) ==
    /\ Laid(s, cs, d)
    /\ Increasing(s) /\ Begins(ToSet(s), Visible) /\ Increasing(acc)
    /\ Begins(TextOf(ToSet(s)), TextOf(ToSet(acc)))
    /\ ~gone => TextOf(ToSet(s)) = TextOf(ToSet(acc))
    /\ Increasing(cs)
    /\ \A k \in 1 .. Len(cs) :
          Increasing(pending[cs[k]]) /\ ToSet(pending[cs[k]]) = PartsOf(cs[k])
    /\ d = 1 <=> result = "ok"
    /\ result = "ok" =>
          /\ ToSet(s) = Visible
          /\ coalesce => ToSet(cs) = {i \in Index : \E n \in PartsOf(i) : Names(heard[n])}

Final == \E s \in Seq(Nat), cs \in Seq(Index), d \in {0, 1} : SentAs(s, cs, d)

Accounted == InPlace /\ IF phase = "returned" THEN Final ELSE Sending

----------------------------------------------------------------------------
(* What it means for the properties. *)

LEMMA ByKind ==
    ASSUME RelayTypeOK, NEW s \in Seq(Nat), NEW cs \in Seq(Index), NEW d \in {0, 1},
           Laid(s, cs, d)
    PROVE  /\ At("event") = 1 .. Len(s)
           /\ At("call") = Len(s) + 1 .. Len(s) + Len(cs)
           /\ At("done") = IF d = 1 THEN {Len(out)} ELSE {}
           /\ Sent = ToSet(s)
           /\ \A k \in 1 .. Len(s) : out[k].of = s[k]
           /\ \A k \in 1 .. Len(cs) :
                 out[Len(s) + k].of = cs[k] /\ out[Len(s) + k].parts = pending[cs[k]]
<1>1. DOMAIN out = 1 .. Len(out) /\ Len(out) = Len(s) + Len(cs) + d
      /\ Len(s) \in Nat /\ Len(cs) \in Nat
  BY DEF RelayTypeOK, Laid
<1>2. \A k \in 1 .. Len(s) : out[k].what = "event" /\ out[k].of = s[k]
  <2>1. \A n : EventItem(n).what = "event" /\ EventItem(n).of = n
    BY DEF EventItem
  <2> QED BY <2>1 DEF Laid
<1>3. \A k \in 1 .. Len(cs) :
         /\ out[Len(s) + k].what = "call" /\ out[Len(s) + k].of = cs[k]
         /\ out[Len(s) + k].parts = pending[cs[k]]
  <2>1. \A i : CallItem(i).what = "call" /\ CallItem(i).of = i /\ CallItem(i).parts = pending[i]
    BY DEF CallItem
  <2> QED BY <2>1 DEF Laid
<1>4. d = 1 => out[Len(out)].what = "done"
  <2>1. DoneItem.what = "done"
    BY DEF DoneItem
  <2> QED BY <2>1 DEF Laid
<1>5. \A k \in DOMAIN out :
         \/ k \in 1 .. Len(s)
         \/ k \in Len(s) + 1 .. Len(s) + Len(cs)
         \/ d = 1 /\ k = Len(out)
  BY <1>1
<1>6. \A k \in Len(s) + 1 .. Len(s) + Len(cs) : out[k].what = "call"
  <2> TAKE k \in Len(s) + 1 .. Len(s) + Len(cs)
  <2>1. k - Len(s) \in 1 .. Len(cs) /\ Len(s) + (k - Len(s)) = k
    BY <1>1
  <2> QED BY <1>3, <2>1
<1>7. At("event") = 1 .. Len(s)
  BY <1>1, <1>2, <1>4, <1>5, <1>6 DEF At
<1>8. At("call") = Len(s) + 1 .. Len(s) + Len(cs)
  BY <1>1, <1>2, <1>4, <1>5, <1>6 DEF At
<1>9. At("done") = IF d = 1 THEN {Len(out)} ELSE {}
  <2>1. d = 1 => Len(out) \in DOMAIN out
    BY <1>1
  <2> QED BY <1>2, <1>4, <1>5, <1>6, <2>1 DEF At
<1>10. Sent = ToSet(s)
  BY <1>2, <1>7, PlacesOf DEF Sent
<1> QED BY <1>2, <1>3, <1>7, <1>8, <1>9, <1>10

LEMMA InOrder ==
    ASSUME RelayTypeOK, NEW s \in Seq(Nat), NEW cs \in Seq(Index), NEW d \in {0, 1},
           Laid(s, cs, d), Increasing(s)
    PROVE  SentInOrder
<1>1. At("event") = DOMAIN s /\ \A k \in DOMAIN s : out[k].of = s[k]
  BY ByKind, PlacesOf
<1> QED BY <1>1 DEF SentInOrder, Increasing

LEMMA FinalTells ==
    ASSUME RelayTypeOK, Final, phase = "returned"
    PROVE  ReplayIsWhatClientHas /\ WholeAnswer
<1>1. PICK s \in Seq(Nat), cs \in Seq(Index), d \in {0, 1} : SentAs(s, cs, d)
  BY DEF Final
<1>2. /\ Laid(s, cs, d) /\ Increasing(s) /\ Begins(ToSet(s), Visible) /\ Increasing(acc)
      /\ Begins(TextOf(ToSet(s)), TextOf(ToSet(acc)))
      /\ ~gone => TextOf(ToSet(s)) = TextOf(ToSet(acc))
      /\ d = 1 <=> result = "ok"
  BY <1>1 DEF SentAs
<1>3. ReplayIsWhatClientHas
  BY <1>2, ByKind, InOrder DEF ReplayIsWhatClientHas
<1>4. EventsInOrder
  BY <1>1, <1>2, ByKind, InOrder DEF EventsInOrder, SentAs
<1>5. CallsComeWhole
  <2>0. Len(s) \in Nat /\ Len(cs) \in Nat /\ cs \in Seq(Nat)
    <3>1. Index \subseteq Nat
      BY RelayAssumption DEF RelayAssumption
    <3>2. /\ Len(cs) \in Nat /\ cs = [k \in 1 .. Len(cs) |-> cs[k]]
          /\ \A k \in 1 .. Len(cs) : cs[k] \in Index
      OBVIOUS
    <3> QED BY <3>1, <3>2
  <2>1. At("done") = IF result = "ok" THEN {Len(out)} ELSE {}
    BY <1>2, ByKind
  <2>2. \A j \in At("event"), k \in At("call") : j < k
    BY <1>2, <2>0, ByKind
  <2>3. \A k \in At("call") :
           /\ k - Len(s) \in 1 .. Len(cs)
           /\ out[k].of = cs[k - Len(s)] /\ out[k].parts = pending[cs[k - Len(s)]]
    <3> TAKE k \in At("call")
    <3>1. k \in Len(s) + 1 .. Len(s) + Len(cs)
      BY <1>2, ByKind
    <3>2. k - Len(s) \in 1 .. Len(cs) /\ Len(s) + (k - Len(s)) = k
      BY <2>0, <3>1
    <3> QED BY <1>2, <3>2, ByKind
  <2>4. \A j, k \in At("call") : j < k => out[j].of < out[k].of
    <3> SUFFICES ASSUME NEW j \in At("call"), NEW k \in At("call"), j < k
                 PROVE  out[j].of < out[k].of
      OBVIOUS
    <3>1. j - Len(s) < k - Len(s)
      <4>1. j \in Nat /\ k \in Nat
        BY <1>2, <2>0, ByKind
      <4> QED BY <2>0, <4>1
    <3>2. Increasing(cs) /\ DOMAIN cs = 1 .. Len(cs)
      BY <1>1 DEF SentAs
    <3> QED BY <2>3, <3>1, <3>2 DEF Increasing
  <2>5. \A j \in At("call") :
           Increasing(out[j].parts) /\ ToSet(out[j].parts) = PartsOf(out[j].of)
    BY <1>1, <2>3 DEF SentAs
  <2>6. {out[j].of : j \in At("call")} = ToSet(cs)
    <3>1. ToSet(cs) = {cs[k] : k \in 1 .. Len(cs)}
      BY <2>0, PlacesOf
    <3>2. ASSUME NEW k \in 1 .. Len(cs)
          PROVE  Len(s) + k \in At("call") /\ out[Len(s) + k].of = cs[k]
      BY <1>2, <2>0, ByKind
    <3> QED BY <2>3, <3>1, <3>2
  <2>7. coalesce /\ result = "ok" =>
           {out[j].of : j \in At("call")} = {i \in Index : \E n \in PartsOf(i) : Names(heard[n])}
    BY <1>1, <2>6 DEF SentAs
  <2> QED BY <2>1, <2>2, <2>4, <2>5, <2>7 DEF CallsComeWhole
<1> QED BY <1>3, <1>4, <1>5 DEF WholeAnswer

----------------------------------------------------------------------------
(* Items written. *)

LEMMA JoinedAt ==
    ASSUME NEW S, NEW s \in Seq(S), NEW t \in Seq(S)
    PROVE  /\ s \o t \in Seq(S) /\ Len(s \o t) = Len(s) + Len(t)
           /\ Len(s) \in Nat /\ Len(t) \in Nat
           /\ \A k \in 1 .. Len(s) : (s \o t)[k] = s[k]
           /\ \A k \in 1 .. Len(t) : (s \o t)[Len(s) + k] = t[k]
           /\ \A k \in 1 .. Len(s \o t) :
                 k \in 1 .. Len(s) \/ (k - Len(s) \in 1 .. Len(t) /\ Len(s) + (k - Len(s)) = k)
OBVIOUS

LEMMA ItemsJoined ==
    \A u \in Seq(Item), v \in Seq(Item) :
        /\ u \o v \in Seq(Item) /\ Len(u \o v) = Len(u) + Len(v)
        /\ \A k \in 1 .. Len(u) : (u \o v)[k] = u[k]
        /\ \A k \in 1 .. Len(v) : (u \o v)[Len(u) + k] = v[k]
BY JoinedAt

LEMMA Rejoined ==
    ASSUME NEW s \in Seq(Nat), NEW t \in Seq(Nat), NEW u \in Seq(Nat)
    PROVE  s \o (t \o u) = (s \o t) \o u
OBVIOUS

LEMMA Appended ==
    ASSUME NEW s \in Seq(Nat), NEW t \in Seq(Nat), NEW n \in Nat
    PROVE  /\ s \o Append(t, n) = Append(s \o t, n) /\ s \o t \in Seq(Nat)
           /\ Append(s, n) # s /\ Append(s, n) \in Seq(Nat)
OBVIOUS

LEMMA EventsAt ==
    ASSUME NEW ns \in Seq(Nat)
    PROVE  /\ Events(ns) \in Seq(Item) /\ Len(Events(ns)) = Len(ns)
           /\ \A k \in 1 .. Len(ns) : Events(ns)[k] = EventItem(ns[k])
<1>1. \A k \in 1 .. Len(ns) : Events(ns)[k] = EventItem(ns[k])
  BY DEF Events, EventItem
<1> QED BY <1>1, EventsTypes

(* The held back events and then the one that released them.                *)
LEMMA EventsJoined ==
    ASSUME NEW ns \in Seq(Nat), NEW ms \in Seq(Nat)
    PROVE  /\ Events(ns) \o Events(ms) \in Seq(Item)
           /\ Len(Events(ns) \o Events(ms)) = Len(ns \o ms)
           /\ \A k \in 1 .. Len(ns \o ms) :
                 (Events(ns) \o Events(ms))[k] = EventItem((ns \o ms)[k])
<1> DEFINE x == Events(ns)
           y == Events(ms)
<1>1. /\ x \in Seq(Item) /\ Len(x) = Len(ns) /\ \A k \in 1 .. Len(ns) : x[k] = EventItem(ns[k])
      /\ y \in Seq(Item) /\ Len(y) = Len(ms) /\ \A k \in 1 .. Len(ms) : y[k] = EventItem(ms[k])
  BY EventsAt
<1> HIDE DEF x, y, Item, EventItem
<1>2. /\ x \o y \in Seq(Item) /\ Len(x \o y) = Len(ns \o ms)
      /\ \A k \in 1 .. Len(ns) : (x \o y)[k] = x[k] /\ (ns \o ms)[k] = ns[k]
      /\ \A k \in 1 .. Len(ms) :
            (x \o y)[Len(ns) + k] = y[k] /\ (ns \o ms)[Len(ns) + k] = ms[k]
      /\ \A k \in 1 .. Len(ns \o ms) :
            k \in 1 .. Len(ns) \/ (k - Len(ns) \in 1 .. Len(ms) /\ Len(ns) + (k - Len(ns)) = k)
  BY <1>1, JoinedAt
<1>3. ASSUME NEW k \in 1 .. Len(ns \o ms) PROVE (x \o y)[k] = EventItem((ns \o ms)[k])
  <2>1. CASE k \in 1 .. Len(ns)
    BY <1>1, <1>2, <2>1
  <2>2. CASE k - Len(ns) \in 1 .. Len(ms) /\ Len(ns) + (k - Len(ns)) = k
    BY <1>1, <1>2, <2>2
  <2> QED BY <1>2, <2>1, <2>2
<1> QED BY <1>1, <1>2, <1>3 DEF x, y

(* What was sent, and more behind it.                                       *)
LEMMA LaidOn ==
    ASSUME RelayTypeOK, NEW told \in Seq(Nat), Laid(told, <<>>, 0),
           NEW t \in Seq(Nat), NEW cs \in Seq(Index), NEW d \in {0, 1}, NEW x \in Seq(Item),
           Len(x) = Len(t) + Len(cs) + d,
           \A k \in 1 .. Len(t) : x[k] = EventItem(t[k]),
           \A k \in 1 .. Len(cs) : x[Len(t) + k] = CallItem(cs[k]),
           d = 1 => x[Len(x)] = DoneItem,
           out' = out \o x, cs = <<>> \/ pending' = pending,
           NEW s, s = told \o t
    PROVE  Laid(s, cs, d)'
<1> HIDE DEF Item, EventItem, CallItem, DoneItem
<1>1. /\ out \in Seq(Item) /\ Len(out) = Len(told) /\ Len(told) \in Nat
      /\ Len(t) \in Nat /\ Len(cs) \in Nat /\ Len(s) = Len(told) + Len(t)
      /\ \A k \in 1 .. Len(told) : out[k] = EventItem(told[k])
  BY DEF RelayTypeOK, Laid
<1>2. /\ Len(out') = Len(s) + Len(cs) + d
      /\ \A k \in 1 .. Len(told) : out'[k] = out[k] /\ s[k] = told[k]
      /\ \A k \in 1 .. Len(x) : out'[Len(told) + k] = x[k]
      /\ \A k \in 1 .. Len(t) : s[Len(told) + k] = t[k]
  <2>1. /\ Len(out \o x) = Len(out) + Len(x)
        /\ \A k \in 1 .. Len(out) : (out \o x)[k] = out[k]
        /\ \A k \in 1 .. Len(x) : (out \o x)[Len(out) + k] = x[k]
    <3>1. out \in Seq(Item)
      BY <1>1
    <3> QED BY <3>1, ItemsJoined, Zenon
  <2>2. /\ \A k \in 1 .. Len(told) : s[k] = told[k]
        /\ \A k \in 1 .. Len(t) : s[Len(told) + k] = t[k]
    BY JoinedAt
  <2> QED BY <1>1, <2>1, <2>2
<1>3. ASSUME NEW k \in 1 .. Len(s) PROVE out'[k] = EventItem(s[k])
  <2>1. CASE k <= Len(told)
    <3>1. k \in 1 .. Len(told)
      BY <1>1, <2>1
    <3> QED BY <1>1, <1>2, <3>1
  <2>2. CASE k > Len(told)
    <3>1. /\ k - Len(told) \in 1 .. Len(t) /\ k - Len(told) \in 1 .. Len(x)
          /\ Len(told) + (k - Len(told)) = k
      BY <1>1, <2>2
    <3> QED BY <1>2, <3>1
  <2> QED BY <1>1, <2>1, <2>2
<1>4. ASSUME NEW k \in 1 .. Len(cs) PROVE out'[Len(s) + k] = CallItem(cs[k])'
  <2>1. pending' = pending
    BY <1>1, <1>4
  <2>2. Len(t) + k \in 1 .. Len(x) /\ Len(told) + (Len(t) + k) = Len(s) + k
    BY <1>1
  <2>3. out'[Len(s) + k] = CallItem(cs[k])
    BY <1>2, <2>2
  <2> QED BY <2>1, <2>3 DEF CallItem
<1>5. d = 1 => out'[Len(out')] = DoneItem
  <2>1. d = 1 => Len(x) \in 1 .. Len(x) /\ Len(told) + Len(x) = Len(out')
    BY <1>1, <1>2
  <2> QED BY <1>2, <2>1
<1> QED BY <1>2, <1>3, <1>4, <1>5 DEF Laid

LEMMA LaidEvents ==
    ASSUME RelayTypeOK, NEW told \in Seq(Nat), Laid(told, <<>>, 0),
           NEW t \in Seq(Nat), NEW x \in Seq(Item), Len(x) = Len(t),
           \A k \in 1 .. Len(t) : x[k] = EventItem(t[k]),
           out' = out \o x, NEW s, s = told \o t
    PROVE  Laid(s, <<>>, 0)'
<1>0. <<>> \in Seq(Index)
  OBVIOUS
<1>1. PICK none \in Seq(Index) : none = <<>>
  BY <1>0
<1>2. Len(none) = 0 /\ 1 .. Len(none) = {} /\ Len(t) \in Nat
  BY <1>1
<1>3. Len(x) = Len(t) + Len(none) + 0
  BY <1>2
<1>4. Laid(s, none, 0)'
  <2>1. \A k \in 1 .. Len(none) : x[Len(t) + k] = CallItem(none[k])
    BY <1>2
  <2>2. 0 \in {0, 1} /\ (0 = 1 => x[Len(x)] = DoneItem)
    OBVIOUS
  <2> QED BY <1>1, <1>3, <2>1, <2>2, LaidOn
<1> QED BY <1>1, <1>4

----------------------------------------------------------------------------
(* An event is handled and the relay goes on. *)

LEMMA Handled ==
    ASSUME RelayTypeOK, InPlace, phase = "handling"
    PROVE  /\ next \in 1 .. Len(heard) /\ next + 1 \in 1 .. Len(heard) + 1
           /\ heard[next] \in Event /\ next - 1 \in Nat /\ (next + 1) - 1 = next
           /\ \A n \in 1 .. next : n \in 1 .. next - 1 \/ n = next
           /\ \A n \in 1 .. next - 1 : n < next /\ n \in 1 .. next
<1>1. next \in 1 .. Len(heard)
  BY DEF RelayTypeOK, InPlace
<1>2. heard[next] \in Event
  <2> HIDE DEF Event
  <2> QED BY <1>1 DEF RelayTypeOK
<1> QED BY <1>1, <1>2 DEF RelayTypeOK

LEMMA WrittenOn ==
    ASSUME RelayTypeOK, InPlace, phase = "handling", Sending,
           NEW own \in {<<>>, <<next>>}, own = <<next>> <=> VisibleAt(next),
           NEW text \in {buffered, Append(buffered, next)},
           heard[next].text => (own = <<next>> <=> text = Append(buffered, next)),
           out' = out \o (HeldBack \o Events(own)), acc' = acc \o text, buffered' = <<>>,
           next' = next + 1, UNCHANGED <<heard, coalesce>>
    PROVE  \E told \in Seq(Nat) : SendingAs(told)'
<1>1. PICK told \in Seq(Nat) : SendingAs(told)
  BY DEF Sending
<1>2. /\ next \in Nat /\ buffered \in Seq(Nat) /\ acc \in Seq(Nat) /\ own \in Seq(Nat)
      /\ heard' = heard /\ coalesce' = coalesce
  <2>1. next \in Nat
    BY DEF RelayTypeOK
  <2>2. <<next>> \in Seq(Nat) /\ <<>> \in Seq(Nat)
    BY <2>1
  <2> QED BY <2>1, <2>2 DEF RelayTypeOK
<1>3. PICK a : a = told \o buffered
  OBVIOUS
<1>4. PICK b : b = acc \o buffered
  OBVIOUS
<1>5. PICK s : s = told \o (buffered \o own)
  OBVIOUS
<1>6. /\ a \in Seq(Nat) /\ Increasing(a) /\ ToSet(a) = {n \in 1 .. next - 1 : VisibleAt(n)}
      /\ b \in Seq(Nat) /\ Increasing(b) /\ ToSet(b) \subseteq 1 .. next - 1
      /\ TextOf(ToSet(told)) = TextOf(ToSet(acc)) /\ TextOf(ToSet(buffered)) = {}
      /\ Laid(told, <<>>, 0)
  BY <1>1, <1>2, <1>3, <1>4 DEF SendingAs
<1>7. /\ s = a \o own
      /\ acc' \in {b, Append(b, next)}
      /\ acc' = Append(b, next) <=> text = Append(buffered, next)
  <2>0. /\ next \in Nat /\ buffered \in Seq(Nat) /\ acc \in Seq(Nat) /\ own \in Seq(Nat)
    BY <1>2
  <2>1. told \o (buffered \o own) = (told \o buffered) \o own
    BY <2>0, Rejoined
  <2>2. acc \o Append(buffered, next) = Append(acc \o buffered, next)
    <3>1. \A u, v \in Seq(Nat), n \in Nat : u \o Append(v, n) = Append(u \o v, n)
      BY Appended
    <3> QED BY <2>0, <3>1, Zenon
  <2>3. b # Append(b, next) /\ buffered # Append(buffered, next)
    BY <1>2, <1>6, Appended
  <2> QED BY <1>3, <1>4, <1>5, <2>1, <2>2, <2>3
<1>8. /\ s \in Seq(Nat) /\ Increasing(s) /\ ToSet(s) = {n \in 1 .. next : VisibleAt(n)}
      /\ ToSet(s) = ToSet(a) \cup (IF own = <<next>> THEN {next} ELSE {})
  <2>1. CASE own = <<next>>
    <3>1. \A m \in ToSet(a) : m < next
      BY <1>6, Handled
    <3>2. s \in Seq(Nat) /\ Increasing(s) /\ ToSet(s) = ToSet(a) \cup {next}
      BY <1>2, <1>6, <1>7, <2>1, <3>1, OneMorePlace
    <3> QED BY <1>6, <2>1, <3>2, Handled
  <2>2. CASE own = <<>>
    <3>1. s = a /\ own # <<next>>
      BY <1>6, <1>7, <2>2
    <3> QED BY <1>6, <3>1, Handled
  <2> QED BY <2>1, <2>2
<1>9. /\ acc' \in Seq(Nat) /\ Increasing(acc') /\ ToSet(acc') \subseteq 1 .. next
      /\ ToSet(acc') = ToSet(b) \cup (IF text = Append(buffered, next) THEN {next} ELSE {})
  <2>1. CASE acc' = Append(b, next)
    <3>1. \A m \in ToSet(b) : m < next
      BY <1>6, Handled
    <3>2. acc' \in Seq(Nat) /\ Increasing(acc') /\ ToSet(acc') = ToSet(b) \cup {next}
      <4>1. b \in Seq(Nat) /\ Increasing(b) /\ next \in Nat
        BY <1>2, <1>6
      <4>2. /\ b \o <<next>> \in Seq(Nat) /\ Increasing(b \o <<next>>)
            /\ ToSet(b \o <<next>>) = ToSet(b) \cup {next} /\ Append(b, next) = b \o <<next>>
        BY <3>1, <4>1, OneMorePlace
      <4> QED BY <2>1, <4>2
    <3>3. ToSet(acc') \subseteq 1 .. next
      BY <1>6, <3>2, Handled
    <3> QED BY <1>7, <2>1, <3>2, <3>3
  <2>2. CASE acc' = b /\ acc' # Append(b, next)
    BY <1>6, <1>7, <2>2, Handled
  <2> QED BY <1>7, <2>1, <2>2
<1>10. TextOf(ToSet(s)) = TextOf(ToSet(acc'))
  <2>1. ToSet(a) = ToSet(told) \cup ToSet(buffered) /\ ToSet(b) = ToSet(acc) \cup ToSet(buffered)
    BY <1>2, <1>3, <1>4, JoinedPlaces
  <2>2. TextOf(ToSet(a)) = TextOf(ToSet(b))
    BY <1>6, <2>1 DEF TextOf
  <2> QED BY <1>8, <1>9, <2>2 DEF TextOf
<1>11. Laid(s, <<>>, 0)'
  <2>0. buffered \in Seq(Nat) /\ own \in Seq(Nat)
    BY <1>2
  <2>1. PICK t : t = buffered \o own
    OBVIOUS
  <2>2. PICK x : x = HeldBack \o Events(own)
    OBVIOUS
  <2>3. /\ x \in Seq(Item) /\ Len(x) = Len(t)
        /\ \A k \in 1 .. Len(t) : x[k] = EventItem(t[k])
    BY <2>0, <2>1, <2>2, EventsJoined DEF HeldBack
  <2>4. t \in Seq(Nat) /\ Len(t) \in Nat
    BY <2>0, <2>1
  <2> QED BY <1>5, <1>6, <2>1, <2>2, <2>3, <2>4, LaidEvents
<1>12. SendingAs(s)'
  <2>1. s \o <<>> = s /\ acc' \o <<>> = acc'
    BY <1>8, <1>9
  <2>2. TextOf({}) = {} /\ ToSet(<<>>) = {}
    BY NoPlace DEF TextOf
  <2>3. {n \in 1 .. next : VisibleAt(n)} = {n \in 1 .. next' - 1 : VisibleAt(n)'}
    BY <1>2, Handled DEF VisibleAt
  <2>4. TextOf(ToSet(s))' = TextOf(ToSet(acc'))
    BY <1>2, <1>10 DEF TextOf
  <2>5. Increasing(s \o buffered') /\ ToSet(s \o buffered') = {n \in 1 .. next' - 1 : VisibleAt(n)'}
    BY <1>8, <2>1, <2>3
  <2>6. Increasing(acc' \o buffered') /\ ToSet(acc' \o buffered') \subseteq 1 .. next' - 1
    BY <1>9, <2>1, Handled
  <2>7. TextOf(ToSet(buffered))' = {}
    BY <2>2 DEF TextOf
  <2> QED BY <1>11, <2>4, <2>5, <2>6, <2>7 DEF SendingAs, TextOf
<1> QED BY <1>8, <1>12

(* An event that is held back has no text and is visible.                   *)
LEMMA HeldOn ==
    ASSUME RelayTypeOK, InPlace, phase = "handling", Sending, VisibleAt(next), ~heard[next].text,
           buffered' = Append(buffered, next), next' = next + 1,
           UNCHANGED <<out, acc, heard, coalesce>>
    PROVE  \E told \in Seq(Nat) : SendingAs(told)'
<1>1. PICK told \in Seq(Nat) : SendingAs(told)
  BY DEF Sending
<1>2. /\ next \in Nat /\ buffered \in Seq(Nat) /\ acc \in Seq(Nat)
      /\ out' = out /\ acc' = acc /\ heard' = heard /\ coalesce' = coalesce
  BY DEF RelayTypeOK
<1>3. /\ Laid(told, <<>>, 0) /\ Increasing(told \o buffered)
      /\ ToSet(told \o buffered) = {n \in 1 .. next - 1 : VisibleAt(n)}
      /\ Increasing(acc \o buffered) /\ ToSet(acc \o buffered) \subseteq 1 .. next - 1
      /\ TextOf(ToSet(told)) = TextOf(ToSet(acc)) /\ TextOf(ToSet(buffered)) = {}
  BY <1>1 DEF SendingAs
<1>4. ASSUME NEW s \in Seq(Nat), Increasing(s \o buffered),
             ToSet(s \o buffered) \subseteq 1 .. next - 1
      PROVE  /\ Increasing(s \o Append(buffered, next))
             /\ ToSet(s \o Append(buffered, next)) = ToSet(s \o buffered) \cup {next}
  <2>1. \A u, v \in Seq(Nat), n \in Nat :
           u \o Append(v, n) = Append(u \o v, n) /\ u \o v \in Seq(Nat)
    BY Appended
  <2>2. s \o Append(buffered, next) = Append(s \o buffered, next) /\ s \o buffered \in Seq(Nat)
    BY <1>2, <2>1, Zenon
  <2>3. PICK w \in Seq(Nat) : w = s \o buffered
    BY <2>2
  <2>4. \A m \in ToSet(w) : m < next
    BY <1>4, <2>3, Handled
  <2>5. /\ Increasing(w \o <<next>>) /\ ToSet(w \o <<next>>) = ToSet(w) \cup {next}
        /\ Append(w, next) = w \o <<next>>
    BY <1>2, <1>4, <2>3, <2>4, OneMorePlace
  <2> QED BY <2>2, <2>3, <2>5
<1>5. Increasing(told \o buffered') /\ ToSet(told \o buffered') = {n \in 1 .. next : VisibleAt(n)}
  <2>1. {n \in 1 .. next - 1 : VisibleAt(n)} \subseteq 1 .. next - 1
    OBVIOUS
  <2>2. {n \in 1 .. next : VisibleAt(n)} = {n \in 1 .. next - 1 : VisibleAt(n)} \cup {next}
    BY Handled
  <2> QED BY <1>3, <1>4, <2>1, <2>2
<1>6. Increasing(acc \o buffered') /\ ToSet(acc \o buffered') \subseteq 1 .. next
  <2>1. 1 .. next - 1 \cup {next} \subseteq 1 .. next
    BY Handled
  <2> QED BY <1>2, <1>3, <1>4, <2>1
<1>7. ToSet(buffered') = ToSet(buffered) \cup {next}
  <2>1. ToSet(told \o buffered') = ToSet(told) \cup ToSet(buffered')
        /\ ToSet(told \o buffered) = ToSet(told) \cup ToSet(buffered)
    BY <1>2, Appended, JoinedPlaces
  <2>2. buffered' = buffered \o <<next>> /\ <<next>> \in Seq(Nat)
    BY <1>2
  <2>3. ToSet(buffered \o <<next>>) = ToSet(buffered) \cup ToSet(<<next>>)
    BY <1>2, <2>2, JoinedPlaces
  <2> QED BY <1>2, <2>2, <2>3, OnePlace
<1>8. {n \in 1 .. next : VisibleAt(n)} = {n \in 1 .. next' - 1 : VisibleAt(n)'} /\ next' - 1 = next
  BY <1>2, Handled DEF VisibleAt
<1>9. /\ TextOf(ToSet(told))' = TextOf(ToSet(acc)) /\ TextOf(ToSet(acc))' = TextOf(ToSet(acc))
      /\ TextOf(ToSet(buffered))' = {}
  BY <1>2, <1>3, <1>7 DEF TextOf
<1>10. Laid(told, <<>>, 0)'
  BY <1>2, <1>3 DEF Laid, CallItem
<1>11. SendingAs(told)'
  BY <1>2, <1>5, <1>6, <1>8, <1>9, <1>10 DEF SendingAs
<1> QED BY <1>11

(* The parts of calls.                                                      *)
LEMMA GatheredOn ==
    ASSUME RelayTypeOK, InPlace, phase = "handling", \A i \in Index : Gathered(i),
           pending' = Merged(heard[next]), next' = next + 1, UNCHANGED <<heard, coalesce>>
    PROVE  \A i \in Index : Gathered(i)'
<1> DEFINE e == heard[next]
<1>1. /\ next \in Nat /\ pending \in [Index -> Seq(Nat)]
      /\ heard' = heard /\ coalesce' = coalesce /\ coalesce \in BOOLEAN
  BY DEF RelayTypeOK
<1>2. SUFFICES ASSUME NEW i \in Index PROVE Gathered(i)'
  OBVIOUS
<1>3. CASE ~coalesce
  BY <1>1, <1>3 DEF Gathered, Merged
<1>4. CASE coalesce
  <2>1. /\ pending[i] \in Seq(Nat) /\ Increasing(pending[i])
        /\ ToSet(pending[i]) = {n \in 1 .. next - 1 : heard[n].call = i}
    BY <1>1, <1>4 DEF Gathered
  <2>2. NoCall \notin Index
    BY RelayAssumption DEF RelayAssumption
  <2>3. CASE e.call = i
    <3>1. pending'[i] = Append(pending[i], next)
      BY <1>1, <1>4, <2>2, <2>3 DEF Merged
    <3>2. \A m \in ToSet(pending[i]) : m < next
      BY <2>1, Handled
    <3>3. PICK s \in Seq(Nat) : s = pending[i]
      BY <2>1
    <3>4. /\ Increasing(s \o <<next>>) /\ ToSet(s \o <<next>>) = ToSet(s) \cup {next}
          /\ Append(s, next) = s \o <<next>>
      BY <1>1, <2>1, <3>2, <3>3, OneMorePlace
    <3>5. Increasing(pending'[i]) /\ ToSet(pending'[i]) = ToSet(pending[i]) \cup {next}
      BY <3>1, <3>3, <3>4
    <3>6. ToSet(pending'[i]) = {n \in 1 .. next : heard[n].call = i}
      BY <2>1, <2>3, <3>5, Handled
    <3>7. next' - 1 = next
      BY Handled
    <3> QED BY <1>1, <1>4, <3>5, <3>6, <3>7 DEF Gathered
  <2>4. CASE e.call # i
    <3>1. pending'[i] = pending[i]
      BY <1>1, <2>4 DEF Merged
    <3>2. ToSet(pending[i]) = {n \in 1 .. next : heard[n].call = i}
      BY <2>1, <2>4, Handled
    <3>3. next' - 1 = next
      BY Handled
    <3> QED BY <1>1, <1>4, <2>1, <3>1, <3>2, <3>3 DEF Gathered
  <2> QED BY <2>3, <2>4
<1> QED BY <1>1, <1>3, <1>4

----------------------------------------------------------------------------
(* The relay returns. *)

LEMMA Ends ==
    ASSUME RelayTypeOK, InPlace, phase # "returned",
           NEW told \in Seq(Nat), SendingAs(told), \A i \in Index : Gathered(i),
           NEW t \in {<<>>, buffered}, NEW cs \in Seq(Index), NEW d \in {0, 1},
           NEW s, s = told \o t, Laid(s, cs, d)',
           \/ acc' \in {acc, acc \o buffered}
           \/ gone' /\ next <= Len(heard) /\ acc' = acc \o Append(buffered, next),
           UNCHANGED <<heard, coalesce>>, d = 1 <=> result' = "ok",
           Increasing(cs),
           cs = <<>> \/ (coalesce /\ next = Len(heard) + 1 /\ pending' = pending),
           d = 1 => /\ t = buffered /\ next = Len(heard) + 1
                    /\ coalesce =>
                          ToSet(cs) = {i \in Index : \E n \in PartsOf(i) : Names(heard[n])}
    PROVE  Final'
<1>1. /\ next \in Nat /\ buffered \in Seq(Nat) /\ acc \in Seq(Nat) /\ heard \in Seq(Event)
      /\ Len(heard) \in Nat /\ DOMAIN heard = 1 .. Len(heard) /\ next \in 1 .. Len(heard) + 1
      /\ heard' = heard /\ coalesce' = coalesce
  <2> HIDE DEF Event
  <2> QED BY DEF RelayTypeOK, InPlace
<1>2. /\ t \in Seq(Nat) /\ s \in Seq(Nat)
      /\ told \o buffered \in Seq(Nat) /\ acc \o buffered \in Seq(Nat)
  <2>1. t \in Seq(Nat) /\ buffered \in Seq(Nat) /\ acc \in Seq(Nat)
    BY <1>1, NoPlace
  <2> QED BY <2>1, Appended
<1>3. /\ Increasing(told \o buffered)
      /\ ToSet(told \o buffered) = {n \in 1 .. next - 1 : VisibleAt(n)}
      /\ Increasing(acc \o buffered) /\ ToSet(acc \o buffered) \subseteq 1 .. next - 1
      /\ TextOf(ToSet(told)) = TextOf(ToSet(acc)) /\ TextOf(ToSet(buffered)) = {}
  BY DEF SendingAs
<1>4. /\ Increasing(told) /\ ToSet(told \o buffered) = ToSet(told) \cup ToSet(buffered)
      /\ \A m \in ToSet(told), n \in ToSet(buffered) : m < n
      /\ Increasing(acc) /\ ToSet(acc \o buffered) = ToSet(acc) \cup ToSet(buffered)
  BY <1>1, <1>3, JoinedPlaces
<1>5. /\ Increasing(s) /\ ToSet(s) \in {ToSet(told), ToSet(told \o buffered)}
      /\ t = buffered => ToSet(s) = ToSet(told \o buffered)
      /\ TextOf(ToSet(s)) = TextOf(ToSet(acc))
  <2>1. CASE t = buffered
    BY <1>3, <1>4, <2>1 DEF TextOf
  <2>2. CASE t = <<>> /\ t # buffered
    <3>1. s = told
      BY <2>2
    <3> QED BY <1>3, <1>4, <2>2, <3>1
  <2> QED BY <2>1, <2>2
<1>6. Visible = {n \in 1 .. Len(heard) : VisibleAt(n)} /\ Visible' = Visible
  BY <1>1 DEF Visible, VisibleAt
<1>7. Begins(ToSet(s), Visible)
  <2>1. ToSet(told \o buffered) \subseteq Visible
    BY <1>1, <1>3, <1>6
  <2>2. \A n \in Visible \ ToSet(told \o buffered) : \A m \in ToSet(told \o buffered) : m < n
    BY <1>1, <1>3, <1>6
  <2> QED BY <1>4, <1>5, <2>1, <2>2 DEF Begins
<1>8. d = 1 => ToSet(s) = Visible
  BY <1>1, <1>3, <1>5, <1>6
<1>9. /\ Increasing(acc') /\ Begins(TextOf(ToSet(s)), TextOf(ToSet(acc')))
      /\ ~gone' => TextOf(ToSet(s)) = TextOf(ToSet(acc'))
  <2>1. CASE acc' \in {acc, acc \o buffered}
    <3>1. Increasing(acc')
      BY <1>3, <1>4, <2>1
    <3>2. TextOf(ToSet(acc')) = TextOf(ToSet(acc))
      BY <1>3, <1>4, <2>1 DEF TextOf
    <3> QED BY <1>5, <3>1, <3>2 DEF Begins
  <2>2. CASE gone' /\ next <= Len(heard) /\ acc' = acc \o Append(buffered, next)
    <3>1. PICK b \in Seq(Nat) : b = acc \o buffered
      BY <1>2
    <3>2. acc' = Append(b, next)
      <4>1. \A u, v \in Seq(Nat), n \in Nat : u \o Append(v, n) = Append(u \o v, n)
        BY Appended
      <4> QED BY <1>1, <2>2, <3>1, <4>1, Zenon
    <3>3. \A m \in ToSet(b) : m < next
      BY <1>1, <1>3, <3>1
    <3>4. /\ Increasing(b \o <<next>>) /\ ToSet(b \o <<next>>) = ToSet(b) \cup {next}
          /\ Append(b, next) = b \o <<next>>
      BY <1>1, <1>3, <3>1, <3>3, OneMorePlace
    <3>5. Increasing(acc') /\ ToSet(acc') = ToSet(acc) \cup ToSet(buffered) \cup {next}
      BY <1>4, <3>1, <3>2, <3>4
    <3>6. TextOf(ToSet(acc')) \subseteq TextOf(ToSet(acc)) \cup {next}
          /\ TextOf(ToSet(acc)) \subseteq TextOf(ToSet(acc'))
      BY <1>3, <3>5 DEF TextOf
    <3>7. \A m \in TextOf(ToSet(acc)) : m < next
      BY <1>4, <3>1, <3>3 DEF TextOf
    <3>8. Begins(TextOf(ToSet(s)), TextOf(ToSet(acc')))
      BY <1>5, <3>6, <3>7 DEF Begins
    <3> QED BY <2>2, <3>5, <3>8
  <2> QED BY <2>1, <2>2
<1>10. \A k \in 1 .. Len(cs) :
          Increasing(pending'[cs[k]]) /\ ToSet(pending'[cs[k]]) = PartsOf(cs[k])'
  <2> TAKE k \in 1 .. Len(cs)
  <2>1. cs[k] \in Index /\ cs # <<>>
    OBVIOUS
  <2>2. coalesce /\ next = Len(heard) + 1 /\ pending' = pending
    BY <2>1
  <2>3. next - 1 = Len(heard)
    BY <1>1, <2>2
  <2> QED BY <1>1, <2>1, <2>2, <2>3 DEF Gathered, PartsOf
<1>11. SentAs(s, cs, d)'
  <2>1. TextOf(ToSet(s))' = TextOf(ToSet(s)) /\ TextOf(ToSet(acc))' = TextOf(ToSet(acc'))
    BY <1>1 DEF TextOf
  <2>2. {i \in Index : \E n \in PartsOf(i) : Names(heard[n])}'
           = {i \in Index : \E n \in PartsOf(i) : Names(heard[n])}
    BY <1>1 DEF PartsOf
  <2>3. Begins(ToSet(s), Visible)' /\ Begins(TextOf(ToSet(s)), TextOf(ToSet(acc)))'
    BY <1>6, <1>7, <1>9, <2>1 DEF Begins
  <2>4. d = 1 => ToSet(s) = Visible'
    BY <1>6, <1>8
  <2>6. d = 1 /\ coalesce' =>
           ToSet(cs) = {i \in Index : \E n \in PartsOf(i) : Names(heard[n])}'
    <3>1. d = 1 /\ coalesce =>
             ToSet(cs) = {i \in Index : \E n \in PartsOf(i) : Names(heard[n])}
      OBVIOUS
    <3> QED BY <1>1, <2>2, <3>1
  <2>5. (~gone => TextOf(ToSet(s)) = TextOf(ToSet(acc)))'
    BY <1>9, <2>1
  <2> QED BY <1>5, <1>9, <1>10, <2>3, <2>4, <2>5, <2>6 DEF SentAs
<1> QED BY <1>2, <1>11 DEF Final

(* A write of events that fails: nothing of it was sent, or what was held   *)
(* back.                                                                    *)
LEMMA FailedOn ==
    ASSUME RelayTypeOK, InPlace, phase = "handling", Sending,
           NEW own \in {<<>>, <<next>>}, NEW text \in {buffered, Append(buffered, next)},
           NEW c \in Cuts(HeldBack \o Events(own)), gone',
           out' = out \o SubSeq(HeldBack \o Events(own), 1, c),
           acc' = acc \o (IF c < Len(buffered) THEN buffered ELSE text),
           result' = "failed", UNCHANGED <<heard, coalesce>>
    PROVE  Final'
<1>1. PICK told \in Seq(Nat) : SendingAs(told)
  BY DEF Sending
<1>2. /\ next \in Nat /\ buffered \in Seq(Nat) /\ Len(buffered) \in Nat /\ own \in Seq(Nat)
      /\ Len(own) \in {0, 1}
  <2>1. next \in Nat /\ buffered \in Seq(Nat)
    BY DEF RelayTypeOK
  <2>2. <<next>> \in Seq(Nat) /\ Len(<<next>>) = 1 /\ <<>> \in Seq(Nat) /\ Len(<<>>) = 0
    BY <2>1
  <2>3. own \in Seq(Nat) /\ Len(own) \in {0, 1}
    <3>1. CASE own = <<>>
      BY <2>2, <3>1
    <3>2. CASE own = <<next>>
      BY <2>2, <3>2
    <3> QED BY <3>1, <3>2
  <2>4. Len(buffered) \in Nat
    BY <2>1
  <2> QED BY <2>1, <2>3, <2>4
<1>3. PICK items : items = HeldBack \o Events(own)
  OBVIOUS
<1>4. /\ items \in Seq(Item) /\ Len(items) = Len(buffered) + Len(own)
      /\ \A k \in 1 .. Len(buffered) : items[k] = EventItem(buffered[k])
  <2>1. /\ items \in Seq(Item) /\ Len(items) = Len(buffered \o own)
        /\ \A k \in 1 .. Len(buffered \o own) : items[k] = EventItem((buffered \o own)[k])
    BY <1>2, <1>3, EventsJoined DEF HeldBack
  <2>2. /\ Len(buffered \o own) = Len(buffered) + Len(own)
        /\ \A k \in 1 .. Len(buffered) : (buffered \o own)[k] = buffered[k]
    BY <1>2, JoinedAt
  <2> QED BY <1>2, <2>1, <2>2
<1>5. c \in {0, Len(buffered)} /\ c \in 0 .. Len(items)
  <2>1. /\ c \in 0 .. Len(items) - 1
        /\ c = 0 \/ c >= Len(buffered)
    BY <1>3 DEF Cuts
  <2>2. Len(items) \in Nat /\ Len(items) <= Len(buffered) + 1
    <3>1. Len(items) = Len(buffered) + Len(own)
      BY <1>4
    <3>2. Len(buffered) \in Nat /\ (Len(own) = 0 \/ Len(own) = 1)
      BY <1>2
    <3>3. CASE Len(own) = 0
      BY <3>1, <3>2, <3>3
    <3>4. CASE Len(own) = 1
      BY <3>1, <3>2, <3>4
    <3> QED BY <3>2, <3>3, <3>4
  <2> QED BY <1>2, <2>1, <2>2
<1>6. PICK t \in {<<>>, buffered} : Len(t) = c
  <2>1. Len(<<>>) = 0
    OBVIOUS
  <2> QED BY <1>5, <2>1
<1>7. t \in Seq(Nat)
  BY <1>2, NoPlace
<1>8. PICK x : x = SubSeq(items, 1, c)
  OBVIOUS
<1>9. /\ x \in Seq(Item) /\ Len(x) = Len(t)
      /\ \A k \in 1 .. Len(t) : x[k] = EventItem(t[k])
  <2>1. x \in Seq(Item) /\ Len(x) = c
    BY <1>4, <1>5, <1>8, Beginning
  <2>2. \A k \in 1 .. c : x[k] = items[k]
    <3> HIDE DEF Item
    <3> QED BY <1>4, <1>5, <1>8
  <2>3. \A k \in 1 .. c : items[k] = EventItem(t[k])
    <3>1. CASE t = buffered
      BY <1>4, <1>6, <3>1
    <3>2. CASE t = <<>>
      <4>1. c = 0 /\ 1 .. 0 = {}
        BY <1>6, <3>2
      <4> QED BY <4>1
    <3> QED BY <3>1, <3>2
  <2> QED BY <1>6, <2>1, <2>2, <2>3
<1>10. PICK s : s = told \o t
  OBVIOUS
<1>11. Laid(told, <<>>, 0) /\ out' = out \o x
  BY <1>1, <1>3, <1>8 DEF SendingAs
<1>12. Laid(s, <<>>, 0)'
  BY <1>7, <1>9, <1>10, <1>11, LaidEvents
<1>13. next <= Len(heard)
  BY Handled
<1>14. \/ acc' \in {acc, acc \o buffered}
       \/ gone' /\ next <= Len(heard) /\ acc' = acc \o Append(buffered, next)
  BY <1>13
<1>15. PICK cs \in Seq(Index) : cs = <<>>
  <2>1. <<>> \in Seq(Index)
    OBVIOUS
  <2> QED BY <2>1
<1>16. PICK d \in {0, 1} : d = 0
  OBVIOUS
<1>17. Increasing(cs) /\ Laid(s, cs, d)' /\ (d = 1 <=> result' = "ok") /\ d # 1
  BY <1>12, <1>15, <1>16, NoPlace
<1>18. phase # "returned" /\ \A i \in Index : Gathered(i)
  BY DEF Sending
<1> QED BY <1>1, <1>10, <1>14, <1>15, <1>17, <1>18, Ends

(* A read that fails: nothing more is sent.                                 *)
LEMMA StoppedOn ==
    ASSUME RelayTypeOK, InPlace, phase # "returned", Sending,
           result' = "failed", UNCHANGED <<heard, coalesce, out, acc>>
    PROVE  Final'
<1>1. PICK told \in Seq(Nat) : SendingAs(told)
  BY DEF Sending
<1>2. PICK t \in {<<>>, buffered} : t = <<>>
  OBVIOUS
<1>3. PICK s : s = told \o t
  OBVIOUS
<1>4. s = told
  BY <1>2, <1>3
<1>5. Laid(s, <<>>, 0)'
  BY <1>1, <1>4 DEF SendingAs, Laid, CallItem
<1>6. PICK cs \in Seq(Index) : cs = <<>>
  <2>1. <<>> \in Seq(Index)
    OBVIOUS
  <2> QED BY <2>1
<1>7. PICK d \in {0, 1} : d = 0
  OBVIOUS
<1>8. Increasing(cs) /\ Laid(s, cs, d)' /\ (d = 1 <=> result' = "ok") /\ d # 1
  BY <1>5, <1>6, <1>7, NoPlace
<1>9. acc' \in {acc, acc \o buffered} /\ \A i \in Index : Gathered(i)
  BY DEF Sending
<1> QED BY <1>1, <1>3, <1>6, <1>8, <1>9, Ends

(* Every step of the handling of an event.                                  *)
LEMMA DeliveryAccounts ==
    ASSUME RelayTypeOK, Accounted, phase = "handling",
           NEW own \in {<<>>, <<next>>}, own = <<next>> <=> VisibleAt(next),
           NEW text \in {buffered, Append(buffered, next)},
           heard[next].text => (own = <<next>> <=> text = Append(buffered, next)),
           NEW n, Deliver(HeldBack \o Events(own), text, Proceed(n)),
           buffered' = <<>>, pending' = Merged(heard[next]),
           UNCHANGED <<heard, coalesce, gone>>
    PROVE  Accounted'
<1>1. InPlace /\ Sending /\ result = "none"
  BY DEF Accounted, InPlace
<1>2. next \in Nat /\ Len(heard) \in Nat /\ next \in 1 .. Len(heard)
  <2> HIDE DEF Event
  <2> QED BY <1>1, Handled DEF RelayTypeOK
<1>3. CASE /\ out' = out \o (HeldBack \o Events(own)) /\ acc' = acc \o text
           /\ Proceed(n)
  <2>1. /\ next' = next + 1 /\ result' = "none"
        /\ phase' = IF next < Len(heard) THEN "handling" ELSE "reading"
    BY <1>1, <1>3 DEF Proceed
  <2>2. \E told \in Seq(Nat) : SendingAs(told)'
    BY <1>1, <1>3, <2>1, WrittenOn
  <2>3. \A i \in Index : Gathered(i)'
    BY <1>1, <2>1, GatheredOn DEF Sending
  <2>4. InPlace'
    BY <1>2, <2>1 DEF InPlace
  <2> QED BY <2>1, <2>2, <2>3, <2>4 DEF Accounted, Sending
<1>4. CASE /\ gone
           /\ \E c \in Cuts(HeldBack \o Events(own)) :
                 /\ out' = out \o SubSeq(HeldBack \o Events(own), 1, c)
                 /\ acc' = acc \o (IF c < Len(buffered) THEN buffered ELSE text)
           /\ Return("failed") /\ UNCHANGED next
  <2>1. phase' = "returned" /\ result' = "failed" /\ next' = next
    BY <1>4 DEF Return
  <2>2. Final'
    BY <1>1, <1>4, <2>1, FailedOn
  <2>3. InPlace'
    BY <1>1, <2>1 DEF InPlace
  <2> QED BY <2>1, <2>2, <2>3 DEF Accounted
<1> QED BY <1>3, <1>4 DEF Deliver

LEMMA HandleAccounts ==
    ASSUME RelayTypeOK, Accounted, Handle
    PROVE  Accounted'
<1> DEFINE e == heard[next]
<1>1. /\ phase = "handling" /\ InPlace /\ Sending /\ result = "none"
      /\ UNCHANGED <<heard, coalesce, gone>>
  BY DEF Handle, upstream, Accounted, InPlace
<1>2. /\ e \in Event /\ next \in 1 .. Len(heard) /\ next \in Nat /\ buffered \in Seq(Nat)
      /\ Len(heard) \in Nat
  <2>1. buffered \in Seq(Nat) /\ next \in Nat /\ Len(heard) \in Nat
    <3> HIDE DEF Event
    <3> QED BY DEF RelayTypeOK
  <2> QED BY <1>1, <2>1, Handled
<1>3. Append(buffered, next) # buffered /\ <<next>> # <<>> /\ e.text \in BOOLEAN
      /\ (e.call # NoCall => e.kind = "chunk")
  <2>1. Append(buffered, next) # buffered
    BY <1>2, Appended
  <2>2. <<next>> # <<>>
    OBVIOUS
  <2> QED BY <1>2, <2>1, <2>2 DEF Event
<1>4. CASE HandleError
  <2>1. /\ phase' = "returned" /\ result' = "failed" /\ UNCHANGED <<next, out, acc>>
    BY <1>4 DEF HandleError, Return
  <2>2. Final'
    BY <1>1, <2>1, StoppedOn
  <2>3. InPlace'
    BY <1>1, <2>1 DEF InPlace
  <2> QED BY <2>1, <2>2, <2>3 DEF Accounted
<1>5. CASE HandleDone
  <2>1. /\ e.kind = "done" /\ Deliver(HeldBack, buffered, Proceed(Len(HeldBack)))
        /\ buffered' = <<>> /\ pending' = pending
    BY <1>5 DEF HandleDone
  <2>2. ~VisibleAt(next) /\ pending' = Merged(e)
    BY <1>3, <2>1 DEF VisibleAt, Merged
  <2>3. HeldBack = HeldBack \o Events(<<>>)
    <3>1. Events(<<>>) = <<>>
      BY DEF Events
    <3>2. HeldBack \in Seq(Item)
      BY ForwardedTypes
    <3> HIDE DEF Item
    <3> QED BY <3>1, <3>2
  <2>4. Deliver(HeldBack \o Events(<<>>), buffered, Proceed(Len(HeldBack)))
    BY <2>1, <2>3
  <2> QED BY <1>1, <1>3, <2>1, <2>2, <2>4, DeliveryAccounts
<1>6. CASE HandleOutput
  <2>1. /\ e.kind \in {"chunk", "garbage"}
        /\ Deliver(Forwarded(e), Append(buffered, next), Proceed(Len(Forwarded(e))))
        /\ buffered' = <<>> /\ pending' = Merged(e)
    BY <1>6 DEF HandleOutput
  <2>2. PICK own \in {<<>>, <<next>>} :
           own = IF coalesce /\ ToolDeltaOnly(e) THEN <<>> ELSE <<next>>
    OBVIOUS
  <2>3. Own(e) = Events(own)
    <3>1. Events(<<>>) = <<>>
      BY DEF Events
    <3> QED BY <2>2, <3>1 DEF Own
  <2>4. /\ own = <<next>> <=> VisibleAt(next)
        /\ e.text => own = <<next>>
    BY <1>3, <2>1, <2>2 DEF VisibleAt, ToolDeltaOnly
  <2>5. Deliver(HeldBack \o Events(own), Append(buffered, next), Proceed(Len(Forwarded(e))))
    BY <2>1, <2>3 DEF Forwarded
  <2> QED BY <1>1, <2>1, <2>4, <2>5, DeliveryAccounts
<1>7. CASE HoldBack
  <2>1. /\ e.kind = "chunk" /\ ~e.text /\ e.call = NoCall
        /\ buffered' = Append(buffered, next)
        /\ UNCHANGED <<pending, acc, out>>
        /\ next' = next + 1 /\ result' = "none"
        /\ phase' = IF next < Len(heard) THEN "handling" ELSE "reading"
    BY <1>1, <1>7 DEF HoldBack, Proceed, Releases
  <2>2. VisibleAt(next) /\ pending' = Merged(e)
    BY <2>1 DEF VisibleAt, ToolDeltaOnly, Merged
  <2>3. \E told \in Seq(Nat) : SendingAs(told)'
    BY <1>1, <2>1, <2>2, HeldOn
  <2>4. \A i \in Index : Gathered(i)'
    BY <1>1, <2>1, <2>2, GatheredOn DEF Sending
  <2>5. InPlace'
    BY <1>1, <1>2, <2>1 DEF InPlace
  <2> QED BY <2>1, <2>3, <2>4, <2>5 DEF Accounted, Sending
<1> QED BY <1>4, <1>5, <1>6, <1>7 DEF Handle

(* The calls to send are those that were named, in order: an increasing     *)
(* sequence as long as the set is large leaves none out.                    *)
LEMMA SortedWhole ==
    ASSUME NEW S, IsFiniteSet(S), S \subseteq Nat, NEW s \in Sorted(S)
    PROVE  s \in Seq(S) /\ Increasing(s) /\ ToSet(s) = S
<1> DEFINE n == Cardinality(S)
<1>1. n \in Nat
  BY FS_CardinalityType
<1>2. s \in [1 .. n -> S] /\ \A j, k \in DOMAIN s : j < k => s[j] < s[k]
  BY DEF Sorted
<1>3. s \in Injection(1 .. n, S)
  <2>1. ASSUME NEW j \in 1 .. n, NEW k \in 1 .. n, s[j] = s[k] PROVE j = k
    <3>0. s[j] \in S
      BY <1>2
    <3>1. s[j] \in Nat
      BY <3>0
    <3>2. j \in Nat /\ k \in Nat
      BY <1>1
    <3> QED BY <1>2, <2>1, <3>1, <3>2
  <2> QED BY <1>2, <2>1 DEF Injection, IsInjective
<1>4. Cardinality(1 .. n) = n
  BY <1>1, FS_Interval
<1>5. s \in Surjection(1 .. n, S)
  BY <1>3, <1>4, FS_Injection
<1>6. ToSet(s) = S
  BY <1>2, <1>5 DEF Surjection, ToSet
<1>7. s \in Seq(S)
  BY <1>1, <1>2
<1> QED BY <1>2, <1>6, <1>7 DEF Increasing

LEMMA CallsAre ==
    ASSUME RelayTypeOK, \A i \in Index : Gathered(i), next = Len(heard) + 1,
           NEW calls \in Sorted({i \in Index : Complete(i)})
    PROVE  /\ calls \in Seq(Index) /\ Increasing(calls)
           /\ coalesce => ToSet(calls) = {i \in Index : \E n \in PartsOf(i) : Names(heard[n])}
           /\ ~coalesce => calls = <<>>
<1> DEFINE S == {i \in Index : Complete(i)}
<1>1. IsFiniteSet(S) /\ S \subseteq Nat
  BY RelayAssumption, FS_Subset DEF RelayAssumption
<1>2. calls \in Seq(S) /\ Increasing(calls) /\ ToSet(calls) = S
  <2> HIDE DEF S
  <2>1. calls \in Sorted(S)
    BY DEF S
  <2> QED BY <1>1, <2>1, SortedWhole
<1>3. ASSUME NEW i \in Index, coalesce PROVE Complete(i) <=> \E n \in PartsOf(i) : Names(heard[n])
  <2>1. next - 1 = Len(heard) /\ DOMAIN heard = 1 .. Len(heard)
    <3> HIDE DEF Event
    <3> QED BY DEF RelayTypeOK
  <2>2. ToSet(pending[i]) = PartsOf(i)
    BY <1>3, <2>1 DEF Gathered, PartsOf
  <2>3. ToSet(pending[i]) = {pending[i][k] : k \in DOMAIN pending[i]}
    BY DEF ToSet
  <2> QED BY <2>2, <2>3 DEF Complete
<1>4. ASSUME ~coalesce PROVE calls = <<>>
  <2>1. ASSUME NEW i \in Index PROVE ~Complete(i)
    <3>1. pending[i] = <<>> /\ DOMAIN <<>> = {}
      BY <1>4 DEF Gathered
    <3> QED BY <3>1 DEF Complete
  <2>2. S = {}
    BY <2>1
  <2> HIDE DEF S
  <2> QED BY <1>2, <2>2
<1>5. calls \in Seq(Index)
  <2>1. S \subseteq Index
    OBVIOUS
  <2> HIDE DEF S
  <2>2. Len(calls) \in Nat /\ calls \in [1 .. Len(calls) -> S]
    BY <1>2
  <2>3. calls \in [1 .. Len(calls) -> Index]
    BY <2>1, <2>2
  <2> QED BY <2>2, <2>3
<1> QED BY <1>2, <1>3, <1>4, <1>5

(* The end of an answer, item by item.                                      *)
LEMMA EndingAt ==
    ASSUME RelayTypeOK, NEW cs \in Seq(Index), NEW items,
           items = HeldBack \o CallItems(cs) \o <<DoneItem>>
    PROVE  /\ items \in Seq(Item) /\ Len(items) = Len(buffered) + Len(cs) + 1
           /\ Len(buffered) \in Nat /\ Len(cs) \in Nat
           /\ \A k \in 1 .. Len(buffered) : items[k] = EventItem(buffered[k])
           /\ \A k \in 1 .. Len(cs) : items[Len(buffered) + k] = CallItem(cs[k])
           /\ items[Len(items)] = DoneItem
<1>1. PICK a \in Seq(Item) : /\ a = HeldBack /\ Len(a) = Len(buffered)
                             /\ \A k \in 1 .. Len(buffered) : a[k] = EventItem(buffered[k])
  BY EventsAt DEF HeldBack, RelayTypeOK
<1>2. PICK b \in Seq(Item) : /\ b = CallItems(cs) /\ Len(b) = Len(cs)
                             /\ \A k \in 1 .. Len(cs) : b[k] = CallItem(cs[k])
  <2>1. \A k \in 1 .. Len(cs) : CallItems(cs)[k] = CallItem(cs[k])
    BY DEF CallItems
  <2> QED BY <2>1, RelayAssumption, CallItemsTypes
<1>3. DoneItem \in Item
  BY DEF DoneItem, Item
<1>4. PICK c \in Seq(Item) : c = <<DoneItem>> /\ Len(c) = 1 /\ c[1] = DoneItem
  <2>1. /\ <<DoneItem>> \in Seq(Item) /\ Len(<<DoneItem>>) = 1
        /\ <<DoneItem>>[1] = DoneItem
    BY <1>3
  <2> QED BY <2>1
<1> HIDE DEF Item, EventItem, CallItem, DoneItem
<1>5. items = (a \o b) \o c
  BY <1>1, <1>2, <1>4
<1>6. PICK ab \in Seq(Item) :
         /\ ab = a \o b /\ Len(ab) = Len(a) + Len(b)
         /\ \A k \in 1 .. Len(a) : ab[k] = a[k]
         /\ \A k \in 1 .. Len(b) : ab[Len(a) + k] = b[k]
  BY ItemsJoined, Zenon
<1>7. /\ items \in Seq(Item) /\ Len(items) = Len(ab) + Len(c)
      /\ \A k \in 1 .. Len(ab) : items[k] = ab[k]
      /\ \A k \in 1 .. Len(c) : items[Len(ab) + k] = c[k]
  <2>1. items = ab \o c
    BY <1>5, <1>6
  <2>2. /\ ab \o c \in Seq(Item) /\ Len(ab \o c) = Len(ab) + Len(c)
        /\ \A k \in 1 .. Len(ab) : (ab \o c)[k] = ab[k]
        /\ \A k \in 1 .. Len(c) : (ab \o c)[Len(ab) + k] = c[k]
    BY ItemsJoined, Zenon
  <2> QED BY <2>1, <2>2, Zenon
<1>8. Len(buffered) \in Nat /\ Len(cs) \in Nat
  BY DEF RelayTypeOK
<1>9. Len(ab) = Len(buffered) + Len(cs) /\ Len(items) = Len(ab) + 1
  BY <1>1, <1>2, <1>4, <1>6, <1>7
<1>10. ASSUME NEW k \in 1 .. Len(buffered) PROVE items[k] = EventItem(buffered[k])
  <2>1. k \in 1 .. Len(ab) /\ k \in 1 .. Len(a)
    BY <1>1, <1>8, <1>9
  <2> QED BY <1>1, <1>6, <1>7, <2>1
<1>11. ASSUME NEW k \in 1 .. Len(cs) PROVE items[Len(buffered) + k] = CallItem(cs[k])
  <2>1. Len(buffered) + k \in 1 .. Len(ab) /\ k \in 1 .. Len(b)
    BY <1>2, <1>8, <1>9
  <2> QED BY <1>1, <1>2, <1>6, <1>7, <2>1
<1>12. items[Len(items)] = DoneItem
  <2>1. 1 \in 1 .. Len(c)
    BY <1>4
  <2> QED BY <1>4, <1>7, <1>9, <2>1
<1> QED BY <1>7, <1>8, <1>9, <1>10, <1>11, <1>12

(* The end of an answer that fails: nothing more is sent, or what was held  *)
(* back and the first calls.                                                *)
LEMMA CutEnding ==
    ASSUME RelayTypeOK, NEW told \in Seq(Nat), Laid(told, <<>>, 0),
           NEW calls \in Seq(Index), Increasing(calls), NEW items,
           items = HeldBack \o CallItems(calls) \o <<DoneItem>>,
           NEW c \in Cuts(items), out' = out \o SubSeq(items, 1, c), pending' = pending
    PROVE  \E t \in {<<>>, buffered}, cs \in Seq(Index) :
              /\ Increasing(cs) /\ (calls = <<>> => cs = <<>>)
              /\ \A s : s = told \o t => Laid(s, cs, 0)'
<1>1. /\ items \in Seq(Item) /\ Len(items) = Len(buffered) + Len(calls) + 1
      /\ Len(buffered) \in Nat /\ Len(calls) \in Nat
      /\ \A k \in 1 .. Len(buffered) : items[k] = EventItem(buffered[k])
      /\ \A k \in 1 .. Len(calls) : items[Len(buffered) + k] = CallItem(calls[k])
  BY EndingAt
<1>2. /\ c \in 0 .. Len(items) - 1 /\ c \in 0 .. Len(items)
      /\ c = 0 \/ c >= Len(buffered)
  BY <1>1 DEF Cuts
<1>3. PICK x : x = SubSeq(items, 1, c)
  OBVIOUS
<1> HIDE DEF Item, EventItem, CallItem, DoneItem
<1>4. x \in Seq(Item) /\ Len(x) = c /\ \A k \in 1 .. c : x[k] = items[k]
  BY <1>1, <1>2, <1>3, SubSeqProperties
<1>5. CASE c >= Len(buffered)
  <2>1. PICK m \in 0 .. Len(calls) : c = Len(buffered) + m
    <3>1. c - Len(buffered) \in 0 .. Len(calls) /\ c = Len(buffered) + (c - Len(buffered))
      BY <1>1, <1>2, <1>5
    <3> QED BY <3>1
  <2>2. PICK cs \in Seq(Index) : Len(cs) = m /\ \A k \in 1 .. m : cs[k] = calls[k]
    <3>1. /\ SubSeq(calls, 1, m) \in Seq(Index) /\ Len(SubSeq(calls, 1, m)) = m
          /\ \A k \in 1 .. m : SubSeq(calls, 1, m)[k] = calls[k]
      BY <1>1, SubSeqProperties
    <3> QED BY <3>1
  <2>3. Increasing(cs)
    <3>1. DOMAIN cs = 1 .. m /\ DOMAIN calls = 1 .. Len(calls) /\ 1 .. m \subseteq 1 .. Len(calls)
      BY <1>1, <2>2
    <3> QED BY <2>2, <3>1 DEF Increasing
  <2>4. calls = <<>> => cs = <<>>
    BY <2>2
  <2>5. \A k \in 1 .. Len(buffered) : x[k] = EventItem(buffered[k])
    <3>1. \A k \in 1 .. Len(buffered) : k \in 1 .. c
      BY <1>1, <1>2, <1>5
    <3> QED BY <1>1, <1>4, <3>1
  <2>6. \A k \in 1 .. Len(cs) : x[Len(buffered) + k] = CallItem(cs[k])
    <3> TAKE k \in 1 .. Len(cs)
    <3>1. k \in 1 .. m /\ k \in 1 .. Len(calls) /\ Len(buffered) + k \in 1 .. c
      BY <1>1, <2>1, <2>2
    <3> QED BY <1>1, <1>4, <2>2, <3>1
  <2>7. Len(x) = Len(buffered) + Len(cs) + 0
    BY <1>1, <1>4, <2>1, <2>2
  <2>8. ASSUME NEW s, s = told \o buffered PROVE Laid(s, cs, 0)'
    <3>1. buffered \in Seq(Nat) /\ out' = out \o x /\ 0 \in {0, 1} /\ 0 # 1
      BY <1>3 DEF RelayTypeOK
    <3> QED BY <1>4, <2>5, <2>6, <2>7, <2>8, <3>1, LaidOn
  <2> QED BY <2>3, <2>4, <2>8
<1>6. CASE c = 0
  <2>1. PICK t \in Seq(Nat) : t = <<>> /\ Len(t) = 0 /\ 1 .. Len(t) = {}
    <3>1. <<>> \in Seq(Nat) /\ Len(<<>>) = 0 /\ 1 .. 0 = {}
      OBVIOUS
    <3> QED BY <3>1
  <2>2. ASSUME NEW s, s = told \o t PROVE Laid(s, <<>>, 0)'
    <3>1. Len(x) = Len(t) /\ out' = out \o x
      BY <1>3, <1>4, <1>6, <2>1
    <3> QED BY <1>4, <2>1, <2>2, <3>1, LaidEvents
  <2>3. PICK cs \in Seq(Index) : cs = <<>> /\ Increasing(cs)
    <3>1. <<>> \in Seq(Index)
      OBVIOUS
    <3> QED BY <3>1, NoPlace
  <2> QED BY <2>1, <2>2, <2>3
<1> QED BY <1>2, <1>5, <1>6

LEMMA FinishAccounts ==
    ASSUME RelayTypeOK, Accounted, phase \in {"reading", "blocked"}, FinishStream,
           UNCHANGED <<heard, coalesce, gone>>
    PROVE  Accounted'
<1>1. /\ InPlace /\ Sending /\ result = "none" /\ \A i \in Index : Gathered(i)
      /\ next = Len(heard) + 1 /\ phase # "returned" /\ buffered \in Seq(Nat)
  <2>1. InPlace /\ Sending /\ result = "none"
    BY DEF Accounted, InPlace
  <2>2. next = Len(heard) + 1
    <3>1. Len(heard) \in Nat
      BY DEF RelayTypeOK
    <3>2. next \in 1 .. Len(heard) + 1 /\ ~(next <= Len(heard))
      BY <2>1 DEF InPlace
    <3> QED BY <3>1, <3>2
  <2> QED BY <2>1, <2>2 DEF Sending, RelayTypeOK
<1>2. PICK told \in Seq(Nat) : SendingAs(told) /\ Laid(told, <<>>, 0)
  BY <1>1 DEF Sending, SendingAs
<1>3. PICK calls \in Sorted({i \in Index : Complete(i)}) :
         /\ Deliver(HeldBack \o CallItems(calls) \o <<DoneItem>>, buffered,
                    Return("ok") /\ quiet' = 0 /\ UNCHANGED next)
         /\ pending' = pending
  BY DEF FinishStream
<1>4. /\ calls \in Seq(Index) /\ Increasing(calls)
      /\ coalesce => ToSet(calls) = {i \in Index : \E n \in PartsOf(i) : Names(heard[n])}
      /\ ~coalesce => calls = <<>>
  BY <1>1, <1>3, CallsAre
<1>5. PICK items : items = HeldBack \o CallItems(calls) \o <<DoneItem>>
  OBVIOUS
<1>6. CASE out' = out \o items /\ acc' = acc \o buffered /\ Return("ok") /\ UNCHANGED next
  <2>1. PICK s : s = told \o buffered
    OBVIOUS
  <2>2. PICK t \in {<<>>, buffered} : t = buffered
    OBVIOUS
  <2>3. PICK d \in {0, 1} : d = 1
    OBVIOUS
  <2>4. /\ items \in Seq(Item) /\ Len(items) = Len(t) + Len(calls) + d
        /\ \A k \in 1 .. Len(t) : items[k] = EventItem(t[k])
        /\ \A k \in 1 .. Len(calls) : items[Len(t) + k] = CallItem(calls[k])
        /\ items[Len(items)] = DoneItem
    BY <1>4, <1>5, <2>2, <2>3, EndingAt
  <2>5. t \in Seq(Nat) /\ s = told \o t /\ out' = out \o items /\ pending' = pending
    BY <1>1, <1>3, <1>6, <2>1, <2>2
  <2>6. Laid(s, calls, d)'
    BY <1>2, <1>4, <2>4, <2>5, LaidOn
  <2>7. /\ phase' = "returned" /\ result' = "ok" /\ next' = next
        /\ acc' \in {acc, acc \o buffered}
    BY <1>6 DEF Return
  <2>8. calls = <<>> \/ (coalesce /\ next = Len(heard) + 1 /\ pending' = pending)
    BY <1>1, <1>3, <1>4
  <2>9. Final'
    BY <1>1, <1>2, <1>4, <2>2, <2>3, <2>5, <2>6, <2>7, <2>8, Ends
  <2>10. InPlace'
    BY <1>1, <2>7 DEF InPlace
  <2> QED BY <2>7, <2>9, <2>10 DEF Accounted
<1>7. CASE /\ gone
           /\ \E c \in Cuts(items) :
                 /\ out' = out \o SubSeq(items, 1, c)
                 /\ acc' = acc \o (IF c < Len(buffered) THEN buffered ELSE buffered)
           /\ Return("failed") /\ UNCHANGED next
  <2>1. PICK c \in Cuts(items) : out' = out \o SubSeq(items, 1, c) /\ acc' = acc \o buffered
    BY <1>7
  <2>2. PICK t \in {<<>>, buffered}, cs \in Seq(Index) :
              /\ Increasing(cs) /\ (calls = <<>> => cs = <<>>)
              /\ \A s : s = told \o t => Laid(s, cs, 0)'
    BY <1>2, <1>3, <1>4, <1>5, <2>1, CutEnding
  <2>3. PICK s : s = told \o t
    OBVIOUS
  <2>4. PICK d \in {0, 1} : d = 0
    OBVIOUS
  <2>5. /\ phase' = "returned" /\ result' = "failed" /\ next' = next
        /\ acc' \in {acc, acc \o buffered}
    BY <1>7, <2>1 DEF Return
  <2>6. Laid(s, cs, d)' /\ (d = 1 <=> result' = "ok") /\ d # 1
    <3>1. Laid(s, cs, 0)'
      BY <2>2, <2>3
    <3> QED BY <2>4, <2>5, <3>1
  <2>7. cs = <<>> \/ (coalesce /\ next = Len(heard) + 1 /\ pending' = pending)
    BY <1>1, <1>3, <1>4, <2>2
  <2>8. Final'
    BY <1>1, <1>2, <2>2, <2>3, <2>5, <2>6, <2>7, Ends
  <2>9. InPlace'
    BY <1>1, <2>5 DEF InPlace
  <2> QED BY <2>5, <2>8, <2>9 DEF Accounted
<1> QED BY <1>3, <1>5, <1>6, <1>7 DEF Deliver

(* More is heard while nothing is handled.                                  *)
LEMMA HeardOn ==
    ASSUME RelayTypeOK, InPlace, Sending, NEW more \in Seq(Event), heard' = heard \o more,
           UNCHANGED <<coalesce, next, buffered, pending, acc, out>>
    PROVE  /\ Sending' /\ Len(heard') = Len(heard) + Len(more) /\ Len(heard) \in Nat
           /\ Len(more) \in Nat
<1>1. /\ Len(heard') = Len(heard) + Len(more) /\ Len(heard) \in Nat /\ Len(more) \in Nat
      /\ \A n \in 1 .. Len(heard) : heard'[n] = heard[n]
  <2>1. heard \in Seq(Event)
    BY DEF RelayTypeOK
  <2> QED BY <2>1, JoinedAt
<1>2. \A n \in 1 .. next - 1 : heard'[n] = heard[n]
  <2>1. 1 .. next - 1 \subseteq 1 .. Len(heard)
    BY <1>1 DEF InPlace
  <2> QED BY <1>1, <2>1
<1>3. PICK told \in Seq(Nat) : SendingAs(told)
  BY DEF Sending
<1>4. /\ Increasing(told \o buffered)
      /\ ToSet(told \o buffered) = {n \in 1 .. next - 1 : VisibleAt(n)}
      /\ Increasing(acc \o buffered) /\ ToSet(acc \o buffered) \subseteq 1 .. next - 1
      /\ TextOf(ToSet(told)) = TextOf(ToSet(acc)) /\ TextOf(ToSet(buffered)) = {}
      /\ Laid(told, <<>>, 0)
  BY <1>3 DEF SendingAs
<1>5. ToSet(told) \subseteq 1 .. next - 1 /\ ToSet(acc) \subseteq 1 .. next - 1
      /\ ToSet(buffered) \subseteq 1 .. next - 1
  <2>1. /\ ToSet(told \o buffered) = ToSet(told) \cup ToSet(buffered)
        /\ ToSet(acc \o buffered) = ToSet(acc) \cup ToSet(buffered)
    BY JoinedPlaces DEF RelayTypeOK
  <2> QED BY <1>4, <2>1
<1>6. /\ TextOf(ToSet(told))' = TextOf(ToSet(acc))' /\ TextOf(ToSet(buffered))' = {}
  <2>1. ASSUME NEW S, S \subseteq 1 .. next - 1 PROVE TextOf(S)' = TextOf(S)
    BY <1>2, <2>1 DEF TextOf
  <2>2. TextOf(ToSet(told))' = TextOf(ToSet(told))
    BY <1>5, <2>1
  <2>3. TextOf(ToSet(acc))' = TextOf(ToSet(acc))
    BY <1>2, <1>5 DEF TextOf
  <2>4. TextOf(ToSet(buffered))' = TextOf(ToSet(buffered))
    BY <1>2, <1>5 DEF TextOf
  <2> QED BY <1>4, <2>2, <2>3, <2>4
<1>7. {n \in 1 .. next - 1 : VisibleAt(n)} = {n \in 1 .. next' - 1 : VisibleAt(n)'}
  BY <1>2 DEF VisibleAt
<1>8. Laid(told, <<>>, 0)'
  BY <1>4 DEF Laid, CallItem
<1>9. SendingAs(told)'
  BY <1>4, <1>6, <1>7, <1>8 DEF SendingAs
<1>10. \A i \in Index : Gathered(i)'
  BY <1>2 DEF Sending, Gathered
<1> QED BY <1>1, <1>9, <1>10 DEF Sending

LEMMA SameAccount ==
    ASSUME Accounted, UNCHANGED <<heard, coalesce, relay>>, phase = "returned" => UNCHANGED gone
    PROVE  Accounted'
<1>1. UNCHANGED <<heard, coalesce, phase, next, buffered, pending, acc, out, result>>
  BY DEF relay
<1>2. InPlace'
  BY <1>1 DEF Accounted, InPlace
<1>3. ASSUME NEW s, NEW cs, NEW d PROVE Laid(s, cs, d)' <=> Laid(s, cs, d)
  BY <1>1 DEF Laid, CallItem
<1>4. CASE phase = "returned"
  <2>1. PICK s \in Seq(Nat), cs \in Seq(Index), d \in {0, 1} : SentAs(s, cs, d)
    BY <1>4 DEF Accounted, Final
  <2>2. SentAs(s, cs, d)'
    BY <1>1, <1>3, <1>4, <2>1 DEF SentAs, Visible, VisibleAt, PartsOf, TextOf, Begins
  <2> QED BY <1>1, <1>2, <1>4, <2>2 DEF Accounted, Final
<1>5. CASE phase # "returned"
  <2>1. PICK told \in Seq(Nat) : SendingAs(told)
    BY <1>5 DEF Accounted, Sending
  <2>2. SendingAs(told)'
    BY <1>1, <1>3, <2>1 DEF SendingAs, VisibleAt, TextOf
  <2>3. \A i \in Index : Gathered(i)'
    BY <1>1, <1>5 DEF Accounted, Sending, Gathered
  <2> QED BY <1>1, <1>2, <1>5, <2>2, <2>3 DEF Accounted, Sending
<1> QED BY <1>4, <1>5

LEMMA EnterAccounts ==
    ASSUME RelayTypeOK, Accounted, EnterRead
    PROVE  Accounted'
<1>1. /\ phase = "reading" /\ UNCHANGED <<heard, coalesce, gone>>
      /\ InPlace /\ Sending /\ result = "none"
  BY DEF EnterRead, upstream, Accounted, InPlace
<1>2. CASE Return("failed") /\ UNCHANGED <<next, released, buffered, pending, acc, out, quiet>>
  <2>1. phase' = "returned" /\ result' = "failed" /\ UNCHANGED <<next, out, acc>>
    BY <1>2 DEF Return
  <2>2. Final'
    BY <1>1, <2>1, StoppedOn
  <2>3. InPlace'
    BY <1>1, <2>1 DEF InPlace
  <2> QED BY <2>1, <2>2, <2>3 DEF Accounted
<1>3. CASE FinishStream
  BY <1>1, <1>3, FinishAccounts
<1>4. CASE /\ phase' = "blocked"
           /\ UNCHANGED <<next, released, buffered, pending, acc, out, result, dog, clock>>
  <2>1. \E told \in Seq(Nat) : SendingAs(told)'
    <3>1. PICK told \in Seq(Nat) : SendingAs(told)
      BY <1>1 DEF Sending
    <3>2. SendingAs(told)'
      BY <1>1, <1>4, <3>1 DEF SendingAs, Laid, CallItem, VisibleAt, TextOf
    <3> QED BY <3>2
  <2>2. \A i \in Index : Gathered(i)'
    BY <1>1, <1>4 DEF Sending, Gathered
  <2>3. InPlace'
    BY <1>1, <1>4 DEF InPlace
  <2> QED BY <1>4, <2>1, <2>2, <2>3 DEF Accounted, Sending
<1> QED BY <1>2, <1>3, <1>4 DEF EnterRead

LEMMA MoreAccounts ==
    ASSUME RelayTypeOK, Accounted, phase = "blocked", NEW more \in Seq(Event),
           heard' = heard \o more, phase' = IF more = <<>> THEN "blocked" ELSE "handling",
           UNCHANGED <<coalesce, next, buffered, pending, acc, out, result>>
    PROVE  Accounted'
<1>1. InPlace /\ Sending /\ result = "none"
  BY DEF Accounted, InPlace
<1>2. /\ Sending' /\ Len(heard') = Len(heard) + Len(more)
      /\ Len(heard) \in Nat /\ Len(more) \in Nat
  BY <1>1, HeardOn
<1>3. next = Len(heard) + 1 /\ next' = next
  <2>1. next \in 1 .. Len(heard) + 1 /\ ~(next <= Len(heard))
    BY <1>1 DEF InPlace
  <2> QED BY <1>2, <2>1
<1>4. more = <<>> <=> Len(more) = 0
  <2> HIDE DEF Event
  <2> QED OBVIOUS
<1>5. next' \in 1 .. Len(heard') + 1 /\ (phase' = "handling" <=> next' <= Len(heard'))
  BY <1>2, <1>3, <1>4
<1>6. phase' # "returned" /\ InPlace'
  BY <1>1, <1>5 DEF InPlace
<1> QED BY <1>2, <1>6 DEF Accounted

LEMMA HearAccounts ==
    ASSUME RelayTypeOK, Accounted, Hear
    PROVE  Accounted'
<1>1. ASSUME NEW events \in Seq(Event), NEW t, Hears(events, t) PROVE Accounted'
  BY <1>1, MoreAccounts DEF Hears
<1>2. \E events \in Seq(Event) : \E t : Hears(events, t)
  BY HearsEvents
<1> QED BY <1>1, <1>2

LEMMA ReadEndsAccounts ==
    ASSUME RelayTypeOK, Accounted, ReadEnds
    PROVE  Accounted'
<1>1. phase = "blocked" /\ UNCHANGED <<coalesce, gone>> /\ InPlace /\ Sending /\ result = "none"
  BY DEF ReadEnds, Accounted, InPlace
<1>2. CASE Return("failed")
           /\ UNCHANGED <<upstream, next, released, buffered, pending, acc, out, begun, quiet>>
  <2>1. phase' = "returned" /\ result' = "failed" /\ UNCHANGED <<heard, next, out, acc>>
    BY <1>2 DEF Return, upstream
  <2>2. Final'
    BY <1>1, <2>1, StoppedOn
  <2>3. InPlace'
    BY <1>1, <2>1 DEF InPlace
  <2> QED BY <2>1, <2>2, <2>3 DEF Accounted
<1>3. CASE FinishStream /\ UNCHANGED <<upstream, begun>>
  BY <1>1, <1>3, FinishAccounts DEF upstream
<1>4. CASE /\ \E last \in LastWords(dialect, tr) : heard' = heard \o last
           /\ phase' = "handling" /\ begun' = TRUE
           /\ UNCHANGED <<body, next, released, buffered, pending, acc, out, result, dog, clock>>
  <2>1. PICK last \in Seq(Event) : last # <<>> /\ heard' = heard \o last
    BY <1>4, LastWordsTypes
  <2> QED BY <1>1, <1>4, <2>1, MoreAccounts
<1> QED BY <1>2, <1>3, <1>4 DEF ReadEnds

LEMMA AccountedAlways ==
    ASSUME RelayTypeOK, Accounted, [RelayNext]_relay_vars
    PROVE  Accounted'
<1>1. ASSUME NEW how \in {"eof", "broken"}, UpstreamEnds(how) PROVE Accounted'
  BY <1>1, SameAccount DEF UpstreamEnds
<1>2. CASE Watchdog
  BY <1>2, SameAccount DEF Watchdog
<1>3. CASE DeadlineFires
  BY <1>3, SameAccount DEF DeadlineFires
<1>4. CASE ClientLeaves
  BY <1>4, SameAccount DEF ClientLeaves
<1>5. CASE TimePasses
  BY <1>5, SameAccount DEF TimePasses, upstream
<1>6. CASE UNCHANGED relay_vars
  BY <1>6, SameAccount DEF relay_vars, upstream
<1> QED
  BY <1>1, <1>2, <1>3, <1>4, <1>5, <1>6, HandleAccounts, EnterAccounts, HearAccounts,
     ReadEndsAccounts DEF RelayNext, Returned

LEMMA AccountedAtFirst ==
    ASSUME RelayInit
    PROVE  Accounted
<1>1. PICK told \in Seq(Nat) : told = <<>> /\ Increasing(told) /\ ToSet(told) = {}
  BY NoPlace
<1>2. told \o <<>> = <<>> /\ Len(told) = 0 /\ 1 .. 0 = {} /\ Len(<<>>) = 0 /\ 1 - 1 = 0
  BY <1>1
<1>3. Laid(told, <<>>, 0)
  BY <1>2 DEF RelayInit, Laid
<1>4. SendingAs(told)
  BY <1>1, <1>2, <1>3 DEF RelayInit, SendingAs, TextOf
<1>5. \A i \in Index : Gathered(i)
  BY <1>1, <1>2 DEF RelayInit, Gathered
<1>6. InPlace
  BY <1>2 DEF RelayInit, InPlace
<1> QED BY <1>4, <1>5, <1>6 DEF Accounted, Sending, RelayInit

(* Before it returns, too.                                                  *)
LEMMA SendingTells ==
    ASSUME RelayTypeOK, InPlace, Sending, phase # "returned"
    PROVE  ReplayIsWhatClientHas /\ WholeAnswer
<1>1. PICK told \in Seq(Nat) : SendingAs(told)
  BY DEF Sending
<1>2. /\ buffered \in Seq(Nat) /\ acc \in Seq(Nat) /\ next \in 1 .. Len(heard) + 1
      /\ Len(heard) \in Nat /\ DOMAIN heard = 1 .. Len(heard)
  <2> HIDE DEF Event
  <2> QED BY DEF RelayTypeOK, InPlace
<1>3. /\ Laid(told, <<>>, 0) /\ Increasing(told) /\ Increasing(acc)
      /\ ToSet(told) \cup ToSet(buffered) = {n \in 1 .. next - 1 : VisibleAt(n)}
      /\ \A m \in ToSet(told), n \in ToSet(buffered) : m < n
      /\ TextOf(ToSet(told)) = TextOf(ToSet(acc))
  BY <1>1, <1>2, JoinedPlaces DEF SendingAs
<1>4. /\ At("event") = 1 .. Len(told) /\ At("call") = {} /\ At("done") = {}
      /\ Sent = ToSet(told) /\ SentInOrder
  <2>1. PICK cs \in Seq(Index) : cs = <<>> /\ Len(cs) = 0
    <3>1. <<>> \in Seq(Index) /\ Len(<<>>) = 0
      OBVIOUS
    <3> QED BY <3>1
  <2>2. PICK d \in {0, 1} : d = 0
    OBVIOUS
  <2>3. Laid(told, cs, d)
    BY <1>3, <2>1, <2>2
  <2>4. Len(told) \in Nat /\ Len(told) + 1 .. Len(told) + 0 = {}
    OBVIOUS
  <2>5. /\ At("event") = 1 .. Len(told)
        /\ At("call") = Len(told) + 1 .. Len(told) + Len(cs)
        /\ At("done") = IF d = 1 THEN {Len(out)} ELSE {}
        /\ Sent = ToSet(told)
    BY <2>3, ByKind
  <2>6. SentInOrder
    BY <1>3, <2>3, InOrder
  <2> QED BY <2>1, <2>2, <2>4, <2>5, <2>6
<1>5. Begins(ToSet(told), Visible)
  <2>1. Visible = {n \in 1 .. Len(heard) : VisibleAt(n)}
    BY <1>2 DEF Visible, VisibleAt
  <2>2. ToSet(told) \subseteq Visible
    BY <1>2, <1>3, <2>1
  <2>3. ASSUME NEW m \in ToSet(told), NEW n \in Visible \ ToSet(told) PROVE m < n
    <3>1. m \in 1 .. next - 1
      BY <1>3
    <3>2. n \in Nat /\ next \in Nat /\ n > 0 /\ VisibleAt(n)
      BY <1>2, <2>1
    <3>3. CASE n < next
      <4>1. n \in 1 .. next - 1
        BY <3>2, <3>3
      <4>2. n \in ToSet(buffered)
        BY <1>3, <2>3, <3>2, <4>1
      <4> QED BY <1>3, <4>2
    <3>4. CASE ~(n < next)
      BY <3>1, <3>2, <3>4
    <3> QED BY <3>3, <3>4
  <2> QED BY <2>2, <2>3 DEF Begins
<1>6. result # "ok"
  BY DEF InPlace
<1>7. ReplayIsWhatClientHas
  BY <1>3, <1>4 DEF ReplayIsWhatClientHas, Begins
<1>8. EventsInOrder
  BY <1>4, <1>5, <1>6 DEF EventsInOrder
<1>9. CallsComeWhole
  BY <1>4, <1>6 DEF CallsComeWhole
<1> QED BY <1>7, <1>8, <1>9 DEF WholeAnswer

----------------------------------------------------------------------------
(* The theorems. *)

(* StreamRelay: the types.                                                  *)
THEOREM RelayTypeCorrect == RelaySpec => []RelayTypeOK
BY TypesAtFirst, TypesAlways, PTL DEF RelaySpec

(* StreamRelay: no silence outlasts the window, nor the wait for the first  *)
(* output the deadline, for windows and deadlines of any length             *)
(* (streamIdleTimeout, StreamToClient).                                     *)
THEOREM StallsAreNoticed == RelaySpec => []StallNoticed
<1>1. RelayInit => Clocked
  BY ClockedAtFirst
<1>2. RelayTypeOK /\ Clocked /\ [RelayNext]_relay_vars => Clocked'
  BY ClockedAlways
<1>3. RelayTypeOK /\ Clocked => StallNoticed
  BY RelayAssumption DEF RelayAssumption, RelayTypeOK, Clocked, StallNoticed, FirstOutputIsDue
<1> QED BY <1>1, <1>2, <1>3, RelayTypeCorrect, PTL DEF RelaySpec

(* StreamRelay: the watchdog ends no stream whose client was served within  *)
(* the window, whenever a write and the timer coincide (MarkProgress).      *)
THEOREM SilenceAloneIsPunished == RelaySpec => OnlySilenceIsPunished
<1>1. RelayInit => Clocked
  BY ClockedAtFirst
<1>2. RelayTypeOK /\ Clocked /\ [RelayNext]_relay_vars => Clocked'
  BY ClockedAlways
<1>3. RelayTypeOK /\ Clocked /\ [RelayNext]_relay_vars =>
          [idle' /\ ~idle => waited >= MaxIdle]_relay_vars
  <2> SUFFICES ASSUME RelayTypeOK, Clocked, RelayNext, idle', ~idle
               PROVE  waited >= MaxIdle
    BY DEF relay_vars
  <2>1. ~(Handle \/ EnterRead \/ Hear \/ ReadEnds)
    BY RelayMoves DEF RelayMoved, Returns, Serves, Silent, dog, clock
  <2>2. Bark
    BY <2>1 DEF RelayNext, UpstreamEnds, Watchdog, Rewind, DeadlineFires, ClientLeaves, TimePasses,
                Returned, relay_vars, dog
  <2>3. left = 0 /\ ~closed
    BY <2>2 DEF Bark
  <2> QED BY <2>3, RelayAssumption DEF RelayAssumption, RelayTypeOK, Clocked, WindowIsOpen
<1> QED BY <1>1, <1>2, <1>3, RelayTypeCorrect, PTL DEF RelaySpec, OnlySilenceIsPunished

(* StreamRelay: what the attempt has noted for a replay is the text the     *)
(* client got, for answers of any length and wherever a write fails         *)
(* (accumulateDelta, flushBuffered).                                        *)
THEOREM ReplayIsTold == RelaySpec => []ReplayIsWhatClientHas
<1>1. RelayInit => Accounted
  BY AccountedAtFirst
<1>2. RelayTypeOK /\ Accounted /\ [RelayNext]_relay_vars => Accounted'
  BY AccountedAlways
<1>3. RelayTypeOK /\ Accounted => ReplayIsWhatClientHas
  BY FinalTells, SendingTells DEF Accounted
<1> QED BY <1>1, <1>2, <1>3, RelayTypeCorrect, PTL DEF RelaySpec

(* StreamRelay: an attempt that succeeds has sent the whole answer in order *)
(* and one sentinel behind it, with every call that was named in one piece; *)
(* any other has sent a beginning of it (streamSSE).                        *)
THEOREM AnswerIsWhole == RelaySpec => []WholeAnswer
<1>1. RelayInit => Accounted
  BY AccountedAtFirst
<1>2. RelayTypeOK /\ Accounted /\ [RelayNext]_relay_vars => Accounted'
  BY AccountedAlways
<1>3. RelayTypeOK /\ Accounted => WholeAnswer
  BY FinalTells, SendingTells DEF Accounted
<1> QED BY <1>1, <1>2, <1>3, RelayTypeCorrect, PTL DEF RelaySpec

===============================================================================
