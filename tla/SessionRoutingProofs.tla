------------------------ MODULE SessionRoutingProofs ------------------------
(***************************************************************************)
(* What SessionRouting promises of every selection, for any number of      *)
(* conversations, requests, endpoints, chains and substitutes, any         *)
(* catalogues a reload may install, and any hash that spreads new          *)
(* sessions.                                                               *)
(***************************************************************************)
EXTENDS SessionRouting, WellFoundedInduction, TLAPS

----------------------------------------------------------------------------
(* The first of a set of places.                                            *)

LEMMA MinIsFirst ==
    ASSUME NEW S, S \subseteq Nat, S # {}
    PROVE  Min(S) \in S /\ \A y \in S : Min(S) <= y
<1> DEFINE below == OpToRel(<, Nat)
<1>1. PICK x \in S : \A y \in S : <<y, x>> \notin below
  <2> HIDE DEF below
  <2>1. IsWellFoundedOn(below, Nat)
    BY NatLessThanWellFounded DEF below
  <2> QED BY <2>1, WFMin
<1>2. \A y \in S : x <= y
  <2>1. \A y \in S : ~(y < x)
    BY <1>1 DEF OpToRel
  <2> QED BY <2>1
<1>3. Min(S) = CHOOSE z \in S : \A y \in S : z =< y
  BY DEF Min
<1> QED BY <1>2, <1>3

----------------------------------------------------------------------------
(* Checks of availability.                                                  *)

Healths == [Endpoint -> Health]

\* After some checks: what was up is up, and nothing became available.
Dimmed(h, was) ==
    /\ h \in Healths
    /\ \A e \in Endpoint : /\ was[e] = "up" => h[e] = "up"
                           /\ Available(h, e) => Available(was, e)

LEMMA CheckedDims ==
    ASSUME NEW h \in Healths, NEW es
    PROVE  Dimmed(Checked(h, es), h)
BY DEF Healths, Health, Dimmed, Checked, Available

LEMMA CheckedNone ==
    ASSUME NEW h \in Healths
    PROVE  Checked(h, {}) = h
BY DEF Healths, Checked

LEMMA DimmedTwice ==
    ASSUME NEW h, NEW g, NEW was, Dimmed(g, was), Dimmed(h, g)
    PROVE  Dimmed(h, was)
BY DEF Dimmed

----------------------------------------------------------------------------
(* What a search finds.                                                     *)

Found == [health : Healths, pick : Endpoint \cup {None}, settled : BOOLEAN, chain : Chain]

\* An endpoint q may be given, by the health h and the configuration can.
Fits(q, h, e, can) == Available(h, e) /\ Eligible(q, e, can) /\ e \notin q.tried

LEMMA LookFinds ==
    ASSUME NEW q, NEW search \in Found, NEW e \in Endpoint, NEW can
    PROVE  /\ Look(q, search, e, can) \in Found
           /\ Dimmed(Look(q, search, e, can).health, search.health)
           /\ Look(q, search, e, can).pick =
                  IF Fits(q, search.health, e, can) THEN e ELSE None
<1>1. Dimmed(Checked(search.health, {e}), search.health)
  BY CheckedDims DEF Found
<1>2. Checked(search.health, {e}) \in Healths
  BY <1>1 DEF Dimmed
<1> DEFINE found == Look(q, search, e, can)
<1>3. /\ found.health = Checked(search.health, {e})
      /\ found.pick = IF Fits(q, search.health, e, can) THEN e ELSE None
      /\ found.settled = search.settled /\ found.chain = search.chain
      /\ found \in Found
  BY <1>2 DEF Look, Found, Fits
<1> QED BY <1>1, <1>3

LEMMA WalkFinds ==
    ASSUME NEW q, NEW search \in Found, NEW es \in Seq(Endpoint)
    PROVE  LET found == Walk(q, search, es)
               Fit(e) == Fits(q, search.health, e, catalogue.can[e])
           IN /\ found \in Found /\ Dimmed(found.health, search.health)
              /\ found.pick # None => found.pick \in ToSet(es) /\ Fit(found.pick)
              /\ found.pick = None => \A e \in ToSet(es) : ~Fit(e)
              /\ found.settled = search.settled
<1> DEFINE found == Walk(q, search, es)
           fits == {i \in DOMAIN es : Fits(q, search.health, es[i], catalogue.can[es[i]])}
           last == IF fits = {} THEN Len(es) ELSE Min(fits)
           after == Checked(search.health, {es[i] : i \in 1 .. last})
           pick == IF fits = {} THEN None ELSE es[last]
<1>1. found = [search EXCEPT !.health = after, !.pick = pick]
  BY DEF Walk, Fits
<1>2. Dimmed(after, search.health) /\ after \in Healths
  BY CheckedDims DEF Found, Dimmed
<1>3. ToSet(es) = {es[i] : i \in DOMAIN es} /\ \A i \in DOMAIN es : es[i] \in Endpoint
  BY DEF ToSet
<1>4. fits # {} => last \in fits
  <2>1. fits \subseteq Nat
    OBVIOUS
  <2> QED BY <2>1, MinIsFirst
<1>5. /\ fits # {} => pick \in ToSet(es) /\ Fits(q, search.health, pick, catalogue.can[pick])
      /\ fits # {} => pick \in Endpoint
      /\ fits = {} => pick = None
  BY <1>3, <1>4
<1>6. fits = {} => \A e \in ToSet(es) : ~Fits(q, search.health, e, catalogue.can[e])
  BY <1>3
<1> HIDE DEF fits, last, after, pick
<1>7. pick \in Endpoint \cup {None} /\ (pick = None <=> fits = {})
  BY <1>5, RoutingAssumption
<1>8. /\ found \in Found /\ found.health = after /\ found.pick = pick
      /\ found.settled = search.settled
  <2> HIDE DEF found
  <2> QED BY <1>1, <1>2, <1>7 DEF Found
<1> QED BY <1>2, <1>5, <1>6, <1>7, <1>8

LEMMA NothingInNone == ToSet(<<>>) = {}
BY DEF ToSet

LEMMA CatalogueTyped ==
    ASSUME TypeOK
    PROVE  /\ \A c \in Chain : catalogue.chain[c] \in Seq(Endpoint)
           /\ \A e \in Endpoint : catalogue.can[e] \subseteq Need
BY RoutingAssumption DEF TypeOK, CatalogueType

LEMMA EntryTyped ==
    ASSUME TypeOK, NEW s \in Session
    PROVE  /\ session[s].known \in BOOLEAN
           /\ session[s].known => session[s] \in Entry
           /\ ~session[s].known => session[s] = Unknown
           /\ session[s].known => /\ session[s].ep \in Endpoint
                                  /\ session[s].chain \in Chain
           /\ ModelOf[s] \in Chain
BY RoutingAssumption DEF TypeOK, Entry, Unknown

LEMMA RotateFinds ==
    ASSUME TypeOK, NEW q \in Asking, NEW search \in Found, search.pick = None
    PROVE  LET found == Rotate(q, search)
           IN /\ found \in Found /\ Dimmed(found.health, search.health)
              /\ found.pick # None =>
                    /\ found.pick \in ToSet(catalogue.chain[ModelOf[q.session]])
                    /\ Fits(q, search.health, found.pick, catalogue.can[found.pick])
<1> DEFINE es == catalogue.chain[ModelOf[q.session]]
           n == IF Window < Len(es) THEN Window ELSE Len(es)
           window == ToSet(SubSeq(es, 1, n))
           candidates == {e \in window : /\ Available(search.health, e)
                                         /\ Eligible(q, e, catalogue.can[e])}
           looked == [search EXCEPT !.health = Checked(@, window)]
           rest == SubSeq(es, n + 1, Len(es))
           eager == [q EXCEPT !.tried = {}]
           walked == Walk(eager, looked, rest)
           started == [looked EXCEPT !.pick = StartAt(q.session, candidates)]
           found == IF candidates # {} THEN started ELSE walked
           result == IF found.pick \in q.tried THEN [found EXCEPT !.pick = None] ELSE found
<1>1. Rotate(q, search) = result
  BY DEF Rotate
<1>2. /\ es \in Seq(Endpoint) /\ q.session \in Session /\ n \in Nat /\ n <= Len(es)
      /\ Len(es) \in Nat
  BY CatalogueTyped, RoutingAssumption DEF Asking
<1>3. /\ ToSet(es) \subseteq Endpoint
      /\ window \subseteq ToSet(es)
      /\ rest \in Seq(Endpoint) /\ ToSet(rest) \subseteq ToSet(es)
  <2> HIDE DEF es, n
  <2>1. /\ SubSeq(es, 1, n) \in Seq(Endpoint) /\ DOMAIN SubSeq(es, 1, n) = 1 .. n
        /\ \A i \in 1 .. n : SubSeq(es, 1, n)[i] = es[i]
    BY <1>2
  <2>2. /\ rest \in Seq(Endpoint) /\ DOMAIN rest = 1 .. Len(es) - n
        /\ \A i \in 1 .. Len(es) - n : rest[i] = es[n + i]
    BY <1>2
  <2>3. \A s : ToSet(s) = {s[i] : i \in DOMAIN s}
    BY DEF ToSet
  <2>4. DOMAIN es = 1 .. Len(es) /\ \A i \in 1 .. Len(es) : es[i] \in Endpoint
    BY <1>2
  <2>5. /\ \A i \in 1 .. n : i \in 1 .. Len(es)
        /\ \A i \in 1 .. Len(es) - n : n + i \in 1 .. Len(es)
    BY <1>2
  <2> HIDE DEF rest
  <2> QED BY <2>1, <2>2, <2>3, <2>4, <2>5
<1> HIDE DEF es, n, window, rest
<1>4. looked \in Found /\ Dimmed(looked.health, search.health) /\ looked.pick = None
  <2>1. /\ Dimmed(Checked(search.health, window), search.health)
        /\ Checked(search.health, window) \in Healths
    BY CheckedDims DEF Found, Dimmed
  <2> QED BY <2>1 DEF Found
<1>5. CASE candidates # {}
  <2>1. /\ candidates \subseteq Endpoint
        /\ \A e \in candidates : /\ e \in ToSet(es) /\ Available(search.health, e)
                                 /\ Eligible(q, e, catalogue.can[e])
    BY <1>3
  <2> DEFINE pick == StartAt(q.session, candidates)
  <2>2. pick \in candidates
    BY <1>2, <1>5, <2>1, RoutingAssumption
  <2> HIDE DEF candidates, looked, pick
  <2>3. pick \in Endpoint /\ started = [looked EXCEPT !.pick = pick]
    BY <2>1, <2>2 DEF pick
  <2>4. /\ started \in Found /\ started.health = looked.health /\ started.pick = pick
        /\ [started EXCEPT !.pick = None] \in Found
        /\ [started EXCEPT !.pick = None].health = looked.health
        /\ [started EXCEPT !.pick = None].pick = None
    BY <1>4, <2>3 DEF Found
  <2> HIDE DEF started
  <2>5. result = IF pick \in q.tried THEN [started EXCEPT !.pick = None] ELSE started
    BY <1>5, <2>4
  <2> QED BY <1>1, <1>4, <2>1, <2>2, <2>4, <2>5 DEF Fits, es
<1>6. CASE candidates = {}
  <2>1. /\ eager.needs = q.needs /\ eager.tried = {}
    BY DEF Asking
  <2> HIDE DEF looked, eager, candidates
  <2>2. /\ walked \in Found /\ Dimmed(walked.health, looked.health)
        /\ walked.pick # None => /\ walked.pick \in ToSet(rest)
                                 /\ Fits(eager, looked.health, walked.pick, catalogue.can[walked.pick])
    BY <1>3, <1>4, WalkFinds
  <2> HIDE DEF walked
  <2>3. /\ [walked EXCEPT !.pick = None] \in Found
        /\ [walked EXCEPT !.pick = None].health = walked.health
        /\ [walked EXCEPT !.pick = None].pick = None
    BY <2>2 DEF Found
  <2>4. result = IF walked.pick \in q.tried THEN [walked EXCEPT !.pick = None] ELSE walked
    BY <1>6
  <2>5. Dimmed(walked.health, search.health)
    BY <1>4, <2>2, DimmedTwice
  <2>6. ASSUME walked.pick # None, walked.pick \notin q.tried
        PROVE  /\ walked.pick \in ToSet(es)
               /\ Fits(q, search.health, walked.pick, catalogue.can[walked.pick])
    BY <1>3, <1>4, <2>1, <2>2, <2>6
    DEF Fits, Dimmed, Eligible, VisionEligible, ContextFits
  <2> QED BY <1>1, <2>2, <2>3, <2>4, <2>5, <2>6 DEF es
<1> QED BY <1>5, <1>6

\* What Proper asks of an endpoint that q is given, in a chain c.
Suits(q, h, e, c) ==
    /\ e \in ToSet(catalogue.chain[c]) /\ e \notin q.tried /\ Available(h, e)
    /\ "vision" \in q.needs => e \notin noVision
    /\ \/ q.needs \subseteq catalogue.can[e]
       \/ session[q.session].known /\ session[q.session].ep = e

\* The endpoint the session of q lives on can be had.
CanStay(q, h) ==
    LET se == session[q.session]
    IN se.known /\ InChain(se.ep, se.chain) /\ Fits(q, h, se.ep, se.can)

LEMMA FitSuits ==
    ASSUME NEW q, NEW h, NEW e, NEW c, e \in ToSet(catalogue.chain[c]),
           \/ Fits(q, h, e, catalogue.can[e])
           \/ /\ session[q.session].known /\ session[q.session].ep = e
              /\ Fits(q, h, e, session[q.session].can)
    PROVE  Suits(q, h, e, c)
BY DEF Suits, Fits, Eligible, VisionEligible, ContextFits

LEMMA ChainFinds ==
    ASSUME TypeOK, NEW q \in Asking, NEW search \in Found, search.pick = None,
           ~search.settled, NEW c \in Chain
    PROVE  LET found == SearchChain(q, search, c)
               se == session[q.session]
           IN /\ found \in Found /\ Dimmed(found.health, search.health) /\ found.chain = c
              /\ found.pick # None => Suits(q, search.health, found.pick, c)
              /\ found.pick = None =>
                    \A e \in ToSet(catalogue.chain[c]) :
                        ~(search.health[e] = "up" /\ Eligible(q, e, catalogue.can[e])
                          /\ e \notin q.tried)
              /\ (c = se.chain /\ CanStay(q, search.health)) =>
                    found.pick = se.ep /\ found.settled
<1> DEFINE se == session[q.session]
           es == catalogue.chain[c]
           sticky == se.known /\ c = se.chain /\ InChain(se.ep, se.chain)
           looked == Look(q, search, se.ep, se.can)
           rotated == Rotate(q, search)
           first == IF se.known /\ c = se.chain THEN Sticky(q, search, se)
                    ELSE IF ~se.known /\ c = ModelOf[q.session] THEN rotated
                    ELSE search
           walked == Walk(q, first, es)
           found == IF first.pick # None THEN [first EXCEPT !.settled = TRUE] ELSE walked
           result == [found EXCEPT !.chain = c]
<1>1. SearchChain(q, search, c) = result
  BY DEF SearchChain
<1>2. /\ es \in Seq(Endpoint) /\ ToSet(es) \subseteq Endpoint /\ q.session \in Session
      /\ se.known \in BOOLEAN /\ se.known => se.ep \in Endpoint /\ se.chain \in Chain
  <2>1. es \in Seq(Endpoint) /\ q.session \in Session
    BY CatalogueTyped DEF Asking
  <2>2. ToSet(es) \subseteq Endpoint
    BY <2>1 DEF ToSet
  <2> QED BY <2>1, <2>2, EntryTyped
<1>3. Dimmed(search.health, search.health)
  BY DEF Dimmed, Found
<1>5. /\ first \in Found /\ Dimmed(first.health, search.health)
      /\ first.pick # None => Suits(q, search.health, first.pick, c)
  <2>1. CASE sticky
    <3>1. first = looked
      BY <2>1 DEF Sticky
    <3>2. /\ looked \in Found /\ Dimmed(looked.health, search.health)
          /\ looked.pick = IF Fits(q, search.health, se.ep, se.can) THEN se.ep ELSE None
      BY <1>2, <2>1, LookFinds
    <3>3. se.ep \in ToSet(es)
      BY <2>1 DEF InChain
    <3> HIDE DEF looked, first
    <3> QED BY <2>1, <3>1, <3>2, <3>3, FitSuits
  <2>2. CASE ~sticky /\ ~se.known /\ c = ModelOf[q.session]
    <3>1. first = rotated
      BY <2>2
    <3>2. /\ rotated \in Found /\ Dimmed(rotated.health, search.health)
          /\ rotated.pick # None =>
                /\ rotated.pick \in ToSet(es)
                /\ Fits(q, search.health, rotated.pick, catalogue.can[rotated.pick])
      BY <2>2, RotateFinds
    <3> HIDE DEF rotated, first
    <3> QED BY <3>1, <3>2, FitSuits
  <2>3. CASE ~sticky /\ ~(~se.known /\ c = ModelOf[q.session])
    <3>1. first = search
      BY <1>2, <2>3 DEF Sticky
    <3> QED BY <1>3, <3>1
  <2> QED BY <2>1, <2>2, <2>3
<1>6. (c = se.chain /\ CanStay(q, search.health)) => first.pick = se.ep
  <2> SUFFICES ASSUME c = se.chain, CanStay(q, search.health) PROVE first.pick = se.ep
    OBVIOUS
  <2>1. se.known /\ InChain(se.ep, se.chain) /\ Fits(q, search.health, se.ep, se.can)
    BY DEF CanStay
  <2>2. first = looked
    BY <2>1 DEF Sticky
  <2> QED BY <1>2, <2>1, <2>2, LookFinds
<1> HIDE DEF first
<1>7. CASE first.pick # None
  <2>1. /\ result \in Found /\ result.health = first.health /\ result.chain = c
        /\ result.pick = first.pick /\ result.settled
    BY <1>5, <1>7 DEF Found
  <2> HIDE DEF result
  <2> QED BY <1>1, <1>5, <1>6, <1>7, <2>1
<1>8. CASE first.pick = None
  <2>1. /\ walked \in Found /\ Dimmed(walked.health, first.health)
        /\ walked.pick # None =>
              /\ walked.pick \in ToSet(es)
              /\ Fits(q, first.health, walked.pick, catalogue.can[walked.pick])
        /\ walked.pick = None =>
              \A e \in ToSet(es) : ~Fits(q, first.health, e, catalogue.can[e])
    BY <1>2, <1>5, WalkFinds
  <2> HIDE DEF walked
  <2>2. /\ result \in Found /\ result.health = walked.health /\ result.chain = c
        /\ result.pick = walked.pick
    BY <1>8, <2>1 DEF Found
  <2> HIDE DEF result
  <2>3. Dimmed(walked.health, search.health)
    BY <1>5, <2>1, DimmedTwice
  <2>4. walked.pick # None => Fits(q, search.health, walked.pick, catalogue.can[walked.pick])
    BY <1>2, <1>5, <2>1 DEF Fits, Dimmed
  <2>5. walked.pick # None => Suits(q, search.health, walked.pick, c)
    BY <2>1, <2>4, FitSuits
  <2>6. walked.pick = None =>
          \A e \in ToSet(es) : ~(search.health[e] = "up" /\ Eligible(q, e, catalogue.can[e])
                                 /\ e \notin q.tried)
    BY <1>2, <1>5, <2>1 DEF Fits, Dimmed, Available
  <2>7. ~(c = se.chain /\ CanStay(q, search.health))
    BY <1>2, <1>6, <1>8, RoutingAssumption DEF CanStay
  <2> QED BY <1>1, <2>2, <2>3, <2>5, <2>6, <2>7
<1> QED BY <1>7, <1>8

----------------------------------------------------------------------------
(* The order of the chains.                                                 *)

LEMMA PreferencesAre ==
    ASSUME TypeOK, NEW s \in Session
    PROVE  LET p == Preferences(s)
           IN /\ p \in Seq(Chain) /\ 1 \in DOMAIN p
              /\ {p[i] : i \in DOMAIN p} = Consulted(s)
              /\ p[1] = IF session[s].known THEN session[s].chain ELSE ModelOf[s]
<1> DEFINE lives == IF session[s].known THEN <<session[s].chain>> ELSE <<>>
           asked == <<ModelOf[s]>>
           p == lives \o asked \o Substitutes
<1>1. /\ ModelOf[s] \in Chain /\ session[s].known \in BOOLEAN
      /\ session[s].known => session[s].chain \in Chain
      /\ Substitutes \in Seq(Chain)
  BY EntryTyped, RoutingAssumption
<1>2. Preferences(s) = p
  BY DEF Preferences
<1>3. ToSet(Substitutes) = {Substitutes[i] : i \in 1 .. Len(Substitutes)}
  BY <1>1 DEF ToSet
<1>4. CASE session[s].known
  <2>1. p = <<session[s].chain, ModelOf[s]>> \o Substitutes
    BY <1>1, <1>4
  <2> HIDE DEF p
  <2>2. /\ p \in Seq(Chain) /\ Len(p) = Len(Substitutes) + 2
        /\ p[1] = session[s].chain /\ p[2] = ModelOf[s]
        /\ \A i \in 1 .. Len(Substitutes) : p[i + 2] = Substitutes[i]
    BY <1>1, <1>4, <2>1
  <2>3. \A i \in DOMAIN p : i = 1 \/ i = 2 \/ \E j \in 1 .. Len(Substitutes) : i = j + 2
    <3> SUFFICES ASSUME NEW i \in DOMAIN p, i # 1, i # 2
                 PROVE  \E j \in 1 .. Len(Substitutes) : i = j + 2
      OBVIOUS
    <3>1. i - 2 \in 1 .. Len(Substitutes) /\ i = (i - 2) + 2
      BY <1>1, <2>2
    <3> QED BY <3>1
  <2>4. /\ 1 \in DOMAIN p /\ 2 \in DOMAIN p
        /\ \A j \in 1 .. Len(Substitutes) : j + 2 \in DOMAIN p
    BY <1>1, <2>2
  <2>5. {p[i] : i \in DOMAIN p} = {session[s].chain, ModelOf[s]} \cup ToSet(Substitutes)
    <3>1. \A i \in DOMAIN p : p[i] \in {session[s].chain, ModelOf[s]} \cup ToSet(Substitutes)
      BY <1>3, <2>2, <2>3
    <3>2. \A c \in ToSet(Substitutes) : \E i \in DOMAIN p : p[i] = c
      BY <1>3, <2>2, <2>4
    <3> QED BY <2>2, <2>4, <3>1, <3>2
  <2> QED BY <1>2, <1>4, <2>2, <2>4, <2>5 DEF Consulted
<1>5. CASE ~session[s].known
  <2>1. p = <<ModelOf[s]>> \o Substitutes
    BY <1>1, <1>5
  <2> HIDE DEF p
  <2>2. /\ p \in Seq(Chain) /\ Len(p) = Len(Substitutes) + 1
        /\ p[1] = ModelOf[s]
        /\ \A i \in 1 .. Len(Substitutes) : p[i + 1] = Substitutes[i]
    BY <1>1, <1>5, <2>1
  <2>3. \A i \in DOMAIN p : i = 1 \/ \E j \in 1 .. Len(Substitutes) : i = j + 1
    <3> SUFFICES ASSUME NEW i \in DOMAIN p, i # 1
                 PROVE  \E j \in 1 .. Len(Substitutes) : i = j + 1
      OBVIOUS
    <3>1. i - 1 \in 1 .. Len(Substitutes) /\ i = (i - 1) + 1
      BY <1>1, <2>2
    <3> QED BY <3>1
  <2>4. 1 \in DOMAIN p /\ \A j \in 1 .. Len(Substitutes) : j + 1 \in DOMAIN p
    BY <1>1, <2>2
  <2>5. {p[i] : i \in DOMAIN p} = {ModelOf[s]} \cup ToSet(Substitutes)
    <3>1. \A i \in DOMAIN p : p[i] \in {ModelOf[s]} \cup ToSet(Substitutes)
      BY <1>3, <2>2, <2>3
    <3>2. \A c \in ToSet(Substitutes) : \E i \in DOMAIN p : p[i] = c
      BY <1>3, <2>2, <2>4
    <3> QED BY <2>2, <2>4, <3>1, <3>2
  <2> QED BY <1>2, <1>5, <2>2, <2>4, <2>5 DEF Consulted
<1> QED BY <1>1, <1>4, <1>5

(* Every chain that may be turned to and is configured has its turn.        *)
LEMMA EveryChainHasItsTurn ==
    ASSUME TypeOK, NEW s \in Session, NEW c \in Consulted(s), catalogue.chain[c] # <<>>
    PROVE  \E i \in ChainOrder(s) : Preferences(s)[i] = c
<1> DEFINE p == Preferences(s)
           places == {i \in DOMAIN p : p[i] = c}
<1>1. p \in Seq(Chain) /\ c \in {p[i] : i \in DOMAIN p}
  BY PreferencesAre
<1> HIDE DEF p
<1>2. places # {} /\ places \subseteq Nat /\ DOMAIN p = 1 .. Len(p) /\ Len(p) \in Nat
  BY <1>1
<1>3. PICK i \in places : \A j \in places : i <= j
  BY <1>2, MinIsFirst
<1>4. \A j \in 1 .. i - 1 : p[j] # p[i]
  BY <1>2, <1>3
<1> QED BY <1>3, <1>4 DEF ChainOrder, p

(* The first preference has the first turn.                                 *)
LEMMA FirstTurn ==
    ASSUME TypeOK, NEW s \in Session
    PROVE  /\ ChainOrder(s) \subseteq Nat /\ \A i \in ChainOrder(s) : i >= 1
           /\ catalogue.chain[Preferences(s)[1]] # <<>> => 1 \in ChainOrder(s)
<1>1. Preferences(s) \in Seq(Chain) /\ 1 \in DOMAIN Preferences(s)
  BY PreferencesAre
<1> QED BY <1>1 DEF ChainOrder

LEMMA SuitsBefore ==
    ASSUME NEW q, NEW h, NEW was, NEW e \in Endpoint, NEW c, Suits(q, h, e, c), Dimmed(h, was)
    PROVE  Suits(q, was, e, c)
BY DEF Suits, Dimmed

\* Nothing in chain c is up, untried and able to serve q.
NothingFor(q, c) ==
    \A e \in ToSet(catalogue.chain[c]) :
        ~(health[e] = "up" /\ Eligible(q, e, catalogue.can[e]) /\ e \notin q.tried)

LEMMA TurnFinds ==
    ASSUME TypeOK, NEW q \in Asking, NEW i \in ChainOrder(q.session)
    PROVE  LET found == Turn(q, i)
               c == Preferences(q.session)[i]
           IN /\ found \in Found /\ Dimmed(found.health, health) /\ found.chain = c
              /\ found.pick # None => Suits(q, health, found.pick, c)
              /\ found.pick = None => NothingFor(q, c)
              /\ (i = 1 /\ c = session[q.session].chain /\ CanStay(q, health)) =>
                    found.pick = session[q.session].ep /\ found.settled
<1> DEFINE s == q.session
           c == Preferences(s)[i]
           before == Passed(s, {j \in ChainOrder(s) : j < i})
           start == [NewSearch(q) EXCEPT !.health = Checked(@, before)]
           found == SearchChain(q, start, c)
<1>1. Turn(q, i) = found
  BY DEF Turn
<1>2. s \in Session
  BY DEF Asking
<1>3. c \in Chain
  BY <1>2, PreferencesAre DEF ChainOrder
<1>4. health \in Healths
  BY DEF TypeOK, Healths
<1>5. Dimmed(Checked(health, before), health) /\ Checked(health, before) \in Healths
  BY <1>4, CheckedDims DEF Dimmed
<1>6. ModelOf[s] \in Chain
  BY <1>2, EntryTyped
<1>7. i = 1 => Checked(health, before) = health
  <2>1. i = 1 => {j \in ChainOrder(s) : j < i} = {}
    BY <1>2, FirstTurn
  <2>2. i = 1 => before = {}
    BY <2>1 DEF Passed
  <2> QED BY <1>4, <2>2, CheckedNone
<1> HIDE DEF before
<1>8. /\ start \in Found /\ start.health = Checked(health, before)
      /\ start.pick = None /\ ~start.settled
  BY <1>5, <1>6 DEF NewSearch, Found
<1> HIDE DEF start, c, s
<1>9. /\ found \in Found /\ Dimmed(found.health, start.health) /\ found.chain = c
      /\ found.pick # None => Suits(q, start.health, found.pick, c)
      /\ found.pick = None =>
            \A e \in ToSet(catalogue.chain[c]) :
                ~(start.health[e] = "up" /\ Eligible(q, e, catalogue.can[e]) /\ e \notin q.tried)
      /\ (c = session[q.session].chain /\ CanStay(q, start.health)) =>
            found.pick = session[q.session].ep /\ found.settled
  BY <1>3, <1>8, ChainFinds
<1> HIDE DEF found
<1>10. Dimmed(found.health, health)
  BY <1>5, <1>8, <1>9, DimmedTwice
<1>11. found.pick # None => Suits(q, health, found.pick, c)
  BY <1>5, <1>8, <1>9, SuitsBefore DEF Found
<1>12. found.pick = None => NothingFor(q, c)
  <2>1. ToSet(catalogue.chain[c]) \subseteq Endpoint
    BY <1>3, CatalogueTyped DEF ToSet
  <2>2. \A e \in Endpoint : health[e] = "up" => start.health[e] = "up"
    BY <1>5, <1>8 DEF Dimmed
  <2> QED BY <1>9, <2>1, <2>2 DEF NothingFor
<1> QED BY <1>1, <1>7, <1>8, <1>9, <1>10, <1>11, <1>12 DEF c, s

(* A selection consults the chains in order and takes the first endpoint it *)
(* finds; only if there is none in any of them it gives up.                 *)
LEMMA SearchFinds ==
    ASSUME TypeOK, NEW q \in Asking, catalogue.chain[ModelOf[q.session]] # <<>>
    PROVE  LET found == Search(q)
               s == q.session
               se == session[s]
               own == ModelOf[s]
           IN /\ found \in Found /\ Dimmed(found.health, health)
              /\ found.pick # None => /\ found.chain \in Consulted(s)
                                      /\ Suits(q, health, found.pick, found.chain)
              /\ found.pick = None => \A c \in Consulted(s) : NothingFor(q, c)
              /\ CanStay(q, health) => found.pick = se.ep /\ found.settled
              /\ (~(se.known /\ se.chain # own) /\ found.chain # own) => NothingFor(q, own)
<1> DEFINE s == q.session
           se == session[s]
           own == ModelOf[s]
           p == Preferences(s)
           turns == ChainOrder(s)
           hits == {i \in turns : Turn(q, i).pick # None}
           found == Search(q)
<1>1. s \in Session /\ own \in Chain
  BY EntryTyped DEF Asking
<1>2. /\ p \in Seq(Chain) /\ {p[i] : i \in DOMAIN p} = Consulted(s)
      /\ p[1] = IF se.known THEN se.chain ELSE own
      /\ turns \subseteq Nat /\ (\A i \in turns : i >= 1) /\ turns \subseteq DOMAIN p
      /\ catalogue.chain[p[1]] # <<>> => 1 \in turns
  BY <1>1, PreferencesAre, FirstTurn DEF ChainOrder
<1>3. \A c \in Consulted(s) : NothingFor(q, c) \/ \E i \in turns : p[i] = c
  <2> SUFFICES ASSUME NEW c \in Consulted(s), catalogue.chain[c] = <<>>
               PROVE  NothingFor(q, c)
    BY <1>1, EveryChainHasItsTurn
  <2>1. ToSet(catalogue.chain[c]) = {}
    BY DEF ToSet
  <2> QED BY <2>1 DEF NothingFor
<1>4. CASE hits = {}
  <2>1. \A c \in Consulted(s) : NothingFor(q, c)
    BY <1>3, <1>4, TurnFinds
  <2>2. found = [NewSearch(q) EXCEPT !.health = Checked(@, Passed(s, turns))]
    BY <1>4 DEF Search
  <2>3. /\ Dimmed(Checked(health, Passed(s, turns)), health)
        /\ Checked(health, Passed(s, turns)) \in Healths
    BY CheckedDims DEF TypeOK, Healths, Dimmed
  <2>4. /\ found \in Found /\ found.health = Checked(health, Passed(s, turns))
        /\ found.pick = None
    BY <1>1, <2>2, <2>3 DEF NewSearch, Found
  <2>5. own \in Consulted(s)
    BY DEF Consulted
  <2>6. ~CanStay(q, health)
    <3> SUFFICES ASSUME CanStay(q, health) PROVE FALSE
      OBVIOUS
    <3>1. se.known /\ se.ep \in ToSet(catalogue.chain[se.chain])
      BY DEF CanStay, InChain
    <3>2. catalogue.chain[se.chain] # <<>>
      BY <3>1, NothingInNone
    <3>3. 1 \in turns /\ p[1] = se.chain
      BY <1>2, <3>1, <3>2
    <3>4. Turn(q, 1).pick = se.ep
      BY <3>3, TurnFinds
    <3>5. se.ep \in Endpoint
      BY <1>1, <3>1, EntryTyped
    <3> QED BY <1>4, <3>3, <3>4, <3>5, RoutingAssumption
  <2> QED BY <2>1, <2>3, <2>4, <2>5, <2>6
<1>5. CASE hits # {}
  <2> DEFINE i == Min(hits)
  <2>1. i \in hits /\ \A j \in hits : i <= j
    BY <1>2, <1>5, MinIsFirst
  <2>2. found = Turn(q, i)
    BY <1>5 DEF Search
  <2> HIDE DEF i
  <2>3. /\ found \in Found /\ Dimmed(found.health, health) /\ found.chain = p[i]
        /\ found.pick # None /\ Suits(q, health, found.pick, p[i])
    BY <2>1, <2>2, TurnFinds
  <2>4. p[i] \in Consulted(s)
    BY <1>2, <2>1
  <2>5. CanStay(q, health) => found.pick = se.ep /\ found.settled
    <3> SUFFICES ASSUME CanStay(q, health) PROVE found.pick = se.ep /\ found.settled
      OBVIOUS
    <3>1. se.known /\ se.ep \in ToSet(catalogue.chain[se.chain])
      BY DEF CanStay, InChain
    <3>2. catalogue.chain[se.chain] # <<>>
      BY <3>1, NothingInNone
    <3>3. 1 \in turns /\ p[1] = se.chain
      BY <1>2, <3>1, <3>2
    <3>4. Turn(q, 1).pick = se.ep /\ Turn(q, 1).settled
      BY <3>3, TurnFinds
    <3>5. se.ep \in Endpoint
      BY <1>1, <3>1, EntryTyped
    <3>6. 1 \in hits
      BY <3>3, <3>4, <3>5, RoutingAssumption
    <3>7. i = 1
      BY <1>2, <2>1, <3>6
    <3> QED BY <2>2, <3>4, <3>7
  <2>6. (~(se.known /\ se.chain # own) /\ found.chain # own) => NothingFor(q, own)
    <3> SUFFICES ASSUME ~(se.known /\ se.chain # own), p[i] # own
                 PROVE  NothingFor(q, own)
      BY <2>3
    <3>1. p[1] = own
      BY <1>2
    <3>2. 1 \in turns /\ i # 1
      BY <1>2, <3>1
    <3>3. 1 \notin hits
      BY <1>2, <2>1, <3>2
    <3>4. Turn(q, 1).pick = None
      BY <3>2, <3>3
    <3> QED BY <3>1, <3>2, <3>4, TurnFinds
  <2> QED BY <2>3, <2>4, <2>5, <2>6
<1> QED BY <1>4, <1>5

LEMMA SearchTyped ==
    ASSUME TypeOK, NEW q \in Asking
    PROVE  /\ Search(q) \in Found
           /\ Search(q).pick # None => catalogue.chain[ModelOf[q.session]] # <<>>
<1>1. CASE catalogue.chain[ModelOf[q.session]] = <<>>
  <2>1. ModelOf[q.session] \in Chain
    BY EntryTyped DEF Asking
  <2>2. NewSearch(q) \in Found /\ NewSearch(q).pick = None
    BY <2>1 DEF NewSearch, Found, TypeOK, Healths
  <2> QED BY <1>1, <2>2 DEF Search
<1> QED BY <1>1, SearchFinds

----------------------------------------------------------------------------
(* Types.                                                                   *)

LEMMA RequestTyped ==
    ASSUME TypeOK, NEW r \in Request
    PROVE  /\ request[r].phase \in {"selecting", "waiting"} => request[r] \in Asking
           /\ request[r].phase = "sent" => request[r] \in Sent
BY DEF TypeOK, Asking, Sent, Idle, Failed

\* What a step does to the requests.
Becomes(r, q) == request' = [request EXCEPT ![r] = q]

LEMMA BecomesTyped ==
    ASSUME TypeOK, NEW r \in Request, NEW q, Becomes(r, q),
           q \in Asking \cup Sent \cup {Idle, Failed}
    PROVE  request' \in [Request -> Asking \cup Sent \cup {Idle, Failed}]
BY DEF TypeOK, Becomes

LEMMA InitTyped == Init => TypeOK
BY DEF Init, TypeOK, Health

LEMMA SelectTyped ==
    ASSUME TypeOK, NEW r \in Request, SelectEndpoint(r)
    PROVE  TypeOK'
<1> DEFINE q == request[r]
           found == Search(q)
           sent == [phase |-> "sent", session |-> q.session, needs |-> q.needs,
                    tried |-> q.tried, ep |-> found.pick]
<1>1. q \in Asking
  BY RequestTyped DEF SelectEndpoint
<1>2. found \in Found /\ found.pick # None /\ catalogue.chain[ModelOf[q.session]] # <<>>
  BY <1>1, SearchTyped DEF SelectEndpoint
<1>3. found.pick \in Endpoint /\ found.chain \in Chain /\ found.health \in Healths
  BY <1>2 DEF Found
<1>4. /\ health' = found.health /\ Becomes(r, sent) /\ UNCHANGED <<catalogue, noVision>>
      /\ session' = [session EXCEPT ![q.session] = IF Rebinds(q, found) THEN Bound(found) ELSE @]
  BY DEF SelectEndpoint, Becomes
<1> HIDE DEF found
<1>5. sent \in Sent
  BY <1>1, <1>3 DEF Asking, Sent
<1>6. request' \in [Request -> Asking \cup Sent \cup {Idle, Failed}]
  BY <1>4, <1>5, BecomesTyped
<1>7. Bound(found) \in Entry
  BY <1>3, CatalogueTyped DEF Bound, Entry
<1>8. session' \in [Session -> Entry \cup {Unknown}]
  BY <1>4, <1>7 DEF TypeOK
<1> QED BY <1>3, <1>4, <1>6, <1>8 DEF TypeOK, Healths

LEMMA FindNoneTyped ==
    ASSUME TypeOK, NEW r \in Request, FindNone(r)
    PROVE  TypeOK'
<1> DEFINE q == request[r]
           found == Search(q)
           after == IF WorthWaiting(q) THEN [q EXCEPT !.phase = "waiting"] ELSE Failed
<1>1. q \in Asking
  BY RequestTyped DEF FindNone
<1>2. found.health \in Healths
  BY <1>1, SearchTyped DEF Found
<1>3. health' = found.health /\ Becomes(r, after) /\ UNCHANGED <<catalogue, noVision, session>>
  BY DEF FindNone, Becomes
<1> HIDE DEF found
<1>4. after \in Asking \cup {Failed}
  BY <1>1 DEF Asking
<1> HIDE DEF after
<1>5. request' \in [Request -> Asking \cup Sent \cup {Idle, Failed}]
  BY <1>3, <1>4, BecomesTyped
<1> QED BY <1>2, <1>3, <1>5 DEF TypeOK, Healths

LEMMA AskTyped ==
    ASSUME TypeOK, NEW r \in Request,
           \/ \E s \in Session : Arrive(r, s)
           \/ CycleBack(r) \/ GiveUp(r) \/ Succeed(r)
    PROVE  TypeOK'
<1>1. CASE \E s \in Session : Arrive(r, s)
  <2> SUFFICES ASSUME NEW s \in Session, Arrive(r, s) PROVE TypeOK'
    BY <1>1
  <2> DEFINE q == [phase |-> "selecting", session |-> s, needs |-> NeedsOf[r], tried |-> {}]
  <2>1. q \in Asking
    BY RoutingAssumption DEF Asking
  <2>2. Becomes(r, q) /\ UNCHANGED <<catalogue, health, noVision, session>>
    BY DEF Arrive, Becomes
  <2> HIDE DEF q
  <2>3. request' \in [Request -> Asking \cup Sent \cup {Idle, Failed}]
    BY <2>1, <2>2, BecomesTyped
  <2> QED BY <2>2, <2>3 DEF TypeOK
<1>2. CASE CycleBack(r)
  <2> DEFINE q == [request[r] EXCEPT !.phase = "selecting"]
  <2>1. q \in Asking
    <3>1. request[r] \in Asking
      BY <1>2, RequestTyped DEF CycleBack
    <3> QED BY <3>1 DEF Asking
  <2>2. Becomes(r, q) /\ UNCHANGED <<catalogue, health, noVision, session>>
    BY <1>2 DEF CycleBack, Becomes
  <2> HIDE DEF q
  <2>3. request' \in [Request -> Asking \cup Sent \cup {Idle, Failed}]
    BY <2>1, <2>2, BecomesTyped
  <2> QED BY <2>2, <2>3 DEF TypeOK
<1>3. CASE GiveUp(r) \/ Succeed(r)
  <2>1. Becomes(r, Idle) /\ UNCHANGED <<catalogue, noVision, session>>
    BY <1>3 DEF GiveUp, Succeed, Becomes
  <2>2. health' \in [Endpoint -> Health]
    BY <1>3 DEF GiveUp, Succeed, TypeOK, Health
  <2>3. request' \in [Request -> Asking \cup Sent \cup {Idle, Failed}]
    BY <2>1, BecomesTyped
  <2> QED BY <2>1, <2>2, <2>3 DEF TypeOK
<1> QED BY <1>1, <1>2, <1>3

LEMMA FailTyped ==
    ASSUME TypeOK, NEW r \in Request, NEW outcome \in {"same", "cooling", "probing"},
           NEW host \in BOOLEAN, NEW blind \in BOOLEAN, Fail(r, outcome, host, blind)
    PROVE  TypeOK'
<1> DEFINE q == request[r]
           again == [phase |-> "selecting", session |-> q.session, needs |-> q.needs,
                     tried |-> q.tried \cup (IF host THEN SameHost(q.ep) ELSE {q.ep})]
<1>1. q \in Sent
  BY RequestTyped DEF Fail
<1>2. again \in Asking
  BY <1>1 DEF Sent, Asking, SameHost
<1>3. /\ Becomes(r, again) /\ UNCHANGED <<catalogue, session>>
      /\ health' = [health EXCEPT ![q.ep] = IF outcome = "same" THEN @ ELSE outcome]
      /\ noVision' = IF blind THEN noVision \cup {q.ep} ELSE noVision
  BY DEF Fail, Becomes
<1> HIDE DEF again
<1>4. request' \in [Request -> Asking \cup Sent \cup {Idle, Failed}]
  BY <1>2, <1>3, BecomesTyped
<1>5. health' \in [Endpoint -> Health]
  BY <1>1, <1>3 DEF TypeOK, Health, Sent
<1>6. noVision' \subseteq Endpoint
  BY <1>1, <1>3 DEF TypeOK, Sent
<1> QED BY <1>3, <1>4, <1>5, <1>6 DEF TypeOK

LEMMA EnvironmentTyped ==
    ASSUME TypeOK,
           \/ \E e \in Endpoint, to \in {"up", "probing"} : Recover(e, to)
           \/ \E c \in Catalogue : Reload(c)
           \/ \E s \in Session : Evict(s)
           \/ SweepNoVision
           \/ \E restored \in [Session -> Rows \cup {Unknown}], c \in Catalogue :
                 Restart(restored, c)
           \/ UNCHANGED vars
    PROVE  TypeOK'
<1>1. CASE \E e \in Endpoint, to \in {"up", "probing"} : Recover(e, to)
  BY <1>1 DEF Recover, TypeOK, Health
<1>2. CASE (\E c \in Catalogue : Reload(c)) \/ SweepNoVision \/ UNCHANGED vars
  BY <1>2 DEF Reload, SweepNoVision, vars, TypeOK
<1>3. CASE \E s \in Session : Evict(s)
  BY <1>3 DEF Evict, TypeOK
<1>4. CASE \E restored \in [Session -> Rows \cup {Unknown}], c \in Catalogue :
              Restart(restored, c)
  BY <1>4 DEF Restart, TypeOK, Rows
<1> QED BY <1>1, <1>2, <1>3, <1>4

LEMMA NextTyped == TypeOK /\ [Next]_vars => TypeOK'
<1> SUFFICES ASSUME TypeOK, [Next]_vars PROVE TypeOK'
  OBVIOUS
<1>1. CASE \E r \in Request : Serve(r)
  <2> SUFFICES ASSUME NEW r \in Request, Serve(r) PROVE TypeOK'
    BY <1>1
  <2> QED BY SelectTyped, FindNoneTyped, AskTyped, FailTyped DEF Serve
<1> QED BY <1>1, EnvironmentTyped DEF Next

(* Every variable keeps its type: a session's entry names an endpoint, a    *)
(* chain and what they could do, and a request that was given an endpoint   *)
(* remembers which it tried.                                                *)
THEOREM TypeCorrect == Spec => []TypeOK
BY InitTyped, NextTyped, PTL DEF Spec

----------------------------------------------------------------------------
(* Selections.                                                              *)

LEMMA OthersStay ==
    ASSUME TypeOK, NEW r \in Request, NEW x \in Request, x # r, Serve(x)
    PROVE  request'[r] = request[r]
<1>1. \E q : Becomes(x, q)
  BY DEF Serve, Arrive, SelectEndpoint, FindNone, CycleBack, GiveUp, Succeed, Fail, Becomes
<1> QED BY <1>1 DEF Becomes, TypeOK

(* Only a selection gives a request an endpoint, or none.                   *)
LEMMA OnlySelectionsPick ==
    ASSUME TypeOK, [Next]_vars, NEW r \in Request
    PROVE  /\ Picks(r) => SelectEndpoint(r)
           /\ Misses(r) => FindNone(r)
<1> SUFFICES ASSUME request[r].phase = "selecting",
                    request'[r].phase \in {"sent", "waiting", "failed"}
             PROVE  /\ Picks(r) => SelectEndpoint(r)
                    /\ Misses(r) => FindNone(r)
  BY DEF Picks, Misses
<1>1. Serve(r)
  <2>1. request'[r] # request[r]
    OBVIOUS
  <2>2. ~UNCHANGED request
    BY <2>1
  <2>3. ~\E restored \in [Session -> Rows \cup {Unknown}], c \in Catalogue : Restart(restored, c)
    BY DEF Restart, Idle
  <2>4. \E x \in Request : Serve(x)
    BY <2>2, <2>3 DEF Next, vars, Recover, Reload, Evict, SweepNoVision
  <2> QED BY <2>1, <2>4, OthersStay
<1>2. \A q : Becomes(r, q) => request'[r] = q
  BY DEF Becomes, TypeOK
<1>3. ~\E s \in Session : Arrive(r, s)
  BY DEF Arrive, Idle
<1>4. ~CycleBack(r) /\ ~GiveUp(r) /\ ~Succeed(r)
  BY DEF CycleBack, GiveUp, Succeed
<1>5. ~\E outcome \in {"same", "cooling", "probing"}, host, blind \in BOOLEAN :
          Fail(r, outcome, host, blind)
  BY DEF Fail
<1>6. SelectEndpoint(r) => request'[r].phase = "sent"
  BY <1>2 DEF SelectEndpoint, Becomes
<1>7. FindNone(r) => request'[r].phase \in {"waiting", "failed"}
  <2> SUFFICES ASSUME FindNone(r) PROVE request'[r].phase \in {"waiting", "failed"}
    OBVIOUS
  <2>1. request[r] \in Asking
    BY RequestTyped
  <2>2. [request[r] EXCEPT !.phase = "waiting"].phase = "waiting"
    BY <2>1 DEF Asking
  <2> QED BY <1>2, <2>2 DEF FindNone, Becomes, Failed
<1> QED BY <1>1, <1>3, <1>4, <1>5, <1>6, <1>7 DEF Serve, Picks, Misses

(* What a pick is.                                                          *)
LEMMA PickIs ==
    ASSUME TypeOK, [Next]_vars, NEW r \in Request, Picks(r)
    PROVE  LET q == request[r]
               found == Search(q)
           IN /\ q \in Asking /\ catalogue.chain[ModelOf[q.session]] # <<>>
              /\ found.pick # None /\ request'[r].ep = found.pick
              /\ session' = [session EXCEPT
                     ![q.session] = IF Rebinds(q, found) THEN Bound(found) ELSE @]
<1>1. SelectEndpoint(r)
  BY OnlySelectionsPick
<1>2. request[r] \in Asking
  BY <1>1, RequestTyped DEF SelectEndpoint
<1>3. Search(request[r]).pick # None
  BY <1>1 DEF SelectEndpoint
<1>4. request'[r].ep = Search(request[r]).pick
  BY <1>1 DEF SelectEndpoint, TypeOK
<1> QED BY <1>1, <1>2, <1>3, <1>4, SearchTyped DEF SelectEndpoint

LEMMA PickSticks ==
    ASSUME TypeOK, [Next]_vars, NEW r \in Request, Picks(r)
    PROVE  Sticks(r)
<1> DEFINE q == request[r]
           found == Search(q)
           se == session[q.session]
<1>1. /\ q \in Asking /\ catalogue.chain[ModelOf[q.session]] # <<>>
      /\ found.pick # None /\ request'[r].ep = found.pick
      /\ session' = [session EXCEPT
             ![q.session] = IF Rebinds(q, found) THEN Bound(found) ELSE @]
  BY PickIs
<1>2. CanStay(q, health) => found.pick = se.ep /\ found.settled
  BY <1>1, SearchFinds
<1> HIDE DEF found
<1>3. q.session \in Session /\ session \in [Session -> Entry \cup {Unknown}]
  BY <1>1 DEF Asking, TypeOK
<1>4. ~Rebinds(q, found) => session' = session
  BY <1>1, <1>3
<1>5. session'[q.session] = IF Rebinds(q, found) THEN Bound(found) ELSE se
  BY <1>1, <1>3
<1>6. ASSUME se.known, CanStay(q, health)
      PROVE  request'[r].ep = se.ep /\ session' = session
  BY <1>1, <1>2, <1>4, <1>6 DEF Rebinds
<1>7. ASSUME se.known, q.tried # {}, session'[q.session].chain = se.chain
      PROVE  session'[q.session] = se
  <2>1. Rebinds(q, found) => Bound(found).chain # se.chain
    BY <1>7 DEF Rebinds, Bound
  <2> QED BY <1>5, <1>7, <2>1
<1> QED BY <1>6, <1>7 DEF Sticks, CanStay, Fits

LEMMA PickProper ==
    ASSUME TypeOK, [Next]_vars, NEW r \in Request, Picks(r)
    PROVE  Proper(r)
<1> DEFINE q == request[r]
           found == Search(q)
<1>1. /\ q \in Asking /\ catalogue.chain[ModelOf[q.session]] # <<>>
      /\ found.pick # None /\ request'[r].ep = found.pick
  BY PickIs
<1>2. found.chain \in Consulted(q.session) /\ Suits(q, health, found.pick, found.chain)
  BY <1>1, SearchFinds
<1> QED BY <1>1, <1>2 DEF Proper, Suits, InChain, Available

LEMMA SelectionLeavesNothing ==
    ASSUME TypeOK, [Next]_vars, NEW r \in Request
    PROVE  NothingLeft(r)
<1> DEFINE q == request[r]
           found == Search(q)
           se == session[q.session]
           own == ModelOf[q.session]
<1>1. \A c : NothingFor(q, c) => ~Left(r, c)
  BY DEF NothingFor, Left, Usable
<1>2. ASSUME Misses(r), catalogue.chain[own] # <<>>
      PROVE  \A c \in Consulted(q.session) : ~Left(r, c)
  <2>1. FindNone(r)
    BY <1>2, OnlySelectionsPick
  <2>2. q \in Asking /\ found.pick = None
    BY <2>1, RequestTyped DEF FindNone
  <2>3. \A c \in Consulted(q.session) : NothingFor(q, c)
    BY <1>2, <2>2, SearchFinds
  <2> QED BY <1>1, <2>3
<1>3. ASSUME Picks(r), ~InChain(request'[r].ep, own)
      PROVE  ~Left(r, own) \/ (se.known /\ se.chain # own)
  <2>1. /\ q \in Asking /\ catalogue.chain[own] # <<>>
        /\ found.pick # None /\ request'[r].ep = found.pick
    BY <1>3, PickIs
  <2>2. Suits(q, health, found.pick, found.chain)
    BY <2>1, SearchFinds
  <2>3. found.chain # own
    BY <1>3, <2>1, <2>2 DEF Suits, InChain
  <2>4. ~(se.known /\ se.chain # own) => NothingFor(q, own)
    BY <2>1, <2>3, SearchFinds
  <2> QED BY <1>1, <2>4
<1> QED BY <1>2, <1>3 DEF NothingLeft

(* Whatever its other requests tried, a conversation stays where it lives   *)
(* while that can serve it, and a request that has failed moves it only to  *)
(* another chain; and whatever a reload, a restart or another request       *)
(* changed meanwhile, nobody is sent to an endpoint that is not configured, *)
(* was tried, refuses images or is backing off.                             *)
THEOREM SelectionsAreRight == Spec => PicksAreRight
<1>1. TypeOK /\ [Next]_vars => [\A r \in Request : Picks(r) => Sticks(r)]_vars
  BY PickSticks
<1>2. TypeOK /\ [Next]_vars => [\A r \in Request : Picks(r) => Proper(r)]_vars
  BY PickProper
<1> QED BY <1>1, <1>2, TypeCorrect, PTL
        DEF Spec, PicksAreRight, StickyUnlessForced, PickedFromTheCatalogue

(* Every chain is searched before a request is told that nothing can serve  *)
(* it, whatever half-open probes the search itself spends, and its own chain*)
(* before any substitute of it.                                             *)
THEOREM NothingIsLeftBehind == Spec => NothingLeftBehind
<1>1. TypeOK /\ [Next]_vars => [\A r \in Request : NothingLeft(r)]_vars
  BY SelectionLeavesNothing
<1> QED BY <1>1, TypeCorrect, PTL DEF Spec, NothingLeftBehind

=============================================================================
