---------------------------- MODULE ServiceProofs ----------------------------
(***************************************************************************)
(* Invariance proofs about four services around the request path, which    *)
(* share nothing but the process: the Command Code endpoint                *)
(* (CommandCodeShim), the reload of the configuration (ConfigReload), the  *)
(* bounded label maps (LabelCap) and the telemetry's ring and journal      *)
(* (DashboardRing), for any requests, keys, caps, knobs, operators,        *)
(* labels, recorders and length of the ring.                               *)
(***************************************************************************)
EXTENDS CommandCodeShim, ConfigReload, LabelCap, DashboardRing,
        FiniteSetTheorems, SequenceTheorems, WellFoundedInduction, TLAPS

----------------------------------------------------------------------------
(* CommandCodeShim: the inductive invariant. *)

\* What an attempt with key k has relayed, comments and output.
Relayed(said, k) ==
    \A i \in 1 .. Len(said) :
        said[i].what \in {"comment", "text", "other"} /\ said[i].by = k

Commented(said) == \A i \in 1 .. Len(said) : said[i].what = "comment"

\* Nothing is said before an attempt or between two, a keepalive belongs to a
\* stream that has no output, and what is said under way is one attempt's.
Fits(r) ==
    /\ phase[r] \notin {"asking", "answered"} => out[r] = <<>>
    /\ ticker[r] # "off" => phase[r] = "asking" /\ kind[r] = "stream" /\ Commented(out[r])
    /\ phase[r] = "asking" => Relayed(out[r], key[r])
    /\ phase[r] = "asking" /\ kind[r] = "json" => out[r] = <<>>

Clean(r) ==
    /\ InOrder(out[r]) /\ OneAuthor(out[r])
    /\ phase[r] = "answered" /\ ~gone[r] => Ended(r)

IInv == TypeOK /\ \A r \in Request : Fits(r) /\ Clean(r)

----------------------------------------------------------------------------
(* What is said. *)

LEMMA PieceTypes ==
    ASSUME NEW k \in Key \cup {None},
           NEW what \in {"comment", "text", "other", "body", "status", "error", "done"}
    PROVE  Item(what, k) \in Piece /\ Item(what, k).what = what /\ Item(what, k).by = k
BY DEF Item, Piece

LEMMA Pieces ==
    /\ Status \in Piece /\ Status.what = "status" /\ Status.by = None
    /\ Error \in Piece /\ Error.what = "error" /\ Error.by = None
    /\ Done \in Piece /\ Done.what = "done" /\ Done.by = None
BY DEF Status, Error, Done, Item, Piece

LEMMA Single ==
    ASSUME NEW x \in Piece
    PROVE  <<x>> \in Seq(Piece) /\ Len(<<x>>) = 1 /\ <<x>>[1] = x
OBVIOUS

LEMMA Pair ==
    ASSUME NEW x \in Piece, NEW y \in Piece
    PROVE  /\ <<x, y>> \in Seq(Piece) /\ Len(<<x, y>>) = 2
           /\ <<x, y>>[1] = x /\ <<x, y>>[2] = y
OBVIOUS

(* The last words to a client that heard nothing are an answer of their own.*)
LEMMA OneWord ==
    ASSUME NEW x \in Piece, x.what # "comment"
    PROVE  <<x>> \in Seq(Piece) /\ <<x>> # <<>> /\ InOrder(<<x>>) /\ OneAuthor(<<x>>)
BY Single DEF InOrder, OneAuthor

LEMMA StatusOfAStream ==
    LET said == <<Status, Done>>
    IN  /\ said \in Seq(Piece) /\ said # <<>> /\ said[Len(said)] = Done
        /\ InOrder(said) /\ OneAuthor(said)
<1> DEFINE said == <<Status, Done>>
<1>1. /\ said \in Seq(Piece) /\ Len(said) = 2
      /\ said[1] = Status /\ said[2] = Done
  BY Pieces, Pair
<1> HIDE DEF said
<1>2. 1 .. Len(said) = {1, 2}
  BY <1>1
<1>3. InOrder(said)
  BY <1>1, <1>2, Pieces DEF InOrder
<1>4. OneAuthor(said)
  BY <1>1, <1>2, Pieces DEF OneAuthor
<1>5. said # <<>>
  BY <1>1
<1> QED BY <1>1, <1>3, <1>4, <1>5 DEF said

(* A sentinel, with or without an error before it, ends what was relayed.   *)
LEMMA LastWords ==
    ASSUME NEW said \in Seq(Piece), NEW k \in Key \cup {None},
           Relayed(said, k), InOrder(said),
           NEW tail, tail \in {<<Done>>, <<Error, Done>>}
    PROVE  LET whole == said \o tail
           IN /\ whole \in Seq(Piece) /\ whole # <<>>
              /\ InOrder(whole) /\ OneAuthor(whole)
              /\ whole[Len(whole)] = Done
<1> DEFINE whole == said \o tail
<1>1. /\ tail \in Seq(Piece) /\ Len(tail) \in {1, 2} /\ tail[Len(tail)] = Done
      /\ \A i \in 1 .. Len(tail) : tail[i].by = None /\ tail[i].what \in {"error", "done"}
      /\ \A i \in 1 .. Len(tail) : tail[i].what = "done" => i = Len(tail)
  <2>1. CASE tail = <<Done>>
    BY <2>1, Pieces, Single
  <2>2. CASE tail = <<Error, Done>>
    <3>1. /\ tail \in Seq(Piece) /\ Len(tail) = 2
          /\ tail[1] = Error /\ tail[2] = Done
      BY <2>2, Pieces, Pair
    <3>2. 1 .. Len(tail) = {1, 2}
      BY <3>1
    <3> QED BY <3>1, <3>2, Pieces
  <2> QED BY <2>1, <2>2
<1>2. Len(said) \in Nat
  BY LenProperties
<1>3. /\ whole \in Seq(Piece) /\ Len(whole) = Len(said) + Len(tail)
      /\ \A i \in 1 .. Len(whole) : whole[i] = IF i <= Len(said) THEN said[i] ELSE tail[i - Len(said)]
  BY <1>1, ConcatProperties
<1> HIDE DEF whole
<1>4. whole # <<>> /\ whole[Len(whole)] = Done
  <2>1. Len(tail) \in {1, 2} /\ Len(whole) = Len(said) + Len(tail)
    BY <1>1, <1>3
  <2>2. /\ Len(whole) \in 1 .. Len(whole) /\ ~(Len(whole) <= Len(said))
        /\ Len(whole) - Len(said) = Len(tail) /\ Len(whole) # 0
    BY <1>2, <2>1
  <2>3. whole[Len(whole)] = Done
    BY <1>1, <1>3, <2>2
  <2>4. whole # <<>>
    BY <2>2
  <2> QED BY <2>3, <2>4
<1>5. InOrder(whole)
  <2> SUFFICES ASSUME NEW i \in 1 .. Len(whole)
               PROVE  /\ whole[i].what \in {"status", "body"} => i = 1
                      /\ whole[i].what = "comment" => \A j \in 1 .. i : whole[j].what = "comment"
                      /\ whole[i].what = "done" => i = Len(whole)
    BY DEF InOrder
  <2>1. CASE i <= Len(said)
    <3>1. \A j \in 1 .. i : j \in 1 .. Len(said) /\ whole[j] = said[j]
      BY <1>1, <1>2, <1>3, <2>1
    <3> QED BY <1>2, <2>1, <3>1 DEF InOrder, Relayed
  <2>2. CASE i > Len(said)
    <3>1. i - Len(said) \in 1 .. Len(tail) /\ whole[i] = tail[i - Len(said)]
      BY <1>1, <1>2, <1>3, <2>2
    <3> QED BY <1>1, <1>2, <1>3, <3>1
  <2> QED BY <1>2, <2>1, <2>2
<1>6. OneAuthor(whole)
  <2>1. \A i \in 1 .. Len(whole) : whole[i].by \in {k, None}
    <3> SUFFICES ASSUME NEW i \in 1 .. Len(whole) PROVE whole[i].by \in {k, None}
      OBVIOUS
    <3>1. CASE i <= Len(said)
      BY <1>2, <1>3, <3>1 DEF Relayed
    <3>2. CASE i > Len(said)
      <4>1. i - Len(said) \in 1 .. Len(tail)
        BY <1>1, <1>2, <1>3, <3>2
      <4> QED BY <1>1, <1>2, <1>3, <3>2, <4>1
    <3> QED BY <1>2, <3>1, <3>2
  <2> QED BY <2>1 DEF OneAuthor
<1> QED BY <1>3, <1>4, <1>5, <1>6 DEF whole

(* One more comment behind comments, or output behind anything relayed.     *)
LEMMA OneMore ==
    ASSUME NEW said \in Seq(Piece), NEW k \in Key \cup {None},
           Relayed(said, k), InOrder(said),
           NEW what \in {"comment", "text", "other"},
           what = "comment" => Commented(said)
    PROVE  LET more == said \o <<Item(what, k)>>
           IN /\ more \in Seq(Piece) /\ Relayed(more, k)
              /\ what = "comment" => Commented(more)
              /\ InOrder(more) /\ OneAuthor(more)
<1> DEFINE item == Item(what, k)
           more == said \o <<item>>
<1>1. item \in Piece /\ item.what = what /\ item.by = k
  BY PieceTypes
<1> HIDE DEF item
<1>2. Len(said) \in Nat
  BY LenProperties
<1>3. /\ more \in Seq(Piece) /\ Len(more) = Len(said) + 1
      /\ \A i \in 1 .. Len(said) : more[i] = said[i]
      /\ more[Len(said) + 1] = item
  <2>1. <<item>> \in Seq(Piece) /\ Len(<<item>>) = 1 /\ <<item>>[1] = item
    BY <1>1
  <2> QED BY <1>2, <2>1, ConcatProperties
<1> HIDE DEF more
<1>4. Relayed(more, k)
  BY <1>1, <1>2, <1>3 DEF Relayed
<1>5. what = "comment" => Commented(more)
  BY <1>1, <1>2, <1>3 DEF Commented
<1>6. InOrder(more)
  <2> SUFFICES ASSUME NEW i \in 1 .. Len(more)
               PROVE  more[i].what = "comment" => \A j \in 1 .. i : more[j].what = "comment"
    BY <1>4 DEF InOrder, Relayed
  <2>1. CASE i <= Len(said)
    <3>1. \A j \in 1 .. i : j \in 1 .. Len(said) /\ more[j] = said[j]
      BY <1>2, <1>3, <2>1
    <3> QED BY <1>2, <2>1, <3>1 DEF InOrder
  <2>2. CASE i = Len(said) + 1
    BY <1>1, <1>2, <1>3, <1>5, <2>2 DEF Commented
  <2> QED BY <1>2, <1>3, <2>1, <2>2
<1>7. OneAuthor(more)
  BY <1>4 DEF OneAuthor, Relayed
<1> QED BY <1>3, <1>4, <1>5, <1>6, <1>7 DEF more, item

LEMMA Nothing == InOrder(<<>>) /\ OneAuthor(<<>>)
BY DEF InOrder, OneAuthor

----------------------------------------------------------------------------
(* One lemma per step: a request's step leaves the others where they are,   *)
(* and itself as the invariant says.                                        *)

Alone(r) ==
    \A s \in Request \ {r} :
        /\ phase'[s] = phase[s] /\ kind'[s] = kind[s] /\ key'[s] = key[s]
        /\ ticker'[s] = ticker[s] /\ out'[s] = out[s] /\ gone'[s] = gone[s]

Kept(r) == TypeOK' /\ Alone(r) /\ Fits(r)' /\ Clean(r)'

LEMMA Frame ==
    ASSUME IInv, NEW r \in Request, Kept(r)
    PROVE  IInv'
<1> SUFFICES ASSUME NEW s \in Request PROVE Fits(s)' /\ Clean(s)'
  BY DEF IInv, Kept
<1>1. CASE s = r
  BY <1>1 DEF Kept
<1>2. CASE s # r
  BY <1>2 DEF IInv, Kept, Alone, Fits, Clean, Ended
<1> QED BY <1>1, <1>2

LEMMA Start == Init => IInv
<1> SUFFICES ASSUME Init PROVE IInv
  OBVIOUS
<1>1. TypeOK
  BY ShimAssumption DEF Init, TypeOK
<1>2. \A r \in Request : Fits(r) /\ Clean(r)
  BY Nothing DEF Init, Fits, Clean
<1> QED BY <1>1, <1>2 DEF IInv

LEMMA ArriveStep ==
    ASSUME IInv, NEW r \in Request, NEW k \in {"json", "stream"}, Arrive(r, k)
    PROVE  Kept(r)
<1>1. \E p \in {"admitted", "queued"} : phase' = [phase EXCEPT ![r] = p]
  BY DEF Arrive, To
<1>2. TypeOK'
  BY <1>1, ShimAssumption DEF IInv, TypeOK, Arrive, Ensured, config
<1>3. Alone(r)
  BY <1>1 DEF IInv, TypeOK, Arrive, Alone, config
<1>4. Fits(r)' /\ Clean(r)'
  BY <1>1, Nothing DEF IInv, TypeOK, Arrive, Fits, Clean, config
<1> QED BY <1>2, <1>3, <1>4 DEF Kept

LEMMA AcquireStep ==
    ASSUME IInv, NEW r \in Request, Acquire(r)
    PROVE  Kept(r)
<1>1. TypeOK'
  BY DEF IInv, TypeOK, Acquire, To, config, walk
<1>2. Alone(r)
  BY DEF IInv, TypeOK, Acquire, To, Alone, config, walk
<1>3. Fits(r)' /\ Clean(r)'
  BY Nothing DEF IInv, TypeOK, Acquire, To, Fits, Clean, config, walk
<1> QED BY <1>1, <1>2, <1>3 DEF Kept

LEMMA LeaveQueueStep ==
    ASSUME IInv, NEW r \in Request, LeaveQueue(r)
    PROVE  Kept(r)
<1>1. out' = out
  BY DEF IInv, TypeOK, LeaveQueue, Says
<1>2. TypeOK'
  BY <1>1 DEF IInv, TypeOK, LeaveQueue, To, config, walk
<1>3. Alone(r)
  BY <1>1 DEF IInv, TypeOK, LeaveQueue, To, Alone, config, walk
<1>4. Fits(r)' /\ Clean(r)'
  BY <1>1, Nothing DEF IInv, TypeOK, LeaveQueue, To, Fits, Clean, config, walk
<1> QED BY <1>2, <1>3, <1>4 DEF Kept

LEMMA BeginStep ==
    ASSUME IInv, NEW r \in Request, Begin(r)
    PROVE  Kept(r)
<1>1. keys \in Seq(Key)
  BY ShimAssumption DEF IInv, TypeOK
<1>2. PICK start \in 1 .. Len(keys) : left' = [left EXCEPT ![r] = Rotated(start)]
  BY DEF Begin
<1>3. Rotated(start) \in Seq(Key)
  <2>1. Len(keys) \in Nat
    BY <1>1, LenProperties
  <2>2. SubSeq(keys, start, Len(keys)) \in Seq(Key) /\ SubSeq(keys, 1, start - 1) \in Seq(Key)
    <3>1. \A i \in start .. Len(keys) : keys[i] \in Key
      BY <1>1, <2>1, ElementOfSeq
    <3>2. \A i \in 1 .. start - 1 : keys[i] \in Key
      BY <1>1, <2>1, ElementOfSeq
    <3> QED BY <1>1, <2>1, <3>1, <3>2, SubSeqProperties
  <2> QED BY <2>2, ConcatProperties DEF Rotated
<1> HIDE DEF Rotated
<1>4. TypeOK'
  BY <1>2, <1>3 DEF IInv, TypeOK, Begin, To, config, slots
<1>5. Alone(r)
  BY DEF IInv, TypeOK, Begin, To, Alone
<1>6. Fits(r)' /\ Clean(r)'
  BY Nothing DEF IInv, TypeOK, Begin, To, Fits, Clean
<1> QED BY <1>4, <1>5, <1>6 DEF Kept

LEMMA AskStep ==
    ASSUME IInv, NEW r \in Request, Ask(r)
    PROVE  Kept(r)
<1>1. left[r] \in Seq(Key)
  BY DEF IInv, TypeOK
<1>2. PICK i \in DOMAIN left[r] :
        /\ key' = [key EXCEPT ![r] = left[r][i]]
        /\ left' = [left EXCEPT ![r] = SubSeq(left[r], i + 1, Len(left[r]))]
  BY DEF Ask
<1>3. Len(left[r]) \in Nat /\ i \in 1 .. Len(left[r])
  BY <1>1, LenProperties
<1>4. left[r][i] \in Key
  BY <1>1, <1>3, ElementOfSeq
<1>5. SubSeq(left[r], i + 1, Len(left[r])) \in Seq(Key)
  <2>1. \A j \in i + 1 .. Len(left[r]) : left[r][j] \in Key
    BY <1>1, <1>3, ElementOfSeq
  <2> QED BY <1>1, <1>3, <2>1, SubSeqProperties
<1>6. TypeOK'
  BY <1>2, <1>4, <1>5 DEF IInv, TypeOK, Ask, To, config, slots
<1>7. Alone(r)
  BY <1>2 DEF IInv, TypeOK, Ask, To, Alone
<1>8. out'[r] = <<>> /\ Relayed(<<>>, key'[r]) /\ Commented(<<>>)
  BY DEF IInv, Fits, Ask, Relayed, Commented
<1>9. Fits(r)' /\ Clean(r)'
  BY <1>8, Nothing DEF IInv, TypeOK, Ask, To, Fits, Clean
<1> QED BY <1>6, <1>7, <1>9 DEF Kept

(* A request that ends with a whole answer, or without its client.          *)
LEMMA Answers ==
    ASSUME IInv, NEW r \in Request, NEW said,
           Finish(r), Says(r, said), UNCHANGED <<config, gone>>,
           ticker' \in {ticker, [ticker EXCEPT ![r] = "off"]}, ticker'[r] = "off",
           ~gone[r] =>
               LET whole == out[r] \o said
               IN  /\ whole \in Seq(Piece) /\ whole # <<>>
                   /\ InOrder(whole) /\ OneAuthor(whole)
                   /\ kind[r] = "json" \/ whole = <<Status>> \/ whole[Len(whole)] = Done
    PROVE  Kept(r)
<1>1. out'[r] = IF gone[r] THEN out[r] ELSE out[r] \o said
  BY DEF IInv, TypeOK, Says
<1>2. /\ out'[r] \in Seq(Piece) /\ InOrder(out'[r]) /\ OneAuthor(out'[r])
      /\ ~gone[r] => /\ out'[r] # <<>>
                     /\ kind[r] = "json" \/ out'[r] = <<Status>> \/ out'[r][Len(out'[r])] = Done
  <2>1. out[r] \in Seq(Piece) /\ InOrder(out[r]) /\ OneAuthor(out[r])
    BY DEF IInv, TypeOK, Clean
  <2> QED BY <1>1, <2>1
<1>3. TypeOK'
  <2>1. out' \in [Request -> Seq(Piece)]
    BY <1>1, <1>2 DEF IInv, TypeOK, Says
  <2>2. left' \in [Request -> Seq(Key)] /\ key' \in [Request -> Key \cup {None}]
    <3>1. <<>> \in Seq(Key)
      OBVIOUS
    <3> QED BY <3>1 DEF IInv, TypeOK, Finish
  <2>3. ticker' \in [Request -> {"off", "waiting", "writing"}]
    BY DEF IInv, TypeOK
  <2> QED BY <2>1, <2>2, <2>3 DEF IInv, TypeOK, Finish, Release, To, config
<1>4. Alone(r)
  BY DEF IInv, TypeOK, Finish, Says, To, Alone
<1>5. phase'[r] = "answered" /\ gone'[r] = gone[r] /\ kind'[r] = kind[r]
  BY DEF IInv, TypeOK, Finish, To
<1>6. Fits(r)'
  BY <1>5 DEF Fits
<1>7. Clean(r)'
  BY <1>2, <1>5 DEF Clean, Ended
<1> QED BY <1>3, <1>4, <1>6, <1>7 DEF Kept

LEMMA RejectStep ==
    ASSUME IInv, NEW r \in Request, Reject(r)
    PROVE  Kept(r)
<1>1. out[r] = <<>> /\ ticker[r] = "off"
  BY DEF IInv, TypeOK, Fits, Reject
<1>2. <<>> \o <<Status>> = <<Status>>
  OBVIOUS
<1>3. /\ <<Status>> \in Seq(Piece) /\ <<Status>> # <<>>
      /\ InOrder(<<Status>>) /\ OneAuthor(<<Status>>)
  BY OneWord, Pieces
<1>4. /\ Finish(r) /\ Says(r, <<Status>>) /\ UNCHANGED <<config, gone>>
      /\ ticker' = ticker
  BY DEF Reject
<1> QED BY <1>1, <1>2, <1>3, <1>4, Answers

LEMMA GiveUpStep ==
    ASSUME IInv, NEW r \in Request, GiveUp(r)
    PROVE  Kept(r)
<1> DEFINE said == IF kind[r] = "json" THEN <<Status>> ELSE <<Status, Done>>
<1>1. out[r] = <<>> /\ ticker[r] = "off"
  BY DEF IInv, TypeOK, Fits, GiveUp
<1>2. /\ said \in Seq(Piece) /\ said # <<>>
      /\ InOrder(said) /\ OneAuthor(said)
      /\ kind[r] = "json" \/ said[Len(said)] = Done
  <2>1. CASE kind[r] = "json"
    BY <2>1, OneWord, Pieces
  <2>2. CASE kind[r] # "json"
    BY <2>2, StatusOfAStream
  <2> QED BY <2>1, <2>2
<1>3. /\ Finish(r) /\ Says(r, said) /\ UNCHANGED <<config, gone>>
      /\ ticker' = ticker
  BY DEF GiveUp
<1> HIDE DEF said
<1>4. <<>> \o said = said
  BY <1>2
<1> QED BY <1>1, <1>2, <1>3, <1>4, Answers

LEMMA TickerFiresStep ==
    ASSUME IInv, NEW r \in Request, TickerFires(r)
    PROVE  Kept(r)
<1>1. TypeOK'
  BY DEF IInv, TypeOK, TickerFires, config, slots, walk
<1>2. Alone(r)
  BY DEF IInv, TypeOK, TickerFires, Alone, walk
<1>3. Fits(r)' /\ Clean(r)'
  BY DEF IInv, TypeOK, TickerFires, Fits, Clean, Ended, walk
<1> QED BY <1>1, <1>2, <1>3 DEF Kept

LEMMA TickerWritesStep ==
    ASSUME IInv, NEW r \in Request, TickerWrites(r)
    PROVE  Kept(r)
<1> DEFINE more == out[r] \o <<Item("comment", key[r])>>
<1>1. /\ phase[r] = "asking" /\ kind[r] = "stream" /\ Commented(out[r])
      /\ Relayed(out[r], key[r]) /\ InOrder(out[r]) /\ OneAuthor(out[r])
      /\ out[r] \in Seq(Piece) /\ key[r] \in Key \cup {None}
  BY DEF IInv, TypeOK, Fits, Clean, TickerWrites
<1>2. /\ more \in Seq(Piece) /\ Relayed(more, key[r]) /\ Commented(more)
      /\ InOrder(more) /\ OneAuthor(more)
  BY <1>1, OneMore
<1>3. out' = [out EXCEPT ![r] = IF gone[r] THEN out[r] ELSE more]
  BY DEF TickerWrites, Says
<1> HIDE DEF more
<1>4. TypeOK'
  BY <1>1, <1>2, <1>3 DEF IInv, TypeOK, TickerWrites, config, slots, walk
<1>5. Alone(r)
  BY <1>3 DEF IInv, TypeOK, TickerWrites, Alone, walk
<1>6. Fits(r)' /\ Clean(r)'
  BY <1>1, <1>2, <1>3 DEF IInv, TypeOK, TickerWrites, Fits, Clean, walk
<1> QED BY <1>4, <1>5, <1>6 DEF Kept

LEMMA EmitStep ==
    ASSUME IInv, NEW r \in Request, NEW what \in {"text", "other"}, Emit(r, what)
    PROVE  Kept(r)
<1> DEFINE more == out[r] \o <<Item(what, key[r])>>
<1>1. /\ phase[r] = "asking" /\ kind[r] = "stream"
      /\ Relayed(out[r], key[r]) /\ InOrder(out[r])
      /\ out[r] \in Seq(Piece) /\ key[r] \in Key \cup {None}
  BY DEF IInv, TypeOK, Fits, Clean, Emit, Streaming, Asking
<1>2. /\ more \in Seq(Piece) /\ Relayed(more, key[r])
      /\ InOrder(more) /\ OneAuthor(more)
  BY <1>1, OneMore
<1>3. out' = [out EXCEPT ![r] = more]
  BY DEF Emit, Says
<1> HIDE DEF more
<1>4. ticker' = [ticker EXCEPT ![r] = "off"]
  BY DEF Emit, Stop
<1>5. TypeOK'
  BY <1>2, <1>3, <1>4 DEF IInv, TypeOK, Emit, config, slots, walk
<1>6. Alone(r)
  BY <1>3, <1>4 DEF IInv, TypeOK, Emit, Alone, walk
<1>7. Fits(r)' /\ Clean(r)'
  BY <1>1, <1>2, <1>3, <1>4 DEF IInv, TypeOK, Emit, Fits, Clean, walk
<1> QED BY <1>5, <1>6, <1>7 DEF Kept

LEMMA SucceedStep ==
    ASSUME IInv, NEW r \in Request, Succeed(r)
    PROVE  Kept(r)
<1>1. ticker' = [ticker EXCEPT ![r] = "off"] /\ ticker'[r] = "off"
  BY DEF IInv, TypeOK, Succeed, Stop
<1>2. /\ out[r] \in Seq(Piece) /\ key[r] \in Key \cup {None}
      /\ Relayed(out[r], key[r]) /\ InOrder(out[r])
  BY DEF IInv, TypeOK, Fits, Clean, Succeed, Asking
<1>3. CASE kind[r] = "json"
  <2> DEFINE said == <<Item("body", key[r])>>
  <2>1. out[r] = <<>> /\ Says(r, said)
    BY <1>3 DEF IInv, Fits, Succeed, Asking
  <2>2. said \in Seq(Piece) /\ said # <<>> /\ InOrder(said) /\ OneAuthor(said)
    <3>1. Item("body", key[r]) \in Piece /\ Item("body", key[r]).what # "comment"
      BY <1>2, PieceTypes
    <3> QED BY <3>1, OneWord
  <2> HIDE DEF said
  <2>3. <<>> \o said = said
    BY <2>2
  <2>4. Finish(r) /\ UNCHANGED <<config, gone>>
    BY DEF Succeed
  <2> QED BY <1>1, <1>3, <2>1, <2>2, <2>3, <2>4, Answers
<1>4. CASE kind[r] # "json"
  <2>1. Finish(r) /\ Says(r, <<Done>>) /\ UNCHANGED <<config, gone>>
    BY <1>4 DEF Succeed
  <2> QED BY <1>1, <1>2, <2>1, LastWords, Answers
<1> QED BY <1>3, <1>4

LEMMA NextKeyStep ==
    ASSUME IInv, NEW r \in Request, NextKey(r), out[r] = <<>>, UNCHANGED <<config, gone>>,
           ticker' \in {ticker, [ticker EXCEPT ![r] = "off"]}, ticker'[r] = "off"
    PROVE  Kept(r)
<1>1. TypeOK'
  <2>1. ticker' \in [Request -> {"off", "waiting", "writing"}]
    BY DEF IInv, TypeOK
  <2> QED BY <2>1 DEF IInv, TypeOK, NextKey, To, config, slots
<1>2. Alone(r)
  BY DEF IInv, TypeOK, NextKey, To, Alone
<1>3. Fits(r)' /\ Clean(r)'
  BY Nothing DEF IInv, TypeOK, NextKey, To, Fits, Clean
<1> QED BY <1>1, <1>2, <1>3 DEF Kept

LEMMA FailJSONStep ==
    ASSUME IInv, NEW r \in Request, FailJSON(r)
    PROVE  Kept(r)
<1>1. out[r] = <<>> /\ ticker[r] = "off"
  BY DEF IInv, TypeOK, Fits, FailJSON, Asking
<1> QED BY <1>1, NextKeyStep DEF FailJSON

LEMMA FailStreamStep ==
    ASSUME IInv, NEW r \in Request, FailStream(r)
    PROVE  Kept(r)
<1>1. ticker' = [ticker EXCEPT ![r] = "off"] /\ ticker'[r] = "off"
  BY DEF IInv, TypeOK, FailStream, Stop
<1>2. /\ out[r] \in Seq(Piece) /\ key[r] \in Key \cup {None}
      /\ Relayed(out[r], key[r]) /\ InOrder(out[r])
  BY DEF IInv, TypeOK, Fits, Clean, FailStream, Streaming, Asking
<1>3. UNCHANGED <<config, gone>>
  BY DEF FailStream
<1>4. \/ \E said \in {<<Done>>, <<Error, Done>>} : Finish(r) /\ Says(r, said)
      \/ NextKey(r) /\ out[r] = <<>>
  BY DEF FailStream, Wrote
<1>5. CASE \E said \in {<<Done>>, <<Error, Done>>} : Finish(r) /\ Says(r, said)
  <2>1. PICK said \in {<<Done>>, <<Error, Done>>} : Finish(r) /\ Says(r, said)
    BY <1>5
  <2> QED BY <1>1, <1>2, <1>3, <2>1, LastWords, Answers
<1>6. CASE NextKey(r) /\ out[r] = <<>>
  BY <1>1, <1>3, <1>6, NextKeyStep
<1> QED BY <1>4, <1>5, <1>6

LEMMA ClientLeavesStep ==
    ASSUME IInv, NEW r \in Request, ClientLeaves(r)
    PROVE  Kept(r)
<1>1. TypeOK'
  BY DEF IInv, TypeOK, ClientLeaves, config, slots, walk
<1>2. Alone(r)
  BY DEF IInv, TypeOK, ClientLeaves, Alone, walk
<1>3. Fits(r)' /\ Clean(r)'
  BY DEF IInv, TypeOK, ClientLeaves, Fits, Clean, Ended, walk
<1> QED BY <1>1, <1>2, <1>3 DEF Kept

LEMMA ReloadConfigStep ==
    ASSUME IInv, NEW c \in Caps, NEW list \in Keys, ReloadConfig(c, list)
    PROVE  IInv'
BY DEF IInv, TypeOK, ReloadConfig, Fits, Clean, Ended, slots, walk

LEMMA Stutter == IInv /\ UNCHANGED vars => IInv'
BY DEF IInv, TypeOK, Fits, Clean, Ended, vars, config, slots, walk

----------------------------------------------------------------------------

LEMMA Step == IInv /\ [Next]_vars => IInv'
<1> SUFFICES ASSUME IInv, [Next]_vars PROVE IInv'
  OBVIOUS
<1>1. ASSUME NEW r \in Request, NEW k \in {"json", "stream"}, Arrive(r, k) PROVE IInv'
  BY <1>1, ArriveStep, Frame
<1>2. ASSUME NEW r \in Request, Handle(r) PROVE IInv'
  <2>1. Kept(r)
    BY <1>2, AcquireStep, LeaveQueueStep, RejectStep, BeginStep, AskStep, GiveUpStep DEF Handle
  <2> QED BY <2>1, Frame
<1>3. ASSUME NEW r \in Request, TickerFires(r) \/ TickerWrites(r) PROVE IInv'
  BY <1>3, TickerFiresStep, TickerWritesStep, Frame
<1>4. ASSUME NEW r \in Request, NEW what \in {"text", "other"}, Emit(r, what) PROVE IInv'
  BY <1>4, EmitStep, Frame
<1>5. ASSUME NEW r \in Request, Succeed(r) \/ Fail(r) PROVE IInv'
  BY <1>5, SucceedStep, FailJSONStep, FailStreamStep, Frame DEF Fail
<1>6. ASSUME NEW r \in Request, ClientLeaves(r) PROVE IInv'
  BY <1>6, ClientLeavesStep, Frame
<1>7. ASSUME NEW c \in Caps, NEW list \in Keys, ReloadConfig(c, list) PROVE IInv'
  BY <1>7, ReloadConfigStep
<1> QED BY <1>1, <1>2, <1>3, <1>4, <1>5, <1>6, <1>7, Stutter DEF Next

LEMMA Invariance == Spec => []IInv
BY Start, Step, PTL DEF Spec

(* Every variable keeps its type (CommandCodeShim, HandleChatCompletions).  *)
THEOREM TypeCorrect == Spec => []TypeOK
<1>1. IInv => TypeOK
  BY DEF IInv
<1> QED BY <1>1, Invariance, PTL

(* Ticker, relay and handler write into one response, and what the client   *)
(* reads is one answer: a status first or not at all, comments before what  *)
(* they wait for, one author, and an end (stream, startSSEKeepalive,        *)
(* StreamToClient).                                                         *)
THEOREM AnswerIsClean == Spec => []OneCleanAnswer
<1>1. IInv => OneCleanAnswer
  BY DEF IInv, Clean, OneCleanAnswer
<1> QED BY <1>1, Invariance, PTL

----------------------------------------------------------------------------
(* ConfigReload: the configuration in force and the file. *)

Work == [phase : {"reloading"}, config : Config, version : Nat, step : 1 .. Len(Steps)]

ReloadTypeOK ==
    /\ file \in [content : Config \cup {Broken}, version : Nat]
    /\ inForce \in Config /\ knob \in [Knobs -> Config]
    /\ watcher \in {Away} \cup [phase : {"noticed"}, version : Nat] \cup Work
    /\ known \in Nat
    /\ operator \in [Operator -> {Away} \cup [phase : {"saved"}] \cup Work]
    /\ overlapped \in BOOLEAN

\* The part that step s of a reload sets has the configuration of the file.
Follows(s) ==
    /\ s = "publish" => inForce = file.content
    /\ s \in Knobs => knob[s] = file.content

\* A reload of the file as it is carries its content, and has set what it has
\* passed.
InStep(x) ==
    x.version = file.version =>
        x.config = file.content /\ \A i \in 1 .. x.step - 1 : Follows(Steps[i])

\* The watcher never knows a version that is not there yet, and what it has
\* noticed is news.
VersionsInOrder ==
    /\ known <= file.version
    /\ watcher.phase = "noticed" => known < watcher.version /\ watcher.version <= file.version
    /\ \A x \in Underway : x.version <= file.version

\* Without an overlap, reloads of the file as it is are in step, and a file
\* that the watcher knows is in force or on its way.
OnItsWay ==
    known = file.version =>
        /\ \A x \in Underway : x.version = file.version
        /\ Reloading(watcher) \/ RunsBy(file.content)

FileIsFollowed ==
    /\ ReloadTypeOK /\ VersionsInOrder
    /\ ~overlapped => ~Overlap /\ OnItsWay /\ \A x \in Underway : InStep(x)

----------------------------------------------------------------------------

LEMMA Headed ==
    ASSUME NEW S, NEW a \in S, NEW p \in Seq(S)
    PROVE  /\ <<a>> \o p \in Seq(S) /\ Len(<<a>> \o p) = Len(p) + 1
           /\ (<<a>> \o p)[1] = a /\ \A i \in 1 .. Len(p) : (<<a>> \o p)[i + 1] = p[i]
OBVIOUS

LEMMA Tailed ==
    ASSUME NEW S, NEW a \in S, NEW b \in S, NEW p \in Seq(S)
    PROVE  /\ p \o <<a, b>> \in Seq(S) /\ Len(p \o <<a, b>>) = Len(p) + 2
           /\ (p \o <<a, b>>)[Len(p) + 1] = a /\ (p \o <<a, b>>)[Len(p) + 2] = b
           /\ \A i \in 1 .. Len(p) : (p \o <<a, b>>)[i] = p[i]
OBVIOUS

(* What a reload does: it publishes, sets the knobs it is given, reads what *)
(* is published by now and sets the last one (ReloadConfig).                *)
LEMMA StepsOfReload ==
    /\ Len(Steps) = Len(Pushed) + 3 /\ Len(Pushed) \in Nat
    /\ Steps[1] = "publish"
    /\ \A i \in 1 .. Len(Pushed) : Steps[i + 1] = Pushed[i]
    /\ Steps[Len(Pushed) + 2] = "read" /\ Steps[Len(Steps)] = "ready"
    /\ \A i \in 1 .. Len(Pushed) : Pushed[i] \in Knobs
    /\ "ready" \in Knobs /\ "publish" \notin Knobs /\ "read" \notin Knobs
    /\ \A k \in Knobs : \E i \in 1 .. Len(Steps) : Steps[i] = k
<1> DEFINE S == Knobs \cup {"publish", "read"}
           p == <<"publish">> \o Pushed
<1>1. /\ Len(Pushed) \in Nat
      /\ Knobs = {Pushed[i] : i \in 1 .. Len(Pushed)} \cup {"ready"}
      /\ \A i \in 1 .. Len(Pushed) : Pushed[i] \notin {"publish", "read", "ready"}
  BY ReloadAssumption DEF ReloadAssumption, Knobs, ToSet
<1>2. Pushed \in Seq(S)
  <2>1. \A i \in 1 .. Len(Pushed) : Pushed[i] \in S
    BY <1>1
  <2> HIDE DEF S
  <2> QED BY <2>1, ReloadAssumption DEF ReloadAssumption
<1>3. "publish" \in S /\ "read" \in S /\ "ready" \in S
  BY <1>1
<1>4. Steps = p \o <<"read", "ready">>
  BY DEF Steps
<1> HIDE DEF S
<1>5. /\ p \in Seq(S) /\ Len(p) = Len(Pushed) + 1 /\ p[1] = "publish"
      /\ \A i \in 1 .. Len(Pushed) : p[i + 1] = Pushed[i]
  BY <1>2, <1>3, Headed
<1> HIDE DEF p
<1>6. /\ Len(Steps) = Len(Pushed) + 3
      /\ Steps[Len(Pushed) + 2] = "read" /\ Steps[Len(Pushed) + 3] = "ready"
      /\ \A i \in 1 .. Len(Pushed) + 1 : Steps[i] = p[i]
  <2>1. /\ Len(p \o <<"read", "ready">>) = Len(p) + 2
        /\ (p \o <<"read", "ready">>)[Len(p) + 1] = "read"
        /\ (p \o <<"read", "ready">>)[Len(p) + 2] = "ready"
        /\ \A i \in 1 .. Len(p) : (p \o <<"read", "ready">>)[i] = p[i]
    BY <1>3, <1>5, Tailed
  <2> QED BY <1>1, <1>4, <1>5, <2>1
<1>7. Steps[1] = "publish" /\ \A i \in 1 .. Len(Pushed) : Steps[i + 1] = Pushed[i]
  BY <1>1, <1>5, <1>6
<1>8. \A k \in Knobs : \E i \in 1 .. Len(Steps) : Steps[i] = k
  <2> TAKE k \in Knobs
  <2>1. CASE k = "ready"
    BY <2>1, <1>1, <1>6
  <2>2. CASE k # "ready"
    <3>1. PICK j \in 1 .. Len(Pushed) : k = Pushed[j]
      BY <2>2, <1>1
    <3>2. j + 1 \in 1 .. Len(Steps) /\ Steps[j + 1] = k
      BY <3>1, <1>1, <1>6, <1>7
    <3> QED BY <3>2
  <2> QED BY <2>1, <2>2
<1> QED BY <1>1, <1>6, <1>7, <1>8

\* One step of a reload, by whoever runs it.
LEMMA StepOfReload ==
    ASSUME ReloadTypeOK, NEW x \in Work, ReloadStep(x)
    PROVE  /\ inForce' \in Config /\ knob' \in [Knobs -> Config]
           /\ Stepped(x) \in Work \cup {Away}
           /\ Stepped(x) = Away <=> x.step = Len(Steps)
           /\ Stepped(x) # Away =>
                  /\ Stepped(x).version = x.version
                  /\ Stepped(x).step = x.step + 1
                  /\ Stepped(x).config \in {x.config, inForce}
                  /\ Steps[x.step] # "read" => Stepped(x).config = x.config
           /\ inForce' = IF Steps[x.step] = "publish" THEN x.config ELSE inForce
           /\ \A k \in Knobs : knob'[k] = IF Steps[x.step] = k THEN x.config ELSE knob[k]
<1> DEFINE s == Steps[x.step]
<1>1. x.phase = "reloading" /\ x.config \in Config /\ x.version \in Nat
      /\ x.step \in 1 .. Len(Steps)
  BY DEF Work
<1>2. Len(Steps) \in Nat /\ "publish" \notin Knobs /\ "read" \notin Knobs
  BY StepsOfReload
<1>3. inForce' \in Config /\ knob' \in [Knobs -> Config]
      /\ inForce' = (IF s = "publish" THEN x.config ELSE inForce)
      /\ \A k \in Knobs : knob'[k] = IF s = k THEN x.config ELSE knob[k]
  BY <1>1, <1>2 DEF ReloadStep, Publish, SetKnob, ReadPublished, NextStep,
                    parts, ReloadTypeOK
<1>4. CASE x.step = Len(Steps)
  BY <1>3, <1>4 DEF Stepped
<1>5. CASE x.step # Len(Steps)
  <2> DEFINE y == Stepped(x)
  <2>1. y = [x EXCEPT !.step = @ + 1, !.config = IF s = "read" THEN inForce ELSE @]
    BY <1>5 DEF Stepped, NextStep
  <2>2. inForce \in Config
    BY DEF ReloadTypeOK
  <2>3. y = [phase |-> "reloading", config |-> IF s = "read" THEN inForce ELSE x.config,
             version |-> x.version, step |-> x.step + 1]
    BY <2>1 DEF Work
  <2>4. y \in Work /\ y # Away
    BY <2>2, <2>3, <1>1, <1>2, <1>5 DEF Work, Away
  <2> QED BY <1>3, <1>5, <2>3, <2>4
<1> QED BY <1>4, <1>5

LEMMA UnderwayIsWork ==
    ASSUME ReloadTypeOK
    PROVE  /\ \A x \in Underway : x \in Work /\ x.phase = "reloading" /\ x.version \in Nat
           /\ Reloading(watcher) => watcher \in Underway
           /\ \A o \in Operator : Reloading(operator[o]) => operator[o] \in Underway
           /\ Reloading(watcher) <=> watcher \in Work
           /\ \A o \in Operator : Reloading(operator[o]) <=> operator[o] \in Work
<1>1. Reloading(watcher) => watcher \in Work
  BY DEF ReloadTypeOK, Reloading, Away
<1>2. \A o \in Operator : Reloading(operator[o]) => operator[o] \in Work
  BY DEF ReloadTypeOK, Reloading, Away
<1>3. \A x \in Work : Reloading(x) /\ x.version \in Nat
  BY DEF Work, Reloading
<1> QED BY <1>1, <1>2, <1>3 DEF Underway, Reloading

(* Reloads that are in step write one and the same configuration.           *)
LEMMA WritesWhatIsThere ==
    ASSUME FileIsFollowed, ~overlapped, file' = file,
           NEW x \in Underway, ReloadStep(x), NEW y, y = Stepped(x)
    PROVE  /\ \A z \in Underway : InStep(z)'
           /\ y # Away => InStep(y)'
           /\ x.version = file.version /\ RunsBy(file.content) => RunsBy(file.content)'
           /\ x.version = file.version /\ y = Away => RunsBy(file.content)'
<1> USE DEF FileIsFollowed
<1>1. x \in Work /\ InStep(x) /\ x.step \in 1 .. Len(Steps)
  BY UnderwayIsWork DEF Work
<1>2. /\ inForce' = IF Steps[x.step] = "publish" THEN x.config ELSE inForce
      /\ \A k \in Knobs : knob'[k] = IF Steps[x.step] = k THEN x.config ELSE knob[k]
      /\ y = Away <=> x.step = Len(Steps)
      /\ y # Away => /\ y.version = x.version /\ y.step = x.step + 1
                     /\ y.config \in {x.config, inForce}
                     /\ Steps[x.step] # "read" => y.config = x.config
  BY <1>1, StepOfReload
<1>3. Len(Steps) \in Nat /\ Len(Steps) >= 3 /\ Steps[1] = "publish"
  BY StepsOfReload
<1>4. CASE x.version # file.version
  <2>1. \A z \in Underway : z.version # file.version
    BY <1>4 DEF Overlap
  <2>2. \A z \in Underway : InStep(z)'
    BY <2>1 DEF InStep
  <2>3. y # Away => InStep(y)'
    BY <1>2, <1>4 DEF InStep
  <2> QED BY <2>2, <2>3, <1>4
<1>5. CASE x.version = file.version
  <2>1. x.config = file.content /\ \A i \in 1 .. x.step - 1 : Follows(Steps[i])
    BY <1>1, <1>5 DEF InStep
  <2>2. ASSUME NEW s, Follows(s) PROVE Follows(s)'
    BY <1>2, <2>1, <2>2 DEF Follows
  <2>3. Follows(Steps[x.step])'
    BY <1>2, <2>1 DEF Follows
  <2>4. \A z \in Underway : InStep(z)'
    BY <2>2 DEF InStep
  <2>5. \A i \in 1 .. x.step : Follows(Steps[i])'
    <3> TAKE i \in 1 .. x.step
    <3>1. CASE i = x.step
      BY <2>3, <3>1
    <3>2. CASE i # x.step
      <4>1. i \in 1 .. x.step - 1
        BY <1>1, <3>2
      <4> QED BY <2>1, <2>2, <4>1
    <3> QED BY <3>1, <3>2
  <2>6. y # Away => InStep(y)'
    <3> SUFFICES ASSUME y # Away PROVE InStep(y)'
      OBVIOUS
    <3>1. y.config = file.content
      <4>1. CASE Steps[x.step] # "read"
        BY <1>2, <2>1, <4>1
      <4>2. CASE Steps[x.step] = "read"
        <5>1. 1 \in 1 .. x.step - 1
          BY <1>1, <1>3, <4>2
        <5>2. inForce = file.content
          BY <2>1, <1>3, <5>1 DEF Follows
        <5> QED BY <1>2, <2>1, <5>2
      <4> QED BY <4>1, <4>2
    <3>2. 1 .. y.step - 1 = 1 .. x.step
      BY <1>1, <1>2
    <3> QED BY <3>1, <3>2, <2>5 DEF InStep
  <2>7. RunsBy(file.content) => RunsBy(file.content)'
    BY <1>2, <2>1 DEF RunsBy
  <2>8. y = Away => RunsBy(file.content)'
    <3> SUFFICES ASSUME x.step = Len(Steps) PROVE RunsBy(file.content)'
      BY <1>2
    <3>1. inForce' = file'.content
      BY <2>5, <1>3 DEF Follows
    <3>2. ASSUME NEW k \in Knobs PROVE knob'[k] = file'.content
      <4>1. PICK i \in 1 .. Len(Steps) : Steps[i] = k
        BY StepsOfReload
      <4>2. Follows(Steps[i])'
        BY <2>5
      <4> QED BY <4>1, <4>2 DEF Follows
    <3> QED BY <3>1, <3>2 DEF RunsBy
  <2> QED BY <2>4, <2>6, <2>7, <2>8, <1>5
<1> QED BY <1>4, <1>5

LEMMA FollowedAtFirst ==
    ASSUME ReloadInit
    PROVE  FileIsFollowed
<1>1. ReloadTypeOK
  <2>1. PICK c \in Config : /\ file = [content |-> c, version |-> 1]
                            /\ inForce = c /\ knob = [k \in Knobs |-> c]
    BY DEF ReloadInit
  <2>2. /\ file \in [content : Config \cup {Broken}, version : Nat]
        /\ inForce \in Config /\ knob \in [Knobs -> Config]
    BY <2>1
  <2>3. /\ operator \in [Operator -> {Away}] /\ watcher = Away
        /\ known = 0 /\ overlapped = FALSE
    BY DEF ReloadInit
  <2> QED BY <2>2, <2>3 DEF ReloadTypeOK
<1>2. Underway = {}
  BY DEF ReloadInit, Underway, Reloading, Away
<1>3. VersionsInOrder
  BY <1>2 DEF ReloadInit, VersionsInOrder, Away
<1>4. ~Overlap /\ OnItsWay
  BY <1>2 DEF ReloadInit, Overlap, OnItsWay
<1> QED BY <1>1, <1>2, <1>3, <1>4 DEF FileIsFollowed

LEMMA ReloadTypeStep ==
    ASSUME ReloadTypeOK, [ReloadNext]_reload_vars
    PROVE  ReloadTypeOK'
<1> USE DEF ReloadTypeOK
<1> DEFINE W == {Away} \cup [phase : {"noticed"}, version : Nat] \cup Work
           O == {Away} \cup [phase : {"saved"}] \cup Work
<1>1. 1 \in 1 .. Len(Steps)
  BY StepsOfReload
<1>2. Knobs' = Knobs /\ Work' = Work
  BY DEF Knobs, Work, Steps
<1>3. file.content # Broken => Reload(file) \in Work
  BY <1>1 DEF Reload, Work
<1>4. CASE UNCHANGED reload_vars
  BY <1>2, <1>4 DEF reload_vars
<1>5. CASE ReloadNext
  <2>1. overlapped' \in BOOLEAN
    BY <1>5 DEF ReloadNext
  <2>2. ASSUME Poll \/ Notice
        PROVE  /\ UNCHANGED <<file, inForce, knob, known, operator>> /\ watcher' \in W
    BY <2>2 DEF Poll, Notice, parts
  <2>3. ASSUME LoadNoticed
        PROVE  UNCHANGED <<file, inForce, knob, operator>> /\ watcher' \in W /\ known' \in Nat
    <3>1. watcher \in [phase : {"noticed"}, version : Nat]
      BY <2>3 DEF LoadNoticed, Away, Work
    <3> QED BY <2>3, <3>1, <1>3 DEF LoadNoticed, Remembered, parts
  <2>4. ASSUME WatcherReloads
        PROVE  /\ UNCHANGED <<file, known, operator>> /\ watcher' \in W
               /\ inForce' \in Config /\ knob' \in [Knobs -> Config]
    <3>1. watcher \in Work
      BY <2>4, UnderwayIsWork DEF WatcherReloads
    <3> QED BY <2>4, <3>1, StepOfReload DEF WatcherReloads
  <2>5. ASSUME NEW o \in Operator, LoadSaved(o)
        PROVE  UNCHANGED <<file, inForce, knob, watcher, known>> /\ operator' \in [Operator -> O]
    BY <2>5, <1>3 DEF LoadSaved, parts
  <2>6. ASSUME NEW o \in Operator, OperatorReloads(o)
        PROVE  /\ UNCHANGED <<file, watcher, known>> /\ operator' \in [Operator -> O]
               /\ inForce' \in Config /\ knob' \in [Knobs -> Config]
    <3>1. operator[o] \in Work
      BY <2>6, UnderwayIsWork DEF OperatorReloads
    <3> QED BY <2>6, <3>1, StepOfReload DEF OperatorReloads
  <2>7. ASSUME NEW o \in Operator, NEW c \in Config, Save(o, c)
        PROVE  /\ UNCHANGED <<inForce, knob, watcher, known>> /\ operator' \in [Operator -> O]
               /\ file' \in [content : Config \cup {Broken}, version : Nat]
    BY <2>7 DEF Save, parts
  <2>8. ASSUME NEW c \in Config \cup {Broken}, Edit(c)
        PROVE  /\ UNCHANGED <<inForce, knob, watcher, known, operator>>
               /\ file' \in [content : Config \cup {Broken}, version : Nat]
    BY <2>8 DEF Edit, parts
  <2> HIDE DEF W, O
  <2>9. ReloadTypeOK <=> /\ file \in [content : Config \cup {Broken}, version : Nat]
                         /\ inForce \in Config /\ knob \in [Knobs -> Config]
                         /\ watcher \in W /\ known \in Nat /\ operator \in [Operator -> O]
                         /\ overlapped \in BOOLEAN
    BY DEF W, O
  <2>10. ReloadTypeOK' <=> /\ file' \in [content : Config \cup {Broken}, version : Nat]
                           /\ inForce' \in Config /\ knob' \in [Knobs -> Config]
                           /\ watcher' \in W /\ known' \in Nat /\ operator' \in [Operator -> O]
                           /\ overlapped' \in BOOLEAN
    BY <1>2 DEF W, O, Away
  <2> HIDE DEF ReloadTypeOK
  <2> QED
    BY <1>5, <2>1, <2>2, <2>3, <2>4, <2>5, <2>6, <2>7, <2>8, <2>9, <2>10
       DEF ReloadNext, Watch, Administer
<1> QED BY <1>4, <1>5

(* What every step does to the history of overlaps.                         *)
LEMMA OverlapsAreSeen ==
    ASSUME FileIsFollowed, [ReloadNext]_reload_vars, ~overlapped'
    PROVE  ~overlapped /\ ~Overlap'
<1>1. CASE ReloadNext
  BY <1>1 DEF ReloadNext, FileIsFollowed, ReloadTypeOK
<1>2. CASE UNCHANGED reload_vars
  BY <1>2 DEF reload_vars, FileIsFollowed, Overlap, Underway
<1> QED BY <1>1, <1>2

(* A new version of the file: no reload is of it yet, and nobody knows it.  *)
LEMMA FollowedWhenWritten ==
    ASSUME FileIsFollowed, [ReloadNext]_reload_vars,
           file'.version = file.version + 1, UNCHANGED <<watcher, known>>,
           Underway' = Underway
    PROVE  FileIsFollowed'
<1> USE DEF FileIsFollowed
<1>1. ReloadTypeOK' /\ file.version \in Nat /\ known \in Nat
      /\ \A x \in Underway : x.version \in Nat
  BY ReloadTypeStep, UnderwayIsWork DEF ReloadTypeOK
<1>2. VersionsInOrder'
  <2>1. watcher.phase = "noticed" => watcher.version \in Nat
    BY DEF ReloadTypeOK, Away, Work
  <2> QED BY <1>1, <2>1 DEF VersionsInOrder
<1>3. OnItsWay' /\ \A x \in Underway' : InStep(x)'
  BY <1>1 DEF OnItsWay, VersionsInOrder, InStep
<1> QED BY <1>1, <1>2, <1>3, OverlapsAreSeen

(* A reload that begins is of the file as it is.                            *)
LEMMA FollowedWhenLoaded ==
    ASSUME FileIsFollowed, [ReloadNext]_reload_vars,
           UNCHANGED <<file, inForce, knob>>,
           \A x \in Underway' : x \in Underway \/ x = Reload(file),
           Reloading(watcher) => Reloading(watcher'),
           known' = known \/ (known' = watcher.version /\ watcher.phase = "noticed"
                       /\ watcher' = Reload(file)),
           watcher'.phase = "noticed" => watcher' = watcher
    PROVE  FileIsFollowed'
<1> USE DEF FileIsFollowed
<1>1. /\ ReloadTypeOK' /\ file.version \in Nat /\ known \in Nat
      /\ \A x \in Underway' : x.version \in Nat
  BY ReloadTypeStep, UnderwayIsWork DEF ReloadTypeOK, Reload
<1> DEFINE n == Reload(file)
<1>2. n.version = file.version /\ n.config = file.content /\ n.step = 1 /\ n.phase = "reloading"
  BY DEF Reload
<1>3. VersionsInOrder'
  BY <1>1, <1>2 DEF VersionsInOrder
<1>4. ASSUME ~overlapped' PROVE OnItsWay' /\ \A x \in Underway' : InStep(x)'
  <2>1. ~overlapped /\ ~Overlap'
    BY <1>4, OverlapsAreSeen
  <2>2. ASSUME NEW x \in Underway' PROVE InStep(x)'
    <3>1. CASE x \in Underway
      BY <2>1, <3>1 DEF InStep, Follows, Knobs, Steps
    <3>2. CASE x = n
      BY <1>2, <3>2 DEF InStep
    <3> QED BY <2>2, <3>1, <3>2
  <2>3. CASE known' = known
    BY <2>1, <2>2, <2>3, <1>2 DEF OnItsWay, RunsBy, Knobs, Reloading
  <2>4. CASE known' # known
    <3>1. watcher' = n /\ Reloading(watcher') /\ n \in Underway'
      BY <2>4, <1>2 DEF Reloading, Underway
    <3>2. \A x \in Underway' : x.version = n.version
      BY <2>1, <3>1 DEF Overlap
    <3> QED BY <2>2, <3>1, <3>2, <1>2 DEF OnItsWay, Reloading
  <2> QED BY <2>2, <2>3, <2>4
<1> QED BY <1>1, <1>3, <1>4, OverlapsAreSeen

(* One step of a reload, by whoever runs it.                                *)
LEMMA FollowedWhenReloading ==
    ASSUME FileIsFollowed, [ReloadNext]_reload_vars,
           NEW x \in Underway, ReloadStep(x), NEW y, y = Stepped(x),
           UNCHANGED <<file, known>>,
           \A z \in Underway' : z \in Underway \/ z = y,
           watcher' = watcher \/ (watcher = x /\ watcher' = y)
    PROVE  FileIsFollowed'
<1> USE DEF FileIsFollowed
<1>1. ReloadTypeOK' /\ x \in Work
  BY ReloadTypeStep, UnderwayIsWork
<1>2. y \in Work \cup {Away} /\ (y # Away => y.version = x.version)
  BY <1>1, StepOfReload
<1>3. ASSUME NEW z \in Underway', z \notin Underway PROVE z = y /\ y # Away
  BY <1>3 DEF Underway, Reloading, Away
<1>4. VersionsInOrder'
  <2>1. watcher'.phase = "noticed" => watcher' = watcher
    BY <1>2 DEF Work, Away
  <2> QED BY <1>2, <1>3, <2>1 DEF VersionsInOrder
<1>5. ASSUME ~overlapped' PROVE OnItsWay' /\ \A z \in Underway' : InStep(z)'
  <2>1. ~overlapped /\ ~Overlap'
    BY <1>5, OverlapsAreSeen
  <2>2. \A z \in Underway' : InStep(z)'
    BY <1>3, <2>1, WritesWhatIsThere
  <2>3. OnItsWay'
    <3> SUFFICES ASSUME known' = file'.version PROVE OnItsWay!2'
      BY DEF OnItsWay
    <3>1. \A z \in Underway : z.version = file.version
      BY <2>1 DEF OnItsWay
    <3>2. \A z \in Underway' : z.version = file'.version
      BY <3>1, <1>2, <1>3
    <3>3. Reloading(watcher') \/ RunsBy(file.content)'
      <4>1. CASE Reloading(watcher)
        <5>1. CASE watcher' = watcher
          BY <4>1, <5>1
        <5>2. CASE watcher = x /\ watcher' = y
          <6>1. y = Away => RunsBy(file.content)'
            BY <2>1, <3>1, WritesWhatIsThere
          <6>2. y # Away => Reloading(y)
            BY <1>2 DEF Work, Reloading
          <6> QED BY <5>2, <6>1, <6>2
        <5> QED BY <5>1, <5>2
      <4>2. CASE RunsBy(file.content)
        BY <4>2, <2>1, <3>1, WritesWhatIsThere
      <4> QED BY <4>1, <4>2, <2>1 DEF OnItsWay
    <3> QED BY <3>2, <3>3 DEF Reloading
  <2> QED BY <2>2, <2>3
<1> QED BY <1>1, <1>4, <1>5, OverlapsAreSeen

LEMMA FollowedAlways ==
    ASSUME FileIsFollowed, [ReloadNext]_reload_vars
    PROVE  FileIsFollowed'
<1> USE DEF FileIsFollowed
<1>1. /\ file.version \in Nat /\ operator \in [Operator -> {Away} \cup [phase : {"saved"}] \cup Work]
  BY DEF ReloadTypeOK
<1>2. CASE UNCHANGED reload_vars \/ Poll \/ Notice
  <2>1. /\ UNCHANGED <<file, inForce, knob, known, operator>>
        /\ watcher' = watcher \/ (watcher' = [phase |-> "noticed", version |-> file.version]
                                  /\ watcher = Away /\ file.version # known)
    BY <1>2 DEF reload_vars, Poll, Notice, parts
  <2>2. Underway' = Underway /\ (Reloading(watcher') <=> Reloading(watcher))
    BY <2>1 DEF Underway, Reloading, Away
  <2>3. ReloadTypeOK' /\ known \in Nat
    BY ReloadTypeStep DEF ReloadTypeOK
  <2>4. VersionsInOrder'
    BY <1>1, <2>1, <2>2, <2>3 DEF VersionsInOrder
  <2>5. ASSUME ~overlapped' PROVE OnItsWay' /\ \A x \in Underway' : InStep(x)'
    <3>1. ~overlapped
      BY <2>5, OverlapsAreSeen
    <3>2. OnItsWay'
      BY <2>1, <2>2, <3>1 DEF OnItsWay, RunsBy, Knobs, Reloading
    <3> QED BY <2>1, <2>2, <3>1, <3>2 DEF InStep, Follows, Knobs, Steps
  <2> QED BY <2>3, <2>4, <2>5, OverlapsAreSeen
<1>3. CASE LoadNoticed
  <2>1. /\ UNCHANGED <<file, inForce, knob, operator>> /\ ~Reloading(watcher)
        /\ \/ known' = known /\ watcher' = Away
           \/ known' = watcher.version /\ watcher' = Reload(file)
        /\ watcher.phase = "noticed"
    BY <1>3 DEF LoadNoticed, Remembered, parts, Reloading
  <2>2. \A x \in Underway' : x \in Underway \/ x = Reload(file)
    BY <2>1 DEF Underway, Reloading, Away
  <2>3. watcher'.phase # "noticed"
    BY <2>1 DEF Away, Reload
  <2> QED BY <2>1, <2>2, <2>3, FollowedWhenLoaded
<1>4. CASE WatcherReloads
  <2>1. watcher \in Underway
    BY <1>4, UnderwayIsWork DEF WatcherReloads
  <2>2. \A z \in Underway' : z \in Underway \/ z = Stepped(watcher)
    BY <1>4 DEF WatcherReloads, Underway, Reloading
  <2> QED BY <1>4, <2>1, <2>2, FollowedWhenReloading DEF WatcherReloads
<1>5. ASSUME NEW o \in Operator, LoadSaved(o) PROVE FileIsFollowed'
  <2>1. UNCHANGED <<file, inForce, knob, watcher, known>>
    BY <1>5 DEF LoadSaved, parts
  <2>2. \A x \in Underway' : x \in Underway \/ x = Reload(file)
    <3>1. \A p \in Operator : operator'[p] \in {operator[p], Away, Reload(file)}
      BY <1>1, <1>5 DEF LoadSaved
    <3> QED BY <2>1, <3>1 DEF Underway, Reloading, Away
  <2> QED BY <2>1, <2>2, FollowedWhenLoaded
<1>6. ASSUME NEW o \in Operator, OperatorReloads(o) PROVE FileIsFollowed'
  <2>1. operator[o] \in Underway /\ ReloadStep(operator[o])
        /\ UNCHANGED <<file, watcher, known>>
    BY <1>6, UnderwayIsWork DEF OperatorReloads
  <2>2. \A z \in Underway' : z \in Underway \/ z = Stepped(operator[o])
    <3>1. \A p \in Operator : operator'[p] \in {operator[p], Stepped(operator[o])}
      BY <1>1, <1>6 DEF OperatorReloads
    <3> QED BY <2>1, <3>1 DEF Underway, Reloading
  <2> QED BY <2>1, <2>2, FollowedWhenReloading
<1>7. ASSUME NEW o \in Operator, NEW c \in Config, Save(o, c) PROVE FileIsFollowed'
  <2>1. file'.version = file.version + 1 /\ UNCHANGED <<watcher, known>>
    BY <1>7 DEF Save, parts
  <2>2. Underway' = Underway
    <3>1. /\ \A p \in Operator : operator'[p] = IF p = o THEN [phase |-> "saved"] ELSE operator[p]
          /\ operator[o] = Away
      BY <1>1, <1>7 DEF Save
    <3>2. \A p \in Operator : Reloading(operator'[p]) <=> Reloading(operator[p])
      BY <3>1 DEF Reloading, Away
    <3>3. \A p \in Operator : Reloading(operator[p]) => operator'[p] = operator[p]
      BY <3>1 DEF Reloading, Away
    <3> QED BY <2>1, <3>2, <3>3 DEF Underway, Reloading
  <2> QED BY <2>1, <2>2, FollowedWhenWritten
<1>8. ASSUME NEW c \in Config \cup {Broken}, Edit(c) PROVE FileIsFollowed'
  <2>1. file'.version = file.version + 1 /\ UNCHANGED <<watcher, known, operator>>
    BY <1>8 DEF Edit, parts
  <2>2. Underway' = Underway
    BY <2>1 DEF Underway, Reloading
  <2> QED BY <2>1, <2>2, FollowedWhenWritten
<1> HIDE DEF FileIsFollowed
<1> QED
  BY <1>2, <1>3, <1>4, <1>5, <1>6, <1>7, <1>8 DEF ReloadNext, Watch, Administer

(* ConfigReload: once the watcher knows the file and no reload is under way,*)
(* everything runs by the file, unless reloads of different files           *)
(* overlapped; whatever configurations, operators, knobs and writes there   *)
(* are (watchConfig, ReloadConfig).                                         *)
THEOREM RunsByTheFile == ReloadSpec => []SettlesOnTheFile
<1>1. ReloadInit => FileIsFollowed
  BY FollowedAtFirst
<1>2. FileIsFollowed /\ [ReloadNext]_reload_vars => FileIsFollowed'
  BY FollowedAlways
<1>3. FileIsFollowed => SettlesOnTheFile
  BY DEF FileIsFollowed, OnItsWay, SettlesOnTheFile, Settled, Reloading, Away
<1> QED BY <1>1, <1>2, <1>3, PTL DEF ReloadSpec

----------------------------------------------------------------------------
(* LabelCap: the bounded label maps. *)

Once(s) == \A i, j \in 1 .. Len(s) : s[i] = s[j] => i = j

LEMMA SetOfSeq ==
    ASSUME NEW S, NEW s \in Seq(S)
    PROVE  ToSet(s) = {s[i] : i \in 1 .. Len(s)}
BY DEF ToSet

LEMMA OnceCounts ==
    ASSUME NEW S, NEW s \in Seq(S), Once(s)
    PROVE  /\ IsFiniteSet(ToSet(s)) /\ Cardinality(ToSet(s)) = Len(s)
           /\ \A n \in 0 .. Len(s) :
                  LET f == {s[i] : i \in 1 .. n}
                  IN IsFiniteSet(f) /\ Cardinality(f) = n
<1>1. ASSUME NEW n \in 0 .. Len(s)
      PROVE  LET f == {s[i] : i \in 1 .. n}
             IN IsFiniteSet(f) /\ Cardinality(f) = n
  <2> DEFINE f == {s[i] : i \in 1 .. n}
             g == [i \in 1 .. n |-> s[i]]
  <2>1. g \in Injection(1 .. n, f) /\ g \in Surjection(1 .. n, f)
    BY DEF Once, Injection, IsInjective, Surjection
  <2>2. IsFiniteSet(1 .. n) /\ Cardinality(1 .. n) = n
    BY FS_Interval
  <2> HIDE DEF f, g
  <2>3. IsFiniteSet(f) /\ Cardinality(f) = n
    BY <2>1, <2>2, FS_Surjection
  <2> QED BY <2>3 DEF f
<1>2. ToSet(s) = {s[i] : i \in 1 .. Len(s)}
  BY SetOfSeq
<1>3. Len(s) \in 0 .. Len(s)
  OBVIOUS
<1> QED BY <1>1, <1>2, <1>3

\* The order speaks of the labels of S, each once.
Orders(o, S) == o \in Seq(Label) /\ Once(o) /\ {o[i] : i \in 1 .. Len(o)} = S

LEMMA OrderGrows ==
    ASSUME NEW o, NEW S, Orders(o, S), NEW l \in Label \ S
    PROVE  Orders(Append(o, l), S \cup {l})
<1> DEFINE p == Append(o, l)
<1>1. o \in Seq(Label) /\ Len(o) \in Nat /\ Once(o)
  BY DEF Orders
<1>2. /\ p \in Seq(Label) /\ Len(p) = Len(o) + 1 /\ p[Len(o) + 1] = l
      /\ \A i \in 1 .. Len(o) : p[i] = o[i]
  BY <1>1
<1> HIDE DEF p
<1>3. \A i \in 1 .. Len(o) : o[i] # l
  BY DEF Orders
<1>4. Once(p)
  BY <1>1, <1>2, <1>3 DEF Once
<1>5. \A i \in 1 .. Len(p) : i \in 1 .. Len(o) \/ i = Len(o) + 1
  BY <1>1, <1>2
<1>6. Len(o) + 1 \in 1 .. Len(p) /\ \A i \in 1 .. Len(o) : i \in 1 .. Len(p)
  BY <1>1, <1>2
<1>7. {p[i] : i \in 1 .. Len(p)} = {o[i] : i \in 1 .. Len(o)} \cup {l}
  BY <1>2, <1>5, <1>6
<1>8. {o[i] : i \in 1 .. Len(o)} = S
  BY DEF Orders
<1> QED BY <1>2, <1>4, <1>7, <1>8 DEF Orders, p

LEMMA OrderShrinks ==
    ASSUME NEW o, NEW S, Orders(o, S), NEW n \in 0 .. Len(o)
    PROVE  /\ Orders(SubSeq(o, n + 1, Len(o)), S \ First(o, n))
           /\ First(o, n) \subseteq S
           /\ IsFiniteSet(First(o, n)) /\ Cardinality(First(o, n)) = n
<1> DEFINE p == SubSeq(o, n + 1, Len(o))
           f == First(o, n)
<1>0. f = {o[i] : i \in 1 .. n}
  BY DEF First
<1> HIDE DEF f
<1>1. o \in Seq(Label) /\ Len(o) \in Nat /\ Once(o)
  BY DEF Orders
<1>2. /\ p \in Seq(Label) /\ Len(p) = Len(o) - n
      /\ \A i \in 1 .. Len(p) : p[i] = o[i + n]
  <2>1. /\ Len(p) = Len(o) - n /\ p \in Seq(Label)
        /\ \A i \in 1 .. Len(o) - n : p[i] = o[n + 1 + i - 1]
    BY <1>1, SubSeqProperties
  <2> QED BY <1>1, <2>1
<1> HIDE DEF p
<1>3. Once(p)
  BY <1>1, <1>2 DEF Once
<1>4. \A i \in 1 .. Len(p) : i + n \in 1 .. Len(o) /\ i + n \notin 1 .. n
  BY <1>1, <1>2
<1>5. \A i \in 1 .. Len(o) : i \in 1 .. n \/ (i - n \in 1 .. Len(p) /\ o[i] = p[i - n])
  BY <1>1, <1>2
<1>6. {p[i] : i \in 1 .. Len(p)} = S \ f
  <2>1. ASSUME NEW i \in 1 .. Len(p) PROVE p[i] \in S \ f
    <3>1. \A j \in 1 .. n : j \in 1 .. Len(o) /\ o[j] # o[i + n]
      BY <1>1, <1>4 DEF Once
    <3> QED BY <1>0, <1>2, <1>4, <3>1 DEF Orders
  <2>2. ASSUME NEW x \in S \ f PROVE \E i \in 1 .. Len(p) : p[i] = x
    <3>1. PICK i \in 1 .. Len(o) : o[i] = x
      BY DEF Orders
    <3>2. i \notin 1 .. n
      BY <1>0, <3>1
    <3> QED BY <1>5, <3>1, <3>2
  <2> QED BY <2>1, <2>2
<1>7. f \subseteq S
  BY <1>0, <1>1 DEF Orders
<1>8. IsFiniteSet(f) /\ Cardinality(f) = n
  BY <1>0, <1>1, OnceCounts
<1> QED BY <1>2, <1>3, <1>6, <1>7, <1>8 DEF Orders, p, f

\* A window: its maps have names for labels, and the order speaks of those that
\* are not the bucket.
Shaped(w) ==
    /\ IsFiniteSet(DOMAIN w.series) /\ DOMAIN w.series \subseteq Label \cup {Bucket}
    /\ Orders(w.order, DOMAIN w.series \ {Bucket})

LEMMA AdmittedIs ==
    ASSUME NEW w, NEW l, l \notin DOMAIN w.series
    PROVE  /\ DOMAIN Admitted(w, l).series = DOMAIN w.series \cup {l}
           /\ Admitted(w, l).order = IF l = Bucket THEN w.order ELSE Append(w.order, l)
<1> DEFINE s == [k \in DOMAIN w.series \cup {l} |-> IF k = l THEN NoAttempts ELSE w.series[k]]
           o == IF l = Bucket THEN w.order ELSE Append(w.order, l)
<1>1. Admitted(w, l) = [series |-> s, order |-> o]
  BY Zenon DEF Admitted
<1>2. DOMAIN s = DOMAIN w.series \cup {l}
  OBVIOUS
<1> HIDE DEF s, o
<1>3. Admitted(w, l).series = s /\ Admitted(w, l).order = o
  BY <1>1
<1> QED BY <1>2, <1>3 DEF o

(* admitLocked keeps the order and the maps together.                       *)
LEMMA AdmittedShape ==
    ASSUME NEW w, Shaped(w), NEW l \in Label \cup {Bucket}
    PROVE  /\ Shaped(Admitted(w, l))
           /\ DOMAIN Admitted(w, l).series = DOMAIN w.series \cup {l}
           /\ l = Bucket => Admitted(w, l).order = w.order
<1> DEFINE a == Admitted(w, l)
<1>1. CASE l \in DOMAIN w.series
  <2>1. a = w
    BY <1>1 DEF Admitted
  <2> QED BY <1>1, <2>1
<1>2. CASE l \notin DOMAIN w.series
  <2>1. /\ DOMAIN a.series = DOMAIN w.series \cup {l}
        /\ a.order = IF l = Bucket THEN w.order ELSE Append(w.order, l)
    BY <1>2, AdmittedIs
  <2>2. IsFiniteSet(DOMAIN a.series) /\ DOMAIN a.series \subseteq Label \cup {Bucket}
    BY <2>1, FS_AddElement DEF Shaped
  <2> HIDE DEF a
  <2>3. CASE l = Bucket
    <3>1. DOMAIN a.series \ {Bucket} = DOMAIN w.series \ {Bucket}
      BY <2>1, <2>3
    <3> QED BY <2>1, <2>2, <2>3, <3>1 DEF Shaped, a
  <2>4. CASE l # Bucket
    <3>1. DOMAIN a.series \ {Bucket} = (DOMAIN w.series \ {Bucket}) \cup {l}
      BY <2>1, <2>4
    <3>2. Orders(Append(w.order, l), (DOMAIN w.series \ {Bucket}) \cup {l})
      BY <1>2, <2>4, OrderGrows DEF Shaped
    <3> QED BY <2>1, <2>2, <2>4, <3>1, <3>2 DEF Shaped, a
  <2> QED BY <2>3, <2>4
<1> QED BY <1>1, <1>2

LEMMA RolledUpIs ==
    ASSUME NEW w, NEW n, n # 0
    PROVE  /\ DOMAIN RolledUp(w, n).series = DOMAIN Admitted(w, Bucket).series \ First(w.order, n)
           /\ RolledUp(w, n).order = SubSeq(w.order, n + 1, Len(w.order))
<1> DEFINE a == Admitted(w, Bucket)
           s == [k \in DOMAIN a.series \ First(w.order, n) |->
                    IF k # Bucket THEN a.series[k]
                    ELSE [a.series[k] EXCEPT !.attempts = @ + Rolled(w, n, "attempts"),
                                             !.failures = @ + Rolled(w, n, "failures")]]
           o == SubSeq(w.order, n + 1, Len(w.order))
<1>1. RolledUp(w, n) = [series |-> s, order |-> o]
  BY Zenon DEF RolledUp
<1>2. DOMAIN s = DOMAIN a.series \ First(w.order, n)
  BY Zenon
<1> HIDE DEF s, o
<1>3. RolledUp(w, n).series = s /\ RolledUp(w, n).order = o
  BY <1>1
<1> QED BY <1>2, <1>3 DEF o

(* rollUpToOverflowLocked: so many fewer, and the bucket is there.          *)
LEMMA RolledShape ==
    ASSUME NEW w, Shaped(w), NEW n \in 1 .. Len(w.order)
    PROVE  /\ Shaped(RolledUp(w, n)) /\ Bucket \in DOMAIN RolledUp(w, n).series
           /\ Cardinality(DOMAIN w.series) \in Nat
           /\ Cardinality(DOMAIN RolledUp(w, n).series) =
                  (IF Bucket \in DOMAIN w.series THEN Cardinality(DOMAIN w.series)
                   ELSE Cardinality(DOMAIN w.series) + 1) - n
<1> DEFINE r == RolledUp(w, n)
           a == Admitted(w, Bucket)
           f == First(w.order, n)
<1>0. w.order \in Seq(Label) /\ Len(w.order) \in Nat
  BY DEF Shaped, Orders
<1>1. Shaped(a) /\ DOMAIN a.series = DOMAIN w.series \cup {Bucket} /\ a.order = w.order
  BY AdmittedShape
<1>2. /\ DOMAIN r.series = DOMAIN a.series \ f
      /\ r.order = SubSeq(w.order, n + 1, Len(w.order))
  <2>1. n # 0
    BY <1>0
  <2> QED BY <2>1, RolledUpIs
<1>3. /\ Orders(r.order, (DOMAIN w.series \ {Bucket}) \ f)
      /\ f \subseteq DOMAIN w.series \ {Bucket} /\ IsFiniteSet(f) /\ Cardinality(f) = n
  <2> DEFINE named == DOMAIN w.series \ {Bucket}
             o == w.order
  <2>1. Orders(o, named) /\ n \in 0 .. Len(o)
    BY <1>0 DEF Shaped
  <2> HIDE DEF named, o
  <2>2. /\ Orders(SubSeq(o, n + 1, Len(o)), named \ First(o, n))
        /\ First(o, n) \subseteq named
        /\ IsFiniteSet(First(o, n)) /\ Cardinality(First(o, n)) = n
    BY <2>1, OrderShrinks
  <2> QED BY <1>2, <2>2 DEF named, o
<1> HIDE DEF r, a, f
<1>4. IsFiniteSet(DOMAIN r.series)
      /\ Cardinality(DOMAIN r.series) = Cardinality(DOMAIN a.series) - n
  <2>1. DOMAIN a.series \cap f = f
    BY <1>1, <1>3
  <2>2. IsFiniteSet(DOMAIN a.series)
    BY <1>1 DEF Shaped
  <2>3. /\ IsFiniteSet(DOMAIN a.series \ f)
        /\ Cardinality(DOMAIN a.series \ f) =
               Cardinality(DOMAIN a.series) - Cardinality(DOMAIN a.series \cap f)
    BY <1>3, <2>2, FS_Difference
  <2> QED BY <1>2, <1>3, <2>1, <2>3
<1>5. /\ Cardinality(DOMAIN w.series) \in Nat
      /\ Cardinality(DOMAIN a.series) =
             IF Bucket \in DOMAIN w.series THEN Cardinality(DOMAIN w.series)
             ELSE Cardinality(DOMAIN w.series) + 1
  BY <1>1, FS_AddElement, FS_CardinalityType DEF Shaped
<1>6. DOMAIN r.series \ {Bucket} = (DOMAIN w.series \ {Bucket}) \ f
      /\ Bucket \in DOMAIN r.series /\ DOMAIN r.series \subseteq Label \cup {Bucket}
  BY <1>1, <1>2, <1>3 DEF Shaped
<1> QED BY <1>3, <1>4, <1>5, <1>6 DEF Shaped, r

\* The counts of one map: its size, and what is left of it for the bucket.
Roomy(labels, most) ==
    /\ IsFiniteSet(labels) /\ Cardinality(labels) <= most
    /\ Bucket \notin labels => Cardinality(labels) < most

CapKept ==
    /\ labelsCap \in LabelCaps /\ widest \in LabelCaps /\ labelsCap <= widest
    /\ Shaped(Window)
    /\ Cardinality(Held) <= labelsCap + 1
    /\ Bucket \notin Held => Cardinality(Held) <= labelsCap
    /\ Roomy(Held, widest) /\ Roomy(DOMAIN store, widest)

LEMMA WindowSize ==
    ASSUME NEW w, Shaped(w)
    PROVE  /\ Cardinality(DOMAIN w.series) \in Nat
           /\ Len(w.order) = Cardinality(DOMAIN w.series \ {Bucket})
           /\ ToSet(w.order) = DOMAIN w.series \ {Bucket}
           /\ Cardinality(DOMAIN w.series) =
                  IF Bucket \in DOMAIN w.series THEN Len(w.order) + 1 ELSE Len(w.order)
<1>1. w.order \in Seq(Label) /\ Once(w.order)
      /\ {w.order[i] : i \in 1 .. Len(w.order)} = DOMAIN w.series \ {Bucket}
      /\ IsFiniteSet(DOMAIN w.series)
  BY DEF Shaped, Orders
<1>2. /\ ToSet(w.order) = DOMAIN w.series \ {Bucket}
      /\ Len(w.order) = Cardinality(DOMAIN w.series \ {Bucket}) /\ Len(w.order) \in Nat
  <2> DEFINE o == w.order
  <2>1. o \in Seq(Label) /\ Once(o)
    BY <1>1
  <2> HIDE DEF o
  <2>2. ToSet(o) = {o[i] : i \in 1 .. Len(o)} /\ Cardinality(ToSet(o)) = Len(o) /\ Len(o) \in Nat
    BY <2>1, SetOfSeq, OnceCounts
  <2> QED BY <1>1, <2>2 DEF o
<1>3. Cardinality(DOMAIN w.series) \in Nat
      /\ Cardinality(DOMAIN w.series \ {Bucket}) =
             IF Bucket \in DOMAIN w.series THEN Cardinality(DOMAIN w.series) - 1
             ELSE Cardinality(DOMAIN w.series)
  BY <1>1, FS_RemoveElement, FS_CardinalityType
<1> QED BY <1>2, <1>3

(* boundedAttemptKeyLocked: what room is made for a label.                  *)
LEMMA RoomIsMade ==
    ASSUME CapKept, NEW l \in Label
    PROVE  LET v == WithRoomFor(Window, l)
               labels == DOMAIN v.series
           IN /\ Shaped(v) /\ l \in labels
              /\ Cardinality(labels) <= labelsCap + 1
              /\ Bucket \notin labels => Cardinality(labels) <= labelsCap
              /\ Roomy(labels, widest)
<1> USE CapAssumption DEF CapAssumption
<1> DEFINE w == Window
           v == WithRoomFor(Window, l)
           c == Cardinality(DOMAIN w.series)
<1>1. /\ Shaped(w) /\ DOMAIN w.series = Held /\ c \in Nat
      /\ labelsCap \in Nat /\ labelsCap >= 3 /\ widest \in Nat /\ labelsCap <= widest
      /\ Roomy(DOMAIN w.series, widest) /\ c <= labelsCap + 1
      /\ Bucket \notin DOMAIN w.series => c <= labelsCap
      /\ c = IF Bucket \in DOMAIN w.series THEN Len(w.order) + 1 ELSE Len(w.order)
      /\ Len(w.order) \in Nat
  <2>1. Shaped(w) /\ DOMAIN w.series = Held
    BY DEF CapKept, Window, Held
  <2>2. Len(w.order) \in Nat
    BY <2>1 DEF Shaped, Orders
  <2> HIDE DEF w
  <2> QED BY <2>1, <2>2, WindowSize DEF CapKept
<1> HIDE DEF w
<1>2. CASE l \in DOMAIN w.series
  <2>1. v = w
    BY <1>2 DEF WithRoomFor, w
  <2> QED BY <1>1, <1>2, <2>1
<1>3. CASE l \notin DOMAIN w.series /\ ~Full(w)
  <2>1. v = Admitted(w, l)
    BY <1>3 DEF WithRoomFor, w
  <2>2. /\ Shaped(v) /\ DOMAIN v.series = DOMAIN w.series \cup {l}
    BY <1>1, <2>1, AdmittedShape
  <2>3. IsFiniteSet(DOMAIN v.series) /\ Cardinality(DOMAIN v.series) = c + 1
    BY <1>1, <1>3, <2>2, FS_AddElement DEF Shaped
  <2>4. c < labelsCap - 1
    BY <1>1, <1>3 DEF Full
  <2> HIDE DEF v, c
  <2> QED BY <1>1, <2>2, <2>3, <2>4 DEF Roomy, v
<1>4. CASE l \notin DOMAIN w.series /\ Full(w)
  <2> DEFINE r == RolledUp(w, 1)
  <2>1. v = Admitted(r, l)
    BY <1>4 DEF WithRoomFor, w
  <2>2. c >= labelsCap - 1
    BY <1>4 DEF Full
  <2>3. 1 \in 1 .. Len(w.order)
    BY <1>1, <2>2
  <2>4. /\ Shaped(r) /\ Bucket \in DOMAIN r.series
        /\ Cardinality(DOMAIN r.series) = IF Bucket \in DOMAIN w.series THEN c - 1 ELSE c
    BY <1>1, <2>3, RolledShape
  <2>5. l \notin DOMAIN r.series
    <3>1. /\ DOMAIN r.series = DOMAIN Admitted(w, Bucket).series \ First(w.order, 1)
          /\ DOMAIN Admitted(w, Bucket).series = DOMAIN w.series \cup {Bucket}
      BY <1>1, RolledUpIs, AdmittedShape
    <3> QED BY <1>4, <3>1
  <2>6. Shaped(v) /\ DOMAIN v.series = DOMAIN r.series \cup {l}
    BY <2>1, <2>4, AdmittedShape
  <2> HIDE DEF r
  <2>7. IsFiniteSet(DOMAIN v.series)
        /\ Cardinality(DOMAIN v.series) = Cardinality(DOMAIN r.series) + 1
    BY <2>4, <2>5, <2>6, FS_AddElement DEF Shaped
  <2>8. c <= widest /\ (Bucket \notin DOMAIN w.series => c < widest)
    BY <1>1 DEF Roomy
  <2>9. Bucket \in DOMAIN v.series /\ l \in DOMAIN v.series
    BY <2>4, <2>6
  <2> HIDE DEF v, c
  <2>10. /\ Cardinality(DOMAIN v.series) <= labelsCap + 1
         /\ Cardinality(DOMAIN v.series) <= widest
    BY <1>1, <2>4, <2>7, <2>8
  <2> QED BY <2>6, <2>7, <2>9, <2>10 DEF Roomy, v
<1> QED BY <1>2, <1>3, <1>4

(* SetLabelCap: what is left after the pruning.                             *)
LEMMA PruningFits ==
    ASSUME CapKept, NEW c \in LabelCaps
    PROVE  LET v == Pruned(Window, c)
               labels == DOMAIN v.series
           IN /\ Shaped(v) /\ Cardinality(labels) <= c
              /\ Roomy(labels, IF c > widest THEN c ELSE widest)
<1> USE CapAssumption DEF CapAssumption
<1> DEFINE w == Window
           n == Cardinality(DOMAIN w.series)
           x == Excess(w, c)
           v == Pruned(Window, c)
<1>1. /\ Shaped(w) /\ DOMAIN w.series = Held /\ n \in Nat
      /\ c \in Nat /\ c >= 3 /\ widest \in Nat
      /\ Roomy(DOMAIN w.series, widest)
      /\ n = IF Bucket \in DOMAIN w.series THEN Len(w.order) + 1 ELSE Len(w.order)
      /\ Len(w.order) \in Nat
  <2>1. Shaped(w) /\ DOMAIN w.series = Held
    BY DEF CapKept, Window, Held
  <2>2. Len(w.order) \in Nat
    BY <2>1 DEF Shaped, Orders
  <2> HIDE DEF w
  <2> QED BY <2>1, <2>2, WindowSize DEF CapKept
<1>2. v = RolledUp(w, x)
  BY DEF Pruned
<1>3. x = IF n <= c THEN 0 ELSE IF Bucket \in DOMAIN w.series THEN n - c ELSE n - c + 1
  BY DEF Excess
<1> HIDE DEF w, x, v
<1>4. CASE n <= c
  <2>1. v = w
    BY <1>2, <1>3, <1>4 DEF RolledUp
  <2>2. Roomy(DOMAIN w.series, IF c > widest THEN c ELSE widest)
    BY <1>1 DEF Roomy
  <2> QED BY <1>1, <1>4, <2>1, <2>2 DEF v
<1>5. CASE ~(n <= c)
  <2> HIDE DEF n
  <2>1. x \in 1 .. Len(w.order)
    BY <1>1, <1>3, <1>5
  <2>2. /\ Shaped(v) /\ Bucket \in DOMAIN v.series
        /\ Cardinality(DOMAIN v.series) =
               (IF Bucket \in DOMAIN w.series THEN n ELSE n + 1) - x
    BY <1>1, <1>2, <2>1, RolledShape DEF n
  <2>3. Cardinality(DOMAIN v.series) = c
    BY <1>1, <1>3, <1>5, <2>2
  <2>4. Roomy(DOMAIN v.series, IF c > widest THEN c ELSE widest)
    BY <1>1, <2>2, <2>3 DEF Roomy, Shaped
  <2> QED BY <1>1, <2>2, <2>3, <2>4 DEF v
<1> QED BY <1>4, <1>5

LEMMA CapKeptAtFirst ==
    ASSUME LabelInit
    PROVE  CapKept
<1> USE CapAssumption DEF CapAssumption
<1>1. Held = {} /\ DOMAIN store = {} /\ DOMAIN Window.series = {} /\ Window.order = <<>>
  BY DEF LabelInit, Held, Window
<1>2. Orders(Window.order, {})
  BY <1>1 DEF Orders, Once
<1>3. IsFiniteSet({}) /\ Cardinality({}) = 0
  BY FS_EmptySet
<1> QED BY <1>1, <1>2, <1>3 DEF LabelInit, CapKept, Shaped, Roomy

(* Neither an attempt nor a count can break the cap, nor a new one.         *)
LEMMA CapKeptAlways ==
    ASSUME CapKept, [LabelNext]_label_vars
    PROVE  CapKept'
<1> USE CapAssumption DEF CapAssumption
<1>1. ASSUME NEW l \in Label, NEW ok \in BOOLEAN, Attempt(l, ok) PROVE CapKept'
  <2> DEFINE v == WithRoomFor(Window, l)
  <2>1. /\ Shaped(v) /\ l \in DOMAIN v.series
        /\ Cardinality(DOMAIN v.series) <= labelsCap + 1
        /\ Bucket \notin DOMAIN v.series => Cardinality(DOMAIN v.series) <= labelsCap
        /\ Roomy(DOMAIN v.series, widest)
    BY RoomIsMade
  <2>2. DOMAIN series' = DOMAIN v.series /\ order' = v.order
        /\ UNCHANGED <<labelsCap, store, widest>>
    BY <1>1, Zenon DEF Attempt
  <2> HIDE DEF v
  <2>3. Shaped(Window')
    BY <2>1, <2>2 DEF Shaped, Window
  <2> QED BY <2>1, <2>2, <2>3 DEF CapKept, Held
<1>2. ASSUME NEW c \in LabelCaps, SetLabelCap(c) PROVE CapKept'
  <2> DEFINE v == Pruned(Window, c)
             m == IF c > widest THEN c ELSE widest
  <2>1. Shaped(v) /\ Cardinality(DOMAIN v.series) <= c /\ Roomy(DOMAIN v.series, m)
    BY PruningFits
  <2>2. /\ series' = v.series /\ order' = v.order
        /\ labelsCap' = c /\ widest' = m /\ UNCHANGED store
    BY <1>2 DEF SetLabelCap
  <2> HIDE DEF v
  <2>3. Shaped(Window')
    BY <2>1, <2>2 DEF Shaped, Window
  <2>4. m \in LabelCaps /\ widest \in Nat /\ c \in Nat /\ c <= m /\ widest <= m
    BY DEF CapKept
  <2>5. Cardinality(DOMAIN v.series) \in Nat
    BY <2>1, FS_CardinalityType DEF Shaped
  <2>6. Roomy(DOMAIN store, m)
    <3>1. Cardinality(DOMAIN store) \in Nat
      BY FS_CardinalityType DEF CapKept, Roomy
    <3> QED BY <2>4, <3>1 DEF CapKept, Roomy
  <2> HIDE DEF m
  <2> QED BY <2>1, <2>2, <2>3, <2>4, <2>5, <2>6 DEF CapKept, Held
<1>3. ASSUME NEW r \in Recorder, Admit(r) PROVE CapKept'
  <2> DEFINE k == KeyFor(recorder[r].key)
  <2>1. DOMAIN store' = DOMAIN store \cup {k} /\ UNCHANGED <<labelsCap, series, order, widest>>
    BY <1>3 DEF Admit, MakeCounter
  <2>2. /\ IsFiniteSet(DOMAIN store) /\ Cardinality(DOMAIN store) \in Nat
        /\ Cardinality(DOMAIN store) <= widest
        /\ Bucket \notin DOMAIN store => Cardinality(DOMAIN store) < widest
        /\ labelsCap \in Nat /\ widest \in Nat /\ labelsCap <= widest
    BY FS_CardinalityType DEF CapKept, Roomy
  <2>3. k \in DOMAIN store \/ Cardinality(DOMAIN store) < labelsCap - 1 \/ k = Bucket
    BY DEF KeyFor
  <2> HIDE DEF k
  <2>4. CASE k \in DOMAIN store
    <3>1. DOMAIN store' = DOMAIN store
      BY <2>1, <2>4
    <3> QED BY <2>1, <2>2, <3>1 DEF CapKept, Held, Window, Roomy, Shaped
  <2>5. CASE k \notin DOMAIN store
    <3>1. IsFiniteSet(DOMAIN store') /\ Cardinality(DOMAIN store') = Cardinality(DOMAIN store) + 1
      BY <2>1, <2>2, <2>5, FS_AddElement
    <3>2. Roomy(DOMAIN store', widest)
      BY <2>1, <2>2, <2>3, <2>5, <3>1 DEF Roomy
    <3> QED BY <2>1, <3>2 DEF CapKept, Held, Window, Shaped
  <2> QED BY <2>4, <2>5
<1>4. ASSUME NEW r \in Recorder, (\E l \in Label : Look(r, l)) \/ Add(r) \/ UNCHANGED label_vars
      PROVE  CapKept'
  <2>1. DOMAIN store' = DOMAIN store /\ UNCHANGED <<labelsCap, series, order, widest>>
    BY <1>4 DEF Look, Add, label_vars
  <2> QED BY <2>1 DEF CapKept, Held, Window, Shaped, Roomy
<1>5. CASE UNCHANGED label_vars
  BY <1>5 DEF label_vars, CapKept, Held, Window, Shaped, Roomy
<1> QED BY <1>1, <1>2, <1>3, <1>4, <1>5 DEF LabelNext

(* LabelCap: the caps hold for any labels, recorders and caps, whatever is  *)
(* admitted at once and whenever the cap changes; and the order by which a  *)
(* label is recycled speaks of what the maps hold, each once                *)
(* (boundedAttemptKeyLocked, SetLabelCap, boundedCollapsibleKeyLocked).     *)
THEOREM CapsHold == LabelSpec => []CapHeld
<1>1. LabelInit => CapKept
  BY CapKeptAtFirst
<1>2. CapKept /\ [LabelNext]_label_vars => CapKept'
  BY CapKeptAlways
<1>3. CapKept => CapHeld
  <2> SUFFICES ASSUME CapKept PROVE CapHeld
    OBVIOUS
  <2>1. /\ Len(order) = Cardinality(Held \ {Bucket})
        /\ ToSet(order) = Held \ {Bucket}
    <3> DEFINE w == Window
    <3>1. Shaped(w) /\ w.series = series /\ w.order = order
      BY DEF CapKept, Window
    <3> HIDE DEF w
    <3> QED BY <3>1, WindowSize DEF Held
  <2> QED BY <2>1 DEF CapKept, CapHeld, Roomy
<1> QED BY <1>1, <1>2, <1>3, PTL DEF LabelSpec

----------------------------------------------------------------------------
(* LabelCap: sums. A number per label is as many pairs, and a sum of them   *)
(* the number of pairs, whichever label is taken first.                     *)

Pairs(f, s) == UNION {{l} \X (1 .. f[l]) : l \in s}

Total(f, s) == Cardinality(Pairs(f, s))

Numbers(f, s) == \A l \in s : f[l] \in Nat

LEMMA PairsOf ==
    ASSUME NEW f, NEW s, IsFiniteSet(s), Numbers(f, s)
    PROVE  /\ IsFiniteSet(Pairs(f, s)) /\ Total(f, s) \in Nat
           /\ \A p : p \in Pairs(f, s) <=> \E l \in s : p \in {l} \X (1 .. f[l])
<1> USE DEF Numbers
<1> DEFINE g == [l \in s |-> {l} \X (1 .. f[l])]
           T == {{l} \X (1 .. f[l]) : l \in s}
<1>1. g \in Surjection(s, T)
  BY DEF Surjection
<1>2. ASSUME NEW l \in s PROVE IsFiniteSet({l} \X (1 .. f[l]))
  <2>1. IsFiniteSet({l}) /\ IsFiniteSet(1 .. f[l])
    <3>1. 1 \in Int /\ f[l] \in Int
      BY <1>2
    <3> QED BY <3>1, FS_Singleton, FS_Interval
  <2> QED BY <2>1, FS_Product
<1>3. \A t \in T : IsFiniteSet(t)
  BY <1>2
<1> HIDE DEF g
<1>4. IsFiniteSet(T)
  <2> HIDE DEF T
  <2> QED BY <1>1, FS_Surjection
<1>5. IsFiniteSet(UNION T)
  <2> HIDE DEF T
  <2> QED BY <1>3, <1>4, FS_UNION
<1>6. IsFiniteSet(Pairs(f, s))
  BY <1>5 DEF Pairs
<1>7. \A p : p \in Pairs(f, s) <=> \E l \in s : p \in {l} \X (1 .. f[l])
  BY DEF Pairs
<1> QED BY <1>6, <1>7, FS_CardinalityType DEF Total

LEMMA TotalSplits ==
    ASSUME NEW f, NEW s, IsFiniteSet(s), Numbers(f, s), NEW t \in SUBSET s
    PROVE  /\ Total(f, t) \in Nat /\ Total(f, s \ t) \in Nat
           /\ Total(f, s) = Total(f, t) + Total(f, s \ t)
<1>1. /\ IsFiniteSet(t) /\ IsFiniteSet(s \ t)
      /\ Numbers(f, t) /\ Numbers(f, s \ t)
  BY FS_Subset DEF Numbers
<1> DEFINE P == Pairs(f, s)
           Q == Pairs(f, t)
           R == Pairs(f, s \ t)
<1>2. /\ IsFiniteSet(Q) /\ Total(f, t) \in Nat
      /\ \A p : p \in Q <=> \E l \in t : p \in {l} \X (1 .. f[l])
  BY <1>1, PairsOf
<1>3. /\ IsFiniteSet(R) /\ Total(f, s \ t) \in Nat
      /\ \A p : p \in R <=> \E l \in s \ t : p \in {l} \X (1 .. f[l])
  BY <1>1, PairsOf
<1>4. \A p : p \in P <=> \E l \in s : p \in {l} \X (1 .. f[l])
  BY PairsOf
<1> HIDE DEF P, Q, R
<1>5. P = Q \cup R
  BY <1>2, <1>3, <1>4
<1>6. Q \cap R = {}
  BY <1>2, <1>3
<1>7. Cardinality(Q \cup R) = Cardinality(Q) + Cardinality(R) - 0
  BY <1>2, <1>3, <1>6, FS_Union, FS_EmptySet
<1> QED BY <1>2, <1>3, <1>5, <1>7 DEF Total, P, Q, R

LEMMA TotalOfOne ==
    ASSUME NEW f, NEW x, f[x] \in Nat
    PROVE  Total(f, {x}) = f[x]
<1>1. Pairs(f, {x}) = {x} \X (1 .. f[x])
  BY DEF Pairs
<1>2. IsFiniteSet({x}) /\ Cardinality({x}) = 1
  BY FS_Singleton
<1>3. IsFiniteSet(1 .. f[x]) /\ Cardinality(1 .. f[x]) = f[x]
  BY FS_Interval
<1>4. Cardinality({x} \X (1 .. f[x])) = 1 * f[x]
  BY <1>2, <1>3, FS_Product
<1>5. 1 * f[x] = f[x]
  OBVIOUS
<1> QED BY <1>1, <1>4, <1>5 DEF Total

LEMMA TotalOfNone ==
    ASSUME NEW f
    PROVE  Total(f, {}) = 0
<1>1. Pairs(f, {}) = {}
  BY DEF Pairs
<1> QED BY <1>1, FS_EmptySet DEF Total

LEMMA TotalLessOne ==
    ASSUME NEW f, NEW s, IsFiniteSet(s), Numbers(f, s), NEW x \in s
    PROVE  /\ Total(f, s \ {x}) \in Nat /\ f[x] \in Nat
           /\ Total(f, s) = f[x] + Total(f, s \ {x})
<1>1. {x} \in SUBSET s
  OBVIOUS
<1>2. /\ Total(f, s \ {x}) \in Nat
      /\ Total(f, s) = Total(f, {x}) + Total(f, s \ {x})
  BY <1>1, TotalSplits
<1>3. f[x] \in Nat /\ Total(f, {x}) = f[x]
  BY TotalOfOne DEF Numbers
<1> QED BY <1>2, <1>3

LEMMA SameTotal ==
    ASSUME NEW f, NEW g, NEW s, \A l \in s : f[l] = g[l]
    PROVE  Total(f, s) = Total(g, s)
<1>1. Pairs(f, s) = Pairs(g, s)
  BY DEF Pairs
<1> QED BY <1>1 DEF Total

\* One of a set's elements, the same each time.
One(s) == CHOOSE x \in s : TRUE

\* The fold of the community modules, for a number per label.
FoldsTo(it, f, s) ==
    it = [t \in SUBSET s |-> IF t = {} THEN 0 ELSE f[One(t)] + it[t \ {One(t)}]]

LEMMA SmallestExists ==
    ASSUME NEW C, C # {}, \A s \in C : IsFiniteSet(s)
    PROVE  \E s \in C : \A t \in C : Cardinality(s) <= Cardinality(t)
<1> DEFINE below == OpToRel(<, Nat)
           T == {Cardinality(s) : s \in C}
<1>1. T \subseteq Nat /\ T # {}
  BY FS_CardinalityType
<1>2. PICK t \in T : \A u \in T : <<u, t>> \notin below
  <2> HIDE DEF below, T
  <2>1. IsWellFoundedOn(below, Nat)
    BY NatLessThanWellFounded DEF below
  <2> QED BY <1>1, <2>1, WFMin
<1>3. PICK s \in C : t = Cardinality(s)
  OBVIOUS
<1>4. ASSUME NEW u \in C PROVE Cardinality(s) <= Cardinality(u)
  <2>1. Cardinality(u) \in T /\ Cardinality(u) \in Nat /\ t \in Nat
    BY <1>1
  <2>2. ~(Cardinality(u) < t)
    BY <1>2, <2>1 DEF OpToRel
  <2> QED BY <1>3, <2>1, <2>2
<1> QED BY <1>4

LEMMA FoldIsTotal ==
    ASSUME NEW f, NEW s, IsFiniteSet(s), Numbers(f, s)
    PROVE  /\ \E it : FoldsTo(it, f, s)
           /\ \A it : FoldsTo(it, f, s) => it[s] = Total(f, s)
<1>0. ASSUME NEW t \in SUBSET s, t # {}
      PROVE  /\ One(t) \in t /\ t \ {One(t)} \in SUBSET s
             /\ IsFiniteSet(t) /\ IsFiniteSet(t \ {One(t)})
             /\ Cardinality(t \ {One(t)}) \in Nat /\ Cardinality(t) \in Nat
             /\ Cardinality(t \ {One(t)}) < Cardinality(t)
             /\ Total(f, t) = f[One(t)] + Total(f, t \ {One(t)})
  <2>1. One(t) \in t
    BY <1>0 DEF One
  <2>2. IsFiniteSet(t)
    BY FS_Subset
  <2>3. /\ IsFiniteSet(t \ {One(t)}) /\ Cardinality(t \ {One(t)}) = Cardinality(t) - 1
        /\ Cardinality(t) \in Nat /\ Cardinality(t \ {One(t)}) \in Nat
    BY <2>1, <2>2, FS_RemoveElement, FS_CardinalityType
  <2>4. Numbers(f, t)
    BY DEF Numbers
  <2>5. Total(f, t) = f[One(t)] + Total(f, t \ {One(t)})
    BY <2>1, <2>2, <2>4, TotalLessOne
  <2> QED BY <2>1, <2>2, <2>3, <2>5
<1>1. FoldsTo([t \in SUBSET s |-> Total(f, t)], f, s)
  <2> DEFINE g == [t \in SUBSET s |-> Total(f, t)]
  <2>1. ASSUME NEW t \in SUBSET s
        PROVE  g[t] = IF t = {} THEN 0 ELSE f[One(t)] + g[t \ {One(t)}]
    BY <1>0, TotalOfNone
  <2>2. g = [t \in SUBSET s |-> g[t]]
    OBVIOUS
  <2> HIDE DEF g
  <2>3. g = [t \in SUBSET s |-> IF t = {} THEN 0 ELSE f[One(t)] + g[t \ {One(t)}]]
    BY <2>1, <2>2
  <2> QED BY <2>3 DEF FoldsTo, g
<1>2. ASSUME NEW it, FoldsTo(it, f, s) PROVE it[s] = Total(f, s)
  <2> DEFINE C == {t \in SUBSET s : it[t] # Total(f, t)}
  <2>1. ASSUME C # {} PROVE FALSE
    <3>1. \A t \in C : IsFiniteSet(t)
      BY FS_Subset
    <3>2. PICK t \in C : \A u \in C : Cardinality(t) <= Cardinality(u)
      <4> HIDE DEF C
      <4> QED BY <2>1, <3>1, SmallestExists
    <3>3. it[t] = IF t = {} THEN 0 ELSE f[One(t)] + it[t \ {One(t)}]
      BY <1>2 DEF FoldsTo
    <3>4. t # {}
      BY <3>3, TotalOfNone
    <3>5. t \ {One(t)} \notin C
      BY <1>0, <3>2, <3>4
    <3>6. it[t \ {One(t)}] = Total(f, t \ {One(t)})
      BY <1>0, <3>4, <3>5
    <3> QED BY <1>0, <3>3, <3>4, <3>6
  <2> QED BY <2>1
<1> QED BY <1>1, <1>2

LEMMA AttemptsSummed ==
    ASSUME NEW m, IsFiniteSet(DOMAIN m), NEW f, Numbers(f, DOMAIN m),
           \A l \in DOMAIN m : f[l] = m[l].attempts
    PROVE  Sum(m, LAMBDA s : s.attempts) = Total(f, DOMAIN m)
<1> DEFINE Folded(it) ==
        it = [t \in SUBSET DOMAIN m |->
                 IF t = {} THEN 0 ELSE m[One(t)].attempts + it[t \ {One(t)}]]
<1>1. Sum(m, LAMBDA s : s.attempts) = (CHOOSE it : Folded(it))[DOMAIN m]
  BY DEF Sum, FoldFunction, FoldFunctionOnSet, MapThenFoldSet, One
<1>2. \A it : Folded(it) <=> FoldsTo(it, f, DOMAIN m)
  <2>1. \A t \in SUBSET DOMAIN m : t # {} => One(t) \in t
    BY DEF One
  <2> QED BY <2>1 DEF FoldsTo
<1> HIDE DEF Folded
<1>3. \E it : Folded(it)
  BY <1>2, FoldIsTotal
<1>4. Folded(CHOOSE it : Folded(it))
  BY <1>3
<1> QED BY <1>1, <1>2, <1>4, FoldIsTotal

LEMMA FailuresSummed ==
    ASSUME NEW m, IsFiniteSet(DOMAIN m), NEW f, Numbers(f, DOMAIN m),
           \A l \in DOMAIN m : f[l] = m[l].failures
    PROVE  Sum(m, LAMBDA s : s.failures) = Total(f, DOMAIN m)
<1> DEFINE Folded(it) ==
        it = [t \in SUBSET DOMAIN m |->
                 IF t = {} THEN 0 ELSE m[One(t)].failures + it[t \ {One(t)}]]
<1>1. Sum(m, LAMBDA s : s.failures) = (CHOOSE it : Folded(it))[DOMAIN m]
  BY DEF Sum, FoldFunction, FoldFunctionOnSet, MapThenFoldSet, One
<1>2. \A it : Folded(it) <=> FoldsTo(it, f, DOMAIN m)
  <2>1. \A t \in SUBSET DOMAIN m : t # {} => One(t) \in t
    BY DEF One
  <2> QED BY <2>1 DEF FoldsTo
<1> HIDE DEF Folded
<1>3. \E it : Folded(it)
  BY <1>2, FoldIsTotal
<1>4. Folded(CHOOSE it : Folded(it))
  BY <1>3
<1> QED BY <1>1, <1>2, <1>4, FoldIsTotal

LEMMA CountsSummed ==
    ASSUME NEW m, IsFiniteSet(DOMAIN m), Numbers(m, DOMAIN m)
    PROVE  Sum(m, LAMBDA n : n) = Total(m, DOMAIN m)
<1> DEFINE Folded(it) == FoldsTo(it, m, DOMAIN m)
<1>1. Sum(m, LAMBDA n : n) = (CHOOSE it : Folded(it))[DOMAIN m]
  BY DEF Sum, FoldFunction, FoldFunctionOnSet, MapThenFoldSet, One, FoldsTo
<1> HIDE DEF Folded
<1>2. \E it : Folded(it)
  BY FoldIsTotal DEF Folded
<1>3. Folded(CHOOSE it : Folded(it))
  BY <1>2
<1> QED BY <1>1, <1>3, FoldIsTotal DEF Folded

LEMMA RolledIs ==
    ASSUME NEW w, NEW n, NEW field, NEW f, IsFiniteSet(First(w.order, n)),
           Numbers(f, First(w.order, n)),
           \A l \in First(w.order, n) : f[l] = w.series[l][field]
    PROVE  Rolled(w, n, field) = Total(f, First(w.order, n))
<1> DEFINE D == First(w.order, n)
           Folded(it) ==
               it = [t \in SUBSET D |->
                        IF t = {} THEN 0 ELSE w.series[One(t)][field] + it[t \ {One(t)}]]
<1>1. Rolled(w, n, field) = (CHOOSE it : Folded(it))[D]
  BY DEF Rolled, FoldFunctionOnSet, MapThenFoldSet, One
<1>2. \A it : Folded(it) <=> FoldsTo(it, f, D)
  <2>1. \A t \in SUBSET D : t # {} => One(t) \in t
    BY DEF One
  <2> HIDE DEF D
  <2>2. \A l \in D : f[l] = w.series[l][field]
    BY DEF D
  <2> QED BY <2>1, <2>2 DEF FoldsTo
<1> HIDE DEF Folded
<1>3. \E it : Folded(it)
  BY <1>2, FoldIsTotal
<1>4. Folded(CHOOSE it : Folded(it))
  BY <1>3
<1> QED BY <1>1, <1>2, <1>4, FoldIsTotal

\* A label more that counts nothing.
LEMMA TotalWithNew ==
    ASSUME NEW f, NEW g, NEW s, IsFiniteSet(s), Numbers(f, s), \A l \in s : g[l] = f[l],
           NEW b, b \notin s, g[b] = 0
    PROVE  Total(g, s \cup {b}) = Total(f, s)
<1>1. IsFiniteSet(s \cup {b}) /\ Numbers(g, s \cup {b})
  BY FS_AddElement DEF Numbers
<1>2. b \in s \cup {b} /\ (s \cup {b}) \ {b} = s
  OBVIOUS
<1>3. Total(g, s \cup {b}) = g[b] + Total(g, s) /\ Total(g, s) \in Nat
  <2> DEFINE t == s \cup {b}
  <2> HIDE DEF t
  <2>1. Total(g, t) = g[b] + Total(g, t \ {b}) /\ Total(g, t \ {b}) \in Nat
    BY <1>1, <1>2, TotalLessOne DEF t
  <2> QED BY <1>2, <2>1 DEF t
<1>4. Total(g, s) = Total(f, s)
  BY SameTotal
<1> QED BY <1>3, <1>4

\* A label counts more.
LEMMA TotalRaised ==
    ASSUME NEW f, NEW g, NEW s, IsFiniteSet(s), Numbers(f, s),
           NEW b \in s, NEW d \in Nat, g[b] = f[b] + d, \A l \in s \ {b} : g[l] = f[l]
    PROVE  Total(g, s) = Total(f, s) + d
<1>1. Total(f, s) = f[b] + Total(f, s \ {b}) /\ f[b] \in Nat /\ Total(f, s \ {b}) \in Nat
  BY TotalLessOne
<1>2. Numbers(g, s)
  <2>1. ASSUME NEW l \in s PROVE g[l] \in Nat
    BY <1>1 DEF Numbers
  <2> QED BY <2>1 DEF Numbers
<1>3. Total(g, s) = g[b] + Total(g, s \ {b})
  BY <1>2, TotalLessOne
<1>4. Total(g, s \ {b}) = Total(f, s \ {b})
  BY SameTotal
<1> QED BY <1>1, <1>3, <1>4

\* Some labels go, and one that stays counts for them.
LEMMA TotalRolled ==
    ASSUME NEW f, NEW g, NEW s, IsFiniteSet(s), Numbers(f, s),
           NEW going \in SUBSET s, NEW b \in s \ going,
           g[b] = f[b] + Total(f, going), \A l \in s \ going : l # b => g[l] = f[l]
    PROVE  Total(g, s \ going) = Total(f, s)
<1>1. /\ Total(f, going) \in Nat /\ Total(f, s \ going) \in Nat
      /\ Total(f, s) = Total(f, going) + Total(f, s \ going)
  BY TotalSplits
<1>2. IsFiniteSet(s \ going)
  BY FS_Subset
<1> DEFINE t == s \ going
           d == Total(f, going)
<1>3. IsFiniteSet(t) /\ Numbers(f, t) /\ b \in t /\ d \in Nat
      /\ g[b] = f[b] + d /\ \A l \in t \ {b} : g[l] = f[l]
  BY <1>1, <1>2 DEF Numbers
<1> HIDE DEF t, d
<1>4. Total(g, t) = Total(f, t) + d
  BY <1>3, TotalRaised
<1> QED BY <1>1, <1>4 DEF t, d

----------------------------------------------------------------------------
(* LabelCap: nothing is lost. *)

AttemptsOf(m) == [l \in DOMAIN m |-> m[l].attempts]

FailuresOf(m) == [l \in DOMAIN m |-> m[l].failures]

\* The maps count so many attempts and failures between them, and who is still
\* named has its own distribution.
Tallied(m, attempts, failures) ==
    /\ m \in [DOMAIN m -> Series]
    /\ Total(AttemptsOf(m), DOMAIN m) = attempts
    /\ Total(FailuresOf(m), DOMAIN m) = failures
    /\ \A l \in DOMAIN m \ {Bucket} : m[l].direct = m[l].attempts

LEMMA CountsOf ==
    ASSUME NEW m, m \in [DOMAIN m -> Series]
    PROVE  \A l \in DOMAIN m :
              /\ m[l] \in Series
              /\ AttemptsOf(m)[l] = m[l].attempts /\ m[l].attempts \in Nat
              /\ FailuresOf(m)[l] = m[l].failures /\ m[l].failures \in Nat
BY DEF AttemptsOf, FailuresOf, Series

LEMMA AdmittedSeries ==
    ASSUME NEW w, NEW l, l \notin DOMAIN w.series
    PROVE  /\ Admitted(w, l).series \in [DOMAIN w.series \cup {l} ->
                                            {w.series[k] : k \in DOMAIN w.series} \cup {NoAttempts}]
           /\ Admitted(w, l).series[l] = NoAttempts
           /\ \A k \in DOMAIN w.series : Admitted(w, l).series[k] = w.series[k]
<1> DEFINE m == w.series
           s == [k \in DOMAIN m \cup {l} |-> IF k = l THEN NoAttempts ELSE m[k]]
           o == IF l = Bucket THEN w.order ELSE Append(w.order, l)
<1>1. Admitted(w, l) = [series |-> s, order |-> o]
  BY Zenon DEF Admitted
<1>2. /\ s \in [DOMAIN m \cup {l} -> {m[k] : k \in DOMAIN m} \cup {NoAttempts}]
      /\ s[l] = NoAttempts /\ \A k \in DOMAIN m : s[k] = m[k]
  <2> HIDE DEF m
  <2>1. l \notin DOMAIN m
    BY DEF m
  <2> QED BY <2>1
<1> HIDE DEF s, o
<1>3. Admitted(w, l).series = s
  BY <1>1
<1> HIDE DEF m
<1>4. /\ Admitted(w, l).series \in [DOMAIN m \cup {l} -> {m[k] : k \in DOMAIN m} \cup {NoAttempts}]
      /\ Admitted(w, l).series[l] = NoAttempts
      /\ \A k \in DOMAIN m : Admitted(w, l).series[k] = m[k]
  BY <1>2, <1>3
<1> QED BY <1>4 DEF m

LEMMA AdmittedTallied ==
    ASSUME NEW w, Shaped(w), NEW attempts, NEW failures, Tallied(w.series, attempts, failures),
           NEW l \in Label \cup {Bucket}
    PROVE  Tallied(Admitted(w, l).series, attempts, failures)
<1> DEFINE m == w.series
           p == Admitted(w, l).series
<1>1. CASE l \in DOMAIN m
  <2>1. p = m
    BY <1>1 DEF Admitted
  <2> QED BY <2>1
<1>2. CASE l \notin DOMAIN m
  <2>1. /\ p \in [DOMAIN m \cup {l} -> {m[k] : k \in DOMAIN m} \cup {NoAttempts}]
        /\ p[l] = NoAttempts /\ \A k \in DOMAIN m : p[k] = m[k]
    BY <1>2, AdmittedSeries
  <2>2. IsFiniteSet(DOMAIN m) /\ Tallied(m, attempts, failures)
    BY DEF Shaped
  <2> HIDE DEF m, p
  <2>3. /\ NoAttempts \in Series /\ NoAttempts.attempts = 0
        /\ NoAttempts.failures = 0 /\ NoAttempts.direct = 0
    BY DEF NoAttempts, Series
  <2>4. DOMAIN p = DOMAIN m \cup {l} /\ p[l] = NoAttempts /\ \A k \in DOMAIN m : p[k] = m[k]
    BY <1>2, <2>1
  <2>5. p \in [DOMAIN p -> Series]
    BY <2>1, <2>2, <2>3, <2>4 DEF Tallied
  <2>6. \A k \in DOMAIN p \ {Bucket} : p[k].direct = p[k].attempts
    BY <2>2, <2>3, <2>4 DEF Tallied
  <2>7. Total(AttemptsOf(p), DOMAIN m \cup {l}) = Total(AttemptsOf(m), DOMAIN m)
    <3>1. Numbers(AttemptsOf(m), DOMAIN m) /\ \A k \in DOMAIN m : AttemptsOf(p)[k] = AttemptsOf(m)[k]
      BY <2>2, <2>4, <2>5, CountsOf DEF Tallied, Numbers
    <3>2. AttemptsOf(p)[l] = 0
      BY <2>3, <2>4, <2>5, CountsOf
    <3> QED BY <1>2, <2>2, <3>1, <3>2, TotalWithNew
  <2>8. Total(FailuresOf(p), DOMAIN m \cup {l}) = Total(FailuresOf(m), DOMAIN m)
    <3>1. Numbers(FailuresOf(m), DOMAIN m) /\ \A k \in DOMAIN m : FailuresOf(p)[k] = FailuresOf(m)[k]
      BY <2>2, <2>4, <2>5, CountsOf DEF Tallied, Numbers
    <3>2. FailuresOf(p)[l] = 0
      BY <2>3, <2>4, <2>5, CountsOf
    <3> QED BY <1>2, <2>2, <3>1, <3>2, TotalWithNew
  <2> QED BY <2>2, <2>4, <2>5, <2>6, <2>7, <2>8 DEF Tallied, p
<1> QED BY <1>1, <1>2

LEMMA RolledUpSeries ==
    ASSUME NEW w, NEW n, n # 0
    PROVE  RolledUp(w, n).series =
               [k \in DOMAIN Admitted(w, Bucket).series \ First(w.order, n) |->
                    IF k # Bucket THEN Admitted(w, Bucket).series[k]
                    ELSE [Admitted(w, Bucket).series[k] EXCEPT
                             !.attempts = @ + Rolled(w, n, "attempts"),
                             !.failures = @ + Rolled(w, n, "failures")]]
<1> DEFINE a == Admitted(w, Bucket)
           s == [k \in DOMAIN a.series \ First(w.order, n) |->
                    IF k # Bucket THEN a.series[k]
                    ELSE [a.series[k] EXCEPT !.attempts = @ + Rolled(w, n, "attempts"),
                                             !.failures = @ + Rolled(w, n, "failures")]]
           o == SubSeq(w.order, n + 1, Len(w.order))
<1>1. RolledUp(w, n) = [series |-> s, order |-> o]
  BY Zenon DEF RolledUp
<1> HIDE DEF s, o
<1>2. RolledUp(w, n).series = s
  BY <1>1
<1> QED BY <1>2 DEF s

(* rollUpToOverflowLocked: the bucket counts for those that went.           *)
LEMMA RolledTallied ==
    ASSUME NEW w, Shaped(w), NEW attempts, NEW failures, Tallied(w.series, attempts, failures),
           NEW n \in 1 .. Len(w.order)
    PROVE  Tallied(RolledUp(w, n).series, attempts, failures)
<1> DEFINE m == w.series
           a == Admitted(w, Bucket).series
           r == RolledUp(w, n).series
           going == First(w.order, n)
           s == DOMAIN a
           x == Rolled(w, n, "attempts")
           y == Rolled(w, n, "failures")
<1>1. /\ r = [k \in s \ going |-> IF k # Bucket THEN a[k]
                                 ELSE [a[k] EXCEPT !.attempts = @ + x, !.failures = @ + y]]
  <2>1. n # 0
    BY DEF Shaped, Orders
  <2> QED BY <2>1, RolledUpSeries
<1>2. /\ Tallied(a, attempts, failures) /\ IsFiniteSet(s)
      /\ s = DOMAIN m \cup {Bucket}
  BY AdmittedTallied, AdmittedShape DEF Shaped
<1>3. going \subseteq DOMAIN m \ {Bucket} /\ IsFiniteSet(going)
  <2>1. n \in 0 .. Len(w.order)
    BY DEF Shaped, Orders
  <2> QED BY <2>1, OrderShrinks DEF Shaped
<1>4. \A k \in DOMAIN m : a[k] = m[k]
  <2>1. CASE Bucket \in DOMAIN m
    BY <2>1 DEF Admitted
  <2>2. CASE Bucket \notin DOMAIN m
    BY <2>2, AdmittedSeries
  <2> QED BY <2>1, <2>2
<1>5. /\ a \in [s -> Series] /\ m \in [DOMAIN m -> Series]
      /\ \A k \in s \ {Bucket} : a[k].direct = a[k].attempts
  BY <1>2 DEF Tallied
<1>6. x = Total(AttemptsOf(a), going) /\ x \in Nat
  <2>1. Numbers(AttemptsOf(a), going) /\ \A k \in going : AttemptsOf(a)[k] = m[k]["attempts"]
    BY <1>2, <1>3, <1>4, <1>5, CountsOf DEF Numbers
  <2>2. x = Total(AttemptsOf(a), going)
    BY <1>3, <2>1, RolledIs
  <2> QED BY <1>3, <2>1, <2>2, PairsOf
<1>7. y = Total(FailuresOf(a), going) /\ y \in Nat
  <2>1. Numbers(FailuresOf(a), going) /\ \A k \in going : FailuresOf(a)[k] = m[k]["failures"]
    BY <1>2, <1>3, <1>4, <1>5, CountsOf DEF Numbers
  <2>2. y = Total(FailuresOf(a), going)
    BY <1>3, <2>1, RolledIs
  <2> QED BY <1>3, <2>1, <2>2, PairsOf
<1> HIDE DEF m, a, r, going, x, y
<1>8. DOMAIN r = s \ going /\ Bucket \in s \ going
      /\ \A k \in s \ going : k # Bucket => r[k] = a[k]
  BY <1>1, <1>2, <1>3
<1>9. /\ r[Bucket] \in Series
      /\ r[Bucket].attempts = a[Bucket].attempts + x
      /\ r[Bucket].failures = a[Bucket].failures + y
  <2>1. a[Bucket] \in Series
    BY <1>5, <1>8
  <2>2. r[Bucket] = [a[Bucket] EXCEPT !.attempts = @ + x, !.failures = @ + y]
    BY <1>1, <1>8
  <2>3. PICK b \in Series : b = a[Bucket]
    BY <2>1
  <2>4. /\ b.attempts \in Nat /\ b.failures \in Nat
        /\ r[Bucket] = [b EXCEPT !.attempts = b.attempts + x, !.failures = b.failures + y]
    BY <2>2, <2>3 DEF Series
  <2>5. b.attempts + x \in Nat /\ b.failures + y \in Nat
    BY <1>6, <1>7, <2>4
  <2> QED BY <2>3, <2>4, <2>5 DEF Series
<1>10. r \in [DOMAIN r -> Series]
  <2>1. \A k \in s \ going : r[k] \in Series
    BY <1>5, <1>8, <1>9
  <2>2. r = [k \in s \ going |-> r[k]]
    BY <1>1
  <2> HIDE DEF s
  <2> QED BY <1>8, <2>1, <2>2
<1>11. \A k \in DOMAIN r \ {Bucket} : r[k].direct = r[k].attempts
  BY <1>5, <1>8
<1>12. going \in SUBSET s
  BY <1>2, <1>3
<1>13. Total(AttemptsOf(r), s \ going) = Total(AttemptsOf(a), s)
  <2>1. Numbers(AttemptsOf(a), s) /\ \A k \in s : AttemptsOf(a)[k] = a[k].attempts
    BY <1>5, CountsOf DEF Numbers
  <2>2. \A k \in s \ going : AttemptsOf(r)[k] = r[k].attempts
    BY <1>8, <1>10, CountsOf
  <2> HIDE DEF s
  <2>3. \A k \in s \ going : k # Bucket => AttemptsOf(r)[k] = AttemptsOf(a)[k]
    BY <1>8, <2>1, <2>2
  <2>4. AttemptsOf(r)[Bucket] = AttemptsOf(a)[Bucket] + Total(AttemptsOf(a), going)
    BY <1>6, <1>8, <1>9, <2>1, <2>2
  <2> QED BY <1>2, <1>8, <1>12, <2>1, <2>3, <2>4, TotalRolled
<1>14. Total(FailuresOf(r), s \ going) = Total(FailuresOf(a), s)
  <2>1. Numbers(FailuresOf(a), s) /\ \A k \in s : FailuresOf(a)[k] = a[k].failures
    BY <1>5, CountsOf DEF Numbers
  <2>2. \A k \in s \ going : FailuresOf(r)[k] = r[k].failures
    BY <1>8, <1>10, CountsOf
  <2> HIDE DEF s
  <2>3. \A k \in s \ going : k # Bucket => FailuresOf(r)[k] = FailuresOf(a)[k]
    BY <1>8, <2>1, <2>2
  <2>4. FailuresOf(r)[Bucket] = FailuresOf(a)[Bucket] + Total(FailuresOf(a), going)
    BY <1>7, <1>8, <1>9, <2>1, <2>2
  <2> QED BY <1>2, <1>8, <1>12, <2>1, <2>3, <2>4, TotalRolled
<1> QED BY <1>2, <1>8, <1>10, <1>11, <1>13, <1>14 DEF Tallied, r

LEMMA RoomTallied ==
    ASSUME CapKept, NEW attempts, NEW failures, Tallied(series, attempts, failures), NEW l \in Label
    PROVE  Tallied(WithRoomFor(Window, l).series, attempts, failures)
<1> USE CapAssumption DEF CapAssumption
<1> DEFINE w == Window
           v == WithRoomFor(Window, l)
           c == Cardinality(DOMAIN w.series)
<1>1. Shaped(w) /\ Tallied(w.series, attempts, failures)
  BY DEF CapKept, Window
<1>2. /\ c \in Nat /\ Len(w.order) \in Nat /\ labelsCap \in Nat /\ labelsCap >= 3
      /\ c = IF Bucket \in DOMAIN w.series THEN Len(w.order) + 1 ELSE Len(w.order)
  <2>1. Len(w.order) \in Nat
    BY <1>1 DEF Shaped, Orders
  <2>2. labelsCap \in Nat /\ labelsCap >= 3
    BY DEF CapKept
  <2> HIDE DEF w
  <2> QED BY <1>1, <2>1, <2>2, WindowSize
<1> HIDE DEF w
<1>3. CASE l \in DOMAIN w.series
  <2>1. v = w
    BY <1>3 DEF WithRoomFor, w
  <2> QED BY <1>1, <2>1
<1>4. CASE l \notin DOMAIN w.series /\ ~Full(w)
  <2>1. v = Admitted(w, l)
    BY <1>4 DEF WithRoomFor, w
  <2> QED BY <1>1, <2>1, AdmittedTallied
<1>5. CASE l \notin DOMAIN w.series /\ Full(w)
  <2> DEFINE r == RolledUp(w, 1)
  <2>1. v = Admitted(r, l)
    BY <1>5 DEF WithRoomFor, w
  <2>2. 1 \in 1 .. Len(w.order)
    <3>1. c >= labelsCap - 1
      BY <1>5 DEF Full
    <3> HIDE DEF c
    <3> QED BY <1>2, <3>1
  <2>3. Shaped(r) /\ Tallied(r.series, attempts, failures)
    BY <1>1, <2>2, RolledShape, RolledTallied
  <2> HIDE DEF r
  <2> QED BY <2>1, <2>3, AdmittedTallied
<1> QED BY <1>3, <1>4, <1>5

LEMMA PrunedTallied ==
    ASSUME CapKept, NEW attempts, NEW failures, Tallied(series, attempts, failures), NEW c \in LabelCaps
    PROVE  Tallied(Pruned(Window, c).series, attempts, failures)
<1> USE CapAssumption DEF CapAssumption
<1> DEFINE w == Window
           n == Cardinality(DOMAIN w.series)
           x == Excess(w, c)
<1>1. Shaped(w) /\ Tallied(w.series, attempts, failures)
  BY DEF CapKept, Window
<1>2. /\ n \in Nat /\ Len(w.order) \in Nat /\ c \in Nat /\ c >= 3
      /\ n = IF Bucket \in DOMAIN w.series THEN Len(w.order) + 1 ELSE Len(w.order)
  <2>1. Len(w.order) \in Nat
    BY <1>1 DEF Shaped, Orders
  <2> HIDE DEF w
  <2> QED BY <1>1, <2>1, WindowSize
<1>3. x = IF n <= c THEN 0 ELSE IF Bucket \in DOMAIN w.series THEN n - c ELSE n - c + 1
  BY DEF Excess
<1>4. Pruned(w, c) = RolledUp(w, x)
  BY DEF Pruned
<1> HIDE DEF w, n, x
<1>5. CASE x = 0
  <2>1. Pruned(w, c) = w
    BY <1>4, <1>5 DEF RolledUp
  <2> QED BY <1>1, <2>1 DEF w
<1>6. CASE x # 0
  <2>1. x \in 1 .. Len(w.order)
    BY <1>2, <1>3, <1>6
  <2> QED BY <1>1, <1>4, <2>1, RolledTallied DEF w
<1> QED BY <1>5, <1>6

\* An attempt that is recorded raises its label's counts.
LEMMA RecordedTallied ==
    ASSUME NEW m, IsFiniteSet(DOMAIN m), NEW attempts, NEW failures, Tallied(m, attempts, failures),
           NEW l \in DOMAIN m, NEW d \in {0, 1}
    PROVE  Tallied([m EXCEPT ![l] = [attempts |-> @.attempts + 1, failures |-> @.failures + d,
                                     direct |-> @.direct + 1]],
                   attempts + 1, failures + d)
<1> DEFINE p == [m EXCEPT ![l] = [attempts |-> @.attempts + 1, failures |-> @.failures + d,
                                  direct |-> @.direct + 1]]
<1>1. m \in [DOMAIN m -> Series] /\ m[l] \in Series
  BY DEF Tallied
<1>2. m[l].attempts \in Nat /\ m[l].failures \in Nat /\ m[l].direct \in Nat /\ d \in Nat
  BY <1>1 DEF Series
<1>3. /\ DOMAIN p = DOMAIN m
      /\ p[l] = [attempts |-> m[l].attempts + 1, failures |-> m[l].failures + d,
                 direct |-> m[l].direct + 1]
      /\ \A k \in DOMAIN m \ {l} : p[k] = m[k]
  BY <1>1
<1>4. p[l] \in Series
  <2>1. m[l].attempts + 1 \in Nat /\ m[l].failures + d \in Nat /\ m[l].direct + 1 \in Nat
    BY <1>2
  <2> HIDE DEF p
  <2> QED BY <1>3, <2>1 DEF Series
<1>5. p \in [DOMAIN p -> Series]
  <2>1. \A k \in DOMAIN m : p[k] \in Series
    <3> HIDE DEF p
    <3> QED BY <1>1, <1>3, <1>4
  <2>2. p = [k \in DOMAIN m |-> p[k]]
    OBVIOUS
  <2> HIDE DEF p
  <2> QED BY <1>3, <2>1, <2>2
<1> HIDE DEF p
<1>6. \A k \in DOMAIN p \ {Bucket} : p[k].direct = p[k].attempts
  <2>1. ASSUME NEW k \in DOMAIN m, k # Bucket PROVE p[k].direct = p[k].attempts
    <3>1. m[k].direct = m[k].attempts
      BY <2>1 DEF Tallied
    <3>2. CASE k = l
      BY <1>3, <3>1, <3>2
    <3>3. CASE k # l
      BY <1>3, <3>1, <3>3
    <3> QED BY <3>2, <3>3
  <2> QED BY <1>3, <2>1
<1>7. Total(AttemptsOf(p), DOMAIN m) = Total(AttemptsOf(m), DOMAIN m) + 1
  <2>1. Numbers(AttemptsOf(m), DOMAIN m) /\ \A k \in DOMAIN m : AttemptsOf(m)[k] = m[k].attempts
    BY <1>1, CountsOf DEF Numbers
  <2>2. \A k \in DOMAIN m : AttemptsOf(p)[k] = p[k].attempts
    BY <1>3, <1>5, CountsOf
  <2>3. /\ AttemptsOf(p)[l] = AttemptsOf(m)[l] + 1
        /\ \A k \in DOMAIN m \ {l} : AttemptsOf(p)[k] = AttemptsOf(m)[k]
    BY <1>3, <2>1, <2>2
  <2>4. 1 \in Nat
    OBVIOUS
  <2> QED BY <2>1, <2>3, <2>4, TotalRaised
<1>8. Total(FailuresOf(p), DOMAIN m) = Total(FailuresOf(m), DOMAIN m) + d
  <2>1. Numbers(FailuresOf(m), DOMAIN m) /\ \A k \in DOMAIN m : FailuresOf(m)[k] = m[k].failures
    BY <1>1, CountsOf DEF Numbers
  <2>2. \A k \in DOMAIN m : FailuresOf(p)[k] = p[k].failures
    BY <1>3, <1>5, CountsOf
  <2>3. /\ FailuresOf(p)[l] = FailuresOf(m)[l] + d
        /\ \A k \in DOMAIN m \ {l} : FailuresOf(p)[k] = FailuresOf(m)[k]
    BY <1>3, <2>1, <2>2
  <2> QED BY <1>2, <2>1, <2>3, TotalRaised
<1>9. Tallied(p, attempts + 1, failures + d)
  BY <1>3, <1>5, <1>6, <1>7, <1>8 DEF Tallied
<1> QED BY <1>9 DEF p

\* Every map counts what was recorded, and a counter that is about to be added
\* to is there.
Summed ==
    /\ CapKept
    /\ seen \in [attempts : Nat, failures : Nat, counts : Nat]
    /\ Tallied(series, seen.attempts, seen.failures)
    /\ Numbers(store, DOMAIN store) /\ Total(store, DOMAIN store) = seen.counts
    /\ \A r \in Recorder : recorder[r].phase = "adding" => recorder[r].key \in DOMAIN store

LEMMA SummedIsAll == Summed => NothingLost
<1> SUFFICES ASSUME Summed PROVE NothingLost
  OBVIOUS
<1>1. IsFiniteSet(Held) /\ IsFiniteSet(DOMAIN store) /\ Held = DOMAIN series
  BY DEF Summed, CapKept, Roomy, Held
<1>2. series \in [Held -> Series] /\ Tallied(series, seen.attempts, seen.failures)
  BY <1>1 DEF Summed, Tallied
<1>3. Sum(series, LAMBDA s : s.attempts) = seen.attempts
  <2>1. /\ Numbers(AttemptsOf(series), DOMAIN series)
        /\ \A l \in DOMAIN series : AttemptsOf(series)[l] = series[l].attempts
    BY <1>1, <1>2, CountsOf DEF Numbers
  <2>2. Sum(series, LAMBDA s : s.attempts) = Total(AttemptsOf(series), DOMAIN series)
    BY <1>1, <2>1, AttemptsSummed
  <2> QED BY <1>2, <2>2 DEF Tallied
<1>4. Sum(series, LAMBDA s : s.failures) = seen.failures
  <2>1. /\ Numbers(FailuresOf(series), DOMAIN series)
        /\ \A l \in DOMAIN series : FailuresOf(series)[l] = series[l].failures
    BY <1>1, <1>2, CountsOf DEF Numbers
  <2>2. Sum(series, LAMBDA s : s.failures) = Total(FailuresOf(series), DOMAIN series)
    BY <1>1, <2>1, FailuresSummed
  <2> QED BY <1>2, <2>2 DEF Tallied
<1>5. Sum(store, LAMBDA n : n) = seen.counts
  BY <1>1, CountsSummed DEF Summed
<1>6. \A l \in Held \ {Bucket} : series[l].direct = series[l].attempts
  BY <1>1, <1>2 DEF Tallied
<1> QED BY <1>3, <1>4, <1>5, <1>6 DEF NothingLost

LEMMA SummedAtFirst == LabelInit => Summed
<1> SUFFICES ASSUME LabelInit PROVE Summed
  OBVIOUS
<1>1. /\ DOMAIN series = {} /\ DOMAIN store = {}
      /\ seen = [attempts |-> 0, failures |-> 0, counts |-> 0]
      /\ \A r \in Recorder : recorder[r].phase = "idle"
  BY DEF LabelInit, Idle
<1>2. Tallied(series, 0, 0)
  <2>1. series \in [DOMAIN series -> Series]
    BY DEF LabelInit
  <2>2. /\ Total(AttemptsOf(series), {}) = 0 /\ Total(FailuresOf(series), {}) = 0
    BY TotalOfNone
  <2> QED BY <1>1, <2>1, <2>2 DEF Tallied
<1>3. Numbers(store, DOMAIN store) /\ Total(store, DOMAIN store) = 0
  BY <1>1, TotalOfNone DEF Numbers
<1> QED BY <1>1, <1>2, <1>3, CapKeptAtFirst DEF Summed

LEMMA SummedKept == Summed /\ [LabelNext]_label_vars => Summed'
<1> SUFFICES ASSUME Summed, [LabelNext]_label_vars PROVE Summed'
  OBVIOUS
<1>0. CapKept'
  BY CapKeptAlways DEF Summed
<1>a. IsFiniteSet(DOMAIN store) /\ Total(store, DOMAIN store) = seen.counts
      /\ seen.attempts \in Nat /\ seen.failures \in Nat /\ seen.counts \in Nat
  BY DEF Summed, CapKept, Roomy
<1>1. ASSUME NEW l \in Label, NEW ok \in BOOLEAN, Attempt(l, ok) PROVE Summed'
  <2> DEFINE m == WithRoomFor(Window, l).series
             d == IF ok THEN 0 ELSE 1
  <2>1. Tallied(m, seen.attempts, seen.failures)
    BY RoomTallied DEF Summed
  <2>2. l \in DOMAIN m /\ IsFiniteSet(DOMAIN m)
    BY RoomIsMade DEF Summed, Shaped
  <2>3. /\ series' = [m EXCEPT ![l] = [attempts |-> @.attempts + 1, failures |-> @.failures + d,
                                       direct |-> @.direct + 1]]
        /\ seen' = [seen EXCEPT !.attempts = @ + 1, !.failures = @ + d]
        /\ UNCHANGED <<store, recorder>>
    BY <1>1 DEF Attempt
  <2>4. d \in {0, 1}
    OBVIOUS
  <2> HIDE DEF m, d
  <2>5. Tallied(series', seen.attempts + 1, seen.failures + d)
    BY <2>1, <2>2, <2>3, <2>4, RecordedTallied
  <2>6. /\ seen' \in [attempts : Nat, failures : Nat, counts : Nat]
        /\ seen'.attempts = seen.attempts + 1 /\ seen'.failures = seen.failures + d
        /\ seen'.counts = seen.counts
    <3>1. seen \in [attempts : Nat, failures : Nat, counts : Nat] /\ d \in Nat
      BY <2>4 DEF Summed
    <3>2. PICK a \in Nat, f \in Nat : a = seen.attempts + 1 /\ f = seen.failures + d
      BY <1>a, <3>1
    <3>3. seen' = [seen EXCEPT !.attempts = a, !.failures = f]
      BY <2>3, <3>2
    <3> QED BY <3>1, <3>2, <3>3
  <2> QED BY <1>0, <1>a, <2>3, <2>5, <2>6 DEF Summed
<1>2. ASSUME NEW c \in LabelCaps, SetLabelCap(c) PROVE Summed'
  <2>1. Tallied(Pruned(Window, c).series, seen.attempts, seen.failures)
    BY PrunedTallied DEF Summed
  <2>2. series' = Pruned(Window, c).series /\ UNCHANGED <<store, recorder, seen>>
    BY <1>2 DEF SetLabelCap
  <2> QED BY <1>0, <2>1, <2>2 DEF Summed
<1>3. ASSUME NEW r \in Recorder, NEW l \in Label, Look(r, l) PROVE Summed'
  <2>1. UNCHANGED <<series, store, seen>>
    BY <1>3 DEF Look
  <2>2. recorder' = [recorder EXCEPT ![r] =
            [phase |-> IF l \in DOMAIN store THEN "adding" ELSE "missed", key |-> l]]
    BY <1>3 DEF Look
  <2>3. \A q \in Recorder : recorder'[q].phase = "adding" => recorder'[q].key \in DOMAIN store
    BY <2>2 DEF Summed
  <2> QED BY <1>0, <2>1, <2>3 DEF Summed
<1>4. ASSUME NEW r \in Recorder, Admit(r) PROVE Summed'
  <2> DEFINE k == KeyFor(recorder[r].key)
  <2>1. /\ store' = [x \in DOMAIN store \cup {k} |-> IF x \in DOMAIN store THEN store[x] ELSE 0]
        /\ recorder' = [recorder EXCEPT ![r] = [phase |-> "adding", key |-> k]]
        /\ UNCHANGED <<series, seen>>
    BY <1>4 DEF Admit, MakeCounter
  <2> HIDE DEF k
  <2>2. /\ DOMAIN store' = DOMAIN store \cup {k} /\ \A x \in DOMAIN store : store'[x] = store[x]
        /\ k \notin DOMAIN store => store'[k] = 0
    BY <2>1
  <2>3. Numbers(store', DOMAIN store')
    BY <2>2 DEF Summed, Numbers
  <2>4. Total(store', DOMAIN store') = Total(store, DOMAIN store)
    <3>1. CASE k \in DOMAIN store
      <4>1. DOMAIN store' = DOMAIN store
        BY <2>2, <3>1
      <4> QED BY <2>2, <4>1, SameTotal
    <3>2. CASE k \notin DOMAIN store
      BY <1>a, <2>2, <3>2, TotalWithNew DEF Summed
    <3> QED BY <3>1, <3>2
  <2>5. \A q \in Recorder : recorder'[q].phase = "adding" => recorder'[q].key \in DOMAIN store'
    BY <2>1, <2>2 DEF Summed
  <2> QED BY <1>0, <1>a, <2>1, <2>3, <2>4, <2>5 DEF Summed
<1>5. ASSUME NEW r \in Recorder, Add(r) PROVE Summed'
  <2> DEFINE k == recorder[r].key
  <2>1. /\ store' = [store EXCEPT ![k] = @ + 1]
        /\ recorder' = [recorder EXCEPT ![r] = Idle]
        /\ seen' = [seen EXCEPT !.counts = @ + 1]
        /\ UNCHANGED series /\ k \in DOMAIN store
    BY <1>5 DEF Add, Summed
  <2> HIDE DEF k
  <2>2. store[k] \in Nat
    BY <2>1 DEF Summed, Numbers
  <2>3. /\ DOMAIN store' = DOMAIN store /\ store'[k] = store[k] + 1
        /\ \A x \in DOMAIN store \ {k} : store'[x] = store[x]
    BY <2>1
  <2>4. Numbers(store', DOMAIN store')
    <3>1. ASSUME NEW x \in DOMAIN store PROVE store'[x] \in Nat
      BY <2>2, <2>3 DEF Summed, Numbers
    <3> QED BY <2>3, <3>1 DEF Numbers
  <2>5. Total(store', DOMAIN store) = Total(store, DOMAIN store) + 1
    <3>1. PICK g, s, d : g = store' /\ s = DOMAIN store /\ d = 1
      OBVIOUS
    <3>2. /\ IsFiniteSet(s) /\ Numbers(store, s) /\ k \in s
          /\ d \in Nat /\ g[k] = store[k] + d /\ \A x \in s \ {k} : g[x] = store[x]
      BY <1>a, <2>1, <2>3, <3>1 DEF Summed
    <3>3. Total(g, s) = Total(store, s) + d
      BY <3>2, TotalRaised
    <3> QED BY <3>1, <3>3
  <2>6. /\ seen' \in [attempts : Nat, failures : Nat, counts : Nat]
        /\ seen'.attempts = seen.attempts /\ seen'.failures = seen.failures
        /\ seen'.counts = seen.counts + 1
    <3>1. seen \in [attempts : Nat, failures : Nat, counts : Nat]
      BY DEF Summed
    <3> QED BY <1>a, <2>1, <3>1
  <2>7. \A q \in Recorder : recorder'[q].phase = "adding" => recorder'[q].key \in DOMAIN store
    <3>1. Idle.phase # "adding"
      BY DEF Idle
    <3> QED BY <2>1, <3>1 DEF Summed
  <2> QED BY <1>0, <1>a, <2>1, <2>3, <2>4, <2>5, <2>6, <2>7 DEF Summed
<1>6. CASE UNCHANGED label_vars
  BY <1>0, <1>6 DEF Summed, label_vars
<1> QED BY <1>1, <1>2, <1>3, <1>4, <1>5, <1>6 DEF LabelNext

(* LabelCap: every attempt, failure and count is in exactly one series,     *)
(* whatever is evicted, pruned or collapsed, whenever the cap changes and   *)
(* whoever admits the same label at once; and what is still named reports   *)
(* the whole distribution of its attempts (rollUpToOverflowLocked,          *)
(* boundedAttemptKeyLocked, SetLabelCap, admitCollapsible).                 *)
THEOREM TotalsStayTruthful == LabelSpec => []NothingLost
BY SummedAtFirst, SummedKept, SummedIsAll, PTL DEF LabelSpec

----------------------------------------------------------------------------
(* DashboardRing: the arithmetic of a ring. *)

LEMMA Multiples ==
    ASSUME NEW k \in Int, NEW n \in Nat \ {0}
    PROVE  /\ k >= 2 => n * k >= 2 * n
           /\ k <= -1 => n * k <= -n
<1>1. ASSUME NEW j \in Nat PROVE n * j >= 0
  BY <1>1
<1>2. ASSUME k >= 2 PROVE n * k >= 2 * n
  <2>1. k - 2 \in Nat
    BY <1>2
  <2>2. n * (k - 2) >= 0
    BY <2>1, <1>1
  <2> QED BY <2>2
<1>3. ASSUME k <= -1 PROVE n * k <= -n
  <2>1. -1 - k \in Nat
    BY <1>3
  <2>2. n * (-1 - k) >= 0
    BY <2>1, <1>1
  <2> QED BY <2>2
<1> QED BY <1>2, <1>3

LEMMA Division ==
    ASSUME NEW a \in Nat, NEW n \in Nat \ {0}
    PROVE  /\ a % n \in 0 .. n - 1
           /\ a \div n \in Nat /\ a = n * (a \div n) + (a % n)
OBVIOUS

(* One turn of the ring and no more: a position is found by one subtraction. *)
LEMMA WithinTwoTurns ==
    ASSUME NEW n \in Nat \ {0}, NEW a \in 0 .. 2 * n - 1
    PROVE  a % n = IF a < n THEN a ELSE a - n
<1>1. a \in Nat
  OBVIOUS
<1>2. a % n \in 0 .. n - 1 /\ a \div n \in Nat /\ a = n * (a \div n) + (a % n)
  BY <1>1, Division
<1>3. a \div n < 2
  BY <1>2, Multiples
<1>4. CASE a \div n = 0
  BY <1>2, <1>4
<1>5. CASE a \div n = 1
  BY <1>2, <1>5
<1> QED BY <1>2, <1>3, <1>4, <1>5

(* Two minutes less than a turn apart are as far apart in the ring.          *)
LEMMA WithinOneTurn ==
    ASSUME NEW n \in Nat \ {0}, NEW a \in Nat, NEW b \in Nat, b <= a, a - b < n
    PROVE  a - b = IF b % n <= a % n THEN (a % n) - (b % n) ELSE (a % n) - (b % n) + n
<1> DEFINE k == (a \div n) - (b \div n)
<1>1. /\ a % n \in 0 .. n - 1 /\ a \div n \in Int /\ a = n * (a \div n) + (a % n)
      /\ b % n \in 0 .. n - 1 /\ b \div n \in Int /\ b = n * (b \div n) + (b % n)
  BY Division
<1>2. k \in Int /\ n * k \in Int /\ a - b = n * k + ((a % n) - (b % n))
  BY <1>1
<1>3. k = 0 \/ k = 1
  <2>1. n * k < 2 * n /\ n * k > -n
    BY <1>1, <1>2
  <2> QED BY <2>1, <1>2, Multiples
<1>4. CASE k = 0
  BY <1>1, <1>2, <1>4
<1>5. CASE k = 1
  BY <1>1, <1>2, <1>5
<1> QED BY <1>3, <1>4, <1>5

LEMMA SlotsOfMinutes ==
    /\ \A m \in Nat : JournalSlot(m) \in Slot
    /\ \A a, b \in Nat : b <= a /\ a - b < RingLen =>
          a - b = IF JournalSlot(b) <= JournalSlot(a)
                  THEN JournalSlot(a) - JournalSlot(b)
                  ELSE JournalSlot(a) - JournalSlot(b) + RingLen
<1>1. RingLen \in Nat \ {0}
  BY RingAssumption DEF RingAssumption
<1>2. ASSUME NEW m \in Nat PROVE JournalSlot(m) \in Slot
  BY <1>1, Division DEF JournalSlot, Slot
<1>3. ASSUME NEW a \in Nat, NEW b \in Nat, b <= a /\ a - b < RingLen
      PROVE  a - b = IF JournalSlot(b) <= JournalSlot(a)
                     THEN JournalSlot(a) - JournalSlot(b)
                     ELSE JournalSlot(a) - JournalSlot(b) + RingLen
  BY <1>1, <1>3, WithinOneTurn DEF JournalSlot
<1> QED BY <1>2, <1>3

LEMMA LargestExists ==
    ASSUME NEW S, NEW n \in Nat, S \subseteq 1 .. n, S # {}
    PROVE  \E x \in S : \A y \in S : y <= x
<1> DEFINE below == OpToRel(<, Nat)
           T == {n - i : i \in S}
<1>1. T \subseteq Nat /\ T # {}
  <2>1. \A i \in S : n - i \in Nat
    OBVIOUS
  <2> QED BY <2>1
<1>2. PICK t \in T : \A u \in T : <<u, t>> \notin below
  <2> HIDE DEF below, T
  <2>1. IsWellFoundedOn(below, Nat)
    BY NatLessThanWellFounded DEF below
  <2> QED BY <1>1, <2>1, WFMin
<1>3. PICK x \in S : t = n - x
  OBVIOUS
<1>4. ASSUME NEW y \in S PROVE y <= x
  <2>1. n - y \in T /\ n - y \in Nat /\ t \in Nat
    BY <1>1
  <2>2. ~(n - y < t)
    BY <1>2, <2>1 DEF OpToRel
  <2> QED BY <1>3, <2>1, <2>2
<1> QED BY <1>4

----------------------------------------------------------------------------
(* DashboardRing: the lines of a journal. *)

\* The lines that parse, as a set.
LinesOf(j) == {j[i] : i \in {k \in DOMAIN j : j[k] \notin {Torn, Spoilt}}}

OnFile == LinesOf(journal)

File == Seq(Recorded \cup {Torn, Spoilt})

LEMMA LinesFinite ==
    ASSUME NEW j \in File
    PROVE  IsFiniteSet(LinesOf(j)) /\ LinesOf(j) \subseteq Recorded
<1> DEFINE P == {k \in DOMAIN j : j[k] \notin {Torn, Spoilt}}
<1> HIDE DEF Recorded
<1>1. DOMAIN j = 1 .. Len(j) /\ Len(j) \in Nat
  BY DEF File
<1>2. IsFiniteSet(P)
  <2>1. IsFiniteSet(1 .. Len(j))
    BY <1>1, FS_Interval
  <2> QED BY <1>1, <2>1, FS_Subset
<1>3. IsFiniteSet({j[i] : i \in P})
  <2> DEFINE g == [i \in P |-> j[i]]
  <2>1. g \in Surjection(P, {j[i] : i \in P})
    BY DEF Surjection
  <2> QED BY <1>2, <2>1, FS_Surjection
<1>4. \A i \in P : j[i] \in Recorded
  BY <1>1 DEF File
<1> QED BY <1>3, <1>4 DEF LinesOf

LEMMA Appending ==
    ASSUME NEW j \in File, NEW l \in Recorded \cup {Torn, Spoilt}
    PROVE  /\ Append(j, l) \in File /\ Last(Append(j, l)) = l
           /\ LinesOf(Append(j, l)) = LinesOf(j) \cup ({l} \ {Torn, Spoilt})
<1> DEFINE p == Append(j, l)
<1> HIDE DEF Recorded
<1>1. /\ p \in File /\ Len(p) = Len(j) + 1 /\ p[Len(j) + 1] = l
      /\ \A i \in 1 .. Len(j) : p[i] = j[i]
      /\ DOMAIN p = 1 .. Len(j) + 1 /\ DOMAIN j = 1 .. Len(j) /\ Len(j) \in Nat
  BY DEF File
<1>2. Last(p) = l
  BY <1>1 DEF Last
<1> HIDE DEF p
<1>3. \A i \in DOMAIN p : i \in DOMAIN j \/ i = Len(j) + 1
  BY <1>1
<1>4. Len(j) + 1 \in DOMAIN p /\ \A i \in DOMAIN j : i \in DOMAIN p
  BY <1>1
<1>5. LinesOf(p) = LinesOf(j) \cup ({l} \ {Torn, Spoilt})
  BY <1>1, <1>3, <1>4 DEF LinesOf
<1> QED BY <1>1, <1>2, <1>5 DEF p

\* A torn line goes with the line written after it.
LEMMA WithoutTorn ==
    ASSUME NEW j \in File, j # <<>>, Last(j) = Torn
    PROVE  Front(j) \in File /\ LinesOf(Front(j)) = LinesOf(j)
<1> DEFINE p == Front(j)
<1> HIDE DEF Recorded
<1>1. Len(j) \in Nat /\ Len(j) > 0 /\ DOMAIN j = 1 .. Len(j) /\ j[Len(j)] = Torn
  BY EmptySeq DEF File, Last
<1>2. /\ p \in File /\ Len(p) = Len(j) - 1 /\ DOMAIN p = 1 .. Len(j) - 1
      /\ \A i \in 1 .. Len(j) - 1 : p[i] = j[i]
  BY <1>1 DEF File, Front
<1> HIDE DEF p
<1>3. \A i \in DOMAIN j : i \in DOMAIN p \/ i = Len(j)
  BY <1>1, <1>2
<1>4. \A i \in DOMAIN p : i \in DOMAIN j
  BY <1>1, <1>2
<1>5. LinesOf(p) = LinesOf(j)
  BY <1>1, <1>2, <1>3, <1>4 DEF LinesOf
<1> QED BY <1>2, <1>5 DEF p

(* appendDashboardJournal: what parsed still does, and the line is there     *)
(* unless it was spoilt.                                                     *)
LEMMA AppendedKeeps ==
    ASSUME journal \in File, NEW l \in Recorded \cup {Torn}
    PROVE  /\ Appended(l) \in File
           /\ OnFile \subseteq LinesOf(Appended(l))
           /\ LinesOf(Appended(l)) \subseteq OnFile \cup ({l} \ {Torn})
           /\ l \in Recorded /\ Last(Appended(l)) # Spoilt => l \in LinesOf(Appended(l))
<1> HIDE DEF Recorded
<1>1. CASE journal = <<>> \/ Last(journal) # Torn
  <2>1. Appended(l) = Append(journal, l)
    BY <1>1 DEF Appended
  <2>2. l \in Recorded => l \notin {Torn, Spoilt}
    BY LineAssumption DEF LineAssumption
  <2> QED BY <2>1, <2>2, Appending DEF OnFile
<1>2. CASE journal # <<>> /\ Last(journal) = Torn
  <2>1. PICK m \in {Torn, Spoilt} : /\ Appended(l) = Append(Front(journal), m)
                                    /\ l \in Recorded => m = Spoilt
    BY <1>2, LineAssumption DEF Appended, LineAssumption
  <2>2. Front(journal) \in File /\ LinesOf(Front(journal)) = LinesOf(journal)
    BY <1>2, WithoutTorn
  <2>3. /\ Append(Front(journal), m) \in File /\ Last(Append(Front(journal), m)) = m
        /\ LinesOf(Append(Front(journal), m)) = LinesOf(Front(journal)) \cup ({m} \ {Torn, Spoilt})
    BY <2>1, <2>2, Appending
  <2> QED BY <2>1, <2>2, <2>3 DEF OnFile
<1> QED BY <1>1, <1>2

(* pruneDashboardJournal: the rewritten journal holds the lines it was given. *)
LEMMA RewrittenHolds ==
    ASSUME NEW lines, IsFiniteSet(lines), lines \subseteq Recorded, NEW s \in ByStart(lines)
    PROVE  s \in File /\ LinesOf(s) = lines
<1> DEFINE n == Cardinality(lines)
<1>1. n \in Nat
  BY FS_CardinalityType
<1>2. s \in [1 .. n -> lines] /\ \A i, j \in DOMAIN s : i < j => s[i].start < s[j].start
  BY DEF ByStart
<1>3. s \in Injection(1 .. n, lines)
  <2>1. ASSUME NEW i \in 1 .. n, NEW j \in 1 .. n, s[i] = s[j] PROVE i = j
    <3>1. s[i].start \in Nat
      BY <1>2 DEF Recorded
    <3>2. i \in Nat /\ j \in Nat
      BY <1>1
    <3> QED BY <1>2, <2>1, <3>1, <3>2
  <2> QED BY <1>2, <2>1 DEF Injection, IsInjective
<1>4. Cardinality(1 .. n) = n
  BY <1>1, FS_Interval
<1>5. s \in Surjection(1 .. n, lines)
  BY <1>3, <1>4, FS_Injection
<1> HIDE DEF Recorded
<1>6. \A l \in lines : l \notin {Torn, Spoilt}
  BY LineAssumption DEF LineAssumption
<1>7. LinesOf(s) = lines
  BY <1>2, <1>5, <1>6 DEF Surjection, LinesOf
<1>8. s \in File
  BY <1>1, <1>2 DEF File
<1> QED BY <1>7, <1>8

\* What is read back of a minute is its last line.
LEMMA ReplayedIs ==
    ASSUME journal \in File, minute \in Nat
    PROVE  /\ Replayed \subseteq OnFile /\ IsFiniteSet(Replayed)
           /\ \A k, l \in Replayed : k.start = l.start => k = l
           /\ \A l \in Replayed : InWindow(l.start)
           /\ \A m \in OnFile : InWindow(m.start) => \E l \in Replayed : l.start = m.start
<1> HIDE DEF Recorded
<1>1. DOMAIN journal = 1 .. Len(journal) /\ Len(journal) \in Nat
  BY DEF File
<1>2. Readable \subseteq 1 .. Len(journal) /\ Readable \subseteq Parsed
  BY <1>1 DEF Readable, Parsed
<1>3. OnFile = {journal[i] : i \in Parsed}
  BY DEF OnFile, LinesOf, Parsed
<1>4. Replayed \subseteq OnFile
  BY <1>2, <1>3 DEF Replayed
<1>5. IsFiniteSet(Replayed)
  BY <1>4, LinesFinite, FS_Subset DEF OnFile
<1>6. ASSUME NEW k \in Replayed, NEW l \in Replayed, k.start = l.start PROVE k = l
  <2>1. PICK i \in Readable : /\ k = journal[i]
                              /\ \A j \in Readable : journal[j].start = k.start => j <= i
    BY DEF Replayed
  <2>2. PICK j \in Readable : /\ l = journal[j]
                              /\ \A h \in Readable : journal[h].start = l.start => h <= j
    BY DEF Replayed
  <2>3. i <= j /\ j <= i /\ i \in Nat /\ j \in Nat
    BY <1>1, <1>2, <1>6, <2>1, <2>2
  <2> QED BY <2>1, <2>2, <2>3
<1>7. \A l \in Replayed : InWindow(l.start)
  BY DEF Replayed, Readable
<1>8. ASSUME NEW m \in OnFile, InWindow(m.start) PROVE \E l \in Replayed : l.start = m.start
  <2> DEFINE S == {i \in Readable : journal[i].start = m.start}
  <2>1. S # {}
    BY <1>3, <1>8 DEF Readable
  <2>2. S \subseteq 1 .. Len(journal)
    BY <1>2
  <2>3. PICK i \in S : \A j \in S : j <= i
    <3> HIDE DEF S
    <3> QED BY <1>1, <2>1, <2>2, LargestExists
  <2>4. journal[i] \in Replayed
    BY <2>3 DEF Replayed
  <2> QED BY <2>4
<1> QED BY <1>4, <1>5, <1>6, <1>7, <1>8

----------------------------------------------------------------------------
(* DashboardRing: the inductive invariant. *)

Tick == [start : Nat, obs : SUBSET [n : Nat, kind : Kind, minute : Nat], maps : SUBSET Map]

Keeping ==
    {Off} \cup [state : {"aligning"}, next : Nat] \cup [state : {"running"}, due : BOOLEAN]
    \cup [state : {"completed"}, line : Recorded]
    \cup [state : {"writing"}, line : Recorded, gone : BOOLEAN]

Pruning == {Off} \cup [state : {"read"}, lines : SUBSET Recorded]

RingTypeOK ==
    /\ minute \in Nat /\ count \in Nat
    /\ gateway \in {"down", "up", "wedged"}
    /\ ring \in [Slot -> Tick \cup {NoTick}] /\ at \in Slot
    /\ keeper \in Keeping
    /\ journal \in File
    /\ pruner \in Pruning /\ (pruner.state = "read" => IsFiniteSet(pruner.lines))
    /\ written \in SUBSET Recorded

\* Whoever holds lines: the ring, the goroutine that appends one, the journal,
\* a prune.
RingLines == {Line(ring[s]) : s \in {t \in Slot : ring[t] # NoTick}}

KeeperLines == IF keeper.state \in {"completed", "writing"} THEN {keeper.line} ELSE {}

PrunerLines == IF pruner.state = "read" THEN pruner.lines ELSE {}

Carried == RingLines \cup KeeperLines \cup OnFile \cup PrunerLines

InTime(l) ==
    /\ l.start <= minute
    /\ \A o \in l.obs : /\ o.n <= count
                        /\ l.start <= o.minute /\ o.minute <= l.start + 2
                        /\ o.minute <= minute

\* A line counts what happened in its minute or the two after it, and two
\* lines that count the same are of one minute.
CountedOnce ==
    /\ \A l \in Carried : InTime(l)
    /\ \A k, l \in Carried : k.start # l.start => k.obs \cap l.obs = {}

Holds(lines) ==
    /\ lines \subseteq written
    /\ \A l \in written \ raced :
          InWindow(l.start) => \E m \in lines : m.start = l.start

\* The journal has a line for each minute appended, and so has a prune that
\* is going to replace it.
JournalHolds ==
    /\ \A l \in written : l.start <= minute
    /\ Holds(OnFile)
    /\ pruner.state = "read" => Holds(pruner.lines)

\* How far the ring is behind the clock.
Late ==
    IF keeper.state = "aligning" THEN IF keeper.next = minute THEN 0 ELSE -1
    ELSE IF keeper.state = "running" THEN IF keeper.due THEN 1 ELSE 0 ELSE 0

\* How many positions ago a slot was the current one.
Back(s) == IF s <= at THEN at - s ELSE at - s + RingLen

Distinct ==
    \A s, t \in Slot :
        s # t /\ ring[s] # NoTick /\ ring[t] # NoTick => ring[s].obs \cap ring[t].obs = {}

Aged ==
    /\ \A s \in Slot : ring[s] # NoTick => \A o \in ring[s].obs :
          Back(s) - 1 + Late <= Age(o) /\ Age(o) <= Back(s) + 1 + Late
    /\ ring[at] # NoTick => minute - ring[at].start <= 1 + Late

InPlace ==
    /\ gateway = "down" => ring = NoRing
    /\ gateway = "up" =>
        /\ keeper.state # "off"
        /\ keeper.state = "aligning" => keeper.next \in {minute, minute + 1}
        /\ Distinct /\ Aged

RingInv == RingTypeOK /\ CountedOnce /\ JournalHolds /\ InPlace

----------------------------------------------------------------------------
(* DashboardRing: types. *)

LEMMA TicksAndLines ==
    ASSUME RingTypeOK
    PROVE  /\ \A t \in Tick : Line(t) \in Recorded
           /\ \A l \in Recorded : Restored(l) \in Tick /\ Line(Restored(l)) = l
           /\ NewTick \in Tick
<1>1. \A t \in Tick : Line(t) \in Recorded
  BY DEF Tick, Recorded, Line
<1>2. ASSUME NEW l \in Recorded PROVE Restored(l) \in Tick /\ Line(Restored(l)) = l
  <2>1. \A o \in l.obs : Touches(o.kind) \subseteq Map
    BY DEF Touches, Map
  <2>2. UNION {Touches(o.kind) : o \in l.obs} \in SUBSET Map
    BY <2>1
  <2> HIDE DEF Touches, Map
  <2> QED BY <2>2 DEF Recorded, Tick, Restored, Line
<1>3. NewTick \in Tick
  BY DEF NewTick, Tick, RingTypeOK
<1> QED BY <1>1, <1>2, <1>3

LEMMA CarriedTypes ==
    ASSUME RingTypeOK
    PROVE  Carried \subseteq Recorded /\ Slot \subseteq Nat /\ NextSlot \in Slot
<1>1. RingLines \subseteq Recorded
  BY TicksAndLines DEF RingLines, RingTypeOK
<1>2. KeeperLines \subseteq Recorded
  BY DEF KeeperLines, RingTypeOK, Keeping, Off
<1>3. OnFile \subseteq Recorded
  BY LinesFinite DEF OnFile, RingTypeOK
<1>4. PrunerLines \subseteq Recorded
  BY DEF PrunerLines, RingTypeOK, Pruning, Off
<1>5. Slot \subseteq Nat /\ NextSlot \in Slot
  <2>1. RingLen \in Nat \ {0}
    BY RingAssumption DEF RingAssumption
  <2>2. Slot \subseteq Nat /\ at + 1 \in Nat
    BY <2>1 DEF Slot, RingTypeOK
  <2> QED BY <2>1, <2>2, Division DEF NextSlot, Slot
<1> QED BY <1>1, <1>2, <1>3, <1>4, <1>5 DEF Carried

LEMMA FilledFrom ==
    ASSUME RingTypeOK
    PROVE  /\ RingFrom(Replayed) \in [Slot -> Tick \cup {NoTick}]
           /\ \A s \in Slot : RingFrom(Replayed)[s] # NoTick =>
                 \E l \in Replayed : JournalSlot(l.start) = s /\ RingFrom(Replayed)[s] = Restored(l)
<1>1. Replayed \subseteq Recorded
  BY ReplayedIs, LinesFinite DEF OnFile, RingTypeOK
<1>2. ASSUME NEW s \in Slot
      PROVE  \/ RingFrom(Replayed)[s] = NoTick
             \/ \E l \in Replayed : JournalSlot(l.start) = s /\ RingFrom(Replayed)[s] = Restored(l)
  BY DEF RingFrom
<1>3. \A l \in Replayed : Restored(l) \in Tick
  BY <1>1, TicksAndLines
<1>4. RingFrom(Replayed) = [s \in Slot |-> RingFrom(Replayed)[s]]
  BY DEF RingFrom
<1> QED BY <1>2, <1>3, <1>4

LEMMA RingTypeStep == RingTypeOK /\ [RingNext]_ring_vars => RingTypeOK'
<1> SUFFICES ASSUME RingTypeOK, [RingNext]_ring_vars PROVE RingTypeOK'
  OBVIOUS
<1> USE DEF RingTypeOK
<1>0. CASE UNCHANGED ring_vars
  BY <1>0 DEF ring_vars
<1>1. CASE ClockMoves
  <2>1. keeper' \in Keeping
    <3>1. CASE keeper.state = "running"
      <4>1. keeper \in [state : {"running"}, due : BOOLEAN]
        BY <3>1 DEF Keeping, Off
      <4>2. keeper' = [keeper EXCEPT !.due = TRUE]
        BY <1>1, <3>1 DEF ClockMoves
      <4> QED BY <4>1, <4>2 DEF Keeping
    <3>2. CASE keeper.state # "running"
      BY <1>1, <3>2 DEF ClockMoves
    <3> QED BY <3>1, <3>2
  <2> QED BY <1>1, <2>1 DEF ClockMoves
<1>2. ASSUME NEW k \in Kind, Observe(k) PROVE RingTypeOK'
  <2>1. Current \in Tick
    BY TicksAndLines DEF Current
  <2>2. Observation(k) \in [n : Nat, kind : Kind, minute : Nat]
    BY DEF Observation
  <2>3. [Current EXCEPT !.obs = @ \cup {Observation(k)}] \in Tick
    <3> HIDE DEF Observation, Current
    <3> QED BY <2>1, <2>2 DEF Tick
  <2> HIDE DEF Tick
  <2>4. ring' \in [Slot -> Tick \cup {NoTick}]
    BY <1>2, <2>3 DEF Observe
  <2> QED BY <1>2, <2>4 DEF Observe
<1>3. ASSUME NEW k \in Kind, ObservePanics(k) PROVE RingTypeOK'
  BY <1>3 DEF ObservePanics
<1>4. CASE Align
  BY <1>4 DEF Align, Keeping
<1>5. CASE Advance
  <2>1. at' \in Slot
    BY <1>5, CarriedTypes DEF Advance
  <2>2. ring' \in [Slot -> Tick \cup {NoTick}]
    BY <1>5 DEF Advance, RingCleared
  <2>3. ring[at] # NoTick => Line(ring[at]) \in Recorded
    BY TicksAndLines
  <2>4. keeper' \in Keeping
    BY <1>5, <2>3 DEF Advance, Keeping
  <2> QED BY <1>5, <2>1, <2>2, <2>4 DEF Advance
<1>6. CASE OpenJournal
  BY <1>6 DEF OpenJournal, Keeping, Off
<1>7. CASE WriteLine
  <2>1. keeper.line \in Recorded
    BY <1>7 DEF WriteLine, Keeping, Off
  <2>2. journal' \in File
    BY <1>7, <2>1, AppendedKeeps DEF WriteLine
  <2> QED BY <1>7, <2>1, <2>2 DEF WriteLine, Keeping
<1>8. ASSUME NEW cut \in BOOLEAN, WriteFails(cut) PROVE RingTypeOK'
  BY <1>8, AppendedKeeps DEF WriteFails, Keeping
<1>9. ASSUME NEW cut \in BOOLEAN, Crash(cut) PROVE RingTypeOK'
  <2>1. 0 \in Slot
    BY RingAssumption DEF RingAssumption, Slot
  <2> QED BY <1>9, <2>1, AppendedKeeps DEF Crash, Keeping, NoRing
<1>10. CASE StartTelemetry
  <2>1. journal' \in File
    BY <1>10, ReplayedIs, LinesFinite, RewrittenHolds DEF StartTelemetry, OnFile
  <2>2. at' \in Slot
    BY <1>10, SlotsOfMinutes DEF StartTelemetry
  <2> QED BY <1>10, <2>1, <2>2, FilledFrom DEF StartTelemetry, Keeping
<1>11. CASE StartUnread
  BY <1>11 DEF StartUnread, Keeping
<1>12. CASE PruneReads
  <2>1. Replayed \subseteq Recorded /\ IsFiniteSet(Replayed)
    BY ReplayedIs, LinesFinite DEF OnFile
  <2> QED BY <1>12, <2>1 DEF PruneReads, Pruning
<1>13. CASE PruneRenames
  <2>1. pruner.lines \subseteq Recorded /\ IsFiniteSet(pruner.lines)
    BY <1>13 DEF PruneRenames, Pruning, Off
  <2>2. journal' \in File
    BY <1>13, <2>1, RewrittenHolds DEF PruneRenames
  <2>3. keeper' \in Keeping
    BY <1>13 DEF PruneRenames, Keeping, Off
  <2> QED BY <1>13, <2>2, <2>3 DEF PruneRenames, Pruning, Off
<1>14. CASE PruneDies
  BY <1>14 DEF PruneDies, Pruning, Off
<1> QED
  BY <1>0, <1>1, <1>2, <1>3, <1>4, <1>5, <1>6, <1>7, <1>8, <1>9, <1>10, <1>11,
     <1>12, <1>13, <1>14 DEF RingNext

----------------------------------------------------------------------------
(* DashboardRing: nothing is counted in two minutes. *)

LEMMA NothingNew ==
    ASSUME RingTypeOK, CountedOnce, minute' \in Nat, minute <= minute', count' = count,
           Carried' \subseteq Carried
    PROVE  CountedOnce'
<1>1. ASSUME NEW l \in Recorded, InTime(l) PROVE InTime(l)'
  BY <1>1 DEF InTime, Recorded, RingTypeOK
<1>2. Carried \subseteq Recorded
  BY CarriedTypes
<1> HIDE DEF Carried, InTime, Recorded
<1> QED BY <1>1, <1>2 DEF CountedOnce

\* An observation adds to the line of the current slot.
LEMMA ObservedOnce ==
    ASSUME RingInv, NEW k \in Kind, Observe(k)
    PROVE  CountedOnce'
<1> USE DEF RingInv
<1>a. PICK c : c = Line(Current)
  OBVIOUS
<1>b. PICK o : o = Observation(k)
  OBVIOUS
<1>c. PICK d : d = Line(ring'[at])
  OBVIOUS
<1>1. c \in Recorded /\ c.start <= minute /\ minute <= c.start + 2
  <2>1. CASE ring[at] = NoTick
    <3>1. Current = NewTick /\ NewTick \in Tick /\ Line(NewTick).start = minute
      BY <2>1, TicksAndLines DEF Current, NewTick, Line
    <3> QED BY <1>a, <3>1, TicksAndLines DEF RingTypeOK
  <2>2. CASE ring[at] # NoTick
    <3>1. ring[at] \in Tick /\ Line(ring[at]) \in Carried
      BY <2>2 DEF RingTypeOK, Carried, RingLines
    <3>2. minute - ring[at].start <= 1 + Late
      BY <2>2 DEF InPlace, Aged, Observe
    <3>3. Late <= 1 /\ Late \in Int
      BY DEF Late
    <3>4. ring[at].start \in Nat /\ minute \in Nat
      BY <3>1 DEF Tick, RingTypeOK
    <3>5. InTime(Line(ring[at]))
      BY <3>1 DEF CountedOnce
    <3> QED BY <1>a, <2>2, <3>1, <3>2, <3>3, <3>4, <3>5, TicksAndLines DEF InTime, Line, Current
  <2> QED BY <2>1, <2>2
<1>2. d.start = c.start /\ d.obs = c.obs \cup {o}
  <2>1. Current \in Tick
    BY TicksAndLines DEF Current, RingTypeOK
  <2>2. ring'[at] = [Current EXCEPT !.obs = @ \cup {o}]
    BY <1>b DEF Observe, RingTypeOK
  <2> HIDE DEF Current
  <2> QED BY <1>a, <1>c, <2>1, <2>2 DEF Tick, Line
<1>3. Carried' \subseteq Carried \cup {d}
  <2>1. \A s \in Slot : s # at => ring'[s] = ring[s]
    BY DEF Observe, RingTypeOK
  <2>2. RingLines' \subseteq RingLines \cup {d}
    BY <1>c, <2>1 DEF RingLines
  <2>3. KeeperLines' = KeeperLines /\ OnFile' = OnFile /\ PrunerLines' = PrunerLines
    BY DEF Observe, KeeperLines, OnFile, PrunerLines
  <2> QED BY <2>2, <2>3 DEF Carried
<1>4. c.obs = {} \/ c \in Carried
  BY <1>a DEF Current, NewTick, Line, Carried, RingLines, RingTypeOK
<1>5. minute' = minute /\ count' = count + 1 /\ count \in Nat /\ minute \in Nat
  BY DEF Observe, RingTypeOK
<1>6. o.n = count + 1 /\ o.minute = minute
  BY <1>b DEF Observation
<1>7. Carried \subseteq Recorded
  BY CarriedTypes
<1> HIDE DEF Carried
<1>8. ASSUME NEW l \in Carried PROVE InTime(l)' /\ o \notin l.obs
  <2>1. InTime(l) /\ l \in Recorded
    BY <1>7 DEF CountedOnce
  <2>2. \A p \in l.obs : p.n \in Nat /\ p.minute \in Nat
    BY <2>1 DEF Recorded
  <2>3. l.start \in Nat
    BY <2>1 DEF Recorded
  <2> QED BY <1>5, <1>6, <2>1, <2>2, <2>3 DEF InTime
<1>9. InTime(d)'
  <2>1. c.start \in Nat /\ \A p \in c.obs : p.n \in Nat /\ p.minute \in Nat
    BY <1>1 DEF Recorded
  <2>2. c \in Carried => InTime(c)
    BY DEF CountedOnce
  <2>3. \A p \in c.obs : /\ p.n <= count /\ c.start <= p.minute
                         /\ p.minute <= c.start + 2 /\ p.minute <= minute
    BY <1>4, <2>2 DEF InTime
  <2> QED BY <1>1, <1>2, <1>5, <1>6, <2>1, <2>3 DEF InTime
<1>10. ASSUME NEW l \in Carried, l.start # d.start PROVE l.obs \cap d.obs = {}
  <2>1. l.obs \cap c.obs = {}
    BY <1>2, <1>4, <1>10 DEF CountedOnce
  <2> QED BY <1>2, <1>8, <2>1
<1>11. \A l \in Carried' : InTime(l)'
  BY <1>3, <1>8, <1>9
<1>12. ASSUME NEW l \in Carried', NEW m \in Carried', m.start # l.start
       PROVE  m.obs \cap l.obs = {}
  <2>1. CASE l \in Carried /\ m \in Carried
    BY <1>12, <2>1 DEF CountedOnce
  <2> QED BY <1>3, <1>10, <1>12, <2>1
<1> QED BY <1>11, <1>12 DEF CountedOnce

LEMMA CountedStep ==
    ASSUME RingInv, [RingNext]_ring_vars
    PROVE  CountedOnce'
<1> USE DEF RingInv
<1> DEFINE Less == /\ minute' \in Nat /\ minute <= minute' /\ count' = count
                   /\ Carried' \subseteq Carried
<1>a. Less => CountedOnce'
  BY NothingNew
<1>b. minute \in Nat /\ minute <= minute /\ journal \in File
  BY DEF RingTypeOK
<1>0. CASE UNCHANGED ring_vars
  <2>1. Less
    BY <1>b, <1>0 DEF ring_vars, Carried, RingLines, KeeperLines, OnFile, PrunerLines
  <2> QED BY <1>a, <2>1
<1>1. CASE ClockMoves
  <2>1. KeeperLines' = KeeperLines
    <3>1. CASE keeper.state = "running"
      <4>1. keeper \in [state : {"running"}, due : BOOLEAN]
        BY <3>1 DEF RingTypeOK, Keeping, Off
      <4>2. keeper'.state = "running"
        BY <1>1, <3>1, <4>1 DEF ClockMoves
      <4> QED BY <3>1, <4>2 DEF KeeperLines
    <3> QED BY <1>1, <3>1 DEF ClockMoves, KeeperLines
  <2>2. Less
    BY <1>1, <1>b, <2>1 DEF ClockMoves, Carried, RingLines, OnFile, PrunerLines
  <2> QED BY <1>a, <2>2
<1>2. ASSUME NEW k \in Kind, Observe(k) PROVE CountedOnce'
  BY <1>2, ObservedOnce
<1>3. ASSUME NEW k \in Kind, ObservePanics(k) PROVE CountedOnce'
  <2>1. Less
    BY <1>3, <1>b DEF ObservePanics, Carried, RingLines, KeeperLines, OnFile, PrunerLines
  <2> QED BY <1>a, <2>1
<1>4. CASE Align
  <2>1. Less
    BY <1>4, <1>b DEF Align, Carried, RingLines, KeeperLines, OnFile, PrunerLines
  <2> QED BY <1>a, <2>1
<1>5. CASE Advance
  <2>1. RingLines' \subseteq RingLines
    BY <1>5 DEF Advance, RingCleared, RingLines, RingTypeOK
  <2>2. KeeperLines' \subseteq RingLines
    BY <1>5 DEF Advance, KeeperLines, RingLines, RingTypeOK
  <2>3. Less
    BY <1>5, <1>b, <2>1, <2>2 DEF Advance, Carried, OnFile, PrunerLines
  <2> QED BY <1>a, <2>3
<1>6. CASE OpenJournal
  <2>1. Less
    BY <1>6, <1>b DEF OpenJournal, Carried, RingLines, KeeperLines, OnFile, PrunerLines
  <2> QED BY <1>a, <2>1
<1>7. CASE WriteLine
  <2>1. keeper.line \in Recorded /\ KeeperLines = {keeper.line}
    BY <1>7 DEF WriteLine, RingTypeOK, Keeping, Off, KeeperLines
  <2>2. OnFile' \subseteq OnFile \cup KeeperLines
    BY <1>7, <1>b, <2>1, AppendedKeeps DEF WriteLine, OnFile
  <2>3. KeeperLines' = {}
    BY <1>7 DEF WriteLine, KeeperLines
  <2>4. Less
    BY <1>7, <1>b, <2>2, <2>3 DEF WriteLine, Carried, RingLines, PrunerLines
  <2> QED BY <1>a, <2>4
<1>8. ASSUME NEW cut \in BOOLEAN, WriteFails(cut) PROVE CountedOnce'
  <2>1. OnFile' \subseteq OnFile
    BY <1>8, <1>b, AppendedKeeps DEF WriteFails, OnFile
  <2>2. KeeperLines' = {}
    BY <1>8 DEF WriteFails, KeeperLines
  <2>3. Less
    BY <1>8, <1>b, <2>1, <2>2 DEF WriteFails, Carried, RingLines, PrunerLines
  <2> QED BY <1>a, <2>3
<1>9. ASSUME NEW cut \in BOOLEAN, Crash(cut) PROVE CountedOnce'
  <2>1. OnFile' \subseteq OnFile
    BY <1>9, <1>b, AppendedKeeps DEF Crash, OnFile
  <2>2. KeeperLines' = {} /\ RingLines' = {}
    BY <1>9 DEF Crash, KeeperLines, RingLines, Off, NoRing
  <2>3. Less
    BY <1>9, <1>b, <2>1, <2>2 DEF Crash, Carried, PrunerLines
  <2> QED BY <1>a, <2>3
<1>10. CASE StartTelemetry
  <2>1. Replayed \subseteq OnFile /\ IsFiniteSet(Replayed) /\ Replayed \subseteq Recorded
    BY <1>b, ReplayedIs, LinesFinite DEF OnFile
  <2>2. OnFile' = Replayed
    BY <1>10, <2>1, RewrittenHolds DEF StartTelemetry, OnFile
  <2>3. RingLines' \subseteq Replayed
    <3>1. ASSUME NEW s \in Slot, ring'[s] # NoTick PROVE Line(ring'[s]) \in Replayed
      <4>1. PICK l \in Replayed : ring'[s] = Restored(l)
        BY <1>10, <3>1, FilledFrom DEF StartTelemetry
      <4> QED BY <2>1, <4>1, TicksAndLines
    <3> QED BY <3>1 DEF RingLines
  <2>4. KeeperLines' = {}
    BY <1>10 DEF StartTelemetry, KeeperLines
  <2>5. Less
    BY <1>10, <1>b, <2>1, <2>2, <2>3, <2>4 DEF StartTelemetry, Carried, PrunerLines
  <2> QED BY <1>a, <2>5
<1>11. CASE StartUnread
  <2>1. Less
    BY <1>11, <1>b DEF StartUnread, Carried, RingLines, KeeperLines, OnFile, PrunerLines
  <2> QED BY <1>a, <2>1
<1>12. CASE PruneReads
  <2>1. PrunerLines' \subseteq OnFile
    BY <1>12, <1>b, ReplayedIs DEF PruneReads, PrunerLines
  <2>2. Less
    BY <1>12, <1>b, <2>1 DEF PruneReads, Carried, RingLines, KeeperLines, OnFile
  <2> QED BY <1>a, <2>2
<1>13. CASE PruneRenames
  <2>1. pruner.lines \subseteq Recorded /\ IsFiniteSet(pruner.lines) /\ PrunerLines = pruner.lines
    BY <1>13 DEF PruneRenames, RingTypeOK, Pruning, Off, PrunerLines
  <2>2. OnFile' = PrunerLines
    BY <1>13, <2>1, RewrittenHolds DEF PruneRenames, OnFile
  <2>3. KeeperLines' = KeeperLines
    BY <1>13 DEF PruneRenames, KeeperLines, RingTypeOK, Keeping, Off
  <2>4. PrunerLines' = {}
    BY <1>13 DEF PruneRenames, PrunerLines
  <2>5. Less
    BY <1>13, <1>b, <2>2, <2>3, <2>4 DEF PruneRenames, Carried, RingLines
  <2> QED BY <1>a, <2>5
<1>14. CASE PruneDies
  <2>1. Less
    BY <1>14, <1>b DEF PruneDies, Carried, RingLines, KeeperLines, OnFile, PrunerLines
  <2> QED BY <1>a, <2>1
<1> QED
  BY <1>0, <1>1, <1>2, <1>3, <1>4, <1>5, <1>6, <1>7, <1>8, <1>9, <1>10, <1>11,
     <1>12, <1>13, <1>14 DEF RingNext

----------------------------------------------------------------------------
(* DashboardRing: what was appended is kept. *)

\* Time passes, and more lines may be there.
LEMMA HoldsOn ==
    ASSUME RingTypeOK, \A l \in written : l.start <= minute,
           NEW lines, NEW more, Holds(lines), lines \subseteq more, more \subseteq written',
           minute' \in Nat, minute <= minute',
           written' \ raced' \subseteq (written \ raced) \cup more
    PROVE  Holds(more)'
<1>1. ASSUME NEW l \in written' \ raced', InWindow(l.start)', l \notin more
      PROVE  \E m \in more : m.start = l.start
  <2>1. l \in written \ raced /\ l.start <= minute
    BY <1>1
  <2>2. l.start \in Nat /\ minute \in Nat
    BY <2>1 DEF RingTypeOK, Recorded
  <2>3. InWindow(l.start)
    BY <1>1, <2>1, <2>2, RingAssumption DEF InWindow, RingAssumption
  <2> QED BY <2>1, <2>3 DEF Holds
<1>2. \A l \in written' \ raced' :
          InWindow(l.start)' => \E m \in more : m.start = l.start
  BY <1>1
<1> QED BY <1>2 DEF Holds

\* What would be read back is enough.
LEMMA ReplayHolds ==
    ASSUME journal \in File, minute \in Nat, Holds(OnFile)
    PROVE  Holds(Replayed)
<1>1. Replayed \subseteq written
  BY ReplayedIs DEF Holds
<1>2. ASSUME NEW l \in written \ raced, InWindow(l.start)
      PROVE  \E m \in Replayed : m.start = l.start
  <2>1. PICK m \in OnFile : m.start = l.start
    BY <1>2 DEF Holds
  <2> QED BY <1>2, <2>1, ReplayedIs
<1> QED BY <1>1, <1>2 DEF Holds

LEMMA HoldsStep ==
    ASSUME RingInv, [RingNext]_ring_vars
    PROVE  JournalHolds'
<1> USE DEF RingInv
<1>a. /\ minute \in Nat /\ minute <= minute /\ journal \in File
      /\ (\A l \in written : l.start <= minute) /\ Holds(OnFile)
      /\ OnFile \subseteq written
  BY DEF RingTypeOK, JournalHolds, Holds
<1>b. ASSUME minute' \in Nat, minute <= minute', OnFile \subseteq OnFile',
             OnFile' \subseteq written', written \subseteq written',
             \A l \in written' : l.start <= minute',
             written' \ raced' \subseteq (written \ raced) \cup OnFile',
             pruner' = pruner,
             pruner.state = "read" => written' \ raced' \subseteq written \ raced
      PROVE  JournalHolds'
  <2>1. Holds(OnFile)'
    <3>1. PICK lines : lines = OnFile
      OBVIOUS
    <3>2. PICK more : more = OnFile'
      OBVIOUS
    <3>3. Holds(more)'
      BY <1>a, <1>b, <3>1, <3>2, HoldsOn
    <3> QED BY <3>2, <3>3 DEF Holds
  <2>2. ASSUME pruner.state = "read" PROVE Holds(pruner.lines)'
    <3>1. PICK lines : lines = pruner.lines
      OBVIOUS
    <3>2. Holds(lines) /\ lines \subseteq written
      BY <2>2, <3>1 DEF JournalHolds, Holds
    <3>3. Holds(lines)'
      BY <1>a, <1>b, <2>2, <3>2, HoldsOn
    <3> QED BY <1>b, <3>1, <3>3 DEF Holds
  <2> QED BY <1>b, <2>1, <2>2 DEF JournalHolds
<1>0. CASE UNCHANGED ring_vars
  <2>1. OnFile' = OnFile
    BY <1>0 DEF ring_vars, OnFile
  <2> QED BY <1>0, <1>a, <1>b, <2>1 DEF ring_vars
<1>1. CASE ClockMoves
  <2>1. OnFile' = OnFile
    BY <1>1 DEF ClockMoves, OnFile
  <2>2. minute' \in Nat /\ minute <= minute' /\ \A l \in written : l.start <= minute'
    BY <1>1, <1>a DEF ClockMoves, RingTypeOK, Recorded
  <2> QED BY <1>1, <1>a, <1>b, <2>1, <2>2 DEF ClockMoves
<1>2. ASSUME NEW k \in Kind, Observe(k) PROVE JournalHolds'
  <2>1. OnFile' = OnFile
    BY <1>2 DEF Observe, OnFile
  <2> QED BY <1>2, <1>a, <1>b, <2>1 DEF Observe
<1>3. ASSUME NEW k \in Kind, ObservePanics(k) PROVE JournalHolds'
  <2>1. OnFile' = OnFile
    BY <1>3 DEF ObservePanics, OnFile
  <2> QED BY <1>3, <1>a, <1>b, <2>1 DEF ObservePanics
<1>4. CASE Align
  <2>1. OnFile' = OnFile
    BY <1>4 DEF Align, OnFile
  <2> QED BY <1>4, <1>a, <1>b, <2>1 DEF Align
<1>5. CASE Advance
  <2>1. OnFile' = OnFile
    BY <1>5 DEF Advance, OnFile
  <2> QED BY <1>5, <1>a, <1>b, <2>1 DEF Advance
<1>6. CASE OpenJournal
  <2>1. OnFile' = OnFile
    BY <1>6 DEF OpenJournal, OnFile
  <2> QED BY <1>6, <1>a, <1>b, <2>1 DEF OpenJournal
<1>7. CASE WriteLine
  <2>1. keeper.line \in Recorded /\ keeper.line \in Carried
    BY <1>7 DEF WriteLine, RingTypeOK, Keeping, Off, KeeperLines, Carried
  <2>2. keeper.line.start <= minute
    BY <2>1 DEF CountedOnce, InTime
  <2>3. OnFile \subseteq OnFile' /\ OnFile' \subseteq OnFile \cup {keeper.line}
    BY <1>7, <1>a, <2>1, AppendedKeeps DEF WriteLine, OnFile
  <2>4. raced \subseteq raced' /\ (keeper.line \in raced' \/ keeper.line \in OnFile')
    BY <1>7, <1>a, <2>1, AppendedKeeps DEF WriteLine, OnFile
  <2>5. pruner.state = "read" => keeper.line \in raced'
    BY <1>7 DEF WriteLine
  <2>6. written' = written \cup {keeper.line} /\ minute' = minute /\ pruner' = pruner
    BY <1>7 DEF WriteLine
  <2> QED BY <1>a, <1>b, <2>2, <2>3, <2>4, <2>5, <2>6
<1>8. ASSUME NEW cut \in BOOLEAN, WriteFails(cut) PROVE JournalHolds'
  <2>1. OnFile' = OnFile
    BY <1>8, <1>a, AppendedKeeps DEF WriteFails, OnFile
  <2> QED BY <1>8, <1>a, <1>b, <2>1 DEF WriteFails
<1>9. ASSUME NEW cut \in BOOLEAN, Crash(cut) PROVE JournalHolds'
  <2>1. OnFile' = OnFile
    BY <1>9, <1>a, AppendedKeeps DEF Crash, OnFile
  <2> QED BY <1>9, <1>a, <1>b, <2>1 DEF Crash
<1>10. CASE StartTelemetry
  <2>1. Replayed \subseteq OnFile /\ IsFiniteSet(Replayed) /\ Replayed \subseteq Recorded
    BY <1>a, ReplayedIs, LinesFinite DEF OnFile
  <2>2. OnFile' = Replayed
    BY <1>10, <2>1, RewrittenHolds DEF StartTelemetry, OnFile
  <2>3. Holds(Replayed)
    BY <1>a, <2>1, ReplayHolds
  <2> QED BY <1>10, <1>a, <2>2, <2>3 DEF StartTelemetry, JournalHolds, Holds, InWindow
<1>11. CASE StartUnread
  <2>1. OnFile' = OnFile
    BY <1>11 DEF StartUnread, OnFile
  <2> QED BY <1>11, <1>a, <1>b, <2>1 DEF StartUnread
<1>12. CASE PruneReads
  <2>1. Holds(Replayed)
    BY <1>a, ReplayHolds
  <2>2. OnFile' = OnFile
    BY <1>12 DEF PruneReads, OnFile
  <2> QED BY <1>12, <1>a, <2>1, <2>2 DEF PruneReads, JournalHolds, Holds, InWindow
<1>13. CASE PruneRenames
  <2>1. pruner.lines \subseteq Recorded /\ IsFiniteSet(pruner.lines) /\ Holds(pruner.lines)
    BY <1>13 DEF PruneRenames, RingTypeOK, Pruning, Off, JournalHolds
  <2>2. OnFile' = pruner.lines
    BY <1>13, <2>1, RewrittenHolds DEF PruneRenames, OnFile
  <2> QED BY <1>13, <1>a, <2>1, <2>2 DEF PruneRenames, JournalHolds, Holds, InWindow
<1>14. CASE PruneDies
  <2>1. OnFile' = OnFile
    BY <1>14 DEF PruneDies, OnFile
  <2> QED BY <1>14, <1>a, <2>1 DEF PruneDies, JournalHolds, Holds, InWindow
<1> QED
  BY <1>0, <1>1, <1>2, <1>3, <1>4, <1>5, <1>6, <1>7, <1>8, <1>9, <1>10, <1>11,
     <1>12, <1>13, <1>14 DEF RingNext

----------------------------------------------------------------------------
(* DashboardRing: slots and ages. *)

LEMMA LateIs ==
    ASSUME RingTypeOK
    PROVE  Late \in {-1, 0, 1} /\ (keeper.state \notin {"aligning", "running"} => Late = 0)
BY DEF Late

LEMMA BackIs ==
    ASSUME RingTypeOK
    PROVE  /\ \A s \in Slot : Back(s) \in 0 .. RingLen - 1 /\ (Back(s) = 0 <=> s = at)
           /\ at \in Nat /\ RingLen \in Nat /\ RingLen >= 2 /\ at < RingLen
BY RingAssumption DEF RingTypeOK, RingAssumption, Slot, Back

LEMMA ObservedAt ==
    ASSUME RingTypeOK, NEW s \in Slot, ring[s] # NoTick
    PROVE  ring[s].start \in Nat /\ \A o \in ring[s].obs : o.minute \in Nat /\ o.n \in Nat
BY DEF RingTypeOK, Tick

\* The ring stands, and the clock runs as far ahead as it is noticed to.
LEMMA AgesShift ==
    ASSUME RingTypeOK, RingTypeOK', Aged, ring' = ring, at' = at,
           minute' - minute = Late' - Late
    PROVE  Aged'
<1>1. minute \in Nat /\ minute' \in Nat /\ Late \in Int /\ Late' \in Int
  BY LateIs DEF RingTypeOK, Late
<1>2. ASSUME NEW s \in Slot, ring[s] # NoTick, NEW o \in ring[s].obs
      PROVE  (Back(s) - 1 + Late <= Age(o) /\ Age(o) <= Back(s) + 1 + Late)'
  <2>1. Back(s) - 1 + Late <= minute - o.minute /\ minute - o.minute <= Back(s) + 1 + Late
    BY <1>2 DEF Aged, Age
  <2>2. o.minute \in Nat
    BY <1>2, ObservedAt
  <2>3. Back(s) \in Int /\ Back(s)' = Back(s)
    BY BackIs DEF Back
  <2>4. Age(o)' = minute' - o.minute
    BY DEF Age
  <2> HIDE DEF Late, Back
  <2> QED BY <1>1, <2>1, <2>2, <2>3, <2>4
<1>3. ring[at] # NoTick => minute' - ring[at].start <= 1 + Late'
  <2> SUFFICES ASSUME ring[at] # NoTick PROVE minute' - ring[at].start <= 1 + Late'
    OBVIOUS
  <2>1. minute - ring[at].start <= 1 + Late
    BY DEF Aged
  <2>2. ring[at].start \in Nat
    BY ObservedAt DEF RingTypeOK
  <2> HIDE DEF Late
  <2> QED BY <1>1, <2>1, <2>2
<1> HIDE DEF Late, Back, Age
<1> QED BY <1>2, <1>3 DEF Aged

LEMMA ObservedInPlace ==
    ASSUME RingInv, NEW k \in Kind, Observe(k)
    PROVE  InPlace'
<1> USE DEF RingInv
<1>a. PICK o : o = Observation(k)
  OBVIOUS
<1>1. o.n = count + 1 /\ o.minute = minute /\ count \in Nat /\ minute \in Nat
  BY <1>a DEF Observation, RingTypeOK
<1>2. /\ ring'[at].start = Current.start /\ ring'[at].obs = Current.obs \cup {o}
      /\ \A s \in Slot : s # at => ring'[s] = ring[s]
  <2>1. Current \in Tick
    BY TicksAndLines DEF Current, RingTypeOK
  <2>2. ring'[at] = [Current EXCEPT !.obs = @ \cup {o}]
    BY <1>a DEF Observe, RingTypeOK
  <2>3. \A s \in Slot : s # at => ring'[s] = ring[s]
    BY DEF Observe, RingTypeOK
  <2> HIDE DEF Current
  <2> QED BY <2>1, <2>2, <2>3 DEF Tick
<1>3. Current.obs = IF ring[at] = NoTick THEN {} ELSE ring[at].obs
  BY DEF Current, NewTick
<1>4. Current.start = IF ring[at] = NoTick THEN minute ELSE ring[at].start
  BY DEF Current, NewTick
<1>5. ASSUME NEW s \in Slot, ring[s] # NoTick PROVE o \notin ring[s].obs
  <2>1. Line(ring[s]) \in Carried /\ Line(ring[s]).obs = ring[s].obs
    BY <1>5 DEF Carried, RingLines, Line
  <2>2. \A p \in ring[s].obs : p.n <= count /\ p.n \in Nat
    BY <1>5, <2>1, ObservedAt DEF CountedOnce, InTime
  <2> QED BY <1>1, <2>2
<1>6. /\ gateway' = "up" /\ keeper' = keeper /\ minute' = minute /\ at' = at /\ gateway = "up"
      /\ at \in Slot
  BY DEF Observe, RingTypeOK
<1>7. Late' = Late /\ \A s \in Slot : Back(s)' = Back(s)
  BY <1>6 DEF Late, Back
<1>8. Distinct /\ Aged
  BY <1>6 DEF InPlace
<1>9. Distinct'
  <2>1. ASSUME NEW s \in Slot, NEW t \in Slot, s # t, ring'[s] # NoTick, ring'[t] # NoTick
        PROVE  ring'[s].obs \cap ring'[t].obs = {}
    <3>1. CASE s # at /\ t # at
      BY <1>2, <1>8, <2>1, <3>1 DEF Distinct
    <3>2. CASE s = at
      BY <1>2, <1>3, <1>5, <1>8, <2>1, <3>2 DEF Distinct
    <3>3. CASE t = at
      BY <1>2, <1>3, <1>5, <1>8, <2>1, <3>3 DEF Distinct
    <3> QED BY <3>1, <3>2, <3>3
  <2> QED BY <2>1 DEF Distinct
<1>10. Late \in {-1, 0, 1}
  BY LateIs
<1>11. ASSUME NEW s \in Slot, ring'[s] # NoTick, NEW p \in ring'[s].obs
       PROVE  Back(s) - 1 + Late <= minute - p.minute /\ minute - p.minute <= Back(s) + 1 + Late
  <2>1. CASE p = o /\ s = at
    <3>1. Back(s) = 0
      BY <2>1, BackIs
    <3> HIDE DEF Late, Back
    <3> QED BY <1>1, <1>10, <2>1, <3>1
  <2>2. CASE ~(p = o /\ s = at)
    <3>1. ring[s] # NoTick /\ p \in ring[s].obs
      BY <1>2, <1>3, <1>11, <2>2
    <3> QED BY <1>8, <3>1 DEF Aged, Age
  <2> QED BY <2>1, <2>2
<1>12. minute - ring'[at].start <= 1 + Late
  <2>1. CASE ring[at] = NoTick
    <3> HIDE DEF Late
    <3> QED BY <1>1, <1>2, <1>4, <1>10, <2>1
  <2>2. CASE ring[at] # NoTick
    BY <1>2, <1>4, <1>8, <2>2 DEF Aged
  <2> QED BY <2>1, <2>2
<1>13. Aged'
  <2> HIDE DEF Late, Back
  <2> QED BY <1>6, <1>7, <1>11, <1>12 DEF Aged, Age
<1>14. keeper.state # "off" /\ (keeper.state = "aligning" => keeper.next \in {minute, minute + 1})
  BY <1>6 DEF InPlace
<1> QED BY <1>6, <1>9, <1>13, <1>14 DEF InPlace

\* A turn of the ring: every slot is one position further back.
LEMMA AdvancedInPlace ==
    ASSUME RingInv, Advance
    PROVE  InPlace'
<1> USE DEF RingInv
<1>1. /\ gateway' = "up" /\ minute' = minute /\ at' = NextSlot /\ gateway = "up"
      /\ keeper.state = "running" /\ keeper.due
      /\ at \in Slot /\ minute \in Nat
  BY DEF Advance, RingTypeOK
<1>2. NextSlot = (IF at + 1 < RingLen THEN at + 1 ELSE 0) /\ NextSlot \in Slot
  <2>1. RingLen \in Nat \ {0} /\ at + 1 \in 0 .. 2 * RingLen - 1 /\ at + 1 <= RingLen
    BY BackIs
  <2> QED BY <2>1, WithinTwoTurns, CarriedTypes DEF NextSlot
<1>3. ring'[NextSlot] = NoTick /\ \A s \in Slot : s # NextSlot => ring'[s] = ring[s]
  BY <1>2 DEF Advance, RingCleared, RingTypeOK
<1>4. \A s \in Slot : s # NextSlot => Back(s)' = Back(s) + 1
  <2>1. SUFFICES ASSUME NEW s \in Slot, s # NextSlot PROVE Back(s)' = Back(s) + 1
    OBVIOUS
  <2>2. s \in 0 .. RingLen - 1 /\ at \in 0 .. RingLen - 1 /\ RingLen \in Nat
    BY BackIs DEF Slot
  <2>3. Back(s)' = IF s <= NextSlot THEN NextSlot - s ELSE NextSlot - s + RingLen
    BY <1>1 DEF Back
  <2>4. CASE at + 1 < RingLen
    BY <1>2, <2>1, <2>2, <2>3, <2>4 DEF Back
  <2>5. CASE ~(at + 1 < RingLen)
    BY <1>2, <2>1, <2>2, <2>3, <2>5 DEF Back
  <2> QED BY <2>4, <2>5
<1>5. Late = 1 /\ Late' = 0
  BY <1>1 DEF Late, Advance
<1>6. Distinct /\ Aged
  BY <1>1 DEF InPlace
<1>7. Distinct'
  BY <1>3, <1>6 DEF Distinct
<1>8. ASSUME NEW s \in Slot, ring'[s] # NoTick, NEW p \in ring'[s].obs
      PROVE  (Back(s) - 1 + Late <= Age(p) /\ Age(p) <= Back(s) + 1 + Late)'
  <2>1. s # NextSlot /\ ring[s] # NoTick /\ p \in ring[s].obs
    BY <1>3, <1>8
  <2>2. Back(s) - 1 + Late <= minute - p.minute /\ minute - p.minute <= Back(s) + 1 + Late
    BY <1>6, <2>1 DEF Aged, Age
  <2>3. Back(s)' = Back(s) + 1 /\ Back(s) \in Int
    BY <1>4, <2>1, BackIs
  <2>4. p.minute \in Nat
    BY <2>1, ObservedAt
  <2> HIDE DEF Late, Back
  <2> QED BY <1>1, <1>5, <2>2, <2>3, <2>4 DEF Age
<1>9. Aged'
  BY <1>1, <1>3, <1>8 DEF Aged
<1>10. keeper'.state \in {"running", "completed"}
  BY DEF Advance
<1> QED BY <1>1, <1>7, <1>9, <1>10 DEF InPlace

\* restoreDashboardJournalLocked: a minute read back is as far from the
\* current position as from the current minute.
LEMMA RestoredInPlace ==
    ASSUME RingInv, StartTelemetry
    PROVE  InPlace'
<1> USE DEF RingInv
<1>1. /\ gateway' = "up" /\ minute' = minute /\ minute \in Nat
      /\ at' = JournalSlot(minute) /\ at' \in Slot
      /\ keeper' = [state |-> "aligning", next |-> minute + 1]
      /\ ring' = RingFrom(Replayed)
  BY SlotsOfMinutes DEF StartTelemetry, RingTypeOK
<1>2. Late' = -1
  BY <1>1 DEF Late
<1>3. /\ Replayed \subseteq Carried /\ Replayed \subseteq Recorded
      /\ \A k, l \in Replayed : k.start = l.start => k = l
      /\ \A l \in Replayed : InWindow(l.start)
  BY ReplayedIs, CarriedTypes DEF RingTypeOK, Carried
<1>4. ASSUME NEW s \in Slot, ring'[s] # NoTick
      PROVE  \E l \in Replayed : /\ JournalSlot(l.start) = s
                                 /\ ring'[s].start = l.start /\ ring'[s].obs = l.obs
  BY <1>1, <1>4, FilledFrom DEF Restored
<1>5. Distinct'
  <2>1. ASSUME NEW s \in Slot, NEW t \in Slot, s # t, ring'[s] # NoTick, ring'[t] # NoTick
        PROVE  ring'[s].obs \cap ring'[t].obs = {}
    <3>1. PICK k \in Replayed : JournalSlot(k.start) = s /\ ring'[s].obs = k.obs
      BY <1>4, <2>1
    <3>2. PICK l \in Replayed : JournalSlot(l.start) = t /\ ring'[t].obs = l.obs
      BY <1>4, <2>1
    <3>3. k.start # l.start
      BY <2>1, <3>1, <3>2
    <3> QED BY <1>3, <3>1, <3>2, <3>3 DEF CountedOnce
  <2> QED BY <2>1 DEF Distinct
<1>6. ASSUME NEW s \in Slot, ring'[s] # NoTick
      PROVE  /\ Back(s)' = minute - ring'[s].start /\ ring'[s].start \in Nat
             /\ \A o \in ring'[s].obs : /\ o.minute \in Nat /\ ring'[s].start <= o.minute
                                        /\ o.minute <= ring'[s].start + 2 /\ o.minute <= minute
  <2>1. PICK l \in Replayed : /\ JournalSlot(l.start) = s
                              /\ ring'[s].start = l.start /\ ring'[s].obs = l.obs
    BY <1>4, <1>6
  <2>2. /\ l.start \in Nat /\ l.start <= minute
        /\ \A o \in l.obs : /\ o.minute \in Nat /\ l.start <= o.minute
                            /\ o.minute <= l.start + 2 /\ o.minute <= minute
    BY <1>3 DEF CountedOnce, InTime, Recorded
  <2>3. minute - l.start < RingLen
    <3>1. minute - RingLen < l.start
      BY <1>3 DEF InWindow
    <3> QED BY <1>1, <2>2, <3>1, BackIs
  <2>4. /\ JournalSlot(l.start) \in Slot /\ JournalSlot(minute) \in Slot
        /\ minute - l.start = IF JournalSlot(l.start) <= JournalSlot(minute)
                              THEN JournalSlot(minute) - JournalSlot(l.start)
                              ELSE JournalSlot(minute) - JournalSlot(l.start) + RingLen
    BY <1>1, <2>2, <2>3, SlotsOfMinutes
  <2>5. Back(s)' = minute - l.start
    BY <1>1, <2>1, <2>4 DEF Back
  <2> QED BY <2>1, <2>2, <2>5
<1>7. Aged'
  <2>1. ASSUME NEW s \in Slot, ring'[s] # NoTick, NEW o \in ring'[s].obs
        PROVE  (Back(s) - 1 + Late <= Age(o) /\ Age(o) <= Back(s) + 1 + Late)'
    <3>1. Age(o)' = minute - o.minute
      BY <1>1 DEF Age
    <3> HIDE DEF Late, Back
    <3> QED BY <1>1, <1>2, <1>6, <2>1, <3>1
  <2>2. ring'[at'] # NoTick => minute' - ring'[at'].start <= 1 + Late'
    <3>1. PICK s \in Slot : s = at'
      BY <1>1
    <3>2. s \in Int /\ s <= s /\ s - s = 0
      BY RingAssumption DEF Slot, RingAssumption
    <3>3. Back(s)' = 0
      BY <3>1, <3>2 DEF Back
    <3> HIDE DEF Late, Back
    <3>4. ring'[s] # NoTick => minute - ring'[s].start = 0
      BY <1>6, <3>3
    <3> QED BY <1>1, <1>2, <1>6, <3>1, <3>4
  <2> HIDE DEF Late, Back
  <2> QED BY <2>1, <2>2 DEF Aged
<1> QED BY <1>1, <1>5, <1>7 DEF InPlace

LEMMA InPlaceStep ==
    ASSUME RingInv, RingTypeOK', [RingNext]_ring_vars
    PROVE  InPlace'
<1> USE DEF RingInv
<1>a. ASSUME gateway' \in {gateway, "wedged"}, ring' = ring, at' = at,
             gateway = "up" =>
                /\ minute' - minute = Late' - Late
                /\ keeper'.state # "off"
                /\ keeper'.state = "aligning" => keeper'.next \in {minute', minute' + 1}
      PROVE  InPlace'
  <2>1. gateway' = "up" => Distinct' /\ Aged'
    <3>1. ASSUME gateway' = "up" PROVE Distinct' /\ Aged'
      <4>1. Distinct /\ Aged
        BY <1>a, <3>1 DEF InPlace
      <4>2. Distinct'
        BY <1>a, <4>1 DEF Distinct
      <4> QED BY <1>a, <3>1, <4>1, <4>2, AgesShift
    <3> QED BY <3>1
  <2> HIDE DEF Late
  <2> QED BY <1>a, <2>1 DEF InPlace, NoRing
<1>b. minute \in Nat /\ Late \in Int /\ minute - minute = 0 /\ Late - Late = 0
  BY LateIs DEF RingTypeOK, Late
<1>c. gateway = "up" => /\ keeper.state # "off"
                        /\ keeper.state = "aligning" => keeper.next \in {minute, minute + 1}
  BY DEF InPlace
<1>d. ASSUME gateway' \in {gateway, "wedged"}, ring' = ring, at' = at,
             keeper' = keeper, minute' = minute
      PROVE  InPlace'
  <2>1. Late' = Late
    BY <1>d DEF Late
  <2> HIDE DEF Late
  <2> QED BY <1>a, <1>b, <1>c, <1>d, <2>1
\* The goroutine turns to its lines, or back: the clock waits.
<1>e. ASSUME gateway' = gateway, ring' = ring, at' = at, minute' = minute,
             Late = 0, Late' = 0, keeper'.state \in {"running", "completed", "writing"}
      PROVE  InPlace'
  <2> HIDE DEF Late
  <2> QED BY <1>a, <1>b, <1>e
<1>0. CASE UNCHANGED ring_vars
  BY <1>0, <1>d DEF ring_vars
<1>1. CASE ClockMoves
  <2>1. /\ gateway' = gateway /\ ring' = ring /\ at' = at /\ minute' = minute + 1
        /\ keeper' = IF keeper.state = "running" THEN [keeper EXCEPT !.due = TRUE] ELSE keeper
    BY <1>1 DEF ClockMoves
  <2>2. ASSUME gateway = "up"
        PROVE  /\ minute' - minute = Late' - Late
               /\ keeper'.state # "off"
               /\ keeper'.state = "aligning" => keeper'.next \in {minute', minute' + 1}
    <3>1. CASE keeper.state = "running"
      <4>1. keeper \in [state : {"running"}, due : BOOLEAN] /\ ~keeper.due
        BY <1>1, <2>2, <3>1 DEF ClockMoves, RingTypeOK, Keeping, Off
      <4>2. keeper'.state = "running" /\ keeper'.due
        BY <2>1, <3>1, <4>1
      <4>3. Late = 0 /\ Late' = 1
        BY <3>1, <4>1, <4>2 DEF Late
      <4> QED BY <1>b, <2>1, <4>2, <4>3
    <3>2. CASE keeper.state # "running"
      <4>1. keeper.state = "aligning"
        BY <1>1, <1>c, <2>2, <3>2 DEF ClockMoves, RingTypeOK, Keeping, Off
      <4>2. keeper.next = minute + 1
        BY <1>1, <1>b, <1>c, <2>2, <4>1 DEF ClockMoves
      <4>3. keeper' = keeper
        BY <2>1, <3>2
      <4>4. Late = -1 /\ Late' = 0
        BY <1>b, <2>1, <4>1, <4>2, <4>3 DEF Late
      <4> QED BY <1>b, <2>1, <4>1, <4>2, <4>3, <4>4
    <3> QED BY <3>1, <3>2
  <2> HIDE DEF Late
  <2> QED BY <1>a, <2>1, <2>2
<1>2. ASSUME NEW k \in Kind, Observe(k) PROVE InPlace'
  BY <1>2, ObservedInPlace
<1>3. ASSUME NEW k \in Kind, ObservePanics(k) PROVE InPlace'
  <2>1. gateway' \in {gateway, "wedged"}
    BY <1>3 DEF ObservePanics
  <2> QED BY <1>3, <1>d, <2>1 DEF ObservePanics
<1>4. CASE Align
  <2>1. keeper.next = minute /\ keeper.state = "aligning"
    BY <1>4, <1>b, <1>c DEF Align
  <2>2. Late = 0 /\ Late' = 0
    BY <1>4, <2>1 DEF Align, Late
  <2> HIDE DEF Late
  <2> QED BY <1>4, <1>e, <2>2 DEF Align
<1>5. CASE Advance
  BY <1>5, AdvancedInPlace
<1>6. CASE OpenJournal
  <2>1. Late = 0 /\ Late' = 0
    BY <1>6 DEF OpenJournal, Late
  <2> HIDE DEF Late
  <2> QED BY <1>6, <1>e, <2>1 DEF OpenJournal
<1>7. CASE WriteLine
  <2>1. Late = 0 /\ Late' = 0
    BY <1>7 DEF WriteLine, Late
  <2> HIDE DEF Late
  <2> QED BY <1>7, <1>e, <2>1 DEF WriteLine
<1>8. ASSUME NEW cut \in BOOLEAN, WriteFails(cut) PROVE InPlace'
  <2>1. Late = 0 /\ Late' = 0
    BY <1>8 DEF WriteFails, Late
  <2> HIDE DEF Late
  <2> QED BY <1>8, <1>e, <2>1 DEF WriteFails
<1>9. ASSUME NEW cut \in BOOLEAN, Crash(cut) PROVE InPlace'
  BY <1>9 DEF Crash, InPlace, NoRing
<1>10. CASE StartTelemetry
  BY <1>10, RestoredInPlace
<1>11. CASE StartUnread
  <2>1. ring' = NoRing /\ gateway' = "up" /\ keeper'.state = "aligning" /\ keeper'.next = minute' + 1
    BY <1>11 DEF StartUnread, InPlace
  <2>2. \A s \in Slot : ring'[s] = NoTick
    BY <2>1 DEF NoRing
  <2>3. at' \in Slot
    BY DEF RingTypeOK
  <2> QED BY <2>1, <2>2, <2>3 DEF InPlace, Distinct, Aged
<1>12. CASE PruneReads
  BY <1>12, <1>d DEF PruneReads
<1>13. CASE PruneRenames
  <2>1. CASE keeper.state = "writing"
    <3>1. keeper'.state = "writing"
      BY <1>13, <2>1 DEF PruneRenames, RingTypeOK, Keeping, Off
    <3>2. Late = 0 /\ Late' = 0
      BY <2>1, <3>1 DEF Late
    <3> HIDE DEF Late
    <3> QED BY <1>13, <1>e, <3>1, <3>2 DEF PruneRenames
  <2>2. CASE keeper.state # "writing"
    BY <1>13, <1>d, <2>2 DEF PruneRenames
  <2> QED BY <2>1, <2>2
<1>14. CASE PruneDies
  BY <1>14, <1>d DEF PruneDies
<1> QED
  BY <1>0, <1>1, <1>2, <1>3, <1>4, <1>5, <1>6, <1>7, <1>8, <1>9, <1>10, <1>11,
     <1>12, <1>13, <1>14 DEF RingNext

----------------------------------------------------------------------------
(* DashboardRing: theorems. *)

LEMMA RingAtFirst == RingInit => RingInv
<1> SUFFICES ASSUME RingInit PROVE RingInv
  OBVIOUS
<1> USE DEF RingInit
<1>1. OnFile = {} /\ RingLines = {} /\ KeeperLines = {} /\ PrunerLines = {}
  BY DEF OnFile, LinesOf, RingLines, NoRing, KeeperLines, PrunerLines, Off
<1>2. RingTypeOK
  BY RingAssumption DEF RingAssumption, RingTypeOK, NoRing, Slot, Keeping, Pruning, File, Off
<1>3. CountedOnce
  BY <1>1 DEF CountedOnce, Carried
<1>4. JournalHolds
  BY <1>1 DEF JournalHolds, Holds
<1>5. InPlace
  BY DEF InPlace
<1> QED BY <1>2, <1>3, <1>4, <1>5 DEF RingInv

LEMMA RingInvKept == RingInv /\ [RingNext]_ring_vars => RingInv'
<1> SUFFICES ASSUME RingInv, [RingNext]_ring_vars PROVE RingInv'
  OBVIOUS
<1>1. RingTypeOK'
  BY RingTypeStep DEF RingInv
<1> QED BY <1>1, CountedStep, HoldsStep, InPlaceStep DEF RingInv

LEMMA RingInvAlways == RingSpec => []RingInv
BY RingAtFirst, RingInvKept, PTL DEF RingSpec

\* What the invariants say of the journal a restart would find.
LEMMA KeptByJournal ==
    ASSUME RingInv
    PROVE  KeptUnlessRaced
<1>1. journal \in File /\ minute \in Nat
  BY DEF RingInv, RingTypeOK
<1>2. Replayed \subseteq OnFile /\ \A k, l \in Replayed : k.start = l.start => k = l
  BY <1>1, ReplayedIs
<1>3. Holds(Replayed)
  BY <1>1, ReplayHolds DEF RingInv, JournalHolds
<1>4. ASSUME NEW l \in written \ raced, InWindow(l.start)
      PROVE  \E m \in Replayed \cap written : m.start = l.start
  BY <1>3, <1>4 DEF Holds
<1>5. ASSUME NEW k \in Replayed, NEW l \in Replayed, k # l
      PROVE  k.obs \cap l.obs = {}
  BY <1>2, <1>5 DEF RingInv, CountedOnce, Carried
<1> QED BY <1>4, <1>5 DEF KeptUnlessRaced

\* A minute whose line was appended is read back by the next restart, or a
\* later line of that minute is, through torn lines, crashes and prunes, and no
\* observation is read back from two minutes (replayDashboardJournal,
\* appendDashboardJournal, pruneDashboardJournal): for any length of the ring
\* and any run of the clock.
THEOREM JournalKeepsMinutes == RingSpec => []KeptUnlessRaced
BY RingInvAlways, KeptByJournal, PTL

\* The ith position from the current one is the slot that was current i
\* positions ago, and no other position is that slot.
LEMMA Positions ==
    ASSUME RingTypeOK
    PROVE  /\ \A i \in Slot : \E s \in Slot : Position(i) = ring[s] /\ Back(s) = i
           /\ \A s, t \in Slot : Back(s) = Back(t) => s = t
<1>1. /\ RingLen \in Nat /\ RingLen >= 2 /\ at \in Nat /\ at < RingLen
  BY RingAssumption DEF RingAssumption, RingTypeOK, Slot
<1>2. ASSUME NEW i \in Slot
      PROVE  \E s \in Slot : Position(i) = ring[s] /\ Back(s) = i
  <2>1. i \in Nat /\ i < RingLen
    BY <1>1 DEF Slot
  <2> DEFINE s == (at - i + RingLen) % RingLen
  <2>2. s = IF at - i + RingLen < RingLen THEN at - i + RingLen ELSE at - i
    <3>1. PICK a \in 0 .. 2 * RingLen - 1 : a = at - i + RingLen
      BY <1>1, <2>1
    <3>2. RingLen \in Nat \ {0}
      BY <1>1
    <3>3. a % RingLen = IF a < RingLen THEN a ELSE a - RingLen
      BY <3>2, WithinTwoTurns
    <3> QED BY <1>1, <2>1, <3>1, <3>3
  <2>3. Position(i) = ring[s]
    BY DEF Position
  <2> HIDE DEF s
  <2>4. s \in Slot /\ Back(s) = i
    BY <1>1, <2>1, <2>2 DEF Slot, Back
  <2> QED BY <2>3, <2>4
<1>3. ASSUME NEW s \in Slot, NEW t \in Slot, Back(s) = Back(t) PROVE s = t
  BY <1>1, <1>3 DEF Slot, Back
<1> QED BY <1>2, <1>3

LEMMA RecentInPlace ==
    ASSUME RingInv
    PROVE  WindowIsRecent
<1> SUFFICES ASSUME gateway = "up"
             PROVE  /\ \A i, j \in Slot : i # j => PositionObs(i) \cap PositionObs(j) = {}
                    /\ \A n \in 1 .. RingLen :
                        /\ \A o \in Counted(n) : Age(o) <= n + 1
                        /\ \A o \in AllObs \ Counted(n) : Age(o) >= n - 2
  BY DEF WindowIsRecent
<1> HIDE DEF Late, Back
<1>1. /\ RingLen \in Nat /\ RingLen >= 2 /\ Late \in {-1, 0, 1} /\ minute \in Nat
      /\ Slot = 0 .. RingLen - 1 /\ RingTypeOK
  BY RingAssumption, LateIs DEF RingAssumption, RingInv, RingTypeOK, Slot
<1>2. Distinct /\ Aged
  BY DEF RingInv, InPlace
<1>3. ASSUME NEW i \in Slot
      PROVE  \E s \in Slot : Position(i) = ring[s] /\ Back(s) = i
  BY <1>1, Positions
<1>4. ASSUME NEW i \in Slot, NEW j \in Slot, i # j
      PROVE  PositionObs(i) \cap PositionObs(j) = {}
  <2>1. PICK s \in Slot : Position(i) = ring[s] /\ Back(s) = i
    BY <1>3
  <2>2. PICK t \in Slot : Position(j) = ring[t] /\ Back(t) = j
    BY <1>3
  <2>3. s # t
    BY <1>4, <2>1, <2>2
  <2> QED BY <1>2, <2>1, <2>2, <2>3 DEF Distinct, PositionObs
<1>5. ASSUME NEW i \in Slot, NEW o \in PositionObs(i)
      PROVE  Age(o) \in Int /\ i - 2 <= Age(o) /\ Age(o) <= i + 2
  <2>1. PICK s \in Slot : Position(i) = ring[s] /\ Back(s) = i
    BY <1>3
  <2>2. ring[s] # NoTick /\ o \in ring[s].obs
    BY <1>5, <2>1 DEF PositionObs
  <2>3. i - 1 + Late <= Age(o) /\ Age(o) <= i + 1 + Late
    BY <1>2, <2>1, <2>2 DEF Aged
  <2>4. Age(o) \in Int
    BY <1>1, <2>2, ObservedAt DEF Age
  <2>5. i \in Int
    BY <1>1
  <2> HIDE DEF Age
  <2> QED BY <1>1, <2>3, <2>4, <2>5
<1> HIDE DEF Age
<1>6. ASSUME NEW n \in 1 .. RingLen, NEW o \in Counted(n)
      PROVE  Age(o) <= n + 1
  <2>1. PICK i \in 0 .. n - 1 : o \in PositionObs(i)
    BY DEF Counted
  <2>2. i \in Slot /\ i \in Int /\ n \in Int /\ i <= n - 1
    BY <1>1
  <2> QED BY <1>5, <2>1, <2>2
<1>7. ASSUME NEW n \in 1 .. RingLen, NEW o \in AllObs \ Counted(n)
      PROVE  Age(o) >= n - 2
  <2>1. PICK i \in 0 .. RingLen - 1 : o \in PositionObs(i)
    BY DEF AllObs, Counted
  <2>2. i \in Slot /\ i \in Int /\ n \in Int
    BY <1>1
  <2>3. i >= n
    <3>1. i \notin 0 .. n - 1
      BY <1>7, <2>1 DEF Counted
    <3> QED BY <1>1, <2>2, <3>1
  <2> QED BY <1>5, <2>1, <2>2, <2>3
<1> QED BY <1>4, <1>6, <1>7

\* A dashboard of n minutes counts nothing older than n + 1 minutes, leaves out
\* nothing the ring has of the last n - 2, and counts nothing twice
\* (DashboardQuery, advanceRingTickLocked, restoreDashboardJournalLocked): for
\* any length of the ring, with slots reused any number of turns, late ticks
\* and restarts.
THEOREM DashboardWindows == RingSpec => []WindowIsRecent
BY RingInvAlways, RecentInPlace, PTL

=============================================================================
