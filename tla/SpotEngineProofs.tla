-------------------------- MODULE SpotEngineProofs --------------------------
(***************************************************************************)
(* The engine keeps its book and its order store in step and gives every   *)
(* order exactly one fate, for every number of users, prices, quantities   *)
(* and orders.                                                             *)
(*                                                                         *)
(* The invariant IInv is inductive.  BookConsistent alone is not: that a   *)
(* maker can be removed needs the maker's level, that a taker can be       *)
(* placed needs that it is not on a level yet, and that a partly filled    *)
(* maker may stay needs the quantities of OneFate.  It rests on what the   *)
(* book's two operations return: what is on a level after an append or a   *)
(* removal, and that the cached best price stays the extreme one.          *)
(*                                                                         *)
(* Price-time priority, and that a book of limit orders is not crossed,    *)
(* need PriorityInv in addition: no stored bid reaches a stored ask also   *)
(* while an order is matched, a queue is in the order of arrival, and the  *)
(* taker arrived last.                                                     *)
(*                                                                         *)
(* That balances and escrow are explained by the orders needs what a sum   *)
(* over orders does when one term changes or one order is added (Sums),    *)
(* what each operation of the BalanceManager moves, and that a trade       *)
(* changes one bid and one ask while every sum is over one side.           *)
(*                                                                         *)
(* The read models add up the events of a queue.  Climbs, at the end, do   *)
(* this without recursion: heights that rise by the weight of each element *)
(* of a sequence.  A climb can be lengthened, joined to another one and    *)
(* shortened at its start, which is what queues do.                        *)
(***************************************************************************)
EXTENDS SpotEngine, TLAPS, SequenceTheorems, FiniteSetTheorems,
        WellFoundedInduction

-----------------------------------------------------------------------------
(***************************************************************************)
(* Extreme prices.                                                         *)
(***************************************************************************)

\* A set of natural numbers that is not empty has a least element.
LEMMA LeastNatural ==
    ASSUME NEW T, T \subseteq Nat, T # {}
    PROVE  \E x \in T : \A y \in T : x <= y
<1> DEFINE R == OpToRel(<, Nat)
<1>1. IsWellFoundedOn(R, Nat)
  BY NatLessThanWellFounded
<1>2. \A m, n \in Nat : m < n => <<m, n>> \in R
  BY Zenon DEF OpToRel
<1> HIDE DEF R
<1>3. PICK x \in T : \A y \in T : ~ (<<y, x>> \in R)
  BY <1>1, WFMin
<1>4. ASSUME NEW y \in T PROVE x <= y
  <2>1. x \in Nat /\ y \in Nat
    OBVIOUS
  <2>2. ~ (y < x)
    BY <1>2, <1>3, <2>1, Zenon
  <2>. QED  BY <2>1, <2>2
<1>. QED  BY <1>3, <1>4

\* A set of ticks that is not empty has a greatest element.
LEMMA GreatestTick ==
    ASSUME NEW T, T \subseteq Prices, T # {}
    PROVE  \E x \in T : \A y \in T : x >= y
<1> DEFINE U == {u \in Nat : \A y \in T : y <= u}
<1>1. MaxPrice \in U
  BY MaxPriceAssumption DEF Prices
<1>2. PICK x \in U : \A y \in U : x <= y
  <2>1. U \subseteq Nat
    OBVIOUS
  <2> HIDE DEF U
  <2>. QED  BY <1>1, <2>1, LeastNatural
<1>3. x \in T
  <2>1. SUFFICES ASSUME x \notin T PROVE FALSE
    OBVIOUS
  <2>2. PICK z \in T : TRUE
    OBVIOUS
  <2>3. \A y \in T : y \in Nat /\ y >= 1 /\ y < x
    BY <2>1 DEF Prices
  <2>4. x - 1 \in Nat /\ \A y \in T : y <= x - 1
    BY <2>2, <2>3
  <2>. QED  BY <1>2, <2>4
<1>. QED  BY <1>2, <1>3 DEF Prices

\* Extremum is None for no prices and the best of them otherwise.
LEMMA ExtremumIsBest ==
    ASSUME NEW s \in Sides, NEW P, P \subseteq Prices
    PROVE  /\ P = {} => Extremum(s, P) = NoPrice
           /\ P # {} => /\ Extremum(s, P) \in P
                        /\ \A q \in P : q = Extremum(s, P)
                                        \/ Better(s, Extremum(s, P), q)
<1>1. CASE P = {}
  BY <1>1 DEF Extremum
<1>2. CASE P # {}
  <2>1. P \subseteq Nat /\ \A q \in P : q \in Nat
    BY MaxPriceAssumption DEF Prices
  <2>2. CASE s = "bid"
    <3>1. Max(P) \in P /\ \A y \in P : Max(P) >= y
      BY <1>2, GreatestTick DEF Max
    <3>2. Extremum(s, P) = Max(P)
      BY <1>2, <2>2 DEF Extremum
    <3>3. ASSUME NEW q \in P PROVE q = Max(P) \/ Better(s, Max(P), q)
      <4>1. q \in Nat /\ Max(P) \in Nat
        BY <2>1, <3>1
      <4>. QED  BY <2>2, <3>1, <4>1 DEF Better
    <3>. QED  BY <1>2, <3>1, <3>2, <3>3
  <2>3. CASE s # "bid"
    <3>1. Min(P) \in P /\ \A y \in P : Min(P) <= y
      BY <1>2, <2>1, LeastNatural DEF Min
    <3>2. Extremum(s, P) = Min(P)
      BY <1>2, <2>3 DEF Extremum
    <3>3. ASSUME NEW q \in P PROVE q = Min(P) \/ Better(s, Min(P), q)
      <4>1. q \in Nat /\ Min(P) \in Nat
        BY <2>1, <3>1
      <4>. QED  BY <2>3, <3>1, <4>1 DEF Better
    <3>. QED  BY <1>2, <3>1, <3>2, <3>3
  <2>. QED  BY <2>2, <2>3
<1>. QED  BY <1>1, <1>2

\* The best of a set of prices is determined by being the best.
LEMMA BestIsUnique ==
    ASSUME NEW s \in Sides, NEW P, P \subseteq Prices,
           NEW e \in P, \A q \in P : q = e \/ Better(s, e, q)
    PROVE  Extremum(s, P) = e
<1>1. /\ Extremum(s, P) \in P
      /\ \A q \in P : q = Extremum(s, P) \/ Better(s, Extremum(s, P), q)
  BY ExtremumIsBest
<1>2. \A q \in P : q \in Nat
  BY MaxPriceAssumption DEF Prices
<1>. QED  BY <1>1, <1>2 DEF Better

\* What RemoveAt leaves of a queue.
LEMMA RemoveAtProperties ==
    ASSUME NEW S, NEW s \in Seq(S), NEW i \in 1 .. Len(s)
    PROVE  /\ RemoveAt(s, i) \in Seq(S)
           /\ Len(RemoveAt(s, i)) = Len(s) - 1
           /\ \A j \in 1 .. (Len(s) - 1) :
                 RemoveAt(s, i)[j] = IF j < i THEN s[j] ELSE s[j + 1]
<1> DEFINE a == SubSeq(s, 1, i - 1)
           b == SubSeq(s, i + 1, Len(s))
<1>1. a \in Seq(S) /\ Len(a) = i - 1 /\ \A j \in 1 .. (i - 1) : a[j] = s[j]
  OBVIOUS
<1>2. /\ b \in Seq(S) /\ Len(b) = Len(s) - i
      /\ \A j \in 1 .. (Len(s) - i) : b[j] = s[i + j]
  OBVIOUS
<1>3. RemoveAt(s, i) = a \o b
  BY DEF RemoveAt
<1> HIDE DEF a, b
<1>4. /\ (a \o b) \in Seq(S)
      /\ Len(a \o b) = Len(a) + Len(b)
      /\ \A j \in 1 .. Len(a) + Len(b) :
            (a \o b)[j] = IF j <= Len(a) THEN a[j] ELSE b[j - Len(a)]
  BY <1>1, <1>2, ConcatProperties
<1>5. ASSUME NEW j \in 1 .. (Len(s) - 1)
      PROVE  (a \o b)[j] = IF j < i THEN s[j] ELSE s[j + 1]
  <2>1. CASE j < i
    BY <1>1, <1>2, <1>4, <2>1
  <2>2. CASE ~(j < i)
    <3>1. (a \o b)[j] = b[j - (i - 1)]
      BY <1>1, <1>2, <1>4, <2>2
    <3>. QED  BY <1>2, <2>2, <3>1
  <2>. QED  BY <2>1, <2>2
<1>6. Len(a \o b) = Len(s) - 1
  BY <1>1, <1>2, <1>4
<1>7. \A j \in 1 .. (Len(s) - 1) :
          (a \o b)[j] = IF j < i THEN s[j] ELSE s[j + 1]
  BY <1>5
<1>. QED  BY <1>3, <1>4, <1>6, <1>7, Zenon

-----------------------------------------------------------------------------
(***************************************************************************)
(* OrderBook.append.                                                       *)
(***************************************************************************)

\* append adds the order at the end of one level and leaves the others alone.
LEMMA AppendLevels ==
    ASSUME NEW b \in Books, NEW s \in Sides, NEW p \in Prices,
           NEW o \in OrderIds
    PROVE  /\ AppendOrder(b, s, p, o) \in Books
           /\ AppendOrder(b, s, p, o).level[s][p] = Append(b.level[s][p], o)
           /\ \A s2 \in Sides, p2 \in Prices : ~(s2 = s /\ p2 = p) =>
                 AppendOrder(b, s, p, o).level[s2][p2] = b.level[s2][p2]
           /\ \A s2 \in Sides : s2 # s =>
                 AppendOrder(b, s, p, o).best[s2] = b.best[s2]
           /\ AppendOrder(b, s, p, o).best[s] =
                 IF b.best[s] = NoPrice \/ Better(s, p, b.best[s])
                 THEN p ELSE b.best[s]
<1>1. /\ b.level \in [Sides -> [Prices -> Seq(OrderIds)]]
      /\ b.best \in [Sides -> Prices \cup {NoPrice}]
  BY DEF Books
<1>2. Append(b.level[s][p], o) \in Seq(OrderIds)
  BY <1>1
<1>3. [b.level EXCEPT ![s][p] = Append(@, o)]
         \in [Sides -> [Prices -> Seq(OrderIds)]]
  BY <1>1, <1>2
<1>. QED  BY <1>1, <1>3 DEF AppendOrder, Books, Enqueue

\* append puts one order on one level.
LEMMA AppendOnLevel ==
    ASSUME NEW b \in Books, NEW s \in Sides, NEW p \in Prices,
           NEW o \in OrderIds,
           NEW s2 \in Sides, NEW p2 \in Prices, NEW x \in OrderIds
    PROVE  OnLevel(AppendOrder(b, s, p, o), s2, p2, x) <=>
              OnLevel(b, s2, p2, x) \/ (s2 = s /\ p2 = p /\ x = o)
<1> DEFINE q == b.level[s][p]
<1>1. q \in Seq(OrderIds)
  BY DEF Books
<1>2. /\ Append(q, o) \in Seq(OrderIds)
      /\ Len(Append(q, o)) = Len(q) + 1
      /\ \A i \in 1 .. Len(q) : Append(q, o)[i] = q[i]
      /\ Append(q, o)[Len(q) + 1] = o
  BY <1>1, AppendProperties
<1>3. DOMAIN Append(q, o) = 1 .. (Len(q) + 1) /\ DOMAIN q = 1 .. Len(q)
  BY <1>1, <1>2
<1>4. Len(q) \in Nat
  BY <1>1
<1>5. (\E i \in DOMAIN Append(q, o) : Append(q, o)[i] = x)
        <=> (\E i \in DOMAIN q : q[i] = x) \/ x = o
  <2> HIDE DEF q
  <2>. QED  BY <1>2, <1>3, <1>4
<1>6. CASE s2 = s /\ p2 = p
  <2>1. AppendOrder(b, s, p, o).level[s][p] = Append(q, o)
    BY AppendLevels
  <2>2. OnLevel(AppendOrder(b, s, p, o), s, p, x) <=> OnLevel(b, s, p, x) \/ x = o
    BY <1>5, <2>1 DEF OnLevel
  <2>. QED  BY <1>6, <2>2
<1>7. CASE ~(s2 = s /\ p2 = p)
  <2>1. AppendOrder(b, s, p, o).level[s2][p2] = b.level[s2][p2]
    BY <1>7, AppendLevels
  <2>. QED  BY <1>7, <2>1 DEF OnLevel
<1>. QED  BY <1>6, <1>7

\* A price has a level exactly when some order is on it.
LEMMA QuotesOnLevel ==
    ASSUME NEW b \in Books, NEW s \in Sides, NEW p \in Prices
    PROVE  p \in Quotes(b, s) <=> \E x \in OrderIds : OnLevel(b, s, p, x)
<1>1. b.level[s][p] \in Seq(OrderIds)
  BY DEF Books
<1>2. b.level[s][p] # << >> <=>
         \E i \in DOMAIN b.level[s][p] : b.level[s][p][i] \in OrderIds
  BY <1>1
<1>. QED  BY <1>2 DEF Quotes, OnLevel

\* append keeps the cached best prices in step with the levels.
LEMMA AppendKeepsBest ==
    ASSUME NEW b \in Books, NEW s \in Sides, NEW p \in Prices,
           NEW o \in OrderIds, BestIsExtremum(b)
    PROVE  BestIsExtremum(AppendOrder(b, s, p, o))
<1> DEFINE c == AppendOrder(b, s, p, o)
<1>1. SUFFICES ASSUME NEW s2 \in Sides
               PROVE  c.best[s2] = Extremum(s2, Quotes(c, s2))
  BY DEF BestIsExtremum
<1>2. c \in Books
  BY AppendLevels
<1>3. b.best[s2] = Extremum(s2, Quotes(b, s2))
  BY DEF BestIsExtremum
<1>4. \A p2 \in Prices :
         p2 \in Quotes(c, s2) <=> p2 \in Quotes(b, s2) \/ (s2 = s /\ p2 = p)
  BY <1>2, AppendOnLevel, QuotesOnLevel
<1>5. Quotes(c, s2) \subseteq Prices /\ Quotes(b, s2) \subseteq Prices
  BY DEF Quotes
<1>6. CASE s2 # s
  <2>1. Quotes(c, s2) = Quotes(b, s2)
    BY <1>4, <1>5, <1>6
  <2>. QED  BY <1>3, <1>6, <2>1, AppendLevels
<1>7. CASE s2 = s
  <2>1. c.best[s] = IF b.best[s] = NoPrice \/ Better(s, p, b.best[s])
                    THEN p ELSE b.best[s]
    BY AppendLevels
  <2> HIDE DEF c
  <2>2. \A q \in Prices : q \in Nat /\ q # NoPrice
    BY MaxPriceAssumption DEF Prices, NoPrice
  <2>3. CASE Quotes(b, s) = {}
    <3>1. Quotes(c, s) = {p}
      BY <1>4, <1>5, <1>7, <2>3
    <3>2. Extremum(s, {p}) = p
      BY BestIsUnique
    <3>3. b.best[s] = NoPrice
      BY <1>3, <1>7, <2>3, ExtremumIsBest
    <3>. QED  BY <1>7, <2>1, <3>1, <3>2, <3>3
  <2>4. CASE Quotes(b, s) # {}
    <3> DEFINE e == b.best[s]
    <3>1. e \in Quotes(b, s) /\ \A q \in Quotes(b, s) : q = e \/ Better(s, e, q)
      BY <1>3, <1>5, <1>7, <2>4, ExtremumIsBest
    <3>2. e \in Prices /\ e # NoPrice
      BY <1>5, <1>7, <2>2, <3>1
    <3> HIDE DEF e
    <3>3. c.best[s] = IF Better(s, p, e) THEN p ELSE e
      BY <2>1, <3>2 DEF e
    <3>4. \A q \in Quotes(c, s) : q = p \/ q \in Quotes(b, s)
      BY <1>4, <1>5, <1>7
    <3>5. p \in Quotes(c, s) /\ e \in Quotes(c, s)
      BY <1>4, <1>7, <3>1, <3>2
    <3>6. ASSUME NEW q \in Quotes(c, s)
          PROVE  q = c.best[s] \/ Better(s, c.best[s], q)
      <4>1. q \in Nat /\ p \in Nat /\ e \in Nat
        BY <1>5, <1>7, <2>2, <3>2
      <4>. QED  BY <3>1, <3>3, <3>4, <4>1 DEF Better
    <3>7. c.best[s] \in Quotes(c, s)
      BY <3>3, <3>5
    <3>. QED  BY <1>5, <1>7, <3>6, <3>7, BestIsUnique
  <2>. QED  BY <2>3, <2>4
<1>. QED  BY <1>6, <1>7

\* append does not put an order twice on a level.
LEMMA AppendKeepsDistinct ==
    ASSUME NEW b \in Books, NEW s \in Sides, NEW p \in Prices,
           NEW o \in OrderIds, NoDuplicates(b), ~OnLevel(b, s, p, o)
    PROVE  NoDuplicates(AppendOrder(b, s, p, o))
<1> DEFINE c == AppendOrder(b, s, p, o)
<1>1. SUFFICES ASSUME NEW s2 \in Sides, NEW p2 \in Prices,
                      NEW i \in DOMAIN c.level[s2][p2],
                      NEW j \in DOMAIN c.level[s2][p2],
                      c.level[s2][p2][i] = c.level[s2][p2][j]
               PROVE  i = j
  BY DEF NoDuplicates
<1>2. CASE ~(s2 = s /\ p2 = p)
  <2>1. c.level[s2][p2] = b.level[s2][p2]
    BY <1>2, AppendLevels
  <2>. QED  BY <1>1, <2>1 DEF NoDuplicates
<1>3. CASE s2 = s /\ p2 = p
  <2> DEFINE q == b.level[s][p]
  <2>1. q \in Seq(OrderIds)
    BY DEF Books
  <2>2. /\ Append(q, o) \in Seq(OrderIds)
        /\ Len(Append(q, o)) = Len(q) + 1
        /\ \A k \in 1 .. Len(q) : Append(q, o)[k] = q[k]
        /\ Append(q, o)[Len(q) + 1] = o
    BY <2>1, AppendProperties
  <2>3. c.level[s2][p2] = Append(q, o)
    <3>1. c.level[s][p] = Append(q, o)
      BY AppendLevels
    <3>. QED  BY <1>3, <3>1
  <2>4. \A k, l \in 1 .. Len(q) : q[k] = q[l] => k = l
    BY <2>1 DEF NoDuplicates
  <2>5. \A k \in 1 .. Len(q) : q[k] # o
    BY <2>1 DEF OnLevel
  <2>6. i \in 1 .. (Len(q) + 1) /\ j \in 1 .. (Len(q) + 1) /\ Len(q) \in Nat
    BY <2>1, <2>2, <2>3
  <2>7. Append(q, o)[i] = Append(q, o)[j]
    BY <1>1, <2>3
  <2> HIDE DEF q
  <2>. QED  BY <2>2, <2>4, <2>5, <2>6, <2>7
<1>. QED  BY <1>2, <1>3

-----------------------------------------------------------------------------
(***************************************************************************)
(* OrderBook.remove, of an order that is on the level.                     *)
(***************************************************************************)

\* The position that PriceLevel's tracker gives.
LEMMA PositionOnLevel ==
    ASSUME NEW b \in Books, NEW s \in Sides, NEW p \in Prices,
           NEW o \in OrderIds, OnLevel(b, s, p, o)
    PROVE  /\ Position(b.level[s][p], o) \in 1 .. Len(b.level[s][p])
           /\ b.level[s][p][Position(b.level[s][p], o)] = o
<1>1. b.level[s][p] \in Seq(OrderIds)
  BY DEF Books
<1>2. \E i \in DOMAIN b.level[s][p] : b.level[s][p][i] = o
  BY DEF OnLevel
<1>. QED  BY <1>1, <1>2 DEF Position

\* The queue that is left of a level.
LEMMA DequeueSeq ==
    ASSUME NEW b \in Books, NEW s \in Sides, NEW p \in Prices,
           NEW o \in OrderIds, OnLevel(b, s, p, o)
    PROVE  Dequeue(b.level[s][p], o) \in Seq(OrderIds)
<1>1. b.level[s][p] \in Seq(OrderIds)
  BY DEF Books
<1>. QED  BY <1>1, PositionOnLevel, RemoveAtProperties DEF Dequeue

\* remove takes the order out of one level and leaves the others alone.
LEMMA RemoveLevels ==
    ASSUME NEW b \in Books, NEW s \in Sides, NEW p \in Prices,
           NEW o \in OrderIds, OnLevel(b, s, p, o)
    PROVE  /\ RemoveOrder(b, s, p, o) \in Books
           /\ RemoveOrder(b, s, p, o).level[s][p] = Dequeue(b.level[s][p], o)
           /\ \A s2 \in Sides, p2 \in Prices : ~(s2 = s /\ p2 = p) =>
                 RemoveOrder(b, s, p, o).level[s2][p2] = b.level[s2][p2]
<1> DEFINE rest == Dequeue(b.level[s][p], o)
           e == Extremum(s, Quotes(b, s) \ {p})
<1>1. /\ b.level \in [Sides -> [Prices -> Seq(OrderIds)]]
      /\ b.best \in [Sides -> Prices \cup {NoPrice}]
  BY DEF Books
<1>2. rest \in Seq(OrderIds)
  BY DequeueSeq
<1>3. e \in Prices \cup {NoPrice}
  <2>1. Quotes(b, s) \ {p} \subseteq Prices
    BY DEF Quotes
  <2>. QED  BY <2>1, ExtremumIsBest
<1>4. RemoveOrder(b, s, p, o) =
        [level |-> [b.level EXCEPT ![s][p] = rest],
         best  |-> [b.best EXCEPT ![s] =
                       IF rest = << >> /\ p = Extremum(s, Quotes(b, s))
                       THEN e ELSE @]]
  BY DEF RemoveOrder
<1> HIDE DEF rest, e
<1>5. [b.level EXCEPT ![s][p] = rest] \in [Sides -> [Prices -> Seq(OrderIds)]]
  BY <1>1, <1>2
<1>6. [b.best EXCEPT ![s] = IF rest = << >> /\ p = Extremum(s, Quotes(b, s))
                            THEN e ELSE @] \in [Sides -> Prices \cup {NoPrice}]
  BY <1>1, <1>3
<1>7. RemoveOrder(b, s, p, o) \in Books
  BY <1>4, <1>5, <1>6 DEF Books
<1>8. RemoveOrder(b, s, p, o).level[s][p] = rest
  BY <1>1, <1>4
<1>9. \A s2 \in Sides, p2 \in Prices : ~(s2 = s /\ p2 = p) =>
         RemoveOrder(b, s, p, o).level[s2][p2] = b.level[s2][p2]
  BY <1>1, <1>4
<1>. QED  BY <1>7, <1>8, <1>9 DEF rest

\* remove moves the cached best price of its side, and only when it empties
\* the extreme level.
LEMMA RemoveBest ==
    ASSUME NEW b \in Books, NEW s \in Sides, NEW p \in Prices,
           NEW o \in OrderIds, OnLevel(b, s, p, o)
    PROVE  /\ \A s2 \in Sides : s2 # s =>
                 RemoveOrder(b, s, p, o).best[s2] = b.best[s2]
           /\ Dequeue(b.level[s][p], o) # << >> \/ p # Extremum(s, Quotes(b, s))
                 => RemoveOrder(b, s, p, o).best[s] = b.best[s]
           /\ Dequeue(b.level[s][p], o) = << >> /\ p = Extremum(s, Quotes(b, s))
                 => RemoveOrder(b, s, p, o).best[s] =
                       Extremum(s, Quotes(b, s) \ {p})
<1> DEFINE rest == Dequeue(b.level[s][p], o)
           e == Extremum(s, Quotes(b, s) \ {p})
<1>1. b.best \in [Sides -> Prices \cup {NoPrice}]
  BY DEF Books
<1>2. RemoveOrder(b, s, p, o).best =
        [b.best EXCEPT ![s] = IF rest = << >> /\ p = Extremum(s, Quotes(b, s))
                              THEN e ELSE @]
  BY DEF RemoveOrder
<1> HIDE DEF rest, e
<1>3. \A s2 \in Sides : s2 # s => RemoveOrder(b, s, p, o).best[s2] = b.best[s2]
  BY <1>1, <1>2
<1>4. rest # << >> \/ p # Extremum(s, Quotes(b, s))
         => RemoveOrder(b, s, p, o).best[s] = b.best[s]
  BY <1>1, <1>2
<1>5. rest = << >> /\ p = Extremum(s, Quotes(b, s))
         => RemoveOrder(b, s, p, o).best[s] = e
  BY <1>1, <1>2
<1>. QED  BY <1>3, <1>4, <1>5 DEF rest, e

\* remove takes one order off one level, if no order is twice on it.
LEMMA RemoveOnLevel ==
    ASSUME NEW b \in Books, NEW s \in Sides, NEW p \in Prices,
           NEW o \in OrderIds, OnLevel(b, s, p, o), NoDuplicates(b),
           NEW s2 \in Sides, NEW p2 \in Prices, NEW x \in OrderIds
    PROVE  OnLevel(RemoveOrder(b, s, p, o), s2, p2, x) <=>
              OnLevel(b, s2, p2, x) /\ ~(s2 = s /\ p2 = p /\ x = o)
<1> DEFINE c == RemoveOrder(b, s, p, o)
           q == b.level[s][p]
           k == Position(q, o)
           r == Dequeue(q, o)
<1>1. q \in Seq(OrderIds) /\ k \in 1 .. Len(q) /\ q[k] = o
  <2>1. q \in Seq(OrderIds)
    BY DEF Books
  <2>. QED  BY <2>1, PositionOnLevel
<1>2. /\ r \in Seq(OrderIds) /\ Len(r) = Len(q) - 1
      /\ \A j \in 1 .. (Len(q) - 1) : r[j] = IF j < k THEN q[j] ELSE q[j + 1]
  BY <1>1, RemoveAtProperties DEF Dequeue
<1>3. \A i, j \in 1 .. Len(q) : q[i] = q[j] => i = j
  BY <1>1 DEF NoDuplicates
<1>4. c.level[s][p] = r
  BY RemoveLevels
<1>5. DOMAIN q = 1 .. Len(q) /\ DOMAIN r = 1 .. (Len(q) - 1) /\ Len(q) \in Nat
  BY <1>1, <1>2
<1>6. CASE s2 = s /\ p2 = p
  <2> HIDE DEF q, k, r
  <2>1. ASSUME NEW j \in 1 .. (Len(q) - 1)
        PROVE  \E i \in 1 .. Len(q) : q[i] = r[j] /\ q[i] # o
    <3>1. CASE j < k
      <4>1. j \in 1 .. Len(q) /\ r[j] = q[j] /\ j # k
        BY <1>1, <1>2, <1>5, <3>1
      <4>. QED  BY <1>1, <1>3, <4>1
    <3>2. CASE ~(j < k)
      <4>1. j + 1 \in 1 .. Len(q) /\ r[j] = q[j + 1] /\ j + 1 # k
        BY <1>1, <1>2, <1>5, <3>2
      <4>. QED  BY <1>1, <1>3, <4>1
    <3>. QED  BY <3>1, <3>2
  <2>2. ASSUME NEW i \in 1 .. Len(q), q[i] # o
        PROVE  \E j \in 1 .. (Len(q) - 1) : r[j] = q[i]
    <3>1. CASE i < k
      <4>1. i \in 1 .. (Len(q) - 1) /\ r[i] = q[i]
        BY <1>1, <1>2, <1>5, <3>1
      <4>. QED  BY <4>1
    <3>2. CASE ~(i < k)
      <4>1. i # k
        BY <1>1, <2>2
      <4>2. i - 1 \in 1 .. (Len(q) - 1) /\ r[i - 1] = q[(i - 1) + 1]
        BY <1>1, <1>2, <1>5, <3>2, <4>1
      <4>3. (i - 1) + 1 = i
        OBVIOUS
      <4>. QED  BY <4>2, <4>3
    <3>. QED  BY <3>1, <3>2
  <2>3. (\E j \in DOMAIN r : r[j] = x) <=> (\E i \in DOMAIN q : q[i] = x) /\ x # o
    BY <1>5, <2>1, <2>2
  <2>4. OnLevel(c, s, p, x) <=> OnLevel(b, s, p, x) /\ x # o
    BY <1>4, <2>3 DEF OnLevel, q
  <2>. QED  BY <1>6, <2>4
<1>7. CASE ~(s2 = s /\ p2 = p)
  <2>1. c.level[s2][p2] = b.level[s2][p2]
    BY <1>7, RemoveLevels
  <2>. QED  BY <1>7, <2>1 DEF OnLevel
<1>. QED  BY <1>6, <1>7

\* remove does not put an order twice on a level.
LEMMA RemoveKeepsDistinct ==
    ASSUME NEW b \in Books, NEW s \in Sides, NEW p \in Prices,
           NEW o \in OrderIds, OnLevel(b, s, p, o), NoDuplicates(b)
    PROVE  NoDuplicates(RemoveOrder(b, s, p, o))
<1> DEFINE c == RemoveOrder(b, s, p, o)
<1>1. SUFFICES ASSUME NEW s2 \in Sides, NEW p2 \in Prices,
                      NEW i \in DOMAIN c.level[s2][p2],
                      NEW j \in DOMAIN c.level[s2][p2],
                      c.level[s2][p2][i] = c.level[s2][p2][j]
               PROVE  i = j
  BY DEF NoDuplicates
<1>2. CASE ~(s2 = s /\ p2 = p)
  <2>1. c.level[s2][p2] = b.level[s2][p2]
    BY <1>2, RemoveLevels
  <2>. QED  BY <1>1, <2>1 DEF NoDuplicates
<1>3. CASE s2 = s /\ p2 = p
  <2> DEFINE q == b.level[s][p]
             k == Position(q, o)
             r == Dequeue(q, o)
  <2>1. q \in Seq(OrderIds) /\ k \in 1 .. Len(q) /\ q[k] = o
    <3>1. q \in Seq(OrderIds)
      BY DEF Books
    <3>. QED  BY <3>1, PositionOnLevel
  <2>2. /\ r \in Seq(OrderIds) /\ Len(r) = Len(q) - 1
        /\ \A l \in 1 .. (Len(q) - 1) : r[l] = IF l < k THEN q[l] ELSE q[l + 1]
    BY <2>1, RemoveAtProperties DEF Dequeue
  <2>3. \A l, m \in 1 .. Len(q) : q[l] = q[m] => l = m
    BY <2>1 DEF NoDuplicates
  <2>4. c.level[s2][p2] = r
    <3>1. c.level[s][p] = r
      BY RemoveLevels
    <3>. QED  BY <1>3, <3>1
  <2>5. /\ i \in 1 .. (Len(q) - 1) /\ j \in 1 .. (Len(q) - 1) /\ Len(q) \in Nat
        /\ r[i] = r[j]
    BY <1>1, <2>1, <2>2, <2>4
  <2> HIDE DEF q, k, r
  <2>6. /\ i \in 1 .. Len(q) /\ i + 1 \in 1 .. Len(q)
        /\ j \in 1 .. Len(q) /\ j + 1 \in 1 .. Len(q) /\ k \in Nat
    BY <2>1, <2>5
  <2>7. /\ r[i] = IF i < k THEN q[i] ELSE q[i + 1]
        /\ r[j] = IF j < k THEN q[j] ELSE q[j + 1]
    BY <2>2, <2>5
  <2>8. CASE i < k /\ j < k
    BY <2>3, <2>5, <2>6, <2>7, <2>8
  <2>9. CASE i < k /\ ~(j < k)
    <3>1. i = j + 1
      BY <2>3, <2>5, <2>6, <2>7, <2>9
    <3>. QED  BY <2>5, <2>6, <2>9, <3>1
  <2>10. CASE ~(i < k) /\ j < k
    <3>1. j = i + 1
      BY <2>3, <2>5, <2>6, <2>7, <2>10
    <3>. QED  BY <2>5, <2>6, <2>10, <3>1
  <2>11. CASE ~(i < k) /\ ~(j < k)
    <3>1. i + 1 = j + 1
      BY <2>3, <2>5, <2>6, <2>7, <2>11
    <3>. QED  BY <2>5, <3>1
  <2>. QED  BY <2>8, <2>9, <2>10, <2>11
<1>. QED  BY <1>2, <1>3

\* remove keeps the cached best prices in step with the levels.
LEMMA RemoveKeepsBest ==
    ASSUME NEW b \in Books, NEW s \in Sides, NEW p \in Prices,
           NEW o \in OrderIds, OnLevel(b, s, p, o), NoDuplicates(b),
           BestIsExtremum(b)
    PROVE  BestIsExtremum(RemoveOrder(b, s, p, o))
<1> DEFINE c == RemoveOrder(b, s, p, o)
           P == Quotes(b, s)
<1>1. SUFFICES ASSUME NEW s2 \in Sides
               PROVE  c.best[s2] = Extremum(s2, Quotes(c, s2))
  BY DEF BestIsExtremum
<1>2. b.best[s2] = Extremum(s2, Quotes(b, s2))
  BY DEF BestIsExtremum
<1>3. Quotes(c, s2) \subseteq Prices /\ Quotes(b, s2) \subseteq Prices
  BY DEF Quotes
<1>4. \A p2 \in Prices : ~(s2 = s /\ p2 = p) =>
         c.level[s2][p2] = b.level[s2][p2]
  BY RemoveLevels
<1>5. CASE s2 # s
  <2>1. Quotes(c, s2) = Quotes(b, s2)
    BY <1>4, <1>5 DEF Quotes
  <2>. QED  BY <1>2, <1>5, <2>1, RemoveBest
<1>6. CASE s2 = s
  <2>1. p \in P
    BY QuotesOnLevel
  <2>2. P \subseteq Prices
    BY DEF Quotes
  <2>3. CASE c.level[s][p] = << >>
    <3>1. Quotes(c, s) = P \ {p}
      BY <1>4, <1>6, <2>3 DEF Quotes
    <3>2. CASE p = Extremum(s, P)
      <4>1. c.best[s] = Extremum(s, P \ {p})
        <5>1. Dequeue(b.level[s][p], o) = << >>
          BY <2>3, RemoveLevels
        <5>. QED  BY <3>2, <5>1, RemoveBest
      <4>. QED  BY <1>6, <3>1, <4>1
    <3>3. CASE p # Extremum(s, P)
      <4> DEFINE e == Extremum(s, P)
      <4>1. e \in P /\ \A q \in P : q = e \/ Better(s, e, q)
        BY <2>1, <2>2, ExtremumIsBest
      <4>2. c.best[s] = b.best[s]
        BY <3>3, RemoveBest
      <4> HIDE DEF e
      <4>3. e \in P \ {p} /\ \A q \in P \ {p} : q = e \/ Better(s, e, q)
        BY <3>3, <4>1 DEF e
      <4>4. Extremum(s, P \ {p}) = e
        BY <2>2, <4>3, BestIsUnique
      <4>. QED  BY <1>2, <1>6, <3>1, <4>2, <4>4 DEF e
    <3>. QED  BY <3>2, <3>3
  <2>4. CASE c.level[s][p] # << >>
    <3>1. Quotes(c, s) = P
      BY <1>4, <1>6, <2>1, <2>4 DEF Quotes
    <3>2. c.best[s] = b.best[s]
      <4>1. Dequeue(b.level[s][p], o) # << >>
        BY <2>4, RemoveLevels
      <4>. QED  BY <4>1, RemoveBest
    <3>. QED  BY <1>2, <1>6, <3>1, <3>2
  <2>. QED  BY <2>3, <2>4
<1>. QED  BY <1>5, <1>6

-----------------------------------------------------------------------------
(***************************************************************************)
(* Wallets.                                                                *)
(***************************************************************************)

\* Every operation of the BalanceManager returns wallets.
LEMMA UpdateWallets ==
    ASSUME NEW w \in Wallets, NEW u \in Users,
           NEW quantity \in Int, NEW price \in Int
    PROVE  /\ IncreaseCashEscrow(w, u, quantity) \in Wallets
           /\ DecreaseCashEscrow(w, u, quantity) \in Wallets
           /\ IncreaseAssetEscrow(w, u, quantity) \in Wallets
           /\ DecreaseAssetEscrow(w, u, quantity) \in Wallets
           /\ SettleBid(w, u, quantity, price) \in Wallets
           /\ SettleAsk(w, u, quantity, price) \in Wallets
<1> DEFINE value == quantity * price
           b == w[u]
<1>1. value \in Int
  OBVIOUS
<1>2. b \in Balances
  BY DEF Wallets
<1>3. \A c \in Balances : Update(w, u, c) \in Wallets
  BY DEF Wallets, Update
<1>4. /\ SettleBid(w, u, quantity, price) =
            Update(w, u, [cash        |-> b.cash - value,
                          cashEscrow  |-> b.cashEscrow - value,
                          asset       |-> b.asset + quantity,
                          assetEscrow |-> b.assetEscrow])
      /\ SettleAsk(w, u, quantity, price) =
            Update(w, u, [cash        |-> b.cash + value,
                          cashEscrow  |-> b.cashEscrow,
                          asset       |-> b.asset - quantity,
                          assetEscrow |-> b.assetEscrow - quantity])
  BY Zenon DEF SettleBid, SettleAsk, BidSettled, AskSettled
<1> HIDE DEF value
<1>5. /\ [b EXCEPT !.cashEscrow = @ + quantity] \in Balances
      /\ [b EXCEPT !.cashEscrow = @ - quantity] \in Balances
      /\ [b EXCEPT !.assetEscrow = @ + quantity] \in Balances
      /\ [b EXCEPT !.assetEscrow = @ - quantity] \in Balances
  <2> HIDE DEF b
  <2>. QED  BY <1>2 DEF Balances
<1>6. [cash |-> b.cash - value, cashEscrow |-> b.cashEscrow - value,
       asset |-> b.asset + quantity, assetEscrow |-> b.assetEscrow] \in Balances
  <2> HIDE DEF b
  <2>. QED  BY <1>1, <1>2 DEF Balances
<1>7. [cash |-> b.cash + value, cashEscrow |-> b.cashEscrow,
       asset |-> b.asset - quantity,
       assetEscrow |-> b.assetEscrow - quantity] \in Balances
  <2> HIDE DEF b
  <2>. QED  BY <1>1, <1>2 DEF Balances
<1>8. /\ IncreaseCashEscrow(w, u, quantity) \in Wallets
      /\ DecreaseCashEscrow(w, u, quantity) \in Wallets
      /\ IncreaseAssetEscrow(w, u, quantity) \in Wallets
      /\ DecreaseAssetEscrow(w, u, quantity) \in Wallets
  BY <1>3, <1>5, Zenon DEF IncreaseCashEscrow, DecreaseCashEscrow,
                           IncreaseAssetEscrow, DecreaseAssetEscrow
<1>9. /\ SettleBid(w, u, quantity, price) \in Wallets
      /\ SettleAsk(w, u, quantity, price) \in Wallets
  BY <1>3, <1>4, <1>6, <1>7, Zenon
<1>. QED  BY <1>8, <1>9

\* Orders have positive quantities.
LEMMA QuantitiesPositive == \A n \in Quantities : n \in Nat /\ n > 0
<1>1. \A n \in Quantities : n \in Nat \ {0}
  BY RequestsAssumption
<1>. QED  BY <1>1

\* So do the engine's combinations of them.
LEMMA EngineWallets ==
    ASSUME NEW w \in Wallets, NEW r \in Requests,
           NEW quantity \in Int, NEW price \in Int
    PROVE  /\ Hold(w, r) \in Wallets
           /\ ReleaseEscrow(w, r, quantity) \in Wallets
           /\ Settle(w, r, quantity, price) \in Wallets
<1>1. /\ r.user \in Users /\ r.qty \in Int /\ r.price \in Int
      /\ r.qty * r.price \in Int /\ quantity * r.price \in Int
  <2>1. r.user \in Users /\ r.qty \in Quantities /\ r.price \in Prices
    BY DEF Requests
  <2>2. r.qty \in Int /\ r.price \in Int
    BY <2>1, QuantitiesPositive, MaxPriceAssumption DEF Prices
  <2>. QED  BY <2>1, <2>2
<1>2. Hold(w, r) \in Wallets
  BY <1>1, UpdateWallets DEF Hold
<1>3. ReleaseEscrow(w, r, quantity) \in Wallets
  BY <1>1, UpdateWallets DEF ReleaseEscrow
<1>4. Settle(w, r, quantity, price) \in Wallets
  BY <1>1, UpdateWallets DEF Settle
<1>. QED  BY <1>2, <1>3, <1>4

-----------------------------------------------------------------------------
(***************************************************************************)
(* Orders.                                                                 *)
(***************************************************************************)

\* What the type invariant says of a known order.
LEMMA KnownOrders ==
    ASSUME TypeOK
    PROVE  /\ Len(order) \in Nat
           /\ Known = 1 .. Len(order)
           /\ Known \subseteq OrderIds
           /\ \A o \in Known : /\ order[o] \in Requests
                               /\ order[o].side \in Sides
                               /\ order[o].price \in Prices
                               /\ order[o].qty \in Nat /\ order[o].qty > 0
                               /\ exec[o] \in Nat
                               /\ Remaining(o) \in Int
<1>1. order \in Seq(Requests) /\ Len(order) \in Nat /\ Len(order) <= MaxOrders
  BY DEF TypeOK
<1>2. Known = 1 .. Len(order)
  BY <1>1 DEF Known
<1>3. Known \subseteq OrderIds
  BY <1>1, <1>2, MaxOrdersAssumption DEF OrderIds
<1>4. ASSUME NEW o \in Known
      PROVE  /\ order[o] \in Requests
             /\ order[o].side \in Sides
             /\ order[o].price \in Prices
             /\ order[o].qty \in Nat /\ order[o].qty > 0
             /\ exec[o] \in Nat
             /\ Remaining(o) \in Int
  <2>1. order[o] \in Requests
    BY <1>1, <1>2
  <2>2. /\ order[o].side \in Sides /\ order[o].price \in Prices
        /\ order[o].qty \in Quantities
    BY <2>1 DEF Requests
  <2>3. order[o].qty \in Nat /\ order[o].qty > 0
    BY <2>2, QuantitiesPositive
  <2>4. exec[o] \in Nat
    BY <1>3 DEF TypeOK
  <2>. QED  BY <2>1, <2>2, <2>3, <2>4 DEF Remaining
<1>. QED  BY <1>1, <1>2, <1>3, <1>4

\* A command adds one order and changes no other.
LEMMA ReceiveAdds ==
    ASSUME TypeOK, NEW r \in Requests, Receive(r)
    PROVE  /\ Len(order) + 1 \in OrderIds
           /\ Len(order) + 1 \notin Known
           /\ order' \in Seq(Requests)
           /\ Len(order') <= MaxOrders
           /\ Known' = Known \cup {Len(order) + 1}
           /\ order'[Len(order) + 1] = r
           /\ \A o \in Known : order'[o] = order[o]
<1>1. /\ order \in Seq(Requests) /\ Len(order) \in Nat /\ Len(order) < MaxOrders
      /\ order' = Append(order, r)
  BY DEF TypeOK, Receive
<1>2. Known = 1 .. Len(order)
  BY KnownOrders
<1>3. /\ order' \in Seq(Requests) /\ Len(order') = Len(order) + 1
      /\ \A i \in 1 .. Len(order) : order'[i] = order[i]
      /\ order'[Len(order) + 1] = r
  BY <1>1, AppendProperties
<1>4. DOMAIN order' = 1 .. (Len(order) + 1)
  BY <1>3
<1>5. Known' = DOMAIN order'
  BY DEF Known
<1>. QED  BY <1>1, <1>2, <1>3, <1>4, <1>5, MaxOrdersAssumption DEF OrderIds

-----------------------------------------------------------------------------
(***************************************************************************)
(* The initial state.                                                      *)
(***************************************************************************)

\* The empty book is consistent and nothing has happened.
LEMMA InitIInv == Init => IInv
<1> SUFFICES ASSUME Init PROVE IInv
  OBVIOUS
<1>1. EmptyBook \in Books
  <2>1. [s \in Sides |-> [p \in Prices |-> << >>]]
           \in [Sides -> [Prices -> Seq(OrderIds)]]
    OBVIOUS
  <2>2. [s \in Sides |-> NoPrice] \in [Sides -> Prices \cup {NoPrice}]
    OBVIOUS
  <2>. QED  BY <2>1, <2>2 DEF EmptyBook, Books
<1>2. InitWallet \in Wallets
  BY UsersAssumption DEF InitWallet, Wallets, Balances
<1>3. order \in Seq(Requests) /\ Len(order) = 0 /\ Known = {}
  BY DEF Init, Known
<1>4. TypeOK
  BY <1>1, <1>2, <1>3, MaxOrdersAssumption DEF Init, TypeOK, PCs
<1>5. \A s \in Sides, p \in Prices : EmptyBook.level[s][p] = << >>
  BY DEF EmptyBook
<1>6. BestIsExtremum(book)
  <2>1. \A s \in Sides : Quotes(EmptyBook, s) = {} /\ EmptyBook.best[s] = NoPrice
    BY <1>5 DEF Quotes, EmptyBook
  <2>. QED  BY <2>1 DEF Init, BestIsExtremum, Extremum
<1>7. NoDuplicates(book)
  BY <1>5 DEF Init, NoDuplicates
<1>8. BookMatchesStore
  <2>1. \A s \in Sides, p \in Prices, o \in OrderIds : ~OnLevel(book, s, p, o)
    BY <1>5 DEF Init, OnLevel
  <2>. QED  BY <2>1 DEF Init, BookMatchesStore
<1>9. OneFate
  BY <1>3 DEF OneFate
<1>10. MatchState
  BY DEF Init, MatchState
<1>. QED  BY <1>4, <1>6, <1>7, <1>8, <1>9, <1>10 DEF IInv, BookConsistent

-----------------------------------------------------------------------------
(***************************************************************************)
(* The steps of the book.                                                  *)
(***************************************************************************)

\* An order that is not stored can be placed.
LEMMA PlaceKeepsBook ==
    ASSUME TypeOK, BookConsistent,
           NEW o \in OrderIds, o \notin store,
           NEW s \in Sides, NEW p \in Prices,
           book' = AppendOrder(book, s, p, o),
           store' = store \cup {o},
           order'[o].side = s, order'[o].price = p,
           \A x \in store : order'[x] = order[x],
           \A x \in store' : x \in Known' /\ (Remaining(x) > 0)'
    PROVE  BookConsistent' /\ book' \in Books
<1>1. book \in Books /\ BestIsExtremum(book) /\ NoDuplicates(book)
  BY DEF TypeOK, BookConsistent
<1>2. \A s2 \in Sides, p2 \in Prices, x \in OrderIds :
         OnLevel(book, s2, p2, x) <=>
            x \in store /\ order[x].side = s2 /\ order[x].price = p2
  BY DEF BookConsistent, BookMatchesStore
<1>3. book' \in Books
  BY <1>1, AppendLevels
<1>4. BestIsExtremum(book')
  BY <1>1, AppendKeepsBest
<1>5. NoDuplicates(book')
  BY <1>1, <1>2, AppendKeepsDistinct
<1>6. ASSUME NEW s2 \in Sides, NEW p2 \in Prices, NEW x \in OrderIds
      PROVE  OnLevel(book', s2, p2, x) <=>
               x \in store' /\ order'[x].side = s2 /\ order'[x].price = p2
  <2>1. OnLevel(book', s2, p2, x) <=>
           OnLevel(book, s2, p2, x) \/ (s2 = s /\ p2 = p /\ x = o)
    BY <1>1, AppendOnLevel
  <2>. QED  BY <1>2, <2>1
<1>. QED  BY <1>3, <1>4, <1>5, <1>6 DEF BookConsistent, BookMatchesStore

\* A stored order can be removed from the book and the store.
LEMMA RemoveKeepsBook ==
    ASSUME TypeOK, BookConsistent,
           NEW o \in store,
           book' = RemoveOrder(book, order[o].side, order[o].price, o),
           store' = store \ {o},
           order' = order,
           \A x \in store' : (Remaining(x) > 0)'
    PROVE  BookConsistent' /\ book' \in Books
<1> DEFINE s == order[o].side
           p == order[o].price
<1>1. book \in Books /\ BestIsExtremum(book) /\ NoDuplicates(book)
  BY DEF TypeOK, BookConsistent
<1>2. \A s2 \in Sides, p2 \in Prices, x \in OrderIds :
         OnLevel(book, s2, p2, x) <=>
            x \in store /\ order[x].side = s2 /\ order[x].price = p2
  BY DEF BookConsistent, BookMatchesStore
<1>3. o \in OrderIds /\ o \in Known
  BY DEF TypeOK, BookConsistent, BookMatchesStore
<1>4. s \in Sides /\ p \in Prices
  BY <1>3, KnownOrders
<1>5. OnLevel(book, s, p, o)
  BY <1>2, <1>3, <1>4
<1> HIDE DEF s, p
<1>6. book' = RemoveOrder(book, s, p, o)
  BY DEF s, p
<1>7. book' \in Books
  BY <1>1, <1>3, <1>4, <1>5, <1>6, RemoveLevels
<1>8. BestIsExtremum(book')
  BY <1>1, <1>3, <1>4, <1>5, <1>6, RemoveKeepsBest
<1>9. NoDuplicates(book')
  BY <1>1, <1>3, <1>4, <1>5, <1>6, RemoveKeepsDistinct
<1>10. ASSUME NEW s2 \in Sides, NEW p2 \in Prices, NEW x \in OrderIds
       PROVE  OnLevel(book', s2, p2, x) <=>
                x \in store' /\ order'[x].side = s2 /\ order'[x].price = p2
  <2>1. OnLevel(book', s2, p2, x) <=>
           OnLevel(book, s2, p2, x) /\ ~(s2 = s /\ p2 = p /\ x = o)
    BY <1>1, <1>3, <1>4, <1>5, <1>6, RemoveOnLevel
  <2>2. x = o /\ OnLevel(book, s2, p2, x) => s2 = s /\ p2 = p
    BY <1>2 DEF s, p
  <2>. QED  BY <1>2, <2>1, <2>2
<1>11. \A x \in store' : x \in Known'
  BY DEF BookConsistent, BookMatchesStore, Known
<1>. QED  BY <1>7, <1>8, <1>9, <1>10, <1>11 DEF BookConsistent, BookMatchesStore

\* A step that leaves the book, the store and the stored orders alone.
LEMMA SameBook ==
    ASSUME BookConsistent, book' = book, store' = store,
           store \subseteq OrderIds,
           \A x \in store : order'[x] = order[x],
           \A x \in store : x \in Known' /\ (Remaining(x) > 0)'
    PROVE  BookConsistent'
<1>1. \A s2 \in Sides, p2 \in Prices, x \in OrderIds :
         OnLevel(book, s2, p2, x) <=>
            x \in store /\ order[x].side = s2 /\ order[x].price = p2
  BY DEF BookConsistent, BookMatchesStore
<1>2. \A s2 \in Sides, p2 \in Prices, x \in OrderIds :
         OnLevel(book', s2, p2, x) <=>
            x \in store' /\ order'[x].side = s2 /\ order'[x].price = p2
  BY <1>1
<1>. QED  BY <1>2 DEF BookConsistent, BookMatchesStore

-----------------------------------------------------------------------------
(***************************************************************************)
(* NEW_ORDER.                                                              *)
(***************************************************************************)

\* After a command is received, the new order has no fills and the others
\* are what they were.
LEMMA ReceiveState ==
    ASSUME IInv, NEW r \in Requests, Receive(r), exec' = exec,
           NEW n, n = Len(order) + 1
    PROVE  /\ taker = NoOrder /\ pc = "idle"
           /\ r.side \in Sides /\ r.price \in Prices
           /\ r.qty \in Nat /\ r.qty > 0
           /\ n \notin store /\ n # NoOrder
           /\ exec[n] = 0 /\ cancels[n] = 0
           /\ Remaining(n)' = r.qty
           /\ \A x \in Known : Remaining(x)' = Remaining(x)
           /\ \A x \in store : /\ x \in Known /\ x \in Known'
                               /\ order'[x] = order[x]
                               /\ (Remaining(x) > 0)'
<1>1. TypeOK /\ pc = "idle" /\ taker = NoOrder
  BY DEF IInv, Receive, MatchState
<1>2. r.side \in Sides /\ r.price \in Prices /\ r.qty \in Quantities
  BY DEF Requests
<1>3. r.qty \in Nat /\ r.qty > 0
  BY <1>2, QuantitiesPositive
<1>4. /\ n \in OrderIds /\ n \notin Known /\ Known' = Known \cup {n}
      /\ order'[n] = r /\ \A x \in Known : order'[x] = order[x]
  BY <1>1, ReceiveAdds
<1>5. n # NoOrder
  BY <1>1, KnownOrders DEF NoOrder
<1>6. \A x \in store : x \in Known /\ Remaining(x) > 0
  BY DEF IInv, BookConsistent, BookMatchesStore
<1>7. n \notin store
  BY <1>4, <1>6
<1>8. exec[n] = 0 /\ cancels[n] = 0
  BY <1>4 DEF IInv, MatchState
<1>9. \A x \in Known : Remaining(x)' = Remaining(x)
  BY <1>4 DEF Remaining
<1>10. Remaining(n)' = r.qty
  BY <1>3, <1>4, <1>8 DEF Remaining
<1>11. \A x \in store : x \in Known' /\ order'[x] = order[x] /\ (Remaining(x) > 0)'
  BY <1>4, <1>6, <1>9
<1>. QED  BY <1>1, <1>2, <1>3, <1>5, <1>6, <1>7, <1>8, <1>9, <1>10, <1>11

\* The new order rests.
LEMMA PlaceOrderIInv ==
    ASSUME IInv, NEW r \in Requests, PlaceOrder(r)
    PROVE  IInv'
<1> PICK n : n = Len(order) + 1
  OBVIOUS
<1>1. /\ Receive(r) /\ exec' = exec /\ paid' = paid /\ cancels' = cancels
      /\ wallet' = wallet /\ pc' = pc /\ taker' = taker
      /\ store' = store \cup {n} /\ book' = AppendOrder(book, r.side, r.price, n)
  BY DEF PlaceOrder
<1>2. /\ n \in OrderIds /\ n \notin Known /\ Known' = Known \cup {n}
      /\ order' \in Seq(Requests) /\ Len(order') <= MaxOrders
      /\ order'[n] = r /\ \A x \in Known : order'[x] = order[x]
  BY <1>1, ReceiveAdds DEF IInv
<1>3. /\ taker = NoOrder /\ pc = "idle" /\ n \notin store /\ n # NoOrder
      /\ r.side \in Sides /\ r.price \in Prices /\ r.qty \in Nat /\ r.qty > 0
      /\ exec[n] = 0 /\ cancels[n] = 0 /\ Remaining(n)' = r.qty
      /\ \A x \in Known : Remaining(x)' = Remaining(x)
      /\ \A x \in store : /\ x \in Known /\ x \in Known'
                          /\ order'[x] = order[x] /\ (Remaining(x) > 0)'
  BY <1>1, ReceiveState
<1>4. TypeOK /\ BookConsistent /\ OneFate /\ MatchState
  BY DEF IInv
<1>5. BookConsistent' /\ book' \in Books
  <2>1. \A x \in store' : x \in Known' /\ (Remaining(x) > 0)'
    BY <1>1, <1>2, <1>3
  <2>2. order'[n].side = r.side /\ order'[n].price = r.price
    BY <1>2
  <2>3. \A x \in store : order'[x] = order[x]
    BY <1>3
  <2>. QED  BY <1>1, <1>2, <1>3, <1>4, <2>1, <2>2, <2>3, PlaceKeepsBook
<1>6. TypeOK'
  BY <1>1, <1>2, <1>4, <1>5 DEF TypeOK
<1>7. OneFate'
  <2>1. ASSUME NEW x \in Known'
        PROVE  /\ exec'[x] <= order'[x].qty
               /\ x \in store' => x # taker' /\ cancels'[x] = 0 /\ Remaining(x)' > 0
               /\ x = taker' => cancels'[x] = 0
               /\ x \notin store' /\ x # taker' =>
                     (Remaining(x)' = 0 <=> cancels'[x] = 0)
    <3>1. CASE x = n
      BY <1>1, <1>2, <1>3, <3>1
    <3>2. CASE x # n
      <4>1. x \in Known /\ (x \in store' <=> x \in store)
        BY <1>1, <1>2, <3>2
      <4>2. order'[x] = order[x] /\ Remaining(x)' = Remaining(x)
        BY <1>2, <1>3, <4>1
      <4>. QED  BY <1>1, <1>4, <4>1, <4>2 DEF OneFate
    <3>. QED  BY <3>1, <3>2
  <2>. QED  BY <2>1 DEF OneFate
<1>8. MatchState'
  BY <1>1, <1>2, <1>3, <1>4 DEF MatchState
<1>. QED  BY <1>5, <1>6, <1>7, <1>8 DEF IInv

\* The new order is not placed: it is rejected or it is going to be matched.
LEMMA NotPlacedIInv ==
    ASSUME IInv, NEW r \in Requests, Receive(r), NEW n, n = Len(order) + 1,
           exec' = exec, paid' = paid, store' = store, book' = book,
           wallet' \in Wallets, cancels' \in [OrderIds -> Nat], pc' \in PCs,
           \A x \in OrderIds : x # n => cancels'[x] = cancels[x],
           taker' \in {NoOrder, n},
           taker' = n <=> pc' = "matching",
           taker' = n <=> cancels'[n] = 0
    PROVE  IInv'
<1>1. /\ n \in OrderIds /\ n \notin Known /\ Known' = Known \cup {n}
      /\ order' \in Seq(Requests) /\ Len(order') <= MaxOrders
      /\ order'[n] = r /\ \A x \in Known : order'[x] = order[x]
  BY ReceiveAdds DEF IInv
<1>2. /\ taker = NoOrder /\ pc = "idle" /\ n \notin store /\ n # NoOrder
      /\ r.qty \in Nat /\ r.qty > 0
      /\ exec[n] = 0 /\ Remaining(n)' = r.qty
      /\ \A x \in Known : Remaining(x)' = Remaining(x)
      /\ \A x \in store : /\ x \in Known /\ x \in Known'
                          /\ order'[x] = order[x] /\ (Remaining(x) > 0)'
  BY ReceiveState
<1>3. TypeOK /\ BookConsistent /\ OneFate /\ MatchState
  BY DEF IInv
<1>4. BookConsistent'
  BY <1>2, <1>3, SameBook DEF TypeOK
<1>5. TypeOK'
  BY <1>1, <1>3 DEF TypeOK
<1>6. OneFate'
  <2>1. ASSUME NEW x \in Known'
        PROVE  /\ exec'[x] <= order'[x].qty
               /\ x \in store' => x # taker' /\ cancels'[x] = 0 /\ Remaining(x)' > 0
               /\ x = taker' => cancels'[x] = 0
               /\ x \notin store' /\ x # taker' =>
                     (Remaining(x)' = 0 <=> cancels'[x] = 0)
    <3>1. CASE x = n
      BY <1>1, <1>2, <3>1
    <3>2. CASE x # n
      <4>1. x \in Known /\ x \in OrderIds
        BY <1>1, <1>3, <3>2, KnownOrders
      <4>2. /\ order'[x] = order[x] /\ Remaining(x)' = Remaining(x)
            /\ cancels'[x] = cancels[x]
        BY <1>1, <1>2, <3>2, <4>1
      <4>3. x # taker /\ x # taker'
        BY <1>2, <1>3, <3>2, <4>1, KnownOrders DEF NoOrder
      <4>. QED  BY <1>3, <4>1, <4>2, <4>3 DEF OneFate
    <3>. QED  BY <3>1, <3>2
  <2>. QED  BY <2>1 DEF OneFate
<1>7. MatchState'
  <2>1. pc' = "matching" <=> taker' # NoOrder
    BY <1>2
  <2>2. taker' # NoOrder => taker' \in Known'
    BY <1>1
  <2>3. \A x \in OrderIds \ Known' : exec'[x] = 0 /\ cancels'[x] = 0
    BY <1>1, <1>3 DEF MatchState
  <2>. QED  BY <2>1, <2>2, <2>3 DEF MatchState
<1>. QED  BY <1>4, <1>5, <1>6, <1>7 DEF IInv

\* The new order is rejected and its escrow released twice.
LEMMA RejectOrderIInv ==
    ASSUME IInv, NEW r \in Requests, RejectOrder(r)
    PROVE  IInv'
<1> PICK n : n = Len(order) + 1
  OBVIOUS
<1>1. /\ Receive(r) /\ exec' = exec /\ paid' = paid /\ store' = store
      /\ book' = book /\ pc' = pc /\ taker' = taker
      /\ cancels' = [cancels EXCEPT ![n] = 2]
      /\ wallet' = ReleaseEscrow(ReleaseEscrow(wallet, r, r.qty), r, r.qty)
  BY DEF RejectOrder
<1>2. TypeOK
  BY DEF IInv
<1>3. n \in OrderIds
  BY <1>1, <1>2, ReceiveAdds
<1>4. taker = NoOrder /\ pc = "idle" /\ n # NoOrder /\ r.qty \in Int
  BY <1>1, ReceiveState
<1>5. wallet' \in Wallets
  <2>1. ReleaseEscrow(wallet, r, r.qty) \in Wallets
    BY <1>2, <1>4, EngineWallets DEF TypeOK
  <2>. QED  BY <1>1, <1>4, <2>1, EngineWallets
<1>6. /\ cancels' \in [OrderIds -> Nat] /\ cancels'[n] = 2
      /\ \A x \in OrderIds : x # n => cancels'[x] = cancels[x]
  BY <1>1, <1>2, <1>3 DEF TypeOK
<1>. QED  BY <1>1, <1>4, <1>5, <1>6, NotPlacedIInv DEF PCs

\* The rejection of the new order raises.
LEMMA RejectOrderRaisesIInv ==
    ASSUME IInv, NEW r \in Requests, RejectOrderRaises(r)
    PROVE  IInv'
<1> PICK n : n = Len(order) + 1
  OBVIOUS
<1>1. /\ Receive(r) /\ exec' = exec /\ paid' = paid /\ store' = store
      /\ book' = book /\ pc' = "dead_remove" /\ taker' = taker
      /\ cancels' = [cancels EXCEPT ![n] = 1] /\ wallet' = wallet
  BY DEF RejectOrderRaises
<1>2. TypeOK
  BY DEF IInv
<1>3. n \in OrderIds
  BY <1>1, <1>2, ReceiveAdds
<1>4. taker = NoOrder /\ n # NoOrder
  BY <1>1, ReceiveState
<1>5. /\ cancels' \in [OrderIds -> Nat] /\ cancels'[n] = 1
      /\ \A x \in OrderIds : x # n => cancels'[x] = cancels[x]
  BY <1>1, <1>2, <1>3 DEF TypeOK
<1>6. wallet' \in Wallets
  BY <1>1, <1>2 DEF TypeOK
<1>. QED  BY <1>1, <1>4, <1>5, <1>6, NotPlacedIInv DEF PCs

\* The new order begins to be matched.
LEMMA BeginMatchIInv ==
    ASSUME IInv, NEW r \in Requests, BeginMatch(r)
    PROVE  IInv'
<1> PICK n : n = Len(order) + 1
  OBVIOUS
<1>1. /\ Receive(r) /\ exec' = exec /\ paid' = paid /\ store' = store
      /\ book' = book /\ pc' = "matching" /\ taker' = n
      /\ cancels' = cancels /\ wallet' = wallet
  BY DEF BeginMatch
<1>2. TypeOK
  BY DEF IInv
<1>3. n # NoOrder /\ cancels[n] = 0
  BY <1>1, ReceiveState
<1>4. wallet' \in Wallets /\ cancels' \in [OrderIds -> Nat]
  BY <1>1, <1>2 DEF TypeOK
<1>. QED  BY <1>1, <1>3, <1>4, NotPlacedIInv DEF PCs

-----------------------------------------------------------------------------
(***************************************************************************)
(* CANCEL_ORDER and MODIFY_ORDER.                                          *)
(***************************************************************************)

\* A stored order that is cancelled, by its user or by the match loop.
LEMMA CancelStored ==
    ASSUME IInv, NEW o \in store,
           order' = order, exec' = exec, paid' = paid,
           pc' = pc, taker' = taker,
           cancels' = [cancels EXCEPT ![o] = @ + 1],
           book' = RemoveOrder(book, order[o].side, order[o].price, o),
           store' = store \ {o},
           wallet' = ReleaseEscrow(wallet, order[o], Remaining(o))
    PROVE  IInv'
<1>1. TypeOK /\ BookConsistent /\ OneFate /\ MatchState
  BY DEF IInv
<1>2. /\ o \in Known /\ o \in OrderIds /\ order[o] \in Requests
      /\ Remaining(o) \in Int
  BY <1>1, KnownOrders DEF BookConsistent, BookMatchesStore
<1>3. Known' = Known /\ \A x \in Known : Remaining(x)' = Remaining(x)
  BY DEF Known, Remaining
<1>4. BookConsistent' /\ book' \in Books
  <2>1. \A x \in store' : (Remaining(x) > 0)'
    BY <1>1, <1>3 DEF BookConsistent, BookMatchesStore
  <2>. QED  BY <1>1, <2>1, RemoveKeepsBook
<1>5. wallet' \in Wallets
  BY <1>1, <1>2, EngineWallets DEF TypeOK
<1>6. /\ cancels' \in [OrderIds -> Nat] /\ cancels'[o] = cancels[o] + 1
      /\ \A x \in OrderIds : x # o => cancels'[x] = cancels[x]
  BY <1>1, <1>2 DEF TypeOK
<1>7. TypeOK'
  BY <1>1, <1>4, <1>5, <1>6 DEF TypeOK
<1>8. OneFate'
  <2>1. ASSUME NEW x \in Known
        PROVE  /\ exec'[x] <= order'[x].qty
               /\ x \in store' => x # taker' /\ cancels'[x] = 0 /\ Remaining(x)' > 0
               /\ x = taker' => cancels'[x] = 0
               /\ x \notin store' /\ x # taker' =>
                     (Remaining(x)' = 0 <=> cancels'[x] = 0)
    <3>1. x \in OrderIds
      BY <1>1, KnownOrders
    <3>2. CASE x = o
      <4>1. o # taker /\ cancels[o] = 0 /\ Remaining(o) > 0 /\ exec[o] <= order[o].qty
        BY <1>1, <1>2 DEF OneFate
      <4>2. cancels'[x] = 1 /\ Remaining(x)' = Remaining(x)
        BY <1>3, <1>6, <3>2, <4>1
      <4>. QED  BY <1>2, <3>2, <4>1, <4>2
    <3>3. CASE x # o
      <4>1. cancels'[x] = cancels[x] /\ Remaining(x)' = Remaining(x)
        BY <1>3, <1>6, <3>1, <3>3
      <4>. QED  BY <1>1, <3>3, <4>1 DEF OneFate
    <3>. QED  BY <3>2, <3>3
  <2>. QED  BY <1>3, <2>1 DEF OneFate
<1>9. MatchState'
  <2>1. \A x \in OrderIds \ Known' : exec'[x] = 0 /\ cancels'[x] = 0
    BY <1>1, <1>2, <1>3, <1>6 DEF MatchState
  <2>. QED  BY <1>1, <1>3, <2>1 DEF MatchState
<1>. QED  BY <1>4, <1>7, <1>8, <1>9 DEF IInv

\* A user cancels a stored order.
LEMMA CancelOrderIInv ==
    ASSUME IInv, NEW o \in OrderIds, CancelOrder(o)
    PROVE  IInv'
BY CancelStored DEF CancelOrder

\* A modify of a user's order ends the process.
LEMMA ModifyRaisesIInv ==
    ASSUME IInv, NEW o \in OrderIds, ModifyRaises(o)
    PROVE  IInv'
<1>1. /\ order' = order /\ exec' = exec /\ paid' = paid /\ cancels' = cancels
      /\ store' = store /\ book' = book /\ wallet' = wallet /\ taker' = taker
      /\ pc = "idle" /\ pc' = "dead_modify"
  BY DEF ModifyRaises
<1>2. TypeOK /\ BookConsistent /\ OneFate /\ MatchState
  BY DEF IInv
<1>3. TypeOK'
  BY <1>1, <1>2 DEF TypeOK, PCs
<1>4. BookConsistent'
  BY <1>1, <1>2 DEF BookConsistent, BookMatchesStore, Known, Remaining
<1>5. OneFate'
  BY <1>1, <1>2 DEF OneFate, Known, Remaining
<1>6. MatchState'
  BY <1>1, <1>2 DEF MatchState, Known
<1>. QED  BY <1>3, <1>4, <1>5, <1>6 DEF IInv

\* A modify of the system user's order takes it out of the book and puts it
\* back on the same level.
LEMMA ModifyRequeuesIInv ==
    ASSUME IInv, NEW o \in OrderIds, NEW p \in Prices \cup {NoPrice},
           ModifyRequeues(o, p)
    PROVE  IInv'
<1> DEFINE s == order[o].side
           q == order[o].price
           b == RemoveOrder(book, s, q, o)
<1>1. /\ order' = order /\ exec' = exec /\ paid' = paid /\ cancels' = cancels
      /\ store' = store /\ wallet' = wallet /\ taker' = taker /\ pc' = pc
      /\ o \in store /\ book' = AppendOrder(b, s, q, o)
  BY DEF ModifyRequeues
<1>2. TypeOK /\ BookConsistent /\ OneFate /\ MatchState
  BY DEF IInv
<1>3. book \in Books /\ BestIsExtremum(book) /\ NoDuplicates(book)
  BY <1>2 DEF TypeOK, BookConsistent
<1>4. \A s2 \in Sides, p2 \in Prices, x \in OrderIds :
         OnLevel(book, s2, p2, x) <=>
            x \in store /\ order[x].side = s2 /\ order[x].price = p2
  BY <1>2 DEF BookConsistent, BookMatchesStore
<1>5. o \in Known /\ s \in Sides /\ q \in Prices
  BY <1>1, <1>2, KnownOrders DEF BookConsistent, BookMatchesStore
<1>6. OnLevel(book, s, q, o)
  BY <1>1, <1>4, <1>5
<1> HIDE DEF s, q
<1>7. b \in Books
  BY <1>3, <1>5, <1>6, RemoveLevels
<1>8. BestIsExtremum(b)
  BY <1>3, <1>5, <1>6, RemoveKeepsBest
<1>9. NoDuplicates(b)
  BY <1>3, <1>5, <1>6, RemoveKeepsDistinct
<1>10. \A s2 \in Sides, p2 \in Prices, x \in OrderIds :
          OnLevel(b, s2, p2, x) <=>
             OnLevel(book, s2, p2, x) /\ ~(s2 = s /\ p2 = q /\ x = o)
  BY <1>3, <1>5, <1>6, RemoveOnLevel
<1> HIDE DEF b
<1>11. book' \in Books
  BY <1>1, <1>5, <1>7, AppendLevels
<1>12. BestIsExtremum(book')
  BY <1>1, <1>5, <1>7, <1>8, AppendKeepsBest
<1>13. NoDuplicates(book')
  <2>1. ~OnLevel(b, s, q, o)
    BY <1>5, <1>10
  <2>. QED  BY <1>1, <1>5, <1>7, <1>9, <2>1, AppendKeepsDistinct
<1>14. \A s2 \in Sides, p2 \in Prices, x \in OrderIds :
          OnLevel(book', s2, p2, x) <=> OnLevel(book, s2, p2, x)
  <2>1. \A s2 \in Sides, p2 \in Prices, x \in OrderIds :
          OnLevel(book', s2, p2, x) <=>
             OnLevel(b, s2, p2, x) \/ (s2 = s /\ p2 = q /\ x = o)
    BY <1>1, <1>5, <1>7, AppendOnLevel
  <2>. QED  BY <1>6, <1>10, <2>1
<1>15. BookConsistent'
  <2>1. \A x \in store' : x \in Known' /\ (Remaining(x) > 0)'
    BY <1>1, <1>2 DEF BookConsistent, BookMatchesStore, Known, Remaining
  <2>2. \A s2 \in Sides, p2 \in Prices, x \in OrderIds :
          OnLevel(book', s2, p2, x) <=>
             x \in store' /\ order'[x].side = s2 /\ order'[x].price = p2
    BY <1>1, <1>4, <1>14
  <2>. QED  BY <1>12, <1>13, <2>1, <2>2 DEF BookConsistent, BookMatchesStore
<1>16. TypeOK'
  BY <1>1, <1>2, <1>11 DEF TypeOK
<1>17. OneFate'
  BY <1>1, <1>2 DEF OneFate, Known, Remaining
<1>18. MatchState'
  BY <1>1, <1>2 DEF MatchState, Known
<1>. QED  BY <1>15, <1>16, <1>17, <1>18 DEF IInv

-----------------------------------------------------------------------------
(***************************************************************************)
(* The match loop.                                                         *)
(***************************************************************************)

\* Inside the loop the taker is a known order that is not stored.
LEMMA TakerFacts ==
    ASSUME IInv, pc = "matching"
    PROVE  /\ taker # NoOrder /\ taker \in Known /\ taker \in OrderIds
           /\ taker \notin store
           /\ order[taker] \in Requests
           /\ order[taker].side \in Sides /\ order[taker].price \in Prices
           /\ exec[taker] \in Nat /\ order[taker].qty \in Nat
           /\ exec[taker] <= order[taker].qty
           /\ cancels[taker] = 0
           /\ MakerSide \in Sides /\ MakerSide # order[taker].side
<1>1. TypeOK /\ taker # NoOrder /\ taker \in Known
  BY DEF IInv, MatchState
<1>2. /\ taker \in OrderIds /\ order[taker] \in Requests
      /\ order[taker].side \in Sides /\ order[taker].price \in Prices
      /\ exec[taker] \in Nat /\ order[taker].qty \in Nat
  BY <1>1, KnownOrders
<1>3. taker \notin store /\ exec[taker] <= order[taker].qty /\ cancels[taker] = 0
  BY <1>1 DEF IInv, OneFate
<1>4. MakerSide \in Sides /\ MakerSide # order[taker].side
  BY <1>2 DEF MakerSide, Opposite, Sides
<1>. QED  BY <1>1, <1>2, <1>3, <1>4

\* The head of the best level is a stored order of the maker's side and of
\* the best price, and the quantity of the trade is positive and at most what
\* is left of both orders.
LEMMA MakerFacts ==
    ASSUME IInv, Matching
    PROVE  /\ book.best[MakerSide] \in Prices
           /\ Maker \in store /\ Maker \in Known /\ Maker \in OrderIds
           /\ Maker # taker
           /\ order[Maker].side = MakerSide
           /\ order[Maker].price = book.best[MakerSide]
           /\ order[Maker] \in Requests
           /\ exec[Maker] \in Nat /\ order[Maker].qty \in Nat
           /\ cancels[Maker] = 0
           /\ TradeQuantity \in Nat /\ TradeQuantity > 0
           /\ exec[taker] + TradeQuantity <= order[taker].qty
           /\ exec[Maker] + TradeQuantity <= order[Maker].qty
<1> DEFINE s == MakerSide
           p == book.best[MakerSide]
           l == book.level[s][p]
<1>1. TypeOK /\ BookConsistent /\ OneFate /\ pc = "matching" /\ p # NoPrice
  BY DEF IInv, Matching
<1>2. /\ s \in Sides /\ taker \notin store /\ exec[taker] \in Nat
      /\ order[taker].qty \in Nat
  BY <1>1, TakerFacts
<1>3. book \in Books
  BY <1>1 DEF TypeOK
<1>4. p \in Quotes(book, s)
  <2>1. Quotes(book, s) \subseteq Prices /\ p = Extremum(s, Quotes(book, s))
    BY <1>1, <1>2 DEF Quotes, BookConsistent, BestIsExtremum
  <2>2. Quotes(book, s) # {}
    BY <1>1, <2>1 DEF Extremum
  <2>. QED  BY <1>2, <2>1, <2>2, ExtremumIsBest
<1>5. p \in Prices /\ l # << >>
  BY <1>4 DEF Quotes
<1>6. l \in Seq(OrderIds)
  BY <1>2, <1>3, <1>5 DEF Books
<1>7. Maker = l[1] /\ 1 \in DOMAIN l /\ Maker \in OrderIds
  <2>1. Maker = Head(l)
    BY DEF Maker
  <2> HIDE DEF l
  <2>. QED  BY <1>5, <1>6, <2>1
<1>8. OnLevel(book, s, p, Maker)
  BY <1>7 DEF OnLevel
<1>9. Maker \in store /\ order[Maker].side = s /\ order[Maker].price = p
  BY <1>1, <1>2, <1>5, <1>7, <1>8 DEF BookConsistent, BookMatchesStore
<1>10. Maker \in Known /\ Remaining(Maker) > 0
  BY <1>1, <1>9 DEF BookConsistent, BookMatchesStore
<1>11. /\ exec[Maker] \in Nat /\ order[Maker].qty \in Nat
       /\ order[Maker] \in Requests /\ cancels[Maker] = 0
  BY <1>1, <1>9, <1>10, KnownOrders DEF OneFate
<1>12. Remaining(taker) > 0
  BY DEF Matching
<1>13. /\ TradeQuantity \in Nat /\ TradeQuantity > 0
       /\ exec[taker] + TradeQuantity <= order[taker].qty
       /\ exec[Maker] + TradeQuantity <= order[Maker].qty
  <2> HIDE DEF s, p, l
  <2>. QED  BY <1>2, <1>10, <1>11, <1>12 DEF TradeQuantity, Remaining
<1>. QED  BY <1>2, <1>5, <1>7, <1>9, <1>10, <1>11, <1>13

\* A maker whose user cannot pay is cancelled.
LEMMA CancelMakerIInv ==
    ASSUME IInv, CancelMaker
    PROVE  IInv'
<1>1. Matching
  BY DEF CancelMaker
<1>2. PICK m : m = Maker
  OBVIOUS
<1>3. /\ m \in store /\ order[m].side = MakerSide
      /\ order[m].price = book.best[MakerSide]
  BY <1>1, <1>2, MakerFacts
<1>4. /\ order' = order /\ exec' = exec /\ paid' = paid /\ pc' = pc
      /\ taker' = taker
      /\ cancels' = [cancels EXCEPT ![m] = @ + 1]
      /\ book' = RemoveOrder(book, order[m].side, order[m].price, m)
      /\ store' = store \ {m}
      /\ wallet' = ReleaseEscrow(wallet, order[m], Remaining(m))
  BY <1>2, <1>3 DEF CancelMaker
<1>. QED  BY <1>3, <1>4, CancelStored

\* The taker is filled.
LEMMA TakerFilledIInv ==
    ASSUME IInv, TakerFilled
    PROVE  IInv'
<1>1. /\ order' = order /\ exec' = exec /\ paid' = paid /\ cancels' = cancels
      /\ store' = store /\ book' = book /\ wallet' = wallet
      /\ pc = "matching" /\ pc' = "idle" /\ taker' = NoOrder
      /\ Remaining(taker) = 0
  BY DEF TakerFilled
<1>2. TypeOK /\ BookConsistent /\ OneFate /\ MatchState
  BY DEF IInv
<1>3. TypeOK'
  BY <1>1, <1>2 DEF TypeOK, PCs
<1>4. BookConsistent'
  BY <1>1, <1>2 DEF BookConsistent, BookMatchesStore, Known, Remaining
<1>5. OneFate'
  <2>1. Known' = Known /\ \A x \in Known : Remaining(x)' = Remaining(x)
    BY <1>1 DEF Known, Remaining
  <2>2. \A x \in Known : x \in OrderIds /\ x # NoOrder
    BY <1>2, KnownOrders DEF OrderIds, NoOrder
  <2>3. taker \notin store /\ cancels[taker] = 0
    BY <1>1, TakerFacts
  <2>. QED  BY <1>1, <1>2, <2>1, <2>2, <2>3 DEF OneFate
<1>6. MatchState'
  BY <1>1, <1>2 DEF MatchState, Known
<1>. QED  BY <1>3, <1>4, <1>5, <1>6 DEF IInv

\* What is left of the taker is placed.
LEMMA PlaceRemainderIInv ==
    ASSUME IInv, PlaceRemainder
    PROVE  IInv'
<1>1. PICK t : t = taker
  OBVIOUS
<1>2. /\ order' = order /\ exec' = exec /\ paid' = paid /\ cancels' = cancels
      /\ wallet' = wallet /\ pc = "matching" /\ pc' = "idle"
      /\ taker' = NoOrder /\ Remaining(t) > 0
      /\ store' = store \cup {t}
      /\ book' = AppendOrder(book, order[t].side, order[t].price, t)
  BY <1>1 DEF PlaceRemainder
<1>3. TypeOK /\ BookConsistent /\ OneFate /\ MatchState
  BY DEF IInv
<1>4. /\ t \in Known /\ t \in OrderIds /\ t \notin store /\ cancels[t] = 0
      /\ order[t].side \in Sides /\ order[t].price \in Prices
      /\ exec[t] <= order[t].qty
  BY <1>1, <1>2, TakerFacts
<1>5. Known' = Known /\ \A x \in Known : Remaining(x)' = Remaining(x)
  BY <1>2 DEF Known, Remaining
<1>6. BookConsistent' /\ book' \in Books
  <2>1. \A x \in store' : x \in Known' /\ (Remaining(x) > 0)'
    BY <1>2, <1>3, <1>4, <1>5 DEF BookConsistent, BookMatchesStore
  <2>. QED  BY <1>2, <1>3, <1>4, <2>1, PlaceKeepsBook
<1>7. TypeOK'
  BY <1>2, <1>3, <1>4, <1>6 DEF TypeOK, PCs
<1>8. OneFate'
  <2>1. \A x \in Known : x \in OrderIds /\ x # NoOrder
    BY <1>3, KnownOrders DEF OrderIds, NoOrder
  <2>. QED  BY <1>1, <1>2, <1>3, <1>4, <1>5, <2>1 DEF OneFate
<1>9. MatchState'
  BY <1>2, <1>3, <1>5 DEF MatchState
<1>. QED  BY <1>6, <1>7, <1>8, <1>9 DEF IInv

\* One trade: both orders are filled by the same quantity, and a maker that
\* is filled leaves the book and the store.
LEMMA TradeIInv ==
    ASSUME IInv, Trade
    PROVE  IInv'
<1>1. Matching /\ pc = "matching"
  BY DEF Trade, Matching
<1>2. PICK t, m, q, p : t = taker /\ m = Maker /\ q = TradeQuantity
                        /\ p = book.best[MakerSide]
  OBVIOUS
<1>3. TypeOK /\ BookConsistent /\ OneFate /\ MatchState
  BY DEF IInv
<1>4. /\ t \in Known /\ t \in OrderIds /\ t \notin store /\ cancels[t] = 0
      /\ order[t] \in Requests /\ exec[t] \in Nat /\ order[t].qty \in Nat
  BY <1>1, <1>2, TakerFacts
<1>5. /\ p \in Prices /\ m \in store /\ m \in Known /\ m \in OrderIds
      /\ m # t /\ order[m].side = MakerSide /\ order[m].price = p
      /\ order[m] \in Requests /\ exec[m] \in Nat /\ order[m].qty \in Nat
      /\ cancels[m] = 0 /\ q \in Nat /\ q > 0
      /\ exec[t] + q <= order[t].qty /\ exec[m] + q <= order[m].qty
  BY <1>1, <1>2, MakerFacts
<1>6. p \in Nat /\ q * p \in Nat
  <2>1. p \in Nat
    BY <1>5, MaxPriceAssumption DEF Prices
  <2>. QED  BY <1>5, <2>1
<1>7. /\ order' = order /\ cancels' = cancels /\ pc' = pc /\ taker' = taker
      /\ exec' = [exec EXCEPT ![t] = @ + q, ![m] = @ + q]
      /\ paid' = [paid EXCEPT ![t] = @ + q * p, ![m] = @ + q * p]
      /\ store' = IF Remaining(m) = q THEN store \ {m} ELSE store
      /\ book' = IF Remaining(m) = q
                 THEN RemoveOrder(book, order[m].side, order[m].price, m) ELSE book
      /\ wallet' = Settle(Settle(HoldAtFirstFill(HoldAtFirstFill(wallet, m), t),
                                 order[t], q, p), order[m], q, p)
  BY <1>2, <1>5 DEF Trade
<1>8. /\ exec' \in [OrderIds -> Nat] /\ exec'[t] = exec[t] + q
      /\ exec'[m] = exec[m] + q
      /\ \A x \in OrderIds : x # t /\ x # m => exec'[x] = exec[x]
  <2>1. exec \in [OrderIds -> Nat]
    BY <1>3 DEF TypeOK
  <2>2. /\ exec' = [exec EXCEPT ![t] = @ + q, ![m] = @ + q] /\ q \in Nat
        /\ t \in OrderIds /\ m \in OrderIds /\ m # t
    BY <1>4, <1>5, <1>7
  <2>. QED  BY <2>1, <2>2
<1>9. paid' \in [OrderIds -> Nat]
  <2> DEFINE v == q * p
  <2>1. v \in Nat /\ paid' = [paid EXCEPT ![t] = @ + v, ![m] = @ + v]
    BY <1>6, <1>7
  <2> HIDE DEF v
  <2>2. paid \in [OrderIds -> Nat] /\ t \in OrderIds /\ m \in OrderIds /\ m # t
    BY <1>3, <1>4, <1>5 DEF TypeOK
  <2>. QED  BY <2>1, <2>2
<1>10. wallet' \in Wallets
  <2>1. ASSUME NEW w \in Wallets, NEW x, order[x] \in Requests
        PROVE  HoldAtFirstFill(w, x) \in Wallets
    <3>1. Hold(w, order[x]) \in Wallets
      BY <2>1, <1>5, <1>6, EngineWallets
    <3>. QED  BY <3>1 DEF HoldAtFirstFill
  <2>2. HoldAtFirstFill(HoldAtFirstFill(wallet, m), t) \in Wallets
    BY <1>3, <1>4, <1>5, <2>1, Zenon DEF TypeOK
  <2>3. Settle(HoldAtFirstFill(HoldAtFirstFill(wallet, m), t), order[t], q, p)
           \in Wallets
    BY <1>4, <1>5, <1>6, <2>2, EngineWallets
  <2>. QED  BY <1>5, <1>6, <1>7, <2>3, EngineWallets
<1>11. /\ Known' = Known
       /\ Remaining(t)' = order[t].qty - (exec[t] + q)
       /\ Remaining(m)' = order[m].qty - (exec[m] + q)
       /\ \A x \in Known : x # t /\ x # m => Remaining(x)' = Remaining(x)
  <2>1. Known \subseteq OrderIds
    BY <1>3, KnownOrders
  <2>. QED  BY <1>7, <1>8, <2>1 DEF Known, Remaining
<1>12. \A x \in store' : x \in Known /\ (Remaining(x) > 0)'
  <2>1. \A x \in store : x \in Known /\ Remaining(x) > 0 /\ x # t
    BY <1>3, <1>4 DEF BookConsistent, BookMatchesStore
  <2>2. CASE Remaining(m) = q
    BY <1>7, <1>11, <2>1, <2>2
  <2>3. CASE Remaining(m) # q
    <3>1. Remaining(m)' > 0
      BY <1>5, <1>11, <2>3 DEF Remaining
    <3>. QED  BY <1>7, <1>11, <2>1, <2>3, <3>1
  <2>. QED  BY <2>2, <2>3
<1>13. BookConsistent' /\ book' \in Books
  <2>1. CASE Remaining(m) = q
    BY <1>3, <1>5, <1>7, <1>12, <2>1, RemoveKeepsBook
  <2>2. CASE Remaining(m) # q
    <3>1. book' = book /\ store' = store /\ store \subseteq OrderIds
      BY <1>3, <1>7, <2>2 DEF TypeOK
    <3>2. BookConsistent'
      BY <1>3, <1>7, <1>11, <1>12, <3>1, SameBook
    <3>. QED  BY <1>3, <3>1, <3>2 DEF TypeOK
  <2>. QED  BY <2>1, <2>2
<1>14. TypeOK'
  <2>1. store' \in SUBSET OrderIds
    BY <1>3, <1>7 DEF TypeOK
  <2>. QED  BY <1>3, <1>7, <1>8, <1>9, <1>10, <1>13, <2>1 DEF TypeOK
<1>15. OneFate'
  <2>1. ASSUME NEW x \in Known
        PROVE  /\ exec'[x] <= order'[x].qty
               /\ x \in store' => x # taker' /\ cancels'[x] = 0 /\ Remaining(x)' > 0
               /\ x = taker' => cancels'[x] = 0
               /\ x \notin store' /\ x # taker' =>
                     (Remaining(x)' = 0 <=> cancels'[x] = 0)
    <3>1. CASE x = t
      BY <1>2, <1>4, <1>5, <1>7, <1>8, <3>1
    <3>2. CASE x = m
      <4>1. x # taker' /\ cancels'[x] = 0 /\ exec'[x] <= order'[x].qty
        BY <1>2, <1>5, <1>7, <1>8, <3>2
      <4>2. x \in store' => Remaining(x)' > 0
        BY <1>12
      <4>3. x \notin store' => Remaining(x)' = 0
        <5>1. x \notin store' => Remaining(m) = q
          BY <1>5, <1>7, <3>2
        <5>. QED  BY <1>5, <1>11, <3>2, <5>1 DEF Remaining
      <4>. QED  BY <4>1, <4>2, <4>3
    <3>3. CASE x # t /\ x # m
      <4>1. x \in OrderIds /\ (x \in store' <=> x \in store)
        BY <1>3, <1>7, <3>3, KnownOrders
      <4>2. exec'[x] = exec[x] /\ Remaining(x)' = Remaining(x)
        BY <1>8, <1>11, <3>3, <4>1
      <4>. QED  BY <1>3, <1>7, <4>1, <4>2 DEF OneFate
    <3>. QED  BY <3>1, <3>2, <3>3
  <2>. QED  BY <1>11, <2>1 DEF OneFate
<1>16. MatchState'
  <2>1. \A x \in OrderIds \ Known' : exec'[x] = 0 /\ cancels'[x] = 0
    BY <1>3, <1>4, <1>5, <1>7, <1>8, <1>11 DEF MatchState
  <2>. QED  BY <1>3, <1>7, <1>11, <2>1 DEF MatchState
<1>. QED  BY <1>13, <1>14, <1>15, <1>16 DEF IInv

-----------------------------------------------------------------------------
(***************************************************************************)
(* The theorems.                                                           *)
(***************************************************************************)

\* Every step of the engine preserves the inductive invariant.
LEMMA NextIInv == IInv /\ [Next]_vars => IInv'
<1> SUFFICES ASSUME IInv, [Next]_vars PROVE IInv'
  OBVIOUS
<1>1. ASSUME NEW r \in Requests, PlaceOrder(r) PROVE IInv'
  BY <1>1, PlaceOrderIInv
<1>2. ASSUME NEW r \in Requests, RejectOrder(r) PROVE IInv'
  BY <1>2, RejectOrderIInv
<1>3. ASSUME NEW r \in Requests, RejectOrderRaises(r) PROVE IInv'
  BY <1>3, RejectOrderRaisesIInv
<1>4. ASSUME NEW r \in Requests, BeginMatch(r) PROVE IInv'
  BY <1>4, BeginMatchIInv
<1>5. ASSUME NEW o \in OrderIds, CancelOrder(o) PROVE IInv'
  BY <1>5, CancelOrderIInv
<1>6. ASSUME NEW o \in OrderIds, ModifyRaises(o) PROVE IInv'
  BY <1>6, ModifyRaisesIInv
<1>7. ASSUME NEW o \in OrderIds, NEW p \in Prices \cup {NoPrice},
             ModifyRequeues(o, p) PROVE IInv'
  BY <1>7, ModifyRequeuesIInv
<1>8. CASE Trade
  BY <1>8, TradeIInv
<1>9. CASE CancelMaker
  BY <1>9, CancelMakerIInv
<1>10. CASE TakerFilled
  BY <1>10, TakerFilledIInv
<1>11. CASE PlaceRemainder
  BY <1>11, PlaceRemainderIInv
<1>12. CASE UNCHANGED vars
  BY <1>12 DEF IInv, vars, TypeOK, BookConsistent, BookMatchesStore, OneFate,
               MatchState, Known, Remaining
<1>. QED  BY <1>1, <1>2, <1>3, <1>4, <1>5, <1>6, <1>7, <1>8, <1>9, <1>10, <1>11,
             <1>12 DEF Next, Command, MatchStep

\* IInv is an invariant of the engine.
THEOREM SpecIInv == Spec => []IInv
<1>1. Init => IInv
  BY InitIInv
<1>2. IInv /\ [Next]_vars => IInv'
  BY NextIInv
<1>. QED  BY <1>1, <1>2, PTL DEF Spec

\* Every variable of the engine keeps its type (balances are integers, and
\* may be negative).
THEOREM TypeCorrect == Spec => []TypeOK
<1>1. IInv => TypeOK
  BY DEF IInv
<1>. QED  BY <1>1, SpecIInv, PTL

\* The cached best prices, the levels and the order store agree in every
\* state the engine can reach: OrderBook.append, OrderBook.remove and the
\* order store are always called in step.
THEOREM BookAlwaysConsistent == Spec => []BookConsistent
<1>1. IInv => BookConsistent
  BY DEF IInv
<1>. QED  BY <1>1, SpecIInv, PTL

\* Every order received is stored, or being matched, or filled, or cancelled,
\* and only one of these.
THEOREM EveryOrderHasOneFate == Spec => []OneFate
<1>1. IInv => OneFate
  BY DEF IInv
<1>. QED  BY <1>1, SpecIInv, PTL

-----------------------------------------------------------------------------
(***************************************************************************)
(* Price and time.  LimitBookSound compares the two cached best prices of  *)
(* an idle engine, and PriceTimePriority two orders in the step of a       *)
(* trade; what is inductive is about all stored orders and about the order *)
(* of every queue.                                                         *)
(***************************************************************************)

\* While only limit orders were sent, no stored bid reaches a stored ask, also
\* while an order is matched.
UncrossedStore ==
    OnlyLimits =>
      /\ pc # "dead_remove"
      /\ \A b, a \in store : order[b].side = "bid" /\ order[a].side = "ask"
                               => order[b].price < order[a].price

\* Who waits in a queue arrived after everyone in front, but for the orders of
\* the system user, which a modify moves back.
Queued(orders, queue) ==
    \A i, j \in DOMAIN queue :
        i < j /\ orders[queue[j]].user # System => queue[i] < queue[j]

InOrder(orders, b) == \A s \in Sides, p \in Prices : Queued(orders, b.level[s][p])

\* The order being matched is the last one received.
TakerNewest == taker # NoOrder => taker = Len(order)

PriorityInv == IInv /\ UncrossedStore /\ InOrder(order, book) /\ TakerNewest

\* A side with a stored order has a best price, which no stored order of the
\* side beats.
LEMMA BestOfStored ==
    ASSUME IInv, NEW x \in store
    PROVE  /\ x \in Known /\ x \in OrderIds
           /\ order[x].side \in Sides /\ order[x].price \in Prices
           /\ book.best[order[x].side] \in Prices
           /\ \/ order[x].price = book.best[order[x].side]
              \/ Better(order[x].side, book.best[order[x].side], order[x].price)
<1>1. TypeOK /\ BookConsistent
  BY DEF IInv
<1>2. x \in Known /\ x \in OrderIds
  BY <1>1, KnownOrders DEF BookConsistent, BookMatchesStore
<1> DEFINE s == order[x].side
           p == order[x].price
<1>3. s \in Sides /\ p \in Prices
  BY <1>1, <1>2, KnownOrders
<1>4. OnLevel(book, s, p, x)
  BY <1>1, <1>2, <1>3 DEF BookConsistent, BookMatchesStore
<1> HIDE DEF s, p
<1>5. book \in Books
  BY <1>1 DEF TypeOK
<1>6. p \in Quotes(book, s) /\ Quotes(book, s) \subseteq Prices
  BY <1>2, <1>3, <1>4, <1>5, QuotesOnLevel DEF Quotes
<1>7. book.best[s] = Extremum(s, Quotes(book, s))
  BY <1>1, <1>3 DEF BookConsistent, BestIsExtremum
<1>8. book.best[s] \in Prices /\ (p = book.best[s] \/ Better(s, book.best[s], p))
  BY <1>3, <1>6, <1>7, ExtremumIsBest
<1>. QED  BY <1>2, <1>3, <1>8 DEF s, p

\* A level with orders has a stored order, and a cached best price has one.
LEMMA StoredOnLevel ==
    ASSUME IInv, NEW s \in Sides
    PROVE  /\ \A p \in Prices : book.level[s][p] # << >>
                 => \E x \in store : order[x].side = s /\ order[x].price = p
           /\ book.best[s] # NoPrice
                 => \E x \in store : order[x].side = s /\ order[x].price = book.best[s]
<1>1. TypeOK /\ BookConsistent /\ book \in Books
  BY DEF IInv, TypeOK
<1>2. ASSUME NEW p \in Prices, p \in Quotes(book, s)
      PROVE  \E x \in store : order[x].side = s /\ order[x].price = p
  <2>1. PICK x \in OrderIds : OnLevel(book, s, p, x)
    BY <1>1, <1>2, QuotesOnLevel
  <2>2. x \in store /\ order[x].side = s /\ order[x].price = p
    BY <1>1, <2>1 DEF BookConsistent, BookMatchesStore
  <2>. QED  BY <2>2
<1>3. \A p \in Prices : book.level[s][p] # << >> => p \in Quotes(book, s)
  BY DEF Quotes
<1>4. book.best[s] # NoPrice => book.best[s] \in Prices /\ book.best[s] \in Quotes(book, s)
  <2>1. Quotes(book, s) \subseteq Prices /\ book.best[s] = Extremum(s, Quotes(book, s))
    BY <1>1 DEF Quotes, BookConsistent, BestIsExtremum
  <2>. QED  BY <2>1, ExtremumIsBest
<1>. QED  BY <1>2, <1>3, <1>4

\* The orders on the levels are stored.
LEMMA LevelsStored ==
    ASSUME IInv, NEW s \in Sides, NEW p \in Prices
    PROVE  /\ book.level[s][p] \in Seq(OrderIds)
           /\ \A i \in DOMAIN book.level[s][p] :
                 /\ book.level[s][p][i] \in store
                 /\ book.level[s][p][i] \in Known
<1>1. book.level[s][p] \in Seq(OrderIds)
  BY DEF IInv, TypeOK, Books
<1>2. ASSUME NEW i \in DOMAIN book.level[s][p]
      PROVE  book.level[s][p][i] \in store /\ book.level[s][p][i] \in Known
  <2>1. book.level[s][p][i] \in OrderIds
    BY <1>1, <1>2
  <2>2. OnLevel(book, s, p, book.level[s][p][i])
    BY <1>2 DEF OnLevel
  <2>. QED  BY <2>1, <2>2 DEF IInv, BookConsistent, BookMatchesStore
<1>. QED  BY <1>1, <1>2

-----------------------------------------------------------------------------

\* An order that joins a queue arrived after the others, or is the system's.
LEMMA QueuedAppend ==
    ASSUME NEW orders, NEW q \in Seq(OrderIds), NEW o \in OrderIds, Queued(orders, q),
           orders[o].user = System \/ \A i \in DOMAIN q : q[i] < o
    PROVE  Queued(orders, Append(q, o))
<1> DEFINE r == Append(q, o)
<1>1. /\ DOMAIN r = 1 .. (Len(q) + 1) /\ DOMAIN q = 1 .. Len(q) /\ Len(q) \in Nat
      /\ \A i \in 1 .. Len(q) : r[i] = q[i]
      /\ r[Len(q) + 1] = o
  BY AppendProperties
<1> HIDE DEF r
<1>2. SUFFICES ASSUME NEW i \in DOMAIN r, NEW j \in DOMAIN r, i < j,
                      orders[r[j]].user # System
               PROVE  r[i] < r[j]
  BY DEF Queued, r
<1>3. i \in DOMAIN q /\ r[i] = q[i]
  BY <1>1, <1>2
<1>4. CASE j = Len(q) + 1
  BY <1>1, <1>2, <1>3, <1>4
<1>5. CASE j # Len(q) + 1
  <2>1. j \in DOMAIN q /\ r[j] = q[j]
    BY <1>1, <1>2, <1>5
  <2>. QED  BY <1>2, <1>3, <2>1 DEF Queued
<1>. QED  BY <1>4, <1>5

\* A queue that an order leaves.
LEMMA QueuedRemove ==
    ASSUME NEW orders, NEW q \in Seq(OrderIds), NEW k \in 1 .. Len(q), Queued(orders, q)
    PROVE  Queued(orders, RemoveAt(q, k))
<1> DEFINE r == RemoveAt(q, k)
<1>1. /\ r \in Seq(OrderIds) /\ Len(r) = Len(q) - 1 /\ Len(q) \in Nat
      /\ \A j \in 1 .. (Len(q) - 1) : r[j] = IF j < k THEN q[j] ELSE q[j + 1]
  BY RemoveAtProperties
<1> HIDE DEF r
<1>2. DOMAIN r = 1 .. (Len(q) - 1) /\ DOMAIN q = 1 .. Len(q)
  BY <1>1
<1>3. SUFFICES ASSUME NEW i \in DOMAIN r, NEW j \in DOMAIN r, i < j,
                      orders[r[j]].user # System
               PROVE  r[i] < r[j]
  BY DEF Queued, r
<1> DEFINE was(n) == IF n < k THEN n ELSE n + 1
<1>4. was(i) \in DOMAIN q /\ was(j) \in DOMAIN q /\ was(i) < was(j)
  BY <1>1, <1>2, <1>3
<1>5. r[i] = q[was(i)] /\ r[j] = q[was(j)]
  BY <1>1, <1>2
<1> HIDE DEF was
<1>. QED  BY <1>3, <1>4, <1>5 DEF Queued

\* OrderBook.append keeps the queues in order, OrderBook.remove too.
LEMMA InOrderAppend ==
    ASSUME NEW orders, NEW b \in Books, NEW s \in Sides, NEW p \in Prices, NEW o \in OrderIds,
           InOrder(orders, b),
           orders[o].user = System \/ \A i \in DOMAIN b.level[s][p] : b.level[s][p][i] < o
    PROVE  InOrder(orders, AppendOrder(b, s, p, o))
<1> DEFINE c == AppendOrder(b, s, p, o)
<1>1. /\ c.level[s][p] = Append(b.level[s][p], o)
      /\ \A s2 \in Sides, p2 \in Prices : ~(s2 = s /\ p2 = p) =>
            c.level[s2][p2] = b.level[s2][p2]
  BY AppendLevels
<1>2. b.level[s][p] \in Seq(OrderIds) /\ Queued(orders, b.level[s][p])
  BY DEF Books, InOrder
<1>3. Queued(orders, c.level[s][p])
  BY <1>1, <1>2, QueuedAppend
<1> HIDE DEF c
<1>. QED  BY <1>1, <1>3 DEF InOrder, c

\* A removal leaves the queues in the order of arrival.
LEMMA InOrderRemove ==
    ASSUME NEW orders, NEW b \in Books, NEW s \in Sides, NEW p \in Prices, NEW o \in OrderIds,
           InOrder(orders, b), OnLevel(b, s, p, o)
    PROVE  InOrder(orders, RemoveOrder(b, s, p, o))
<1> DEFINE c == RemoveOrder(b, s, p, o)
<1>1. /\ c.level[s][p] = Dequeue(b.level[s][p], o)
      /\ \A s2 \in Sides, p2 \in Prices : ~(s2 = s /\ p2 = p) =>
            c.level[s2][p2] = b.level[s2][p2]
  BY RemoveLevels
<1>2. /\ b.level[s][p] \in Seq(OrderIds) /\ Queued(orders, b.level[s][p])
      /\ Position(b.level[s][p], o) \in 1 .. Len(b.level[s][p])
  BY PositionOnLevel DEF Books, InOrder
<1>3. Queued(orders, c.level[s][p])
  BY <1>1, <1>2, QueuedRemove DEF Dequeue
<1> HIDE DEF c
<1>. QED  BY <1>1, <1>3 DEF InOrder, c

-----------------------------------------------------------------------------

\* Receiving an order changes no stored order.
LEMMA InOrderSame ==
    ASSUME IInv, InOrder(order, book), \A x \in Known : order'[x] = order[x]
    PROVE  InOrder(order', book)
<1>1. SUFFICES ASSUME NEW s \in Sides, NEW p \in Prices
               PROVE  Queued(order', book.level[s][p])
  BY DEF InOrder
<1>2. Queued(order, book.level[s][p])
  BY DEF InOrder
<1>3. \A i \in DOMAIN book.level[s][p] : order'[book.level[s][p][i]] = order[book.level[s][p][i]]
  BY LevelsStored
<1>. QED  BY <1>2, <1>3 DEF Queued

\* An order that has just arrived joins its queue.
LEMMA InOrderPlace ==
    ASSUME IInv, IInv', InOrder(order, book), \A x \in Known : order'[x] = order[x],
           NEW s \in Sides, NEW p \in Prices, NEW n \in OrderIds, n \notin store,
           \A x \in Known : x <= n,
           book' = AppendOrder(book, s, p, n)
    PROVE  InOrder(order', book')
<1>1. InOrder(order', book) /\ book \in Books
  BY InOrderSame DEF IInv, TypeOK
<1>2. ASSUME NEW i \in DOMAIN book.level[s][p] PROVE book.level[s][p][i] < n
  <2>1. book.level[s][p][i] \in store /\ book.level[s][p][i] \in Known
    BY <1>2, LevelsStored
  <2>2. book.level[s][p][i] <= n /\ book.level[s][p][i] # n
    BY <2>1
  <2>3. book.level[s][p][i] \in Nat /\ n \in Nat
    BY <2>1, KnownOrders DEF IInv, OrderIds
  <2>. QED  BY <2>2, <2>3
<1>. QED  BY <1>1, <1>2, InOrderAppend

\* A step that takes no order and stores none.
LEMMA FewerStored ==
    ASSUME PriorityInv, order' = order, store' \subseteq store,
           pc' = "dead_remove" => pc = "dead_remove"
    PROVE  UncrossedStore'
<1>1. OnlyLimits' = OnlyLimits
  BY DEF OnlyLimits, Known
<1>. QED  BY <1>1 DEF PriorityInv, UncrossedStore

\* Only limit orders now, only limit orders before.
LEMMA OnlyLimitsBefore ==
    ASSUME IInv, NEW r \in Requests, Receive(r), OnlyLimits'
    PROVE  OnlyLimits /\ r.type = "limit"
<1>1. /\ Known' = Known \cup {Len(order) + 1} /\ order'[Len(order) + 1] = r
      /\ \A o \in Known : order'[o] = order[o]
  BY ReceiveAdds DEF IInv
<1>. QED  BY <1>1 DEF OnlyLimits

\* An order that does not cross the best price of the other side does not cross
\* any stored order.
LEMMA RestingUncrossed ==
    ASSUME IInv, NEW side \in Sides, NEW price \in Prices,
           ~LimitCrossable(book, side, price),
           NEW x \in store, order[x].side = Opposite(side)
    PROVE  IF side = "bid" THEN price < order[x].price ELSE order[x].price < price
<1>1. /\ book.best[Opposite(side)] \in Prices /\ order[x].price \in Prices
      /\ \/ order[x].price = book.best[Opposite(side)]
         \/ Better(Opposite(side), book.best[Opposite(side)], order[x].price)
  BY BestOfStored
<1>2. \A q \in Prices : q \in Nat /\ q # NoPrice
  BY MaxPriceAssumption DEF Prices, NoPrice
<1> DEFINE best == book.best[Opposite(side)]
<1>3. best \in Nat /\ best # NoPrice /\ order[x].price \in Nat /\ price \in Nat
  BY <1>1, <1>2
<1>4. IF side = "bid" THEN ~(price >= best) ELSE ~(price <= best)
  BY <1>3 DEF LimitCrossable
<1>5. CASE side = "bid"
  <2>1. order[x].price = best \/ best < order[x].price
    BY <1>1, <1>5 DEF Opposite, Better
  <2>. QED  BY <1>3, <1>4, <1>5, <2>1
<1>6. CASE side # "bid"
  <2>1. order[x].price = best \/ best > order[x].price
    BY <1>1, <1>6 DEF Opposite, Better
  <2>. QED  BY <1>3, <1>4, <1>6, <2>1
<1>. QED  BY <1>5, <1>6

\* The new order rests behind all that have its price.
LEMMA PlaceOrderPriority ==
    ASSUME PriorityInv, NEW r \in Requests, PlaceOrder(r)
    PROVE  PriorityInv'
<1> PICK n : n = Len(order) + 1
  OBVIOUS
<1>1. /\ Receive(r) /\ ~Matchable(r) /\ pc' = pc /\ taker' = taker /\ exec' = exec
      /\ store' = store \cup {n} /\ book' = AppendOrder(book, r.side, r.price, n)
  BY DEF PlaceOrder
<1>2. IInv /\ IInv'
  BY PlaceOrderIInv DEF PriorityInv
<1>3. /\ n \in OrderIds /\ n \notin Known /\ Known' = Known \cup {n} /\ order'[n] = r
      /\ \A x \in Known : order'[x] = order[x]
  BY <1>1, <1>2, ReceiveAdds DEF IInv
<1>4. /\ taker = NoOrder /\ pc = "idle" /\ n \notin store
      /\ r.side \in Sides /\ r.price \in Prices
      /\ \A x \in store : x \in Known /\ order'[x] = order[x]
  BY <1>1, <1>2, ReceiveState
<1>5. InOrder(order', book')
  <2>1. \A x \in Known : x <= n
    BY <1>2, KnownOrders DEF IInv
  <2>. QED  BY <1>1, <1>2, <1>3, <1>4, <2>1, InOrderPlace DEF PriorityInv
<1>6. ASSUME OnlyLimits', NEW b \in store', NEW a \in store',
             order'[b].side = "bid", order'[a].side = "ask"
      PROVE  order'[b].price < order'[a].price
  <2>1. OnlyLimits /\ ~LimitCrossable(book, r.side, r.price)
    BY <1>1, <1>2, <1>6, OnlyLimitsBefore DEF Matchable
  <2>2. CASE b = n
    <3>1. a \in store /\ order[a].side = Opposite(r.side) /\ r.side = "bid"
      BY <1>1, <1>3, <1>4, <1>6, <2>2 DEF Opposite
    <3>. QED  BY <1>2, <1>3, <1>4, <2>1, <2>2, <3>1, RestingUncrossed
  <2>3. CASE b # n /\ a = n
    <3>1. b \in store /\ order[b].side = Opposite(r.side) /\ r.side = "ask"
      BY <1>1, <1>3, <1>4, <1>6, <2>3 DEF Opposite
    <3>. QED  BY <1>2, <1>3, <1>4, <2>1, <2>3, <3>1, RestingUncrossed
  <2>4. CASE b # n /\ a # n
    <3>1. b \in store /\ a \in store
      BY <1>1, <2>4
    <3>. QED  BY <1>4, <1>6, <2>1, <3>1 DEF PriorityInv, UncrossedStore
  <2>. QED  BY <2>2, <2>3, <2>4
<1>7. UncrossedStore'
  BY <1>1, <1>4, <1>6 DEF UncrossedStore
<1>8. TakerNewest'
  BY <1>1, <1>4 DEF TakerNewest
<1>. QED  BY <1>2, <1>5, <1>7, <1>8 DEF PriorityInv

\* The new order is not placed.
LEMMA NotPlacedPriority ==
    ASSUME PriorityInv, NEW r \in Requests, Receive(r), IInv', exec' = exec,
           store' = store, book' = book,
           taker' \in {NoOrder, Len(order) + 1},
           OnlyLimits' => pc' # "dead_remove"
    PROVE  PriorityInv'
<1>1. IInv
  BY DEF PriorityInv
<1>2. /\ \A x \in Known : order'[x] = order[x]
      /\ \A x \in store : x \in Known
  BY <1>1, ReceiveAdds, ReceiveState DEF IInv
<1>3. InOrder(order', book')
  BY <1>1, <1>2, InOrderSame DEF PriorityInv
<1>4. UncrossedStore'
  BY <1>1, <1>2, OnlyLimitsBefore DEF PriorityInv, UncrossedStore
<1>5. Len(order') = Len(order) + 1
  BY <1>1 DEF IInv, TypeOK, Receive
<1>6. TakerNewest'
  BY <1>5 DEF TakerNewest
<1>. QED  BY <1>3, <1>4, <1>6 DEF PriorityInv

\* A level of an order's own side at a price that crosses would be crossed, so
\* that the rejection of a limit order never fails.
LEMMA RejectPriority ==
    ASSUME PriorityInv, NEW r \in Requests,
           RejectOrder(r) \/ RejectOrderRaises(r) \/ BeginMatch(r)
    PROVE  PriorityInv'
<1>1. IInv /\ IInv'
  BY RejectOrderIInv, RejectOrderRaisesIInv, BeginMatchIInv DEF PriorityInv
<1>2. /\ Receive(r) /\ exec' = exec /\ store' = store /\ book' = book /\ Matchable(r)
  BY DEF RejectOrder, RejectOrderRaises, BeginMatch
<1>3. taker = NoOrder /\ pc = "idle" /\ r.side \in Sides /\ r.price \in Prices
  BY <1>1, <1>2, ReceiveState
<1>4. taker' \in {NoOrder, Len(order) + 1}
  BY <1>3 DEF RejectOrder, RejectOrderRaises, BeginMatch
<1>5. CASE RejectOrder(r) \/ BeginMatch(r)
  <2>1. pc' # "dead_remove"
    BY <1>3, <1>5 DEF RejectOrder, BeginMatch
  <2>. QED  BY <1>1, <1>2, <1>4, <2>1, NotPlacedPriority
<1>6. CASE RejectOrderRaises(r)
  <2>1. ASSUME OnlyLimits' PROVE FALSE
    <3>1. OnlyLimits /\ LimitCrossable(book, r.side, r.price)
      BY <1>1, <1>2, <2>1, OnlyLimitsBefore DEF Matchable
    <3>2. PICK x \in store : order[x].side = r.side /\ order[x].price = r.price
      BY <1>1, <1>3, <1>6, StoredOnLevel DEF RejectOrderRaises
    <3>3. Opposite(r.side) \in Sides
      BY DEF Opposite, Sides
    <3>4. book.best[Opposite(r.side)] # NoPrice
      BY <3>1 DEF LimitCrossable
    <3>5. PICK y \in store : /\ order[y].side = Opposite(r.side)
                             /\ order[y].price = book.best[Opposite(r.side)]
      BY <1>1, <3>3, <3>4, StoredOnLevel
    <3>6. IF r.side = "bid" THEN r.price >= order[y].price ELSE r.price <= order[y].price
      BY <3>1, <3>5 DEF LimitCrossable
    <3>7. IF r.side = "bid" THEN order[x].price < order[y].price
                            ELSE order[y].price < order[x].price
      BY <1>3, <3>1, <3>2, <3>5 DEF PriorityInv, UncrossedStore, Opposite, Sides
    <3>8. order[x].price \in Nat /\ order[y].price \in Nat
      BY <1>1, BestOfStored, MaxPriceAssumption DEF Prices
    <3>. QED  BY <3>2, <3>6, <3>7, <3>8
  <2>. QED  BY <1>1, <1>2, <1>4, <2>1, NotPlacedPriority
<1>. QED  BY <1>5, <1>6

\* A stored order leaves the book, or a step leaves the book alone.
LEMMA RemovePriority ==
    ASSUME PriorityInv, IInv', order' = order, taker' \in {NoOrder, taker},
           pc' = "dead_remove" => pc = "dead_remove", store' \subseteq store,
           \/ book' = book
           \/ \E o \in store : book' = RemoveOrder(book, order[o].side, order[o].price, o)
    PROVE  PriorityInv'
<1>1. IInv /\ InOrder(order, book) /\ book \in Books
  BY DEF PriorityInv, IInv, TypeOK
<1>2. InOrder(order', book')
  <2>1. CASE book' = book
    BY <1>1, <2>1
  <2>2. ASSUME NEW o \in store, book' = RemoveOrder(book, order[o].side, order[o].price, o)
        PROVE  InOrder(order', book')
    <3>1. o \in OrderIds /\ order[o].side \in Sides /\ order[o].price \in Prices
      BY <1>1, BestOfStored
    <3>2. OnLevel(book, order[o].side, order[o].price, o)
      BY <1>1, <3>1 DEF IInv, BookConsistent, BookMatchesStore
    <3>. QED  BY <1>1, <2>2, <3>1, <3>2, InOrderRemove
  <2>. QED  BY <2>1, <2>2
<1>3. UncrossedStore'
  BY FewerStored
<1>4. TakerNewest'
  BY DEF PriorityInv, TakerNewest
<1>. QED  BY <1>2, <1>3, <1>4 DEF PriorityInv

\* Cancellations, by a command or while an order is matched.
LEMMA CancelPriority ==
    ASSUME PriorityInv, CancelMaker \/ \E o \in OrderIds : CancelOrder(o)
    PROVE  PriorityInv'
<1>1. IInv /\ IInv'
  BY CancelOrderIInv, CancelMakerIInv DEF PriorityInv
<1>2. CASE CancelMaker
  <2>1. /\ Maker \in store /\ order[Maker].side = MakerSide
        /\ order[Maker].price = book.best[MakerSide]
    BY <1>1, <1>2, MakerFacts DEF CancelMaker
  <2>2. /\ order' = order /\ taker' = taker /\ pc' = pc /\ store' = store \ {Maker}
        /\ book' = RemoveOrder(book, order[Maker].side, order[Maker].price, Maker)
    BY <1>2, <2>1 DEF CancelMaker
  <2>. QED  BY <1>1, <2>1, <2>2, RemovePriority
<1>3. ASSUME NEW o \in OrderIds, CancelOrder(o) PROVE PriorityInv'
  <2>1. /\ o \in store /\ order' = order /\ taker' = taker /\ pc' = pc /\ store' = store \ {o}
        /\ book' = RemoveOrder(book, order[o].side, order[o].price, o)
    BY <1>3 DEF CancelOrder
  <2>. QED  BY <1>1, <2>1, RemovePriority
<1>. QED  BY <1>2, <1>3

\* A trade removes a maker that it fills, and the end of a match nothing.
LEMMA TradePriority ==
    ASSUME PriorityInv, Trade \/ TakerFilled \/ (\E o \in OrderIds : ModifyRaises(o))
    PROVE  PriorityInv'
<1>1. IInv /\ IInv'
  BY TradeIInv, TakerFilledIInv, ModifyRaisesIInv DEF PriorityInv
<1>2. CASE Trade
  <2>1. /\ Maker \in store /\ order[Maker].side = MakerSide
        /\ order[Maker].price = book.best[MakerSide]
    BY <1>1, <1>2, MakerFacts DEF Trade
  <2>2. /\ order' = order /\ taker' = taker /\ pc' = pc
        /\ store' = IF Remaining(Maker) = TradeQuantity THEN store \ {Maker} ELSE store
        /\ book' = IF Remaining(Maker) = TradeQuantity
                   THEN RemoveOrder(book, order[Maker].side, order[Maker].price, Maker)
                   ELSE book
    BY <1>2, <2>1 DEF Trade
  <2>. QED  BY <1>1, <2>1, <2>2, RemovePriority
<1>3. CASE TakerFilled
  BY <1>1, <1>3, RemovePriority DEF TakerFilled
<1>4. ASSUME NEW o \in OrderIds, ModifyRaises(o) PROVE PriorityInv'
  BY <1>1, <1>4, RemovePriority DEF ModifyRaises
<1>. QED  BY <1>2, <1>3, <1>4

\* A modify moves an order of the system user to the end of its queue.
LEMMA ModifyPriority ==
    ASSUME PriorityInv, NEW o \in OrderIds, NEW newPrice \in Prices \cup {NoPrice},
           ModifyRequeues(o, newPrice)
    PROVE  PriorityInv'
<1> DEFINE s == order[o].side
           p == order[o].price
           without == RemoveOrder(book, s, p, o)
<1>1. IInv /\ IInv'
  BY ModifyRequeuesIInv DEF PriorityInv
<1>2. /\ o \in store /\ order[o].user = System
      /\ book' = AppendOrder(without, s, p, o)
      /\ order' = order /\ store' = store /\ pc' = pc /\ taker' = taker
  BY DEF ModifyRequeues
<1>3. s \in Sides /\ p \in Prices /\ book \in Books /\ InOrder(order, book)
  BY <1>1, <1>2, BestOfStored DEF PriorityInv, IInv, TypeOK
<1>4. OnLevel(book, s, p, o)
  BY <1>1, <1>2, <1>3 DEF IInv, BookConsistent, BookMatchesStore
<1> HIDE DEF s, p
<1>5. without \in Books /\ InOrder(order, without)
  BY <1>3, <1>4, RemoveLevels, InOrderRemove
<1> HIDE DEF without
<1>6. InOrder(order, book')
  BY <1>2, <1>3, <1>5, InOrderAppend
<1>7. UncrossedStore'
  BY <1>2, FewerStored
<1>8. TakerNewest'
  BY <1>2 DEF PriorityInv, TakerNewest
<1>. QED  BY <1>1, <1>2, <1>6, <1>7, <1>8 DEF PriorityInv

\* What is left of the order that was matched is placed when the other side is
\* empty, and no order has arrived since.
LEMMA RemainderPriority == ASSUME PriorityInv, PlaceRemainder PROVE PriorityInv'
<1> PICK t : t = taker
  OBVIOUS
<1>1. IInv /\ IInv'
  BY PlaceRemainderIInv DEF PriorityInv
<1>2. /\ pc = "matching" /\ pc' = "idle" /\ taker' = NoOrder /\ order' = order
      /\ store' = store \cup {t} /\ book.best[Opposite(order[t].side)] = NoPrice
      /\ book' = AppendOrder(book, order[t].side, order[t].price, t)
  BY DEF PlaceRemainder, MakerSide
<1>3. /\ t \in Known /\ t \in OrderIds /\ t \notin store
      /\ order[t].side \in Sides /\ order[t].price \in Prices
  BY <1>1, <1>2, TakerFacts
<1>4. \A x \in Known : x <= t
  <2>1. t = Len(order)
    BY <1>1, <1>2 DEF PriorityInv, TakerNewest, IInv, MatchState
  <2>. QED  BY <1>1, <2>1, KnownOrders DEF IInv
<1>5. InOrder(order', book')
  BY <1>1, <1>2, <1>3, <1>4, InOrderPlace DEF PriorityInv
<1>6. \A x \in store : order[x].side # Opposite(order[t].side)
  <2>1. \A q \in Prices : q # NoPrice
    BY DEF Prices, NoPrice
  <2>. QED  BY <1>1, <1>2, <2>1, BestOfStored
<1>7. UncrossedStore'
  <2>1. OnlyLimits' = OnlyLimits
    BY <1>2 DEF OnlyLimits, Known
  <2>2. ASSUME OnlyLimits, NEW b \in store', NEW a \in store',
               order[b].side = "bid", order[a].side = "ask"
        PROVE  order[b].price < order[a].price
    <3>1. b \in store /\ a \in store
      BY <1>2, <1>3, <1>6, <2>2 DEF Opposite
    <3>. QED  BY <2>2, <3>1 DEF PriorityInv, UncrossedStore
  <2>. QED  BY <1>2, <2>1, <2>2 DEF UncrossedStore
<1>8. TakerNewest'
  BY <1>2 DEF TakerNewest
<1>. QED  BY <1>1, <1>5, <1>7, <1>8 DEF PriorityInv

\* Every step of the engine keeps the queues in order and the book uncrossed.
LEMMA PriorityNext == PriorityInv /\ [Next]_vars => PriorityInv'
<1> SUFFICES ASSUME PriorityInv, [Next]_vars PROVE PriorityInv'
  OBVIOUS
<1>1. CASE Command
  BY <1>1, PlaceOrderPriority, RejectPriority, CancelPriority, TradePriority, ModifyPriority
     DEF Command
<1>2. CASE MatchStep
  BY <1>2, CancelPriority, TradePriority, RemainderPriority DEF MatchStep
<1>3. CASE UNCHANGED vars
  <2>1. IInv'
    BY <1>3, NextIInv DEF PriorityInv
  <2>. QED  BY <1>3, <2>1, RemovePriority DEF vars
<1>. QED  BY <1>1, <1>2, <1>3 DEF Next

\* The engine starts with an empty book.
LEMMA PriorityInit == Init => PriorityInv
<1> SUFFICES ASSUME Init PROVE PriorityInv
  OBVIOUS
<1>1. InOrder(order, book)
  BY DEF Init, EmptyBook, InOrder, Queued
<1>2. UncrossedStore /\ TakerNewest
  BY DEF Init, UncrossedStore, TakerNewest
<1>. QED  BY <1>1, <1>2, InitIInv DEF PriorityInv

\* Best prices are prices of stored orders.
LEMMA UncrossedBest == PriorityInv => LimitBookSound
<1> SUFFICES ASSUME PriorityInv, OnlyLimits
             PROVE  /\ pc # "dead_remove"
                    /\ book.best["bid"] # NoPrice /\ book.best["ask"] # NoPrice
                         => book.best["bid"] < book.best["ask"]
  BY DEF LimitBookSound
<1>1. IInv /\ UncrossedStore /\ "bid" \in Sides /\ "ask" \in Sides
  BY DEF PriorityInv, Sides
<1>2. ASSUME book.best["bid"] # NoPrice, book.best["ask"] # NoPrice
      PROVE  book.best["bid"] < book.best["ask"]
  <2>1. PICK b \in store : order[b].side = "bid" /\ order[b].price = book.best["bid"]
    BY <1>1, <1>2, StoredOnLevel
  <2>2. PICK a \in store : order[a].side = "ask" /\ order[a].price = book.best["ask"]
    BY <1>1, <1>2, StoredOnLevel
  <2>. QED  BY <1>1, <2>1, <2>2 DEF UncrossedStore
<1>. QED  BY <1>1, <1>2 DEF UncrossedStore

\* limit_crossable, SpotEngine._match and the placement of what is left: while
\* only limit orders have been sent the book is not crossed between two commands,
\* and a rejection finds no level to remove its order from.
THEOREM LimitBookAlwaysSound == Spec => []LimitBookSound
<1>1. Spec => []PriorityInv
  BY PriorityInit, PriorityNext, PTL DEF Spec
<1>. QED  BY <1>1, UncrossedBest, PTL

\* Only a trade fills a stored order, and it is the head of the best level.
LEMMA OnlyMakerFilled ==
    ASSUME PriorityInv, [Next]_vars, NEW o \in store, exec'[o] > exec[o]
    PROVE  Matching /\ o = Maker
<1>1. IInv /\ o \in OrderIds /\ exec \in [OrderIds -> Nat]
  BY DEF PriorityInv, IInv, TypeOK
<1>2. exec' # exec
  <2>1. exec[o] \in Nat
    BY <1>1
  <2>. QED  BY <2>1
<1>3. Trade
  BY <1>2 DEF Next, Command, MatchStep, vars, PlaceOrder, RejectOrder, RejectOrderRaises,
              BeginMatch, CancelOrder, ModifyRaises, ModifyRequeues, CancelMaker, TakerFilled,
              PlaceRemainder
<1>4. Matching /\ pc = "matching"
  BY <1>3 DEF Trade, Matching
<1>5. o # taker
  BY <1>1, <1>4, TakerFacts
<1>6. exec' = [exec EXCEPT ![taker] = @ + TradeQuantity, ![Maker] = @ + TradeQuantity]
  BY <1>3 DEF Trade
<1>7. o = Maker
  <2>1. SUFFICES ASSUME o # Maker PROVE FALSE
    OBVIOUS
  <2>2. exec'[o] = exec[o]
    BY <1>1, <1>5, <1>6, <2>1
  <2>3. exec[o] \in Nat
    BY <1>1
  <2>. QED  BY <2>2, <2>3
<1>. QED  BY <1>4, <1>7

\* The maker has the best price of its side and is in front of its queue.
LEMMA MakerHasPriority ==
    ASSUME PriorityInv, Matching, NEW q \in store \ {Maker}, order[q].side = order[Maker].side
    PROVE  /\ ~Better(order[Maker].side, order[q].price, order[Maker].price)
           /\ order[q].price = order[Maker].price /\ order[q].user # System => Maker < q
<1>1. IInv /\ InOrder(order, book)
  BY DEF PriorityInv
<1> DEFINE s == MakerSide
           p == book.best[MakerSide]
           l == book.level[s][p]
<1>2. /\ p \in Prices /\ Maker \in store /\ order[Maker].side = s /\ order[Maker].price = p
      /\ Maker \in OrderIds
  BY <1>1, MakerFacts
<1>3. /\ q \in OrderIds /\ s \in Sides /\ order[q].price \in Prices
      /\ order[q].price = p \/ Better(s, p, order[q].price)
  BY <1>1, <1>2, BestOfStored
<1>4. ~Better(s, order[q].price, p)
  <2>1. p \in Nat /\ order[q].price \in Nat
    BY <1>2, <1>3, MaxPriceAssumption DEF Prices
  <2>. QED  BY <1>3, <2>1 DEF Better
<1>5. ASSUME order[q].price = p, order[q].user # System PROVE Maker < q
  <2>1. OnLevel(book, s, p, q)
    BY <1>1, <1>2, <1>3, <1>5 DEF IInv, BookConsistent, BookMatchesStore
  <2>2. PICK j \in DOMAIN l : l[j] = q
    BY <2>1 DEF OnLevel
  <2>3. l \in Seq(OrderIds) /\ Queued(order, l)
    BY <1>1, <1>2, <1>3, LevelsStored DEF InOrder
  <2>4. Maker = Head(l)
    BY DEF Maker
  <2> HIDE DEF l
  <2>5. Maker = l[1] /\ 1 \in DOMAIN l /\ j \in Nat
    BY <2>2, <2>3, <2>4
  <2>6. 1 < j
    BY <2>2, <2>3, <2>5
  <2>. QED  BY <1>5, <2>2, <2>3, <2>5, <2>6 DEF Queued
<1>. QED  BY <1>2, <1>4, <1>5

\* SpotEngine._match on the queues of PriceLevel: a trade fills the stored order
\* with the best price of its side that came first, whatever was cancelled,
\* filled in part or moved back in between.
THEOREM PriceTimePriorityHolds == Spec => PriceTimePriority
<1>1. PriorityInv /\ [Next]_vars =>
        [\A o \in store : exec'[o] > exec[o] =>
           \A q \in store \ {o} : order[q].side = order[o].side =>
              /\ ~Better(order[o].side, order[q].price, order[o].price)
              /\ order[q].price = order[o].price /\ order[q].user # System
                   => o < q]_vars
  BY OnlyMakerFilled, MakerHasPriority
<1>2. Spec => []PriorityInv
  BY PriorityInit, PriorityNext, PTL DEF Spec
<1>. QED  BY <1>1, <1>2, PTL DEF Spec, PriceTimePriority

-----------------------------------------------------------------------------
(***************************************************************************)
(* Sums.  SumOver is a fold: a function on the subsets, defined by         *)
(* recursion on their size.  That such a function exists, and that the     *)
(* order in which the fold takes the elements does not matter, is shown    *)
(* for the smallest subset for which it would fail.                        *)
(***************************************************************************)

\* The element the fold takes next.
Taken(s) == CHOOSE x \in s : TRUE

\* The sum of a set by those of its subsets.
SumStep(g, s, f) == IF s = {} THEN 0 ELSE f[Taken(s)] + g[s \ {Taken(s)}]

IsSum(g, S, f) == g = [s \in SUBSET S |-> SumStep(g, s, f)]

Summand(S, f) == IsFiniteSet(S) /\ \A x \in S : f[x] \in Int

\* The recursion has a solution up to size n.
SumExists(S, f, n) ==
    \E g \in [SUBSET S -> Int] :
        \A s \in SUBSET S : Cardinality(s) <= n => g[s] = SumStep(g, s, f)

\* What the fold of SumOver is.
LEMMA SumIsFold ==
    ASSUME NEW S, NEW f
    PROVE  SumOver(S, f) = (CHOOSE g : IsSum(g, S, f))[S]
  BY DEF SumOver, MapThenSumSet, MapThenFoldSet, IsSum, SumStep, Taken

\* What the fold takes is an element, and less is left.
LEMMA TakenLeaves ==
    ASSUME NEW s, IsFiniteSet(s), s # {}
    PROVE  /\ Taken(s) \in s
           /\ IsFiniteSet(s \ {Taken(s)})
           /\ Cardinality(s) \in Nat /\ Cardinality(s \ {Taken(s)}) \in Nat
           /\ Cardinality(s \ {Taken(s)}) < Cardinality(s)
<1>1. Taken(s) \in s
  BY DEF Taken
<1>2. /\ IsFiniteSet(s \ {Taken(s)})
      /\ Cardinality(s \ {Taken(s)}) = Cardinality(s) - 1
  BY <1>1, FS_RemoveElement
<1>3. Cardinality(s) \in Nat /\ Cardinality(s \ {Taken(s)}) \in Nat
  BY <1>2, FS_CardinalityType
<1>. QED  BY <1>1, <1>2, <1>3

\* The subsets of a finite set are finite.
LEMMA FiniteSubsets ==
    ASSUME NEW S, IsFiniteSet(S), NEW s \in SUBSET S
    PROVE  IsFiniteSet(s) /\ Cardinality(s) \in Nat /\ Cardinality(s) <= Cardinality(S)
  BY FS_Subset, FS_CardinalityType

\* Two functions that satisfy the recursion agree on the sets both are for.
LEMMA SumUnique ==
    ASSUME NEW S, NEW R, NEW f, IsFiniteSet(S), IsFiniteSet(R),
           NEW g, NEW h, IsSum(g, S, f), IsSum(h, R, f),
           NEW t \in SUBSET S, t \in SUBSET R
    PROVE  g[t] = h[t]
<1> DEFINE Bad == {s \in SUBSET S : s \in SUBSET R /\ g[s] # h[s]}
           T == {Cardinality(s) : s \in Bad}
<1>1. SUFFICES ASSUME t \in Bad PROVE FALSE
  OBVIOUS
<1>2. \A s \in Bad : IsFiniteSet(s) /\ Cardinality(s) \in Nat
  BY FiniteSubsets
<1>3. T \subseteq Nat /\ T # {}
  BY <1>1, <1>2
<1> HIDE DEF T
<1>4. PICK k \in T : \A j \in T : k <= j
  BY <1>3, LeastNatural
<1>5. PICK s \in Bad : k = Cardinality(s)
  BY <1>4 DEF T
<1>6. g[s] = SumStep(g, s, f) /\ h[s] = SumStep(h, s, f)
  BY DEF IsSum
<1>7. s # {}
  BY <1>6 DEF SumStep
<1>8. PICK r : r = s \ {Taken(s)}
  OBVIOUS
<1>9. Cardinality(r) \in Nat /\ Cardinality(r) < k /\ k \in Nat
  BY <1>2, <1>5, <1>7, <1>8, TakenLeaves
<1>10. r \notin Bad
  <2>1. SUFFICES ASSUME r \in Bad PROVE FALSE
    OBVIOUS
  <2>2. Cardinality(r) \in T
    BY <2>1 DEF T
  <2>. QED  BY <1>4, <1>9, <2>2
<1>11. g[r] = h[r]
  BY <1>8, <1>10
<1>. QED  BY <1>6, <1>7, <1>8, <1>11 DEF SumStep

\* Up to every size there is a function that satisfies the recursion.
LEMMA SumUpTo ==
    ASSUME NEW S, NEW f, Summand(S, f), NEW n \in Nat
    PROVE  SumExists(S, f, n)
<1> DEFINE P(k) == SumExists(S, f, k)
           T == {k \in Nat : ~P(k)}
<1>1. SUFFICES T = {}
  OBVIOUS
<1>2. SUFFICES ASSUME T # {} PROVE FALSE
  OBVIOUS
<1>3. PICK k \in T : \A j \in T : k <= j
  BY <1>2, LeastNatural
<1>4. k \in Nat /\ ~P(k)
  OBVIOUS
<1> HIDE DEF P, SumExists
<1>5. CASE k = 0
  <2>1. PICK g : g = [s \in SUBSET S |-> 0]
    OBVIOUS
  <2>2. g \in [SUBSET S -> Int]
    BY <2>1
  <2>3. ASSUME NEW s \in SUBSET S, Cardinality(s) <= k PROVE g[s] = SumStep(g, s, f)
    <3>1. IsFiniteSet(s) /\ Cardinality(s) \in Nat
      BY FiniteSubsets DEF Summand
    <3>2. s = {}
      BY <1>5, <2>3, <3>1, FS_EmptySet
    <3>. QED  BY <2>1, <3>2 DEF SumStep
  <2>. QED  BY <1>4, <2>2, <2>3 DEF P, SumExists
<1>6. CASE k # 0
  <2>1. P(k - 1)
    <3>1. k - 1 \in Nat /\ ~(k <= k - 1)
      BY <1>4, <1>6
    <3>. QED  BY <1>3, <3>1
  <2>2. PICK h \in [SUBSET S -> Int] :
            \A s \in SUBSET S : Cardinality(s) <= k - 1 => h[s] = SumStep(h, s, f)
    BY <2>1 DEF P, SumExists
  <2>3. PICK g : g = [s \in SUBSET S |-> SumStep(h, s, f)]
    OBVIOUS
  <2>4. ASSUME NEW s \in SUBSET S PROVE SumStep(h, s, f) \in Int
    <3>1. CASE s = {}
      BY <3>1 DEF SumStep
    <3>2. CASE s # {}
      <4>1. Taken(s) \in s
        BY <3>2, FiniteSubsets, TakenLeaves DEF Summand
      <4>2. f[Taken(s)] \in Int /\ h[s \ {Taken(s)}] \in Int
        BY <4>1 DEF Summand
      <4>. QED  BY <3>2, <4>2 DEF SumStep
    <3>. QED  BY <3>1, <3>2
  <2>5. g \in [SUBSET S -> Int]
    BY <2>3, <2>4
  <2>6. ASSUME NEW s \in SUBSET S, Cardinality(s) <= k PROVE g[s] = SumStep(g, s, f)
    <3>1. g[s] = SumStep(h, s, f)
      BY <2>3
    <3>2. CASE s = {}
      BY <3>1, <3>2 DEF SumStep
    <3>3. CASE s # {}
      <4>1. PICK r \in SUBSET S : r = s \ {Taken(s)}
        OBVIOUS
      <4>2. Cardinality(r) \in Nat /\ Cardinality(s) \in Nat /\ Cardinality(r) < Cardinality(s)
        BY <3>3, <4>1, FiniteSubsets, TakenLeaves DEF Summand
      <4>3. Cardinality(r) <= k - 1
        BY <1>4, <2>6, <4>2
      <4>4. g[r] = h[r]
        BY <2>2, <2>3, <4>3
      <4>. QED  BY <3>1, <3>3, <4>1, <4>4 DEF SumStep
    <3>. QED  BY <3>2, <3>3
  <2>. QED  BY <1>4, <2>5, <2>6 DEF P, SumExists
<1>. QED  BY <1>5, <1>6

\* So there is one for all subsets.
LEMMA SumByRecursion ==
    ASSUME NEW S, NEW f, Summand(S, f)
    PROVE  \E g \in [SUBSET S -> Int] : IsSum(g, S, f) /\ SumOver(S, f) = g[S]
<1>1. IsFiniteSet(S) /\ Cardinality(S) \in Nat
  BY FS_CardinalityType DEF Summand
<1>2. PICK a \in [SUBSET S -> Int] :
          \A s \in SUBSET S : Cardinality(s) <= Cardinality(S) => a[s] = SumStep(a, s, f)
  <2>1. PICK n \in Nat : n = Cardinality(S)
    BY <1>1
  <2>2. SumExists(S, f, n)
    BY SumUpTo
  <2>. QED  BY <2>1, <2>2 DEF SumExists
<1>3. \A s \in SUBSET S : a[s] = SumStep(a, s, f)
  BY <1>1, <1>2, FiniteSubsets
<1>4. IsSum(a, S, f)
  BY <1>2, <1>3 DEF IsSum
<1>5. PICK h : h = CHOOSE x : IsSum(x, S, f)
  OBVIOUS
<1>6. IsSum(h, S, f) /\ SumOver(S, f) = h[S]
  BY <1>4, <1>5, SumIsFold
<1>7. \A s \in SUBSET S : h[s] = a[s]
  BY <1>1, <1>4, <1>6, SumUnique
<1>8. h \in [SUBSET S -> Int]
  <2>1. h = [s \in SUBSET S |-> h[s]]
    BY <1>6 DEF IsSum
  <2>2. \A s \in SUBSET S : h[s] \in Int
    BY <1>2, <1>7
  <2>. QED  BY <2>1, <2>2
<1>. QED  BY <1>6, <1>8

\* The sum of a set by the element the fold takes.
LEMMA SumUnfolds ==
    ASSUME NEW S, NEW f, Summand(S, f)
    PROVE  /\ SumOver(S, f) \in Int
           /\ S = {} => SumOver(S, f) = 0
           /\ S # {} => SumOver(S, f) = f[Taken(S)] + SumOver(S \ {Taken(S)}, f)
<1>1. PICK g \in [SUBSET S -> Int] : IsSum(g, S, f) /\ SumOver(S, f) = g[S]
  BY SumByRecursion
<1>2. S \in SUBSET S /\ g[S] \in Int
  BY <1>1
<1>3. g[S] = SumStep(g, S, f)
  BY <1>1, <1>2 DEF IsSum
<1>4. ASSUME S # {} PROVE SumOver(S, f) = f[Taken(S)] + SumOver(S \ {Taken(S)}, f)
  <2>1. PICK R \in SUBSET S : R = S \ {Taken(S)}
    OBVIOUS
  <2>2. Summand(R, f)
    BY <2>1, FiniteSubsets DEF Summand
  <2>3. PICK h \in [SUBSET R -> Int] : IsSum(h, R, f) /\ SumOver(R, f) = h[R]
    BY <2>2, SumByRecursion
  <2>4. R \in SUBSET R /\ IsFiniteSet(S) /\ IsFiniteSet(R)
    BY <2>2 DEF Summand
  <2>5. g[R] = h[R]
    BY <1>1, <2>1, <2>3, <2>4, SumUnique
  <2>. QED  BY <1>1, <1>3, <1>4, <2>1, <2>3, <2>5 DEF SumStep
<1>5. ASSUME S = {} PROVE SumOver(S, f) = 0
  BY <1>1, <1>3, <1>5 DEF SumStep
<1>. QED  BY <1>1, <1>2, <1>4, <1>5

\* Parts of a summand.
LEMMA SummandParts ==
    ASSUME NEW S, NEW f, Summand(S, f), NEW R \in SUBSET S
    PROVE  Summand(R, f)
  BY FiniteSubsets DEF Summand

\* The sum of a set by any of its elements.
LEMMA SumByElement ==
    ASSUME NEW S, NEW f, Summand(S, f), NEW x \in S
    PROVE  SumOver(S, f) = f[x] + SumOver(S \ {x}, f)
<1> DEFINE Bad == {s \in SUBSET S : \E y \in s : SumOver(s, f) # f[y] + SumOver(s \ {y}, f)}
           T == {Cardinality(s) : s \in Bad}
<1>1. SUFFICES ASSUME S \in Bad PROVE FALSE
  OBVIOUS
<1>2. \A s \in Bad : IsFiniteSet(s) /\ Cardinality(s) \in Nat
  BY FiniteSubsets DEF Summand
<1>3. T \subseteq Nat /\ T # {}
  BY <1>1, <1>2
<1> HIDE DEF T
<1>4. PICK k \in T : \A j \in T : k <= j
  BY <1>3, LeastNatural
<1>5. PICK s \in Bad : k = Cardinality(s)
  BY <1>4 DEF T
<1>6. PICK y \in s : SumOver(s, f) # f[y] + SumOver(s \ {y}, f)
  OBVIOUS
<1>7. PICK z : z = Taken(s)
  OBVIOUS
<1>8. z \in s /\ Cardinality(s \ {z}) \in Nat /\ Cardinality(s \ {z}) < k /\ k \in Nat
  BY <1>2, <1>5, <1>6, <1>7, TakenLeaves
<1>9. Summand(s, f) /\ s # {}
  BY <1>6, SummandParts
<1>10. SumOver(s, f) = f[z] + SumOver(s \ {z}, f)
  BY <1>7, <1>9, SumUnfolds
<1>11. y # z
  BY <1>6, <1>10
<1>12. Cardinality(s \ {y}) \in Nat /\ Cardinality(s \ {y}) < k
  <2>1. Cardinality(s \ {y}) = Cardinality(s) - 1 /\ IsFiniteSet(s \ {y})
    BY <1>2, <1>6, FS_RemoveElement
  <2>2. Cardinality(s \ {y}) \in Nat
    BY <2>1, FS_CardinalityType
  <2>. QED  BY <1>5, <1>8, <2>1, <2>2
<1>13. \A r \in SUBSET S : Cardinality(r) \in Nat /\ Cardinality(r) < k => r \notin Bad
  <2> SUFFICES ASSUME NEW r \in Bad, Cardinality(r) \in Nat, Cardinality(r) < k PROVE FALSE
    OBVIOUS
  <2>1. Cardinality(r) \in T
    BY DEF T
  <2>. QED  BY <1>4, <1>8, <2>1
<1>14. s \ {z} \in SUBSET S /\ s \ {y} \in SUBSET S /\ y \in s \ {z} /\ z \in s \ {y}
  BY <1>8, <1>11
<1>15. SumOver(s \ {z}, f) = f[y] + SumOver((s \ {z}) \ {y}, f)
  BY <1>8, <1>13, <1>14
<1>16. SumOver(s \ {y}, f) = f[z] + SumOver((s \ {y}) \ {z}, f)
  BY <1>12, <1>13, <1>14
<1>17. PICK r : r = (s \ {z}) \ {y} /\ r = (s \ {y}) \ {z}
  <2>1. (s \ {z}) \ {y} = (s \ {y}) \ {z}
    OBVIOUS
  <2>. QED  BY <2>1
<1>18. SumOver(r, f) \in Int
  <2>1. Summand(r, f)
    BY <1>9, <1>17, SummandParts
  <2>. QED  BY <2>1, SumUnfolds
<1>19. f[y] \in Int /\ f[z] \in Int
  BY <1>8 DEF Summand
<1>20. SumOver(s, f) = f[z] + (f[y] + SumOver(r, f))
  BY <1>10, <1>15, <1>17
<1>21. SumOver(s \ {y}, f) = f[z] + SumOver(r, f)
  BY <1>16, <1>17
<1>22. PICK a, b, c \in Int : a = f[y] /\ b = f[z] /\ c = SumOver(r, f)
  BY <1>18, <1>19
<1>23. b + (a + c) = a + (b + c)
  BY <1>22
<1>24. SumOver(s, f) = f[y] + SumOver(s \ {y}, f)
  BY <1>20, <1>21, <1>22, <1>23
<1>. QED  BY <1>6, <1>24

\* Equal terms have equal sums.
LEMMA SumCongruent ==
    ASSUME NEW S, NEW f, NEW g, Summand(S, f), \A x \in S : g[x] = f[x]
    PROVE  SumOver(S, g) = SumOver(S, f)
<1> DEFINE Bad == {s \in SUBSET S : SumOver(s, g) # SumOver(s, f)}
           T == {Cardinality(s) : s \in Bad}
<1>1. SUFFICES ASSUME S \in Bad PROVE FALSE
  OBVIOUS
<1>2. \A s \in Bad : IsFiniteSet(s) /\ Cardinality(s) \in Nat
  BY FiniteSubsets DEF Summand
<1>3. T \subseteq Nat /\ T # {}
  BY <1>1, <1>2
<1> HIDE DEF T
<1>4. PICK k \in T : \A j \in T : k <= j
  BY <1>3, LeastNatural
<1>5. PICK s \in Bad : k = Cardinality(s)
  BY <1>4 DEF T
<1>6. Summand(s, f) /\ Summand(s, g)
  <2>1. Summand(S, g)
    BY DEF Summand
  <2>. QED  BY <2>1, SummandParts
<1>7. s # {}
  BY <1>6, SumUnfolds
<1>8. PICK z : z = Taken(s)
  OBVIOUS
<1>9. z \in s /\ Cardinality(s \ {z}) \in Nat /\ Cardinality(s \ {z}) < k /\ k \in Nat
  BY <1>2, <1>5, <1>7, <1>8, TakenLeaves
<1>10. s \ {z} \notin Bad
  <2>1. SUFFICES ASSUME s \ {z} \in Bad PROVE FALSE
    OBVIOUS
  <2>2. Cardinality(s \ {z}) \in T
    BY <2>1 DEF T
  <2>. QED  BY <1>4, <1>9, <2>2
<1>11. SumOver(s \ {z}, g) = SumOver(s \ {z}, f) /\ g[z] = f[z]
  BY <1>9, <1>10
<1>12. SumOver(s, g) = g[z] + SumOver(s \ {z}, g) /\ SumOver(s, f) = f[z] + SumOver(s \ {z}, f)
  BY <1>6, <1>7, <1>8, SumUnfolds
<1>. QED  BY <1>11, <1>12

\* When one term changes the sum changes by as much.
LEMMA SumOneChanges ==
    ASSUME NEW S, NEW f, NEW g, Summand(S, f), Summand(S, g), NEW x \in S,
           \A y \in S : y # x => g[y] = f[y]
    PROVE  SumOver(S, g) = SumOver(S, f) + (g[x] - f[x])
<1>1. Summand(S \ {x}, f) /\ IsFiniteSet(S)
  BY SummandParts DEF Summand
<1>2. PICK c \in Int : c = SumOver(S \ {x}, f)
  BY <1>1, SumUnfolds
<1>3. SumOver(S \ {x}, g) = c
  BY <1>1, <1>2, SumCongruent
<1>4. SumOver(S, g) = g[x] + c /\ SumOver(S, f) = f[x] + c
  BY <1>2, <1>3, SumByElement
<1>5. PICK a, b \in Int : a = f[x] /\ b = g[x]
  BY DEF Summand
<1>. QED  BY <1>4, <1>5

\* More elements, and more for each of them, do not sum up to less.
LEMMA SumMonotone ==
    ASSUME NEW S, NEW R \in SUBSET S, NEW f, NEW g, Summand(R, f), Summand(S, g),
           \A x \in R : f[x] <= g[x], \A x \in S \ R : g[x] >= 0
    PROVE  SumOver(R, f) <= SumOver(S, g)
<1> DEFINE Bad == {s \in SUBSET S : ~(SumOver(s \cap R, f) <= SumOver(s, g))}
           T == {Cardinality(s) : s \in Bad}
<1>1. SUFFICES ASSUME S \in Bad PROVE FALSE
  <2>1. S \cap R = R
    OBVIOUS
  <2>. QED  BY <2>1
<1>2. \A s \in SUBSET S : /\ IsFiniteSet(s) /\ Cardinality(s) \in Nat
                          /\ Summand(s, g) /\ Summand(s \cap R, f)
                          /\ SumOver(s, g) \in Int /\ SumOver(s \cap R, f) \in Int
  <2> SUFFICES ASSUME NEW s \in SUBSET S
               PROVE  /\ IsFiniteSet(s) /\ Cardinality(s) \in Nat
                      /\ Summand(s, g) /\ Summand(s \cap R, f)
                      /\ SumOver(s, g) \in Int /\ SumOver(s \cap R, f) \in Int
    OBVIOUS
  <2>1. Summand(s, g) /\ Summand(s \cap R, f)
    BY SummandParts
  <2>. QED  BY <2>1, SumUnfolds, FiniteSubsets DEF Summand
<1>3. T \subseteq Nat /\ T # {}
  BY <1>1, <1>2
<1> HIDE DEF T
<1>4. PICK k \in T : \A j \in T : k <= j
  BY <1>3, LeastNatural
<1>5. PICK s \in Bad : k = Cardinality(s)
  BY <1>4 DEF T
<1>6. s # {}
  <2>1. SUFFICES ASSUME s = {} PROVE FALSE
    OBVIOUS
  <2>2. SumOver(s, g) = 0 /\ SumOver(s \cap R, f) = 0
    BY <1>2, <2>1, SumUnfolds
  <2>. QED  BY <1>5, <2>2
<1>7. PICK z : z = Taken(s)
  OBVIOUS
<1>8. z \in s /\ Cardinality(s \ {z}) \in Nat /\ Cardinality(s \ {z}) < k /\ k \in Nat
  BY <1>2, <1>5, <1>6, <1>7, TakenLeaves
<1>9. PICK r : r = s \ {z} /\ r \in SUBSET S
  OBVIOUS
<1>10. r \notin Bad
  <2>1. SUFFICES ASSUME r \in Bad PROVE FALSE
    OBVIOUS
  <2>2. Cardinality(r) \in T
    BY <2>1 DEF T
  <2>. QED  BY <1>4, <1>8, <1>9, <2>2
<1>11. PICK a, b \in Int : a = SumOver(r \cap R, f) /\ b = SumOver(r, g) /\ a <= b
  BY <1>2, <1>9, <1>10
<1>12. SumOver(s, g) = g[z] + b /\ g[z] \in Int
  <2>1. SumOver(s, g) = g[z] + SumOver(s \ {z}, g)
    BY <1>2, <1>8, SumByElement
  <2>. QED  BY <1>2, <1>8, <1>9, <1>11, <2>1 DEF Summand
<1>13. CASE z \in R
  <2>1. z \in s \cap R /\ (s \cap R) \ {z} = r \cap R
    BY <1>8, <1>9, <1>13
  <2>2. SumOver(s \cap R, f) = f[z] + SumOver((s \cap R) \ {z}, f)
    BY <1>2, <2>1, SumByElement
  <2>3. SumOver(s \cap R, f) = f[z] + a /\ f[z] \in Int /\ f[z] <= g[z]
    BY <1>2, <1>11, <1>13, <2>1, <2>2 DEF Summand
  <2>. QED  BY <1>5, <1>11, <1>12, <2>3
<1>14. CASE z \notin R
  <2>1. s \cap R = r \cap R /\ g[z] >= 0
    BY <1>8, <1>9, <1>14
  <2>. QED  BY <1>5, <1>11, <1>12, <2>1
<1>. QED  BY <1>13, <1>14

-----------------------------------------------------------------------------
(***************************************************************************)
(* What the orders of a user and a side add up to.                         *)
(***************************************************************************)

OrdersFor(orders, u, side) ==
    {o \in DOMAIN orders : orders[o].user = u /\ orders[o].side = side}

Ledger(orders, u, side, f) == SumOver(OrdersFor(orders, u, side), f)

\* What counts for one user and one side.
Share(r, u, side, amount) ==
    IF r.user = u /\ r.side = side THEN amount ELSE 0

\* The request r is received as order x.
Longer(orders, longer, r, x) == longer = Append(orders, r) /\ x = Len(orders) + 1

\* The terms of the orders that were there stay when x is added.
Continues(orders, x, f, g) ==
    /\ \A o \in DOMAIN orders : f[o] \in Int /\ g[o] = f[o]
    /\ g[x] \in Int

\* Of the terms of one side only the one of x may differ.
DifferAt(orders, side, x, f, g) ==
    /\ \A o \in DOMAIN orders : f[o] \in Int /\ g[o] \in Int
    /\ \A y \in DOMAIN orders : y # x /\ orders[y].side = side => g[y] = f[y]

\* A user's orders of one side are finitely many.
LEMMA OrdersSummand ==
    ASSUME NEW orders \in Seq(Requests), NEW u, NEW side, NEW f,
           \A o \in DOMAIN orders : f[o] \in Int
    PROVE  Summand(OrdersFor(orders, u, side), f)
<1>1. PICK n : n = Len(orders)
  OBVIOUS
<1>2. n \in Nat /\ DOMAIN orders = 1 .. n
  BY <1>1
<1>3. IsFiniteSet(1 .. n)
  BY <1>2, FS_Interval
<1>4. OrdersFor(orders, u, side) \in SUBSET (1 .. n)
  BY <1>2 DEF OrdersFor
<1>5. IsFiniteSet(OrdersFor(orders, u, side))
  BY <1>3, <1>4, FS_Subset
<1>. QED  BY <1>5 DEF Summand, OrdersFor

\* A ledger of integers is an integer.
LEMMA LedgerInt ==
    ASSUME NEW orders \in Seq(Requests), NEW u, NEW side, NEW f,
           \A o \in DOMAIN orders : f[o] \in Int
    PROVE  Ledger(orders, u, side, f) \in Int
  BY OrdersSummand, SumUnfolds DEF Ledger

\* Of the orders of one side one changes.
LEMMA LedgerChanges ==
    ASSUME NEW orders \in Seq(Requests), NEW u, NEW side, NEW f, NEW g,
           NEW x \in DOMAIN orders, DifferAt(orders, side, x, f, g)
    PROVE  Ledger(orders, u, side, g) =
               Ledger(orders, u, side, f) + Share(orders[x], u, side, g[x] - f[x])
<1>1. PICK S : S = OrdersFor(orders, u, side)
  OBVIOUS
<1>2. Summand(S, f) /\ Summand(S, g)
  BY <1>1, OrdersSummand DEF DifferAt
<1>3. SumOver(S, f) \in Int
  BY <1>2, SumUnfolds
<1>4. \A y \in S : y # x => g[y] = f[y]
  BY <1>1 DEF OrdersFor, DifferAt
<1>5. CASE x \in S
  <2>1. SumOver(S, g) = SumOver(S, f) + (g[x] - f[x])
    BY <1>2, <1>4, <1>5, SumOneChanges
  <2>2. Share(orders[x], u, side, g[x] - f[x]) = g[x] - f[x]
    BY <1>1, <1>5 DEF OrdersFor, Share
  <2>. QED  BY <1>1, <2>1, <2>2 DEF Ledger
<1>6. CASE x \notin S
  <2>1. SumOver(S, g) = SumOver(S, f)
    <3>1. \A y \in S : g[y] = f[y]
      BY <1>4, <1>6
    <3>. QED  BY <1>2, <3>1, SumCongruent
  <2>2. Share(orders[x], u, side, g[x] - f[x]) = 0
    BY <1>1, <1>6 DEF OrdersFor, Share
  <2>. QED  BY <1>1, <1>3, <2>1, <2>2 DEF Ledger
<1>. QED  BY <1>5, <1>6

\* An order is added.
LEMMA LedgerGrows ==
    ASSUME NEW orders \in Seq(Requests), NEW r \in Requests, NEW u, NEW side,
           NEW f, NEW g, NEW longer, NEW x,
           Longer(orders, longer, r, x), Continues(orders, x, f, g)
    PROVE  Ledger(longer, u, side, g) =
               Ledger(orders, u, side, f) + Share(r, u, side, g[x])
<1>1. /\ longer \in Seq(Requests) /\ Len(longer) = Len(orders) + 1
      /\ \A i \in 1 .. Len(orders) : longer[i] = orders[i]
      /\ longer[Len(orders) + 1] = r
  BY AppendProperties DEF Longer
<1>2. Len(orders) \in Nat /\ DOMAIN orders = 1 .. Len(orders)
  OBVIOUS
<1>3. x \notin DOMAIN orders /\ longer[x] = r /\ DOMAIN longer = 1 .. x
  BY <1>1, <1>2 DEF Longer
<1>4. DOMAIN longer = DOMAIN orders \cup {x}
  BY <1>2, <1>3 DEF Longer
<1>5. \A o \in DOMAIN orders : longer[o] = orders[o]
  BY <1>1, <1>2
<1>6. PICK S, R : S = OrdersFor(orders, u, side) /\ R = OrdersFor(longer, u, side)
  OBVIOUS
<1>7. Summand(S, f) /\ Summand(R, g)
  <2>1. \A o \in DOMAIN longer : g[o] \in Int
    BY <1>4 DEF Continues
  <2>. QED  BY <1>1, <1>6, <2>1, OrdersSummand DEF Continues
<1>8. SumOver(S, g) = SumOver(S, f) /\ SumOver(S, f) \in Int
  <2>1. \A y \in S : g[y] = f[y]
    BY <1>6 DEF OrdersFor, Continues
  <2>. QED  BY <1>7, <2>1, SumCongruent, SumUnfolds
<1>9. x \notin S
  BY <1>3, <1>6 DEF OrdersFor
<1>10. CASE r.user = u /\ r.side = side
  <2>1. R = S \cup {x}
    BY <1>3, <1>4, <1>5, <1>6, <1>10 DEF OrdersFor
  <2>2. x \in R /\ R \ {x} = S
    BY <1>9, <2>1
  <2>3. SumOver(R, g) = g[x] + SumOver(R \ {x}, g)
    BY <1>7, <2>2, SumByElement
  <2>4. SumOver(R, g) = g[x] + SumOver(S, f)
    BY <1>8, <2>2, <2>3
  <2>. QED  BY <1>6, <1>8, <1>10, <2>4 DEF Ledger, Share, Continues
<1>11. CASE ~(r.user = u /\ r.side = side)
  <2>1. R = S
    BY <1>3, <1>4, <1>5, <1>6, <1>11 DEF OrdersFor
  <2>. QED  BY <1>6, <1>8, <1>11, <2>1 DEF Ledger, Share
<1>. QED  BY <1>10, <1>11

\* A ledger of natural numbers is one.
LEMMA LedgerNat ==
    ASSUME NEW orders \in Seq(Requests), NEW u, NEW side, NEW f,
           \A o \in DOMAIN orders : f[o] \in Nat
    PROVE  Ledger(orders, u, side, f) \in Nat
<1>1. PICK S : S = OrdersFor(orders, u, side)
  OBVIOUS
<1>2. Summand(S, f)
  BY <1>1, OrdersSummand
<1>3. {} \in SUBSET S /\ Summand({}, f) /\ \A x \in S : f[x] >= 0
  <2>1. \A x \in S : x \in DOMAIN orders
    BY <1>1 DEF OrdersFor
  <2>. QED  BY <1>2, <2>1, SummandParts
<1>4. SumOver({}, f) <= SumOver(S, f)
  BY <1>2, <1>3, SumMonotone
<1>5. SumOver({}, f) = 0 /\ SumOver(S, f) \in Int
  BY <1>2, <1>3, SumUnfolds
<1>. QED  BY <1>1, <1>4, <1>5 DEF Ledger

-----------------------------------------------------------------------------
(***************************************************************************)
(* What the operations of the BalanceManager move, user by user.           *)
(***************************************************************************)

Moves(w, after, u, cash, cashEscrow, asset, assetEscrow) ==
    /\ after[u].cash = w[u].cash + cash
    /\ after[u].cashEscrow = w[u].cashEscrow + cashEscrow
    /\ after[u].asset = w[u].asset + asset
    /\ after[u].assetEscrow = w[u].assetEscrow + assetEscrow

\* What a request is made of.
LEMMA RequestParts ==
    ASSUME NEW r \in Requests
    PROVE  /\ r.user \in Users /\ r.side \in Sides
           /\ r.qty \in Nat /\ r.qty > 0 /\ r.price \in Nat
<1>1. r.user \in Users /\ r.side \in Sides /\ r.qty \in Quantities /\ r.price \in Prices
  BY DEF Requests
<1>. QED  BY <1>1, QuantitiesPositive, MaxPriceAssumption DEF Prices

\* A write of one user's balances.
LEMMA UpdateMoves ==
    ASSUME NEW w \in Wallets, NEW u \in Users \ {System}, NEW v \in Users,
           NEW b \in Balances
    PROVE  Update(w, v, b)[u] = IF v = u THEN b ELSE w[u]
  BY DEF Update, Wallets

\* The four operations on escrow.
LEMMA EscrowMoves ==
    ASSUME NEW w \in Wallets, NEW u \in Users \ {System}, NEW v \in Users,
           NEW amount \in Int
    PROVE  /\ Moves(w, IncreaseCashEscrow(w, v, amount), u,
                    0, IF v = u THEN amount ELSE 0, 0, 0)
           /\ Moves(w, DecreaseCashEscrow(w, v, amount), u,
                    0, IF v = u THEN 0 - amount ELSE 0, 0, 0)
           /\ Moves(w, IncreaseAssetEscrow(w, v, amount), u,
                    0, 0, 0, IF v = u THEN amount ELSE 0)
           /\ Moves(w, DecreaseAssetEscrow(w, v, amount), u,
                    0, 0, 0, IF v = u THEN 0 - amount ELSE 0)
<1>1. PICK b, c : b = w[v] /\ c = w[u]
  OBVIOUS
<1>2. b \in Balances /\ c \in Balances
  BY <1>1 DEF Wallets
<1>3. /\ c.cash \in Int /\ c.cashEscrow \in Int /\ c.asset \in Int
      /\ c.assetEscrow \in Int
  BY <1>2 DEF Balances
<1>4. /\ [b EXCEPT !.cashEscrow = @ + amount] \in Balances
      /\ [b EXCEPT !.cashEscrow = @ - amount] \in Balances
      /\ [b EXCEPT !.assetEscrow = @ + amount] \in Balances
      /\ [b EXCEPT !.assetEscrow = @ - amount] \in Balances
  BY <1>2 DEF Balances
<1>5. /\ IncreaseCashEscrow(w, v, amount)[u] =
             IF v = u THEN [c EXCEPT !.cashEscrow = @ + amount] ELSE c
      /\ DecreaseCashEscrow(w, v, amount)[u] =
             IF v = u THEN [c EXCEPT !.cashEscrow = @ - amount] ELSE c
      /\ IncreaseAssetEscrow(w, v, amount)[u] =
             IF v = u THEN [c EXCEPT !.assetEscrow = @ + amount] ELSE c
      /\ DecreaseAssetEscrow(w, v, amount)[u] =
             IF v = u THEN [c EXCEPT !.assetEscrow = @ - amount] ELSE c
  BY <1>1, <1>4, UpdateMoves DEF IncreaseCashEscrow, DecreaseCashEscrow,
                                 IncreaseAssetEscrow, DecreaseAssetEscrow
<1>6. /\ [c EXCEPT !.cashEscrow = @ + amount] =
             [cash |-> c.cash, cashEscrow |-> c.cashEscrow + amount,
              asset |-> c.asset, assetEscrow |-> c.assetEscrow]
      /\ [c EXCEPT !.cashEscrow = @ - amount] =
             [cash |-> c.cash, cashEscrow |-> c.cashEscrow - amount,
              asset |-> c.asset, assetEscrow |-> c.assetEscrow]
      /\ [c EXCEPT !.assetEscrow = @ + amount] =
             [cash |-> c.cash, cashEscrow |-> c.cashEscrow,
              asset |-> c.asset, assetEscrow |-> c.assetEscrow + amount]
      /\ [c EXCEPT !.assetEscrow = @ - amount] =
             [cash |-> c.cash, cashEscrow |-> c.cashEscrow,
              asset |-> c.asset, assetEscrow |-> c.assetEscrow - amount]
  BY <1>2 DEF Balances
<1>7. CASE v = u
  BY <1>1, <1>3, <1>5, <1>6, <1>7 DEF Moves
<1>8. CASE v # u
  BY <1>1, <1>3, <1>5, <1>8 DEF Moves
<1>. QED  BY <1>7, <1>8

\* The two settlements.
LEMMA SettleUserMoves ==
    ASSUME NEW w \in Wallets, NEW u \in Users \ {System}, NEW v \in Users,
           NEW quantity \in Int, NEW price \in Int, NEW value,
           value = quantity * price
    PROVE  /\ Moves(w, SettleBid(w, v, quantity, price), u,
                    IF v = u THEN 0 - value ELSE 0, IF v = u THEN 0 - value ELSE 0,
                    IF v = u THEN quantity ELSE 0, 0)
           /\ Moves(w, SettleAsk(w, v, quantity, price), u,
                    IF v = u THEN value ELSE 0, 0,
                    IF v = u THEN 0 - quantity ELSE 0,
                    IF v = u THEN 0 - quantity ELSE 0)
<1>1. PICK b, c : b = w[v] /\ c = w[u]
  OBVIOUS
<1>2. b \in Balances /\ c \in Balances /\ value \in Int
  BY <1>1 DEF Wallets
<1>3. /\ c.cash \in Int /\ c.cashEscrow \in Int /\ c.asset \in Int
      /\ c.assetEscrow \in Int
  BY <1>2 DEF Balances
<1>4. /\ SettleBid(w, v, quantity, price) = Update(w, v, BidSettled(b, quantity, price))
      /\ SettleAsk(w, v, quantity, price) = Update(w, v, AskSettled(b, quantity, price))
  BY <1>1 DEF SettleBid, SettleAsk
<1>5. /\ BidSettled(b, quantity, price) =
             [cash |-> b.cash - value, cashEscrow |-> b.cashEscrow - value,
              asset |-> b.asset + quantity, assetEscrow |-> b.assetEscrow]
      /\ AskSettled(b, quantity, price) =
             [cash |-> b.cash + value, cashEscrow |-> b.cashEscrow,
              asset |-> b.asset - quantity,
              assetEscrow |-> b.assetEscrow - quantity]
  BY Zenon DEF BidSettled, AskSettled
<1>6. BidSettled(b, quantity, price) \in Balances /\ AskSettled(b, quantity, price) \in Balances
  BY <1>2, <1>5 DEF Balances
<1>7. /\ SettleBid(w, v, quantity, price)[u] =
             IF v = u THEN BidSettled(b, quantity, price) ELSE c
      /\ SettleAsk(w, v, quantity, price)[u] =
             IF v = u THEN AskSettled(b, quantity, price) ELSE c
  BY <1>1, <1>4, <1>6, UpdateMoves
<1>8. CASE v = u
  <2>1. b = c
    BY <1>1, <1>8
  <2>2. PICK x, y : x = BidSettled(b, quantity, price) /\ y = AskSettled(b, quantity, price)
    OBVIOUS
  <2>3. /\ x.cash = c.cash - value /\ x.cashEscrow = c.cashEscrow - value
        /\ x.asset = c.asset + quantity /\ x.assetEscrow = c.assetEscrow
        /\ y.cash = c.cash + value /\ y.cashEscrow = c.cashEscrow
        /\ y.asset = c.asset - quantity /\ y.assetEscrow = c.assetEscrow - quantity
    BY <1>5, <2>1, <2>2
  <2>4. /\ SettleBid(w, v, quantity, price)[u] = x
        /\ SettleAsk(w, v, quantity, price)[u] = y
    BY <1>7, <1>8, <2>2
  <2>5. PICK d, e : d = SettleBid(w, v, quantity, price) /\ e = SettleAsk(w, v, quantity, price)
    OBVIOUS
  <2>6. /\ Moves(w, d, u, 0 - value, 0 - value, quantity, 0)
        /\ Moves(w, e, u, value, 0, 0 - quantity, 0 - quantity)
    <3>1. value \in Int /\ d[u] = x /\ e[u] = y
      BY <1>2, <2>4, <2>5
    <3>. QED  BY <1>1, <1>3, <2>3, <3>1 DEF Moves
  <2>. QED  BY <1>8, <2>5, <2>6
<1>9. CASE v # u
  <2>1. /\ SettleBid(w, v, quantity, price)[u] = c
        /\ SettleAsk(w, v, quantity, price)[u] = c
    BY <1>7, <1>9
  <2>2. PICK d, e : d = SettleBid(w, v, quantity, price) /\ e = SettleAsk(w, v, quantity, price)
    OBVIOUS
  <2>3. Moves(w, d, u, 0, 0, 0, 0) /\ Moves(w, e, u, 0, 0, 0, 0)
    <3>1. d[u] = c /\ e[u] = c
      BY <2>1, <2>2
    <3>. QED  BY <1>1, <1>3, <3>1 DEF Moves
  <2>. QED  BY <1>9, <2>2, <2>3
<1>. QED  BY <1>8, <1>9

\* The engine's operations move what is the order's share.
LEMMA OrderMoves ==
    ASSUME NEW w \in Wallets, NEW u \in Users \ {System}, NEW r \in Requests,
           NEW quantity \in Int, NEW price \in Int
    PROVE  /\ Moves(w, Hold(w, r), u,
                    0, Share(r, u, "bid", r.qty * r.price),
                    0, Share(r, u, "ask", r.qty))
           /\ Moves(w, ReleaseEscrow(w, r, quantity), u,
                    0, Share(r, u, "bid", 0 - quantity * r.price),
                    0, Share(r, u, "ask", 0 - quantity))
           /\ Moves(w, Settle(w, r, quantity, price), u,
                    Share(r, u, "bid", 0 - quantity * price)
                        + Share(r, u, "ask", quantity * price),
                    Share(r, u, "bid", 0 - quantity * price),
                    Share(r, u, "bid", quantity) + Share(r, u, "ask", 0 - quantity),
                    Share(r, u, "ask", 0 - quantity))
<1>1. /\ r.user \in Users /\ r.side \in Sides /\ r.qty \in Int /\ r.price \in Int
  BY RequestParts
<1>2. PICK a, b, c \in Int : a = r.qty * r.price /\ b = quantity * r.price
                             /\ c = quantity * price
  BY <1>1
<1>3. CASE r.side = "bid"
  <2>1. /\ Hold(w, r) = IncreaseCashEscrow(w, r.user, a)
        /\ ReleaseEscrow(w, r, quantity) = DecreaseCashEscrow(w, r.user, b)
        /\ Settle(w, r, quantity, price) = SettleBid(w, r.user, quantity, price)
    BY <1>2, <1>3, Zenon DEF Hold, ReleaseEscrow, Settle
  <2>2. \A n : /\ Share(r, u, "bid", n) = IF r.user = u THEN n ELSE 0
               /\ Share(r, u, "ask", n) = 0
    BY <1>3 DEF Share
  <2>3. PICK n : n = IF r.user = u THEN 0 - c ELSE 0
    OBVIOUS
  <2>4. n \in Int /\ n + 0 = n
    BY <1>2, <2>3
  <2>5. PICK m : m = IF r.user = u THEN quantity ELSE 0
    OBVIOUS
  <2>6. m \in Int /\ m + 0 = m
    BY <2>5
  <2>7. Moves(w, SettleBid(w, r.user, quantity, price), u, n, n, m, 0)
    BY <1>1, <1>2, <2>3, <2>5, SettleUserMoves
  <2>8. /\ Moves(w, IncreaseCashEscrow(w, r.user, a), u,
                 0, IF r.user = u THEN a ELSE 0, 0, 0)
        /\ Moves(w, DecreaseCashEscrow(w, r.user, b), u,
                 0, IF r.user = u THEN 0 - b ELSE 0, 0, 0)
    BY <1>1, <1>2, EscrowMoves
  <2>. QED  BY <1>2, <2>1, <2>2, <2>3, <2>4, <2>5, <2>6, <2>7, <2>8, Zenon
<1>4. CASE r.side = "ask"
  <2>1. /\ Hold(w, r) = IncreaseAssetEscrow(w, r.user, r.qty)
        /\ ReleaseEscrow(w, r, quantity) = DecreaseAssetEscrow(w, r.user, quantity)
        /\ Settle(w, r, quantity, price) = SettleAsk(w, r.user, quantity, price)
    BY <1>4 DEF Hold, ReleaseEscrow, Settle
  <2>2. \A n : /\ Share(r, u, "ask", n) = IF r.user = u THEN n ELSE 0
               /\ Share(r, u, "bid", n) = 0
    BY <1>4 DEF Share
  <2>3. PICK n : n = IF r.user = u THEN c ELSE 0
    OBVIOUS
  <2>4. n \in Int /\ 0 + n = n
    BY <1>2, <2>3
  <2>5. PICK m : m = IF r.user = u THEN 0 - quantity ELSE 0
    OBVIOUS
  <2>6. m \in Int /\ 0 + m = m
    BY <2>5
  <2>7. Moves(w, SettleAsk(w, r.user, quantity, price), u, n, 0, m, m)
    BY <1>1, <1>2, <2>3, <2>5, SettleUserMoves
  <2>8. /\ Moves(w, IncreaseAssetEscrow(w, r.user, r.qty), u,
                 0, 0, 0, IF r.user = u THEN r.qty ELSE 0)
        /\ Moves(w, DecreaseAssetEscrow(w, r.user, quantity), u,
                 0, 0, 0, IF r.user = u THEN 0 - quantity ELSE 0)
    BY <1>1, EscrowMoves
  <2>. QED  BY <1>2, <2>1, <2>2, <2>3, <2>4, <2>5, <2>6, <2>7, <2>8, Zenon
<1>. QED  BY <1>1, <1>3, <1>4 DEF Sides

-----------------------------------------------------------------------------
(***************************************************************************)
(* What one order holds.                                                   *)
(***************************************************************************)

\* What an order contributes to its user's escrow: the hold of its first
\* fill less what its fills settled, less one release of the unfilled rest
\* for each logged cancellation.
CashHeld == [o \in Known |->
    (IF exec[o] > 0 THEN order[o].qty * order[o].price - paid[o] ELSE 0)
        - cancels[o] * Remaining(o) * order[o].price]

AssetHeld == [o \in Known |->
    (IF exec[o] > 0 THEN Remaining(o) ELSE 0) - cancels[o] * Remaining(o)]

CashOf(r, e, p, c) ==
    (IF e > 0 THEN r.qty * r.price - p ELSE 0) - c * (r.qty - e) * r.price

AssetOf(r, e, c) == (IF e > 0 THEN r.qty - e ELSE 0) - c * (r.qty - e)

\* CashHeld and AssetHeld, order by order.
LEMMA HeldByOrder ==
    /\ CashHeld = [o \in Known |-> CashOf(order[o], exec[o], paid[o], cancels[o])]
    /\ AssetHeld = [o \in Known |-> AssetOf(order[o], exec[o], cancels[o])]
  BY Zenon DEF CashHeld, AssetHeld, CashOf, AssetOf, Remaining

\* What an order holds is an integer.
LEMMA HeldInt ==
    ASSUME NEW r \in Requests, NEW e \in Nat, NEW p \in Nat, NEW c \in Nat
    PROVE  CashOf(r, e, p, c) \in Int /\ AssetOf(r, e, c) \in Int
<1>1. r.qty \in Int /\ r.price \in Int
  BY RequestParts
<1>2. PICK n \in Int : n = r.qty - e
  BY <1>1
<1>3. PICK m \in Int : m = c * n
  BY <1>2
<1>4. PICK k \in Int : k = m * r.price
  BY <1>1, <1>3
<1>5. PICK v \in Int : v = r.qty * r.price
  BY <1>1
<1>6. /\ CashOf(r, e, p, c) = (IF e > 0 THEN v - p ELSE 0) - k
      /\ AssetOf(r, e, c) = (IF e > 0 THEN n ELSE 0) - m
  BY <1>2, <1>3, <1>4, <1>5, Zenon DEF CashOf, AssetOf
<1>. QED  BY <1>2, <1>3, <1>4, <1>5, <1>6

\* An order that rests untouched holds nothing; a rejection takes what it
\* would have held twice.
LEMMA HeldByNew ==
    ASSUME NEW r \in Requests, NEW p \in Nat
    PROVE  /\ CashOf(r, 0, p, 0) = 0 /\ AssetOf(r, 0, 0) = 0
           /\ CashOf(r, 0, p, 2) = (0 - r.qty * r.price) + (0 - r.qty * r.price)
           /\ AssetOf(r, 0, 2) = (0 - r.qty) + (0 - r.qty)
<1>1. r.qty \in Int /\ r.price \in Int
  BY RequestParts
<1>2. PICK v \in Int : v = r.qty * r.price
  BY <1>1
<1>3. r.qty - 0 = r.qty /\ 0 * r.qty = 0 /\ 0 * r.price = 0 /\ ~(0 > 0)
  BY <1>1
<1>4. (2 * r.qty) * r.price = v + v /\ 2 * r.qty = r.qty + r.qty
  BY <1>1, <1>2
<1>5. CashOf(r, 0, p, 0) = 0 /\ AssetOf(r, 0, 0) = 0
  BY <1>1, <1>3 DEF CashOf, AssetOf
<1>6. CashOf(r, 0, p, 2) = 0 - (v + v) /\ AssetOf(r, 0, 2) = 0 - (r.qty + r.qty)
  BY <1>3, <1>4, Zenon DEF CashOf, AssetOf
<1>. QED  BY <1>1, <1>2, <1>5, <1>6

\* A cancellation releases what is left.
LEMMA HeldByCancelled ==
    ASSUME NEW r \in Requests, NEW e \in Nat, NEW p \in Nat
    PROVE  /\ CashOf(r, e, p, 1) - CashOf(r, e, p, 0) = 0 - (r.qty - e) * r.price
           /\ AssetOf(r, e, 1) - AssetOf(r, e, 0) = 0 - (r.qty - e)
<1>1. r.qty \in Int /\ r.price \in Int
  BY RequestParts
<1>2. PICK n \in Int : n = r.qty - e
  BY <1>1
<1>3. PICK k \in Int : k = n * r.price
  BY <1>1, <1>2
<1>4. PICK a \in Int : a = IF e > 0 THEN r.qty * r.price - p ELSE 0
  BY <1>1
<1>5. 1 * n = n /\ 0 * n = 0 /\ 0 * r.price = 0
  BY <1>1, <1>2
<1>6. PICK b \in Int : b = IF e > 0 THEN n ELSE 0
  BY <1>2
<1>7. CashOf(r, e, p, 1) = a - k /\ CashOf(r, e, p, 0) = a - 0
  BY <1>2, <1>3, <1>4, <1>5, Zenon DEF CashOf
<1>8. AssetOf(r, e, 1) = b - n /\ AssetOf(r, e, 0) = b - 0
  BY <1>2, <1>5, <1>6, Zenon DEF AssetOf
<1>. QED  BY <1>2, <1>3, <1>4, <1>6, <1>7, <1>8

\* A fill settles its part, and the first one takes the hold.
LEMMA HeldByFilled ==
    ASSUME NEW r \in Requests, NEW e \in Nat, NEW p \in Nat, e = 0 => p = 0,
           NEW q \in Nat, q > 0, NEW v \in Nat
    PROVE  /\ CashOf(r, e + q, p + v, 0) - CashOf(r, e, p, 0) =
                  (IF e = 0 THEN r.qty * r.price ELSE 0) + (0 - v)
           /\ AssetOf(r, e + q, 0) - AssetOf(r, e, 0) =
                  (IF e = 0 THEN r.qty ELSE 0) + (0 - q)
<1>1. r.qty \in Int /\ r.price \in Int
  BY RequestParts
<1>2. PICK h \in Int : h = r.qty * r.price
  BY <1>1
<1>3. \A n \in Int : 0 * n = 0 /\ 0 * r.price = 0
  BY <1>1
<1>4. r.qty - e \in Int /\ r.qty - (e + q) \in Int /\ e + q > 0
  BY <1>1
<1>5. /\ CashOf(r, e + q, p + v, 0) = (h - (p + v)) - 0
      /\ CashOf(r, e, p, 0) = (IF e > 0 THEN h - p ELSE 0) - 0
      /\ AssetOf(r, e + q, 0) = (r.qty - (e + q)) - 0
      /\ AssetOf(r, e, 0) = (IF e > 0 THEN r.qty - e ELSE 0) - 0
  BY <1>2, <1>3, <1>4, Zenon DEF CashOf, AssetOf
<1>6. CASE e = 0
  <2>1. p = 0 /\ ~(e > 0)
    BY <1>6
  <2>2. /\ CashOf(r, e, p, 0) = 0 /\ CashOf(r, e + q, p + v, 0) = h - v
        /\ AssetOf(r, e, 0) = 0 /\ AssetOf(r, e + q, 0) = r.qty - q
    BY <1>1, <1>2, <1>5, <1>6, <2>1
  <2>3. /\ CashOf(r, e + q, p + v, 0) - CashOf(r, e, p, 0) = (h - v) - 0
        /\ AssetOf(r, e + q, 0) - AssetOf(r, e, 0) = (r.qty - q) - 0
    BY <2>2, Zenon
  <2>4. \A i \in Int, j \in Nat : (i - j) - 0 = i + (0 - j)
    OBVIOUS
  <2>5. (h - v) - 0 = h + (0 - v)
    BY <1>2, <2>4, Zenon
  <2>6. (r.qty - q) - 0 = r.qty + (0 - q)
    BY <1>1, <2>4, Zenon
  <2>. QED  BY <1>2, <1>6, <2>3, <2>5, <2>6, Zenon
<1>7. CASE e > 0
  BY <1>1, <1>2, <1>5, <1>7
<1>. QED  BY <1>6, <1>7

-----------------------------------------------------------------------------
(***************************************************************************)
(* Reconciliation.                                                         *)
(***************************************************************************)

\* An order without a fill has paid nothing.
PaidInv == \A o \in OrderIds : exec[o] = 0 => paid[o] = 0

\* Escrow is exactly explained by the orders.  In particular the asset escrow
\* of a partly filled ask is its remainder and ends at zero with it; an order
\* cancelled before its first fill takes out of escrow what was never put in
\* (twice when it was rejected); and a bid filled at another price than its
\* own leaves the difference behind.
EscrowReconciles ==
    ~Dead =>
      \A u \in Users \ {System} :
        /\ wallet[u].cashEscrow = SumOver(OrdersOf(u, "bid"), CashHeld)
        /\ wallet[u].assetEscrow = SumOver(OrdersOf(u, "ask"), AssetHeld)

ReconcileInv == IInv /\ PaidInv /\ BalancesReconcile /\ EscrowReconciles

\* The two properties for one user, by ledgers.
BalancesOf(u) ==
    /\ wallet[u].cash = InitCash[u] + Ledger(order, u, "ask", paid)
                                   - Ledger(order, u, "bid", paid)
    /\ wallet[u].asset = InitAsset[u] + Ledger(order, u, "bid", exec)
                                     - Ledger(order, u, "ask", exec)

EscrowOf(u) ==
    /\ wallet[u].cashEscrow = Ledger(order, u, "bid", CashHeld)
    /\ wallet[u].assetEscrow = Ledger(order, u, "ask", AssetHeld)

\* The two properties speak of one user at a time.
LEMMA ReconcileByUser ==
    /\ BalancesReconcile <=> \A u \in Users \ {System} : BalancesOf(u)
    /\ EscrowReconciles <=> (~Dead => \A u \in Users \ {System} : EscrowOf(u))
<1>1. \A u, side : OrdersOf(u, side) = OrdersFor(order, u, side)
  BY Zenon DEF OrdersOf, OrdersFor, Known
<1>2. \A u, side, f : SumOver(OrdersOf(u, side), f) = Ledger(order, u, side, f)
  BY <1>1, Zenon DEF Ledger
<1>3. \A u : BalancesOf(u) <=>
          /\ wallet[u].cash = InitCash[u] + SumOver(OrdersOf(u, "ask"), paid)
                                         - SumOver(OrdersOf(u, "bid"), paid)
          /\ wallet[u].asset = InitAsset[u] + SumOver(OrdersOf(u, "bid"), exec)
                                           - SumOver(OrdersOf(u, "ask"), exec)
  BY <1>2, Zenon DEF BalancesOf
<1>4. \A u : EscrowOf(u) <=>
          /\ wallet[u].cashEscrow = SumOver(OrdersOf(u, "bid"), CashHeld)
          /\ wallet[u].assetEscrow = SumOver(OrdersOf(u, "ask"), AssetHeld)
  BY <1>2, Zenon DEF EscrowOf
<1>5. BalancesReconcile <=> \A u \in Users \ {System} : BalancesOf(u)
  BY <1>3, Zenon DEF BalancesReconcile
<1>6. EscrowReconciles <=> (~Dead => \A u \in Users \ {System} : EscrowOf(u))
  BY <1>4, Zenon DEF EscrowReconciles
<1>. QED  BY <1>5, <1>6

\* The terms of the ledgers are integers, in the state before and after.
TermsOK ==
    /\ order \in Seq(Requests)
    /\ \A o \in DOMAIN order :
          /\ paid[o] \in Nat /\ exec[o] \in Nat /\ cancels[o] \in Nat
          /\ order[o] \in Requests /\ o \in OrderIds
          /\ CashHeld[o] = CashOf(order[o], exec[o], paid[o], cancels[o])
          /\ AssetHeld[o] = AssetOf(order[o], exec[o], cancels[o])
          /\ CashHeld[o] \in Int /\ AssetHeld[o] \in Int

\* The terms have their types in every state of the invariant.
LEMMA TermsInt == IInv => TermsOK
<1> SUFFICES ASSUME IInv PROVE TermsOK
  OBVIOUS
<1>1. TypeOK /\ order \in Seq(Requests)
  BY DEF IInv, TypeOK
<1>2. ASSUME NEW o \in DOMAIN order
      PROVE  /\ paid[o] \in Nat /\ exec[o] \in Nat /\ cancels[o] \in Nat
             /\ order[o] \in Requests /\ o \in OrderIds
             /\ CashHeld[o] = CashOf(order[o], exec[o], paid[o], cancels[o])
             /\ AssetHeld[o] = AssetOf(order[o], exec[o], cancels[o])
             /\ CashHeld[o] \in Int /\ AssetHeld[o] \in Int
  <2>1. o \in Known
    BY DEF Known
  <2>2. o \in OrderIds /\ order[o] \in Requests /\ exec[o] \in Nat
    BY <1>1, <2>1, KnownOrders
  <2>3. paid[o] \in Nat /\ cancels[o] \in Nat
    BY <1>1, <2>2 DEF TypeOK
  <2>4. /\ CashHeld[o] = CashOf(order[o], exec[o], paid[o], cancels[o])
        /\ AssetHeld[o] = AssetOf(order[o], exec[o], cancels[o])
    BY <2>1, HeldByOrder
  <2>. QED  BY <2>2, <2>3, <2>4, HeldInt
<1>. QED  BY <1>1, <1>2 DEF TermsOK

\* So they have after a step that keeps it.
LEMMA TermsIntAfter == IInv' => TermsOK'
  BY TermsInt, PTL

\* The two properties after a step.
LEMMA ReconcileByUserAfter ==
    /\ BalancesReconcile' <=> \A u \in Users \ {System} : BalancesOf(u)'
    /\ EscrowReconciles' <=> (~Dead' => \A u \in Users \ {System} : EscrowOf(u)')
<1>1. (/\ BalancesReconcile <=> \A u \in Users \ {System} : BalancesOf(u)
       /\ EscrowReconciles <=> (~Dead => \A u \in Users \ {System} : EscrowOf(u)))'
  BY ReconcileByUser, PTL
<1>. QED  BY <1>1

\* The balances move by what the new order o holds.
HoldsNew(r, o) ==
    \A u \in Users \ {System} :
        Moves(wallet, wallet', u, 0, Share(r, u, "bid", CashOf(r, 0, 0, cancels'[o])),
                                  0, Share(r, u, "ask", AssetOf(r, 0, cancels'[o])))

\* An order is received, with no fill; the balances move as it holds.
LEMMA ReceiveReconciles ==
    ASSUME ReconcileInv, IInv', NEW r \in Requests, Receive(r),
           exec' = exec, paid' = paid, NEW o, o = Len(order) + 1,
           \A x \in Known : cancels'[x] = cancels[x],
           HoldsNew(r, o) \/ (Dead' /\ wallet' = wallet)
    PROVE  ReconcileInv'
<1>1. /\ IInv /\ PaidInv /\ ~Dead /\ order' = Append(order, r)
      /\ \A u \in Users \ {System} : BalancesOf(u) /\ EscrowOf(u)
  <2>1. ~Dead
    BY DEF Receive, Dead
  <2>. QED  BY <2>1, ReconcileByUser DEF ReconcileInv, Receive
<1>2. order \in Seq(Requests) /\ order' \in Seq(Requests) /\ o \in DOMAIN order'
  <2>1. TypeOK
    BY <1>1 DEF IInv
  <2>. QED  BY <2>1, ReceiveAdds DEF IInv, TypeOK, Known
<1>3. exec[o] = 0 /\ paid[o] = 0
  <2>1. TypeOK /\ MatchState
    BY <1>1 DEF IInv
  <2>2. o \in OrderIds /\ o \notin Known
    BY <2>1, ReceiveAdds
  <2>. QED  BY <1>1, <2>1, <2>2 DEF MatchState, PaidInv
<1>4. /\ \A x \in DOMAIN order : paid[x] \in Int /\ exec[x] \in Int
                                 /\ CashHeld[x] \in Int /\ AssetHeld[x] \in Int
                                 /\ CashHeld'[x] = CashHeld[x]
                                 /\ AssetHeld'[x] = AssetHeld[x]
      /\ CashHeld'[o] = CashOf(r, 0, 0, cancels'[o])
      /\ AssetHeld'[o] = AssetOf(r, 0, cancels'[o])
      /\ CashHeld'[o] \in Int /\ AssetHeld'[o] \in Int
  <2>1. \A x \in DOMAIN order : order'[x] = order[x] /\ x \in DOMAIN order'
    BY <1>1, <1>2, ReceiveAdds DEF IInv, Known
  <2>2. order'[o] = r
    BY <1>1, <1>2, ReceiveAdds DEF IInv
  <2>3. \A x \in DOMAIN order' :
           /\ CashHeld'[x] = CashOf(order'[x], exec'[x], paid'[x], cancels'[x])
           /\ AssetHeld'[x] = AssetOf(order'[x], exec'[x], cancels'[x])
           /\ CashHeld'[x] \in Int /\ AssetHeld'[x] \in Int
    BY TermsIntAfter DEF TermsOK
  <2>. QED  BY <1>1, <1>2, <1>3, <2>1, <2>2, <2>3, TermsInt DEF Known, TermsOK
<1>5. ASSUME NEW u \in Users \ {System}
      PROVE  /\ Ledger(order', u, "ask", paid') = Ledger(order, u, "ask", paid)
             /\ Ledger(order', u, "bid", paid') = Ledger(order, u, "bid", paid)
             /\ Ledger(order', u, "ask", exec') = Ledger(order, u, "ask", exec)
             /\ Ledger(order', u, "bid", exec') = Ledger(order, u, "bid", exec)
             /\ Ledger(order', u, "bid", CashHeld') =
                   Ledger(order, u, "bid", CashHeld) + Share(r, u, "bid", CashHeld'[o])
             /\ Ledger(order', u, "ask", AssetHeld') =
                   Ledger(order, u, "ask", AssetHeld) + Share(r, u, "ask", AssetHeld'[o])
  <2>0. /\ Continues(order, o, paid, paid) /\ Continues(order, o, exec, exec)
        /\ Continues(order, o, CashHeld, CashHeld') /\ Continues(order, o, AssetHeld, AssetHeld')
        /\ Longer(order, order', r, o)
    BY <1>1, <1>3, <1>4 DEF Continues, Longer
  <2>1. /\ Ledger(order', u, "ask", paid) = Ledger(order, u, "ask", paid) + Share(r, u, "ask", paid[o])
        /\ Ledger(order', u, "bid", paid) = Ledger(order, u, "bid", paid) + Share(r, u, "bid", paid[o])
        /\ Ledger(order', u, "ask", exec) = Ledger(order, u, "ask", exec) + Share(r, u, "ask", exec[o])
        /\ Ledger(order', u, "bid", exec) = Ledger(order, u, "bid", exec) + Share(r, u, "bid", exec[o])
    BY <1>2, <2>0, LedgerGrows
  <2>2. \A side : Share(r, u, side, 0) = 0
    BY DEF Share
  <2>3. /\ Ledger(order, u, "ask", paid) \in Int /\ Ledger(order, u, "bid", paid) \in Int
        /\ Ledger(order, u, "ask", exec) \in Int /\ Ledger(order, u, "bid", exec) \in Int
    BY <1>2, <1>4, LedgerInt
  <2>4. /\ Ledger(order', u, "ask", paid') = Ledger(order, u, "ask", paid)
        /\ Ledger(order', u, "bid", paid') = Ledger(order, u, "bid", paid)
        /\ Ledger(order', u, "ask", exec') = Ledger(order, u, "ask", exec)
        /\ Ledger(order', u, "bid", exec') = Ledger(order, u, "bid", exec)
    BY <1>3, <2>1, <2>2, <2>3
  <2>5. Ledger(order', u, "bid", CashHeld') =
          Ledger(order, u, "bid", CashHeld) + Share(r, u, "bid", CashHeld'[o])
    BY <1>2, <2>0, LedgerGrows
  <2>6. Ledger(order', u, "ask", AssetHeld') =
          Ledger(order, u, "ask", AssetHeld) + Share(r, u, "ask", AssetHeld'[o])
    BY <1>2, <2>0, LedgerGrows
  <2>. QED  BY <2>4, <2>5, <2>6
<1>6. ASSUME NEW u \in Users \ {System} PROVE BalancesOf(u)' /\ (Dead' \/ EscrowOf(u)')
  <2>1. wallet[u] \in Balances
    BY <1>1 DEF IInv, TypeOK, Wallets
  <2>2. BalancesOf(u) /\ EscrowOf(u)
    BY <1>1
  <2>3. wallet[u].cash \in Int /\ wallet[u].asset \in Int
    BY <2>1 DEF Balances
  <2>4. CASE Dead' /\ wallet' = wallet
    BY <1>5, <2>2, <2>4 DEF BalancesOf
  <2>5. CASE Moves(wallet, wallet', u, 0, Share(r, u, "bid", CashHeld'[o]),
                   0, Share(r, u, "ask", AssetHeld'[o]))
    <3>1. /\ wallet'[u].cash = wallet[u].cash /\ wallet'[u].asset = wallet[u].asset
          /\ wallet'[u].cashEscrow = wallet[u].cashEscrow + Share(r, u, "bid", CashHeld'[o])
          /\ wallet'[u].assetEscrow = wallet[u].assetEscrow + Share(r, u, "ask", AssetHeld'[o])
      BY <2>3, <2>5 DEF Moves
    <3>2. BalancesOf(u)'
      BY <1>5, <2>2, <3>1 DEF BalancesOf
    <3>3. EscrowOf(u)'
      BY <1>5, <2>2, <3>1 DEF EscrowOf
    <3>. QED  BY <3>2, <3>3
  <2>. QED  BY <1>4, <2>4, <2>5 DEF HoldsNew
<1>7. PaidInv'
  BY <1>1 DEF PaidInv
<1>. QED  BY <1>6, <1>7, ReconcileByUserAfter DEF ReconcileInv

\* An order that is placed or begins to match moves no balance.
LEMMA PlaceOrderReconciles ==
    ASSUME ReconcileInv, IInv', NEW r \in Requests, Receive(r),
           UNCHANGED <<exec, paid, cancels, wallet>>
    PROVE  ReconcileInv'
<1>1. PICK o : o = Len(order) + 1
  OBVIOUS
<1>2. IInv /\ TypeOK /\ MatchState
  BY DEF ReconcileInv, IInv
<1>3. cancels'[o] = 0
  <2>1. o \in OrderIds /\ o \notin Known
    BY <1>1, <1>2, ReceiveAdds
  <2>. QED  BY <1>2, <2>1 DEF MatchState
<1>4. CashOf(r, 0, 0, 0) = 0 /\ AssetOf(r, 0, 0) = 0
  BY HeldByNew
<1>5. ASSUME NEW u \in Users \ {System}
      PROVE  Moves(wallet, wallet', u, 0, Share(r, u, "bid", CashOf(r, 0, 0, cancels'[o])),
                                       0, Share(r, u, "ask", AssetOf(r, 0, cancels'[o])))
  <2>1. /\ Share(r, u, "bid", CashOf(r, 0, 0, cancels'[o])) = 0
        /\ Share(r, u, "ask", AssetOf(r, 0, cancels'[o])) = 0
    BY <1>3, <1>4 DEF Share
  <2>2. wallet[u] \in Balances
    BY <1>2 DEF TypeOK, Wallets
  <2>3. Moves(wallet, wallet', u, 0, 0, 0, 0)
    BY <2>2 DEF Moves, Balances
  <2>. QED  BY <2>1, <2>3
<1>6. HoldsNew(r, o)
  BY <1>5 DEF HoldsNew
<1>. QED  BY <1>1, <1>6, ReceiveReconciles

\* A rejection that raises has logged a cancellation and released nothing.
LEMMA RejectRaisesReconciles ==
    ASSUME ReconcileInv, IInv', NEW r \in Requests, RejectOrderRaises(r)
    PROVE  ReconcileInv'
<1>1. PICK o : o = Len(order) + 1
  OBVIOUS
<1>2. TypeOK /\ Receive(r) /\ UNCHANGED <<exec, paid, wallet>>
      /\ cancels' = [cancels EXCEPT ![o] = 1] /\ Dead'
  BY <1>1 DEF ReconcileInv, IInv, RejectOrderRaises, Dead
<1>3. \A x \in Known : cancels'[x] = cancels[x]
  <2>1. o \notin Known /\ Known \subseteq OrderIds
    BY <1>1, <1>2, ReceiveAdds, KnownOrders
  <2>. QED  BY <1>2, <2>1 DEF TypeOK
<1>. QED  BY <1>1, <1>2, <1>3, ReceiveReconciles

\* The rejected order's hold is released twice and was never taken.
LEMMA RejectReconciles ==
    ASSUME ReconcileInv, IInv', NEW r \in Requests, RejectOrder(r)
    PROVE  ReconcileInv'
<1>1. PICK o : o = Len(order) + 1
  OBVIOUS
<1>2. PICK w1 : w1 = ReleaseEscrow(wallet, r, r.qty)
  OBVIOUS
<1>3. TypeOK /\ Receive(r) /\ exec' = exec /\ paid' = paid
      /\ cancels' = [cancels EXCEPT ![o] = 2]
      /\ wallet' = ReleaseEscrow(w1, r, r.qty)
  BY <1>1, <1>2 DEF ReconcileInv, IInv, RejectOrder
<1>4. cancels'[o] = 2 /\ \A x \in Known : cancels'[x] = cancels[x]
  <2>1. o \in OrderIds /\ o \notin Known /\ Known \subseteq OrderIds
    BY <1>1, <1>3, ReceiveAdds, KnownOrders
  <2>. QED  BY <1>3, <2>1 DEF TypeOK
<1>5. r.qty \in Int /\ wallet \in Wallets
  BY <1>3, RequestParts DEF TypeOK
<1>6. w1 \in Wallets
  BY <1>2, <1>5, EngineWallets
<1>7. PICK v \in Int : v = 0 - r.qty * r.price
  BY <1>5, RequestParts
<1>8. PICK n \in Int : n = 0 - r.qty
  BY <1>5
<1>9. CashOf(r, 0, 0, 2) = v + v /\ AssetOf(r, 0, 2) = n + n
  BY <1>7, <1>8, HeldByNew
<1>10. ASSUME NEW u \in Users \ {System}
       PROVE  Moves(wallet, wallet', u, 0, Share(r, u, "bid", CashOf(r, 0, 0, cancels'[o])),
                                        0, Share(r, u, "ask", AssetOf(r, 0, cancels'[o])))
  <2>1. /\ Moves(wallet, w1, u, 0, Share(r, u, "bid", v), 0, Share(r, u, "ask", n))
        /\ Moves(w1, wallet', u, 0, Share(r, u, "bid", v), 0, Share(r, u, "ask", n))
    BY <1>2, <1>3, <1>5, <1>6, <1>7, <1>8, OrderMoves
  <2>2. PICK b : b = wallet[u]
    OBVIOUS
  <2>3. /\ b.cash \in Int /\ b.cashEscrow \in Int /\ b.asset \in Int /\ b.assetEscrow \in Int
    <3>1. b \in Balances
      BY <1>5, <2>2 DEF Wallets
    <3>. QED  BY <3>1 DEF Balances
  <2>4. /\ Share(r, u, "bid", v) \in Int /\ Share(r, u, "ask", n) \in Int
        /\ Share(r, u, "bid", v + v) = Share(r, u, "bid", v) + Share(r, u, "bid", v)
        /\ Share(r, u, "ask", n + n) = Share(r, u, "ask", n) + Share(r, u, "ask", n)
    BY <1>7, <1>8 DEF Share
  <2>5. Moves(wallet, wallet', u, 0, Share(r, u, "bid", v + v), 0, Share(r, u, "ask", n + n))
    BY <2>1, <2>2, <2>3, <2>4 DEF Moves
  <2>. QED  BY <1>4, <1>9, <2>5
<1>11. HoldsNew(r, o)
  BY <1>10 DEF HoldsNew
<1>. QED  BY <1>1, <1>3, <1>4, <1>11, ReceiveReconciles

\* A stored order is cancelled: what is left of it is released.
LEMMA CancelReconciles ==
    ASSUME ReconcileInv, IInv', NEW o \in store, ~Dead,
           order' = order, exec' = exec, paid' = paid,
           cancels' = [cancels EXCEPT ![o] = @ + 1],
           wallet' = ReleaseEscrow(wallet, order[o], Remaining(o))
    PROVE  ReconcileInv'
<1>1. /\ IInv /\ TypeOK /\ PaidInv
      /\ \A u \in Users \ {System} : BalancesOf(u) /\ EscrowOf(u)
  BY ReconcileByUser DEF ReconcileInv, IInv
<1>2. o \in Known /\ cancels[o] = 0 /\ Remaining(o) \in Int /\ Remaining(o) = order[o].qty - exec[o]
  BY <1>1, KnownOrders DEF IInv, BookConsistent, BookMatchesStore, OneFate, Remaining
<1>3. o \in DOMAIN order /\ order \in Seq(Requests) /\ order[o] \in Requests /\ TermsOK /\ TermsOK'
  BY <1>1, <1>2, TermsInt, TermsIntAfter, KnownOrders DEF Known, TermsOK
<1>4. cancels'[o] = 1 /\ \A x \in DOMAIN order : x # o => cancels'[x] = cancels[x]
  <2>1. Known \subseteq OrderIds
    BY <1>1, KnownOrders
  <2>. QED  BY <1>1, <1>2, <2>1 DEF TypeOK, Known
<1>5. PICK r, e, p : r = order[o] /\ e = exec[o] /\ p = paid[o]
  OBVIOUS
<1>6. r \in Requests /\ e \in Nat /\ p \in Nat
  BY <1>3, <1>5 DEF TermsOK
<1>7. /\ CashHeld'[o] = CashOf(r, e, p, 1) /\ CashHeld[o] = CashOf(r, e, p, 0)
      /\ AssetHeld'[o] = AssetOf(r, e, 1) /\ AssetHeld[o] = AssetOf(r, e, 0)
  BY <1>2, <1>3, <1>4, <1>5 DEF TermsOK
<1>8. /\ CashHeld'[o] - CashHeld[o] = 0 - (r.qty - e) * r.price
      /\ AssetHeld'[o] - AssetHeld[o] = 0 - (r.qty - e)
  BY <1>6, <1>7, HeldByCancelled
<1>9. /\ DifferAt(order, "bid", o, CashHeld, CashHeld')
      /\ DifferAt(order, "ask", o, AssetHeld, AssetHeld')
  <2>1. \A x \in DOMAIN order : /\ CashHeld[x] \in Int /\ CashHeld'[x] \in Int
                                 /\ AssetHeld[x] \in Int /\ AssetHeld'[x] \in Int
    BY <1>3 DEF TermsOK
  <2>2. ASSUME NEW x \in DOMAIN order, x # o
        PROVE  CashHeld'[x] = CashHeld[x] /\ AssetHeld'[x] = AssetHeld[x]
    <3>1. cancels'[x] = cancels[x]
      BY <1>4, <2>2
    <3>2. /\ CashHeld[x] = CashOf(order[x], exec[x], paid[x], cancels[x])
          /\ AssetHeld[x] = AssetOf(order[x], exec[x], cancels[x])
      BY <1>3 DEF TermsOK
    <3>3. /\ CashHeld'[x] = CashOf(order[x], exec[x], paid[x], cancels'[x])
          /\ AssetHeld'[x] = AssetOf(order[x], exec[x], cancels'[x])
      BY <1>3 DEF TermsOK
    <3>. QED  BY <3>1, <3>2, <3>3
  <2>. QED  BY <2>1, <2>2 DEF DifferAt
<1>10. ASSUME NEW u \in Users \ {System} PROVE BalancesOf(u)' /\ EscrowOf(u)'
  <2>1. /\ Ledger(order, u, "bid", CashHeld') = Ledger(order, u, "bid", CashHeld)
             + Share(order[o], u, "bid", CashHeld'[o] - CashHeld[o])
        /\ Ledger(order, u, "ask", AssetHeld') = Ledger(order, u, "ask", AssetHeld)
             + Share(order[o], u, "ask", AssetHeld'[o] - AssetHeld[o])
    BY <1>3, <1>9, LedgerChanges
  <2>2. Moves(wallet, wallet', u, 0, Share(r, u, "bid", 0 - (r.qty - e) * r.price),
              0, Share(r, u, "ask", 0 - (r.qty - e)))
    <3>1. PICK n : n = r.qty - e
      OBVIOUS
    <3>2. n \in Int /\ wallet' = ReleaseEscrow(wallet, r, n) /\ wallet \in Wallets
      BY <1>1, <1>2, <1>5, <3>1 DEF TypeOK
    <3>3. Moves(wallet, wallet', u, 0, Share(r, u, "bid", 0 - n * r.price),
                0, Share(r, u, "ask", 0 - n))
      BY <1>6, <3>2, OrderMoves
    <3>. QED  BY <3>1, <3>3
  <2>3. /\ wallet[u].cash + 0 = wallet[u].cash /\ wallet[u].asset + 0 = wallet[u].asset
    <3>1. wallet[u] \in Balances
      BY <1>1 DEF TypeOK, Wallets
    <3>. QED  BY <3>1 DEF Balances
  <2>4. BalancesOf(u) /\ EscrowOf(u)
    BY <1>1
  <2>5. BalancesOf(u)'
    BY <2>2, <2>3, <2>4 DEF BalancesOf, Moves
  <2>6. EscrowOf(u)'
    BY <1>5, <1>8, <2>1, <2>2, <2>4 DEF EscrowOf, Moves
  <2>. QED  BY <2>5, <2>6
<1>11. PaidInv'
  BY <1>1 DEF PaidInv
<1>. QED  BY <1>10, <1>11, ReconcileByUserAfter DEF ReconcileInv

\* What the escrow of a first fill moves.
LEMMA FirstFillMoves ==
    ASSUME NEW w \in Wallets, NEW u \in Users \ {System}, NEW o,
           order[o] \in Requests
    PROVE  /\ HoldAtFirstFill(w, o) \in Wallets
           /\ Moves(w, HoldAtFirstFill(w, o), u,
                    0, Share(order[o], u, "bid",
                             IF exec[o] = 0 THEN order[o].qty * order[o].price ELSE 0),
                    0, Share(order[o], u, "ask",
                             IF exec[o] = 0 THEN order[o].qty ELSE 0))
<1>1. CASE exec[o] = 0
  <2>1. HoldAtFirstFill(w, o) = Hold(w, order[o])
    BY <1>1 DEF HoldAtFirstFill
  <2>2. 0 \in Int
    OBVIOUS
  <2>. QED  BY <1>1, <2>1, <2>2, EngineWallets, OrderMoves
<1>2. CASE exec[o] # 0
  <2>1. HoldAtFirstFill(w, o) = w
    BY <1>2 DEF HoldAtFirstFill
  <2>2. \A side : Share(order[o], u, side, 0) = 0
    BY DEF Share
  <2>3. w[u] \in Balances
    BY DEF Wallets
  <2>4. Moves(w, w, u, 0, 0, 0, 0)
    BY <2>3 DEF Moves, Balances
  <2>. QED  BY <1>2, <2>1, <2>2, <2>4
<1>. QED  BY <1>1, <1>2

\* The bid b and the ask a trade the quantity q for the value v.
Traded(b, a, q, v) ==
    /\ b \in DOMAIN order /\ a \in DOMAIN order /\ q \in Nat /\ q > 0 /\ v \in Nat
    /\ order[b].side = "bid" /\ order[a].side = "ask"
    /\ cancels[b] = 0 /\ cancels[a] = 0 /\ cancels' = cancels /\ order' = order
    /\ exec'[b] = exec[b] + q /\ exec'[a] = exec[a] + q
    /\ paid'[b] = paid[b] + v /\ paid'[a] = paid[a] + v
    /\ \A x \in OrderIds \ {a, b} : exec'[x] = exec[x] /\ paid'[x] = paid[x]

\* What a trade moves.
TradeMoves(b, a, q, v) ==
    \A u \in Users \ {System} :
        Moves(wallet, wallet', u,
              Share(order[b], u, "bid", 0 - v) + Share(order[a], u, "ask", v),
              Share(order[b], u, "bid",
                    (IF exec[b] = 0 THEN order[b].qty * order[b].price ELSE 0) + (0 - v)),
              Share(order[b], u, "bid", q) + Share(order[a], u, "ask", 0 - q),
              Share(order[a], u, "ask",
                    (IF exec[a] = 0 THEN order[a].qty ELSE 0) + (0 - q)))

\* A trade changes one bid and one ask, and every ledger is of one side.
LEMMA TradedReconciles ==
    ASSUME ReconcileInv, IInv', ~Dead, NEW b, NEW a, NEW q, NEW v,
           Traded(b, a, q, v), TradeMoves(b, a, q, v)
    PROVE  ReconcileInv'
<1>1. /\ IInv /\ PaidInv /\ TermsOK /\ TermsOK' /\ order' = order
      /\ \A u \in Users \ {System} : BalancesOf(u) /\ EscrowOf(u)
  BY ReconcileByUser, TermsInt, TermsIntAfter DEF ReconcileInv, Traded
<1>2. /\ b \in DOMAIN order /\ a \in DOMAIN order /\ q \in Nat /\ q > 0 /\ v \in Nat
      /\ order \in Seq(Requests)
      /\ \A x \in DOMAIN order :
            /\ paid[x] \in Nat /\ exec[x] \in Nat /\ cancels[x] \in Nat
            /\ order[x] \in Requests /\ x \in OrderIds
            /\ paid'[x] \in Nat /\ exec'[x] \in Nat
            /\ CashHeld[x] \in Int /\ CashHeld'[x] \in Int
            /\ AssetHeld[x] \in Int /\ AssetHeld'[x] \in Int
  BY <1>1 DEF TermsOK, Traded
<1>3. ASSUME NEW x \in DOMAIN order, x # a, x # b
      PROVE  /\ exec'[x] = exec[x] /\ paid'[x] = paid[x]
             /\ CashHeld'[x] = CashHeld[x] /\ AssetHeld'[x] = AssetHeld[x]
  <2>1. exec'[x] = exec[x] /\ paid'[x] = paid[x] /\ cancels'[x] = cancels[x]
    BY <1>2, <1>3 DEF Traded
  <2>2. /\ CashHeld[x] = CashOf(order[x], exec[x], paid[x], cancels[x])
        /\ AssetHeld[x] = AssetOf(order[x], exec[x], cancels[x])
        /\ CashHeld'[x] = CashOf(order[x], exec'[x], paid'[x], cancels'[x])
        /\ AssetHeld'[x] = AssetOf(order[x], exec'[x], cancels'[x])
    BY <1>1 DEF TermsOK
  <2>. QED  BY <2>1, <2>2
<1>4. order[b].side # "ask" /\ order[a].side # "bid"
  BY DEF Traded
<1>5. /\ DifferAt(order, "bid", b, paid, paid') /\ DifferAt(order, "ask", a, paid, paid')
      /\ DifferAt(order, "bid", b, exec, exec') /\ DifferAt(order, "ask", a, exec, exec')
      /\ DifferAt(order, "bid", b, CashHeld, CashHeld')
      /\ DifferAt(order, "ask", a, AssetHeld, AssetHeld')
  BY <1>2, <1>3, <1>4 DEF DifferAt
<1>6. /\ CashHeld'[b] - CashHeld[b] =
             (IF exec[b] = 0 THEN order[b].qty * order[b].price ELSE 0) + (0 - v)
      /\ AssetHeld'[a] - AssetHeld[a] =
             (IF exec[a] = 0 THEN order[a].qty ELSE 0) + (0 - q)
  <2>1. ASSUME NEW x \in {a, b}
        PROVE  /\ CashHeld'[x] - CashHeld[x] =
                      (IF exec[x] = 0 THEN order[x].qty * order[x].price ELSE 0) + (0 - v)
               /\ AssetHeld'[x] - AssetHeld[x] =
                      (IF exec[x] = 0 THEN order[x].qty ELSE 0) + (0 - q)
    <3>1. PICK r, e, p : r = order[x] /\ e = exec[x] /\ p = paid[x]
      OBVIOUS
    <3>2. /\ x \in DOMAIN order /\ cancels[x] = 0 /\ cancels'[x] = 0
          /\ exec'[x] = e + q /\ paid'[x] = p + v
      BY <3>1 DEF Traded
    <3>3. r \in Requests /\ e \in Nat /\ p \in Nat /\ (e = 0 => p = 0)
      BY <1>1, <1>2, <3>1, <3>2 DEF PaidInv
    <3>4. /\ CashHeld[x] = CashOf(r, e, p, 0) /\ AssetHeld[x] = AssetOf(r, e, 0)
          /\ CashHeld'[x] = CashOf(r, e + q, p + v, 0)
          /\ AssetHeld'[x] = AssetOf(r, e + q, 0)
      BY <1>1, <3>1, <3>2 DEF TermsOK
    <3>5. q \in Nat /\ q > 0 /\ v \in Nat
      BY <1>2
    <3>6. /\ CashOf(r, e + q, p + v, 0) - CashOf(r, e, p, 0) =
                  (IF e = 0 THEN r.qty * r.price ELSE 0) + (0 - v)
          /\ AssetOf(r, e + q, 0) - AssetOf(r, e, 0) =
                  (IF e = 0 THEN r.qty ELSE 0) + (0 - q)
      BY <3>3, <3>5, HeldByFilled
    <3>. QED  BY <3>1, <3>4, <3>6, Zenon
  <2>. QED  BY <2>1
<1>7. /\ paid'[b] - paid[b] = v /\ paid'[a] - paid[a] = v
      /\ exec'[b] - exec[b] = q /\ exec'[a] - exec[a] = q
  <2>1. \A i, j \in Nat : (i + j) - i = j
    OBVIOUS
  <2>2. /\ paid[a] \in Nat /\ paid[b] \in Nat /\ exec[a] \in Nat /\ exec[b] \in Nat
        /\ q \in Nat /\ v \in Nat
    BY <1>2
  <2>3. /\ exec'[b] = exec[b] + q /\ exec'[a] = exec[a] + q
        /\ paid'[b] = paid[b] + v /\ paid'[a] = paid[a] + v
    BY DEF Traded
  <2>4. (paid[b] + v) - paid[b] = v /\ (paid[a] + v) - paid[a] = v
    BY <2>1, <2>2
  <2>5. (exec[b] + q) - exec[b] = q /\ (exec[a] + q) - exec[a] = q
    BY <2>1, <2>2
  <2>. QED  BY <2>3, <2>4, <2>5
<1>8. ASSUME NEW u \in Users \ {System} PROVE BalancesOf(u)' /\ EscrowOf(u)'
  <2>1. /\ Ledger(order, u, "bid", paid') = Ledger(order, u, "bid", paid)
             + Share(order[b], u, "bid", paid'[b] - paid[b])
        /\ Ledger(order, u, "ask", paid') = Ledger(order, u, "ask", paid)
             + Share(order[a], u, "ask", paid'[a] - paid[a])
    BY <1>2, <1>5, LedgerChanges
  <2>2. /\ Ledger(order, u, "bid", exec') = Ledger(order, u, "bid", exec)
             + Share(order[b], u, "bid", exec'[b] - exec[b])
        /\ Ledger(order, u, "ask", exec') = Ledger(order, u, "ask", exec)
             + Share(order[a], u, "ask", exec'[a] - exec[a])
    BY <1>2, <1>5, LedgerChanges
  <2>3. Ledger(order, u, "bid", CashHeld') = Ledger(order, u, "bid", CashHeld)
             + Share(order[b], u, "bid", CashHeld'[b] - CashHeld[b])
    BY <1>2, <1>5, LedgerChanges
  <2>4. Ledger(order, u, "ask", AssetHeld') = Ledger(order, u, "ask", AssetHeld)
             + Share(order[a], u, "ask", AssetHeld'[a] - AssetHeld[a])
    BY <1>2, <1>5, LedgerChanges
  <2>5. BalancesOf(u) /\ EscrowOf(u)
    BY <1>1
  <2>6. EscrowOf(u)'
    BY <1>1, <1>6, <2>3, <2>4, <2>5 DEF EscrowOf, TradeMoves, Moves
  <2>7. BalancesOf(u)'
    <3>1. PICK x1, x2, y1, y2 \in Int :
              /\ x1 = Share(order[b], u, "bid", v) /\ x2 = Share(order[a], u, "ask", v)
              /\ y1 = Share(order[b], u, "bid", q) /\ y2 = Share(order[a], u, "ask", q)
      BY <1>2 DEF Share
    <3>2. /\ Share(order[b], u, "bid", 0 - v) = 0 - x1
          /\ Share(order[a], u, "ask", 0 - q) = 0 - y2
      BY <1>2, <3>1 DEF Share
    <3>3. PICK l1, l2, k1, k2 \in Int :
              /\ l1 = Ledger(order, u, "bid", paid) /\ l2 = Ledger(order, u, "ask", paid)
              /\ k1 = Ledger(order, u, "bid", exec) /\ k2 = Ledger(order, u, "ask", exec)
      <4>1. \A x \in DOMAIN order : paid[x] \in Int /\ exec[x] \in Int
        BY <1>2
      <4>2. /\ Ledger(order, u, "bid", paid) \in Int /\ Ledger(order, u, "ask", paid) \in Int
            /\ Ledger(order, u, "bid", exec) \in Int /\ Ledger(order, u, "ask", exec) \in Int
        BY <1>2, <4>1, LedgerInt
      <4>. QED  BY <4>2
    <3>4. PICK c, d \in Int : c = InitCash[u] /\ d = InitAsset[u]
      BY UsersAssumption
    <3>5. /\ Ledger(order, u, "bid", paid') = l1 + x1
          /\ Ledger(order, u, "ask", paid') = l2 + x2
          /\ Ledger(order, u, "bid", exec') = k1 + y1
          /\ Ledger(order, u, "ask", exec') = k2 + y2
      BY <1>7, <2>1, <2>2, <3>1, <3>3
    <3>6. /\ wallet[u].cash = c + l2 - l1 /\ wallet[u].asset = d + k1 - k2
      BY <2>5, <3>3, <3>4 DEF BalancesOf
    <3>7. /\ wallet'[u].cash = wallet[u].cash + ((0 - x1) + x2)
          /\ wallet'[u].asset = wallet[u].asset + (y1 + (0 - y2))
      BY <3>1, <3>2 DEF TradeMoves, Moves
    <3>8. /\ wallet'[u].cash = c + (l2 + x2) - (l1 + x1)
          /\ wallet'[u].asset = d + (k1 + y1) - (k2 + y2)
      BY <3>6, <3>7
    <3>. QED  BY <1>1, <3>4, <3>5, <3>8 DEF BalancesOf
  <2>. QED  BY <2>6, <2>7
<1>9. PaidInv'
  <2>1. ASSUME NEW x \in OrderIds, exec'[x] = 0 PROVE paid'[x] = 0
    <3>1. CASE x \in {a, b}
      <4>1. exec[x] \in Nat /\ q \in Nat /\ q > 0 /\ exec'[x] = exec[x] + q
        BY <1>2, <3>1 DEF Traded
      <4>. QED  BY <2>1, <4>1
    <3>2. CASE x \notin {a, b}
      BY <1>1, <2>1, <3>2 DEF Traded, PaidInv
    <3>. QED  BY <3>1, <3>2
  <2>. QED  BY <2>1 DEF PaidInv
<1>. QED  BY <1>8, <1>9, ReconcileByUserAfter DEF ReconcileInv

\* The steps of _process_trade on the balances, for one bid and one ask, in
\* either role.
LEMMA TradeStepsMove ==
    ASSUME NEW w \in Wallets, NEW u \in Users \ {System}, NEW x, NEW y,
           order[x] \in Requests, order[y] \in Requests,
           NEW q \in Nat, NEW p \in Nat, NEW v \in Nat, v = q * p, NEW w4,
           w4 = Settle(Settle(HoldAtFirstFill(HoldAtFirstFill(w, y), x),
                              order[x], q, p), order[y], q, p)
    PROVE  /\ order[x].side = "bid" /\ order[y].side = "ask" =>
                Moves(w, w4, u,
                  Share(order[x], u, "bid", 0 - v) + Share(order[y], u, "ask", v),
                  Share(order[x], u, "bid",
                        (IF exec[x] = 0 THEN order[x].qty * order[x].price ELSE 0) + (0 - v)),
                  Share(order[x], u, "bid", q) + Share(order[y], u, "ask", 0 - q),
                  Share(order[y], u, "ask",
                        (IF exec[y] = 0 THEN order[y].qty ELSE 0) + (0 - q)))
           /\ order[x].side = "ask" /\ order[y].side = "bid" =>
                Moves(w, w4, u,
                  Share(order[y], u, "bid", 0 - v) + Share(order[x], u, "ask", v),
                  Share(order[y], u, "bid",
                        (IF exec[y] = 0 THEN order[y].qty * order[y].price ELSE 0) + (0 - v)),
                  Share(order[y], u, "bid", q) + Share(order[x], u, "ask", 0 - q),
                  Share(order[x], u, "ask",
                        (IF exec[x] = 0 THEN order[x].qty ELSE 0) + (0 - q)))
<1>1. PICK w1 : w1 = HoldAtFirstFill(w, y)
  OBVIOUS
<1>2. PICK w2 : w2 = HoldAtFirstFill(w1, x)
  OBVIOUS
<1>3. PICK w3 : w3 = Settle(w2, order[x], q, p)
  OBVIOUS
<1>4. w4 = Settle(w3, order[y], q, p)
  BY <1>1, <1>2, <1>3
<1>5. PICK cx, cy, ax, ay :
          /\ cx = IF exec[x] = 0 THEN order[x].qty * order[x].price ELSE 0
          /\ cy = IF exec[y] = 0 THEN order[y].qty * order[y].price ELSE 0
          /\ ax = IF exec[x] = 0 THEN order[x].qty ELSE 0
          /\ ay = IF exec[y] = 0 THEN order[y].qty ELSE 0
  OBVIOUS
<1>6. cx \in Int /\ cy \in Int /\ ax \in Int /\ ay \in Int
  <2>1. /\ order[x].qty \in Int /\ order[x].price \in Int
        /\ order[y].qty \in Int /\ order[y].price \in Int
    BY RequestParts
  <2>2. order[x].qty * order[x].price \in Int /\ order[y].qty * order[y].price \in Int
    BY <2>1
  <2>. QED  BY <1>5, <2>1, <2>2
<1>7. /\ w1 \in Wallets
      /\ Moves(w, w1, u, 0, Share(order[y], u, "bid", cy), 0, Share(order[y], u, "ask", ay))
  BY <1>1, <1>5, FirstFillMoves
<1>8. /\ w2 \in Wallets
      /\ Moves(w1, w2, u, 0, Share(order[x], u, "bid", cx), 0, Share(order[x], u, "ask", ax))
  BY <1>2, <1>5, <1>7, FirstFillMoves
<1>9. q \in Int /\ p \in Int
  OBVIOUS
<1>10. /\ w3 \in Wallets
       /\ Moves(w2, w3, u,
                Share(order[x], u, "bid", 0 - v) + Share(order[x], u, "ask", v),
                Share(order[x], u, "bid", 0 - v),
                Share(order[x], u, "bid", q) + Share(order[x], u, "ask", 0 - q),
                Share(order[x], u, "ask", 0 - q))
  BY <1>3, <1>8, <1>9, EngineWallets, OrderMoves
<1>11. Moves(w3, w4, u,
                Share(order[y], u, "bid", 0 - v) + Share(order[y], u, "ask", v),
                Share(order[y], u, "bid", 0 - v),
                Share(order[y], u, "bid", q) + Share(order[y], u, "ask", 0 - q),
                Share(order[y], u, "ask", 0 - q))
  BY <1>4, <1>9, <1>10, OrderMoves
<1>12. PICK b : b = w[u]
  OBVIOUS
<1>13. b.cash \in Int /\ b.cashEscrow \in Int /\ b.asset \in Int /\ b.assetEscrow \in Int
  <2>1. b \in Balances
    BY <1>12 DEF Wallets
  <2>. QED  BY <2>1 DEF Balances
<1>14. ASSUME NEW i, NEW s, NEW n \in Int
       PROVE  Share(order[i], u, s, n) \in Int
  BY DEF Share
<1>15. v \in Int /\ 0 - v \in Int /\ q \in Int /\ 0 - q \in Int
  OBVIOUS
<1>16. CASE order[x].side = "bid" /\ order[y].side = "ask"
  <2>1. PICK k1, k2, k3, k4, k5, k6 \in Int :
            /\ k1 = Share(order[x], u, "bid", 0 - v) /\ k2 = Share(order[y], u, "ask", v)
            /\ k3 = Share(order[x], u, "bid", q) /\ k4 = Share(order[y], u, "ask", 0 - q)
            /\ k5 = Share(order[x], u, "bid", cx) /\ k6 = Share(order[y], u, "ask", ay)
    BY <1>6, <1>14, <1>15
  <2>2. \A n \in Int : Share(order[x], u, "ask", n) = 0 /\ Share(order[y], u, "bid", n) = 0
    BY <1>16 DEF Share
  <2>3. /\ Share(order[x], u, "bid", cx + (0 - v)) = k5 + k1
        /\ Share(order[y], u, "ask", ay + (0 - q)) = k6 + k4
    <3>1. /\ Share(order[x], u, "bid", cx + (0 - v)) =
                 Share(order[x], u, "bid", cx) + Share(order[x], u, "bid", 0 - v)
          /\ Share(order[y], u, "ask", ay + (0 - q)) =
                 Share(order[y], u, "ask", ay) + Share(order[y], u, "ask", 0 - q)
      BY <1>6, <1>15 DEF Share
    <3>. QED  BY <2>1, <3>1
  <2>4. /\ Moves(w, w1, u, 0, 0, 0, k6) /\ Moves(w1, w2, u, 0, k5, 0, 0)
        /\ Moves(w2, w3, u, k1 + 0, k1, k3 + 0, 0)
        /\ Moves(w3, w4, u, 0 + k2, 0, 0 + k4, k4)
    BY <1>6, <1>7, <1>8, <1>10, <1>11, <1>15, <2>1, <2>2
  <2>5. Moves(w, w4, u, k1 + k2, k5 + k1, k3 + k4, k6 + k4)
    BY <1>12, <1>13, <2>1, <2>4 DEF Moves
  <2>. QED  BY <1>5, <1>16, <2>1, <2>3, <2>5
<1>17. CASE order[x].side = "ask" /\ order[y].side = "bid"
  <2>1. PICK k1, k2, k3, k4, k5, k6 \in Int :
            /\ k1 = Share(order[y], u, "bid", 0 - v) /\ k2 = Share(order[x], u, "ask", v)
            /\ k3 = Share(order[y], u, "bid", q) /\ k4 = Share(order[x], u, "ask", 0 - q)
            /\ k5 = Share(order[y], u, "bid", cy) /\ k6 = Share(order[x], u, "ask", ax)
    BY <1>6, <1>14, <1>15
  <2>2. \A n \in Int : Share(order[y], u, "ask", n) = 0 /\ Share(order[x], u, "bid", n) = 0
    BY <1>17 DEF Share
  <2>3. /\ Share(order[y], u, "bid", cy + (0 - v)) = k5 + k1
        /\ Share(order[x], u, "ask", ax + (0 - q)) = k6 + k4
    <3>1. /\ Share(order[y], u, "bid", cy + (0 - v)) =
                 Share(order[y], u, "bid", cy) + Share(order[y], u, "bid", 0 - v)
          /\ Share(order[x], u, "ask", ax + (0 - q)) =
                 Share(order[x], u, "ask", ax) + Share(order[x], u, "ask", 0 - q)
      BY <1>6, <1>15 DEF Share
    <3>. QED  BY <2>1, <3>1
  <2>4. /\ Moves(w, w1, u, 0, k5, 0, 0) /\ Moves(w1, w2, u, 0, 0, 0, k6)
        /\ Moves(w2, w3, u, 0 + k2, 0, 0 + k4, k4)
        /\ Moves(w3, w4, u, k1 + 0, k1, k3 + 0, 0)
    BY <1>6, <1>7, <1>8, <1>10, <1>11, <1>15, <2>1, <2>2
  <2>5. Moves(w, w4, u, k1 + k2, k5 + k1, k3 + k4, k6 + k4)
    BY <1>12, <1>13, <2>1, <2>4 DEF Moves
  <2>. QED  BY <1>5, <1>17, <2>1, <2>3, <2>5
<1>. QED  BY <1>16, <1>17

\* A trade, with the taker on either side.
LEMMA TradeReconciles ==
    ASSUME ReconcileInv, IInv', Trade
    PROVE  ReconcileInv'
<1>1. IInv /\ TypeOK /\ Matching /\ pc = "matching" /\ ~Dead
  BY DEF ReconcileInv, IInv, Trade, Matching, Dead
<1>2. PICK t, m, q, p : t = taker /\ m = Maker /\ q = TradeQuantity
                        /\ p = book.best[MakerSide]
  OBVIOUS
<1>3. /\ t \in Known /\ t \in OrderIds /\ cancels[t] = 0 /\ order[t] \in Requests
      /\ order[t].side \in Sides /\ MakerSide \in Sides /\ MakerSide # order[t].side
  BY <1>1, <1>2, TakerFacts
<1>4. /\ p \in Prices /\ m \in Known /\ m \in OrderIds /\ m # t /\ order[m].side = MakerSide
      /\ order[m] \in Requests /\ cancels[m] = 0 /\ q \in Nat /\ q > 0
  BY <1>1, <1>2, MakerFacts
<1>5. PICK v : v = q * p
  OBVIOUS
<1>6. p \in Nat /\ v \in Nat
  <2>1. p \in Nat
    BY <1>4, MaxPriceAssumption DEF Prices
  <2>. QED  BY <1>4, <1>5, <2>1
<1>7. /\ order' = order /\ cancels' = cancels
      /\ exec' = [exec EXCEPT ![t] = @ + q, ![m] = @ + q]
      /\ paid' = [paid EXCEPT ![t] = @ + v, ![m] = @ + v]
      /\ wallet' = Settle(Settle(HoldAtFirstFill(HoldAtFirstFill(wallet, m), t),
                                 order[t], q, p), order[m], q, p)
  BY <1>2, <1>5 DEF Trade
<1>8. /\ exec'[t] = exec[t] + q /\ exec'[m] = exec[m] + q
      /\ paid'[t] = paid[t] + v /\ paid'[m] = paid[m] + v
      /\ \A x \in OrderIds \ {t, m} : exec'[x] = exec[x] /\ paid'[x] = paid[x]
  <2>1. exec \in [OrderIds -> Nat] /\ paid \in [OrderIds -> Nat]
    BY <1>1 DEF TypeOK
  <2>2. t \in OrderIds /\ m \in OrderIds /\ m # t
    BY <1>3, <1>4
  <2>3. /\ exec'[t] = exec[t] + q /\ exec'[m] = exec[m] + q
        /\ \A x \in OrderIds \ {t, m} : exec'[x] = exec[x]
    BY <1>7, <2>1, <2>2
  <2>4. /\ paid'[t] = paid[t] + v /\ paid'[m] = paid[m] + v
        /\ \A x \in OrderIds \ {t, m} : paid'[x] = paid[x]
    BY <1>7, <2>1, <2>2
  <2>. QED  BY <2>3, <2>4
<1>9. t \in DOMAIN order /\ m \in DOMAIN order /\ wallet \in Wallets
  BY <1>1, <1>3, <1>4 DEF Known, TypeOK
<1>10. CASE order[t].side = "bid"
  <2>1. order[m].side = "ask"
    BY <1>3, <1>4, <1>10 DEF Sides
  <2>2. Traded(t, m, q, v)
    BY <1>3, <1>4, <1>6, <1>7, <1>8, <1>9, <1>10, <2>1 DEF Traded
  <2>3. TradeMoves(t, m, q, v)
    BY <1>3, <1>4, <1>5, <1>6, <1>7, <1>9, <1>10, <2>1, TradeStepsMove DEF TradeMoves
  <2>. QED  BY <1>1, <2>2, <2>3, TradedReconciles
<1>11. CASE order[t].side = "ask"
  <2>1. order[m].side = "bid"
    BY <1>3, <1>4, <1>11 DEF Sides
  <2>2. Traded(m, t, q, v)
    BY <1>3, <1>4, <1>6, <1>7, <1>8, <1>9, <1>11, <2>1 DEF Traded
  <2>3. TradeMoves(m, t, q, v)
    BY <1>3, <1>4, <1>5, <1>6, <1>7, <1>9, <1>11, <2>1, TradeStepsMove DEF TradeMoves
  <2>. QED  BY <1>1, <2>2, <2>3, TradedReconciles
<1>. QED  BY <1>3, <1>10, <1>11 DEF Sides

\* Nothing that the two properties speak of changes.
LEMMA SameReconciles ==
    ASSUME ReconcileInv, IInv', UNCHANGED <<order, exec, paid, cancels, wallet>>,
           Dead => Dead'
    PROVE  ReconcileInv'
<1>1. PaidInv' /\ BalancesReconcile'
  BY DEF ReconcileInv, PaidInv, BalancesReconcile, OrdersOf, Known
<1>2. CashHeld' = CashHeld /\ AssetHeld' = AssetHeld
  BY DEF CashHeld, AssetHeld, Known, Remaining
<1>3. EscrowReconciles'
  BY <1>2 DEF ReconcileInv, EscrowReconciles, OrdersOf, Known
<1>. QED  BY <1>1, <1>3 DEF ReconcileInv

\* Before the first order the balances are the initial ones.
LEMMA InitReconciles == Init => ReconcileInv
<1> SUFFICES ASSUME Init PROVE ReconcileInv
  OBVIOUS
<1>1. IInv
  BY InitIInv
<1>2. PaidInv
  BY DEF Init, PaidInv
<1>3. order = << >> /\ DOMAIN order = {}
  BY DEF Init
<1>4. \A u, side : OrdersOf(u, side) = {}
  BY <1>3 DEF OrdersOf, Known
<1>5. ASSUME NEW f PROVE SumOver({}, f) = 0
  <2>1. Summand({}, f)
    BY FS_EmptySet DEF Summand
  <2>. QED  BY <2>1, SumUnfolds
<1>6. ASSUME NEW u \in Users
      PROVE  /\ wallet[u].cash = InitCash[u] /\ wallet[u].cashEscrow = 0
             /\ wallet[u].asset = InitAsset[u] /\ wallet[u].assetEscrow = 0
             /\ InitCash[u] \in Int /\ InitAsset[u] \in Int
  BY UsersAssumption DEF Init, InitWallet
<1>7. \A u, side, f : SumOver(OrdersOf(u, side), f) = 0
  BY <1>4, <1>5
<1>8. BalancesReconcile
  BY <1>6, <1>7 DEF BalancesReconcile
<1>9. EscrowReconciles
  BY <1>6, <1>7 DEF EscrowReconciles
<1>. QED  BY <1>1, <1>2, <1>8, <1>9 DEF ReconcileInv

\* Every step of the engine keeps the balances explained.
LEMMA NextReconciles == ReconcileInv /\ [Next]_vars => ReconcileInv'
<1> SUFFICES ASSUME ReconcileInv, [Next]_vars PROVE ReconcileInv'
  OBVIOUS
<1>0. IInv /\ IInv'
  BY NextIInv DEF ReconcileInv
<1>1. ASSUME NEW r \in Requests, PlaceOrder(r) PROVE ReconcileInv'
  BY <1>0, <1>1, PlaceOrderReconciles DEF PlaceOrder
<1>2. ASSUME NEW r \in Requests, RejectOrder(r) PROVE ReconcileInv'
  BY <1>0, <1>2, RejectReconciles
<1>3. ASSUME NEW r \in Requests, RejectOrderRaises(r) PROVE ReconcileInv'
  BY <1>0, <1>3, RejectRaisesReconciles
<1>4. ASSUME NEW r \in Requests, BeginMatch(r) PROVE ReconcileInv'
  BY <1>0, <1>4, PlaceOrderReconciles DEF BeginMatch
<1>5. ASSUME NEW o \in OrderIds, CancelOrder(o) PROVE ReconcileInv'
  BY <1>0, <1>5, CancelReconciles DEF CancelOrder, Dead
<1>6. ASSUME NEW o \in OrderIds, ModifyRaises(o) PROVE ReconcileInv'
  BY <1>0, <1>6, SameReconciles DEF ModifyRaises, Dead
<1>7. ASSUME NEW o \in OrderIds, NEW p \in Prices \cup {NoPrice},
             ModifyRequeues(o, p) PROVE ReconcileInv'
  BY <1>0, <1>7, SameReconciles DEF ModifyRequeues, Dead
<1>8. CASE Trade
  BY <1>0, <1>8, TradeReconciles
<1>9. CASE CancelMaker
  <2>1. Maker \in store /\ ~Dead
    BY <1>0, <1>9, MakerFacts DEF CancelMaker, Matching, Dead
  <2>. QED  BY <1>0, <1>9, <2>1, CancelReconciles DEF CancelMaker
<1>10. CASE TakerFilled
  BY <1>0, <1>10, SameReconciles DEF TakerFilled, Dead
<1>11. CASE PlaceRemainder
  BY <1>0, <1>11, SameReconciles DEF PlaceRemainder, Dead
<1>12. CASE UNCHANGED vars
  BY <1>0, <1>12, SameReconciles DEF vars, Dead
<1>. QED  BY <1>1, <1>2, <1>3, <1>4, <1>5, <1>6, <1>7, <1>8, <1>9, <1>10, <1>11,
             <1>12 DEF Next, Command, MatchStep

\* ReconcileInv is an invariant of the engine: balances and escrow are
\* explained by the fills and cancellations that _process_trade, handle_cancel
\* and handle_new have booked.
THEOREM SpecReconciles == Spec => []ReconcileInv
  BY InitReconciles, NextReconciles, PTL DEF Spec

\* Balances are always explained by the orders, for every number of users
\* and orders: no settlement is missed, repeated or booked to the wrong side
\* by _process_trade, also when a user trades with itself.
THEOREM BalancesAlwaysReconcile == Spec => []BalancesReconcile
<1>1. ReconcileInv => BalancesReconcile
  BY DEF ReconcileInv
<1>. QED  BY <1>1, SpecReconciles, PTL

\* What an order may still need, by its parts.
NeedOf(r, e, open) == IF open THEN r.qty - e ELSE 0

\* An order that is open, filled or cancelled.
Settled(r, e, c, open) ==
    /\ e <= r.qty
    /\ open => c = 0
    /\ ~open => (r.qty - e = 0 <=> c = 0)

\* An order holds no more than it may need, in cash if its fills cost no less
\* than its own price.
LEMMA HeldIsNeeded ==
    ASSUME NEW r \in Requests, NEW e \in Nat, NEW p \in Nat, NEW c \in Nat,
           NEW open \in BOOLEAN, Settled(r, e, c, open)
    PROVE  /\ NeedOf(r, e, open) \in Nat
           /\ NeedOf(r, e, open) * r.price \in Nat
           /\ AssetOf(r, e, c) <= NeedOf(r, e, open)
           /\ p >= e * r.price => CashOf(r, e, p, c) <= NeedOf(r, e, open) * r.price
<1>1. r.qty \in Nat /\ r.qty > 0 /\ r.price \in Nat
  BY RequestParts
<1>2. PICK n \in Nat : n = r.qty - e
  BY <1>1 DEF Settled
<1>3. PICK v \in Nat : v = n * r.price
  BY <1>1, <1>2
<1>4. PICK w \in Nat : w = e * r.price
  BY <1>1
<1>5. r.qty * r.price = v + w
  <2>1. r.qty = n + e
    BY <1>1, <1>2
  <2>2. (n + e) * r.price = n * r.price + e * r.price
    BY <1>1, <1>2
  <2>. QED  BY <1>3, <1>4, <2>1, <2>2
<1>6. PICK m \in Nat : m = c * n
  BY <1>2
<1>7. PICK k \in Nat : k = m * r.price
  BY <1>1, <1>6
<1>8. /\ CashOf(r, e, p, c) = (IF e > 0 THEN (v + w) - p ELSE 0) - k
      /\ AssetOf(r, e, c) = (IF e > 0 THEN n ELSE 0) - m
  BY <1>2, <1>5, <1>6, <1>7, Zenon DEF CashOf, AssetOf
<1>9. CASE open
  <2>1. c = 0 /\ NeedOf(r, e, open) = n
    BY <1>2, <1>9 DEF Settled, NeedOf
  <2>2. m = 0 /\ k = 0
    BY <1>1, <1>2, <1>6, <1>7, <2>1
  <2>. QED  BY <1>3, <1>4, <1>8, <2>1, <2>2
<1>10. CASE ~open
  <2>1. NeedOf(r, e, open) = 0 /\ (n = 0 <=> c = 0)
    BY <1>2, <1>10 DEF Settled, NeedOf
  <2>2. 0 * r.price = 0
    BY <1>1
  <2>3. CASE n = 0
    <3>1. e > 0 /\ m = 0 /\ k = 0 /\ v = 0
      BY <1>1, <1>2, <1>3, <1>6, <1>7, <2>3
    <3>. QED  BY <1>4, <1>8, <2>1, <2>2, <2>3, <3>1
  <2>4. CASE n # 0
    <3>1. c > 0 /\ m >= n
      <4>1. PICK d \in Nat : c = d + 1
        BY <2>1, <2>4
      <4>2. (d + 1) * n = d * n + n /\ d * n \in Nat
        BY <1>2, <4>1
      <4>. QED  BY <1>2, <1>6, <4>1, <4>2
    <3>2. k >= v
      <4>1. PICK x \in Nat : m = n + x
        <5>1. m - n \in Nat /\ m = n + (m - n)
          BY <1>2, <1>6, <3>1
        <5>. QED  BY <5>1
      <4>2. (n + x) * r.price = n * r.price + x * r.price /\ x * r.price \in Nat
        BY <1>1, <1>2, <4>1
      <4>. QED  BY <1>3, <1>7, <4>1, <4>2
    <3>. QED  BY <1>4, <1>8, <2>1, <2>2, <3>1, <3>2
  <2>. QED  BY <2>3, <2>4
<1>. QED  BY <1>9, <1>10

\* The property for one user, by ledgers.
FairlyFilled(orders, u) ==
    \A o \in OrdersFor(orders, u, "bid") : paid[o] >= exec[o] * orders[o].price

StrandedNone(u) ==
    /\ wallet[u].assetEscrow <= Ledger(order, u, "ask", OpenQty)
    /\ FairlyFilled(order, u)
         => wallet[u].cashEscrow <= Ledger(order, u, "bid", OpenValue)

\* The property speaks of one user at a time.
LEMMA StrandedByUser ==
    NoEscrowStranded <=> \A u \in Users \ {System} : StrandedNone(u)
<1>1. \A u, side : OrdersOf(u, side) = OrdersFor(order, u, side)
  BY Zenon DEF OrdersOf, OrdersFor, Known
<1>2. \A u, side, f : SumOver(OrdersOf(u, side), f) = Ledger(order, u, side, f)
  BY <1>1, Zenon DEF Ledger
<1>3. \A u : StrandedNone(u) <=>
          /\ wallet[u].assetEscrow <= SumOver(OrdersOf(u, "ask"), OpenQty)
          /\ (\A o \in OrdersOf(u, "bid") : paid[o] >= exec[o] * order[o].price)
               => wallet[u].cashEscrow <= SumOver(OrdersOf(u, "bid"), OpenValue)
  BY <1>1, <1>2, Zenon DEF StrandedNone, FairlyFilled
<1>. QED  BY <1>3, Zenon DEF NoEscrowStranded

\* The terms of the open orders.
OpenTerms ==
    \A o \in DOMAIN order :
        /\ OpenQty[o] = NeedOf(order[o], exec[o], o \in store \/ o = taker)
        /\ OpenValue[o] = OpenQty[o] * order[o].price
        /\ OpenQty[o] \in Nat /\ OpenValue[o] \in Nat
        /\ AssetHeld[o] <= OpenQty[o]
        /\ paid[o] >= exec[o] * order[o].price => CashHeld[o] <= OpenValue[o]

\* No order of an engine that has not failed holds more than it may need.
LEMMA OrdersNeed == IInv => OpenTerms
<1> SUFFICES ASSUME IInv, NEW o \in DOMAIN order
             PROVE  /\ OpenQty[o] = NeedOf(order[o], exec[o], o \in store \/ o = taker)
                    /\ OpenValue[o] = OpenQty[o] * order[o].price
                    /\ OpenQty[o] \in Nat /\ OpenValue[o] \in Nat
                    /\ AssetHeld[o] <= OpenQty[o]
                    /\ paid[o] >= exec[o] * order[o].price => CashHeld[o] <= OpenValue[o]
  BY DEF OpenTerms
<1>1. /\ order[o] \in Requests /\ paid[o] \in Nat /\ exec[o] \in Nat
      /\ cancels[o] \in Nat /\ o \in Known
      /\ CashHeld[o] = CashOf(order[o], exec[o], paid[o], cancels[o])
      /\ AssetHeld[o] = AssetOf(order[o], exec[o], cancels[o])
  BY TermsInt DEF TermsOK, Known
<1>2. PICK open \in BOOLEAN : open = (o \in store \/ o = taker)
  OBVIOUS
<1>3. OneFate
  BY DEF IInv
<1>4. Settled(order[o], exec[o], cancels[o], open)
  BY <1>1, <1>2, <1>3 DEF OneFate, Settled, Remaining
<1>5. OpenQty[o] = NeedOf(order[o], exec[o], open)
  BY <1>1, <1>2 DEF OpenQty, NeedOf, Remaining
<1>6. OpenValue[o] = OpenQty[o] * order[o].price
  BY <1>1 DEF OpenValue
<1>7. /\ NeedOf(order[o], exec[o], open) \in Nat
      /\ NeedOf(order[o], exec[o], open) * order[o].price \in Nat
      /\ AssetOf(order[o], exec[o], cancels[o]) <= NeedOf(order[o], exec[o], open)
      /\ paid[o] >= exec[o] * order[o].price =>
            CashOf(order[o], exec[o], paid[o], cancels[o])
                <= NeedOf(order[o], exec[o], open) * order[o].price
  BY <1>1, <1>4, HeldIsNeeded
<1>. QED  BY <1>1, <1>2, <1>5, <1>6, <1>7

\* Less for each order is less in all.
LEMMA LedgerMonotone ==
    ASSUME NEW orders \in Seq(Requests), NEW u, NEW side, NEW f, NEW g,
           \A o \in DOMAIN orders : f[o] \in Int /\ g[o] \in Int,
           \A o \in OrdersFor(orders, u, side) : f[o] <= g[o]
    PROVE  Ledger(orders, u, side, f) <= Ledger(orders, u, side, g)
<1>1. PICK S : S = OrdersFor(orders, u, side)
  OBVIOUS
<1>2. Summand(S, f) /\ Summand(S, g)
  BY <1>1, OrdersSummand
<1>3. S \in SUBSET S /\ S \ S = {}
  OBVIOUS
<1>. QED  BY <1>1, <1>2, <1>3, SumMonotone DEF Ledger

\* While the engine lives, the explained escrow is not stranded.
LEMMA ExplainedNotStranded == ReconcileInv /\ ~Dead => NoEscrowStranded
<1> SUFFICES ASSUME ReconcileInv, ~Dead, NEW u \in Users \ {System}
             PROVE  StrandedNone(u)
  BY StrandedByUser
<1>1. IInv /\ EscrowOf(u)
  BY ReconcileByUser DEF ReconcileInv
<1>2. TermsOK /\ OpenTerms
  BY <1>1, TermsInt, OrdersNeed
<1>3. /\ order \in Seq(Requests)
      /\ \A o \in DOMAIN order : /\ AssetHeld[o] \in Int /\ OpenQty[o] \in Int
                                  /\ CashHeld[o] \in Int /\ OpenValue[o] \in Int
                                  /\ AssetHeld[o] <= OpenQty[o]
  BY <1>2 DEF TermsOK, OpenTerms
<1>4. \A o \in OrdersFor(order, u, "ask") : AssetHeld[o] <= OpenQty[o]
  BY <1>3 DEF OrdersFor
<1>5. Ledger(order, u, "ask", AssetHeld) <= Ledger(order, u, "ask", OpenQty)
  BY <1>3, <1>4, LedgerMonotone
<1>6. ASSUME FairlyFilled(order, u)
      PROVE  Ledger(order, u, "bid", CashHeld) <= Ledger(order, u, "bid", OpenValue)
  <2>1. \A o \in OrdersFor(order, u, "bid") : CashHeld[o] <= OpenValue[o]
    BY <1>2, <1>6 DEF OpenTerms, FairlyFilled, OrdersFor
  <2>. QED  BY <1>3, <2>1, LedgerMonotone
<1>. QED  BY <1>1, <1>5, <1>6 DEF EscrowOf, StrandedNone

\* A rejection that raises releases nothing, and its order is not open.
LEMMA RejectRaisesNotStranded ==
    ASSUME IInv, IInv', NoEscrowStranded, NEW r \in Requests, RejectOrderRaises(r)
    PROVE  NoEscrowStranded'
<1>1. PICK o : o = Len(order) + 1
  OBVIOUS
<1>2. /\ TypeOK /\ MatchState /\ Receive(r) /\ order \in Seq(Requests)
      /\ UNCHANGED <<exec, paid, store, wallet, taker>>
      /\ order' = Append(order, r)
  BY DEF IInv, TypeOK, RejectOrderRaises, Receive
<1>3. /\ o \notin Known /\ order'[o] = r /\ Known' = Known \cup {o}
      /\ \A x \in Known : order'[x] = order[x]
  BY <1>1, <1>2, ReceiveAdds
<1>4. o \notin store /\ o # taker
  <2>1. BookConsistent /\ pc = "idle"
    BY <1>2 DEF IInv, Receive
  <2>2. \A x \in store : x \in Known
    BY <2>1 DEF BookConsistent, BookMatchesStore
  <2>3. taker = NoOrder /\ Len(order) \in Nat
    BY <1>2, <2>1 DEF MatchState
  <2>. QED  BY <1>1, <1>3, <2>2, <2>3 DEF NoOrder
<1>5. OpenTerms /\ OpenTerms' /\ TermsOK /\ TermsOK'
  <2>1. IInv' => OpenTerms'
    BY OrdersNeed, PTL
  <2>. QED  BY <2>1, OrdersNeed, TermsInt, TermsIntAfter
<1>6. /\ \A x \in DOMAIN order : /\ OpenQty[x] \in Int /\ OpenQty'[x] = OpenQty[x]
                                  /\ OpenValue[x] \in Int /\ OpenValue'[x] = OpenValue[x]
      /\ OpenQty'[o] = 0 /\ OpenValue'[o] = 0
  <2>1. /\ \A x \in DOMAIN order : OpenQty'[x] = OpenQty[x] /\ OpenQty[x] \in Int
        /\ OpenQty'[o] = 0
    <3>1. \A x \in DOMAIN order' :
             OpenQty'[x] = NeedOf(order'[x], exec[x], x \in store \/ x = taker)
      BY <1>2, <1>5 DEF OpenTerms
    <3>2. \A x \in DOMAIN order :
             /\ OpenQty[x] = NeedOf(order[x], exec[x], x \in store \/ x = taker)
             /\ OpenQty[x] \in Int
      BY <1>5 DEF OpenTerms
    <3>3. NeedOf(order'[o], exec[o], o \in store \/ o = taker) = 0
      BY <1>4 DEF NeedOf
    <3>. QED  BY <1>3, <3>1, <3>2, <3>3 DEF Known
  <2>2. \A x \in DOMAIN order' : OpenValue'[x] = OpenQty'[x] * order'[x].price
    BY <1>5 DEF OpenTerms
  <2>3. \A x \in DOMAIN order : OpenValue[x] = OpenQty[x] * order[x].price
                                /\ OpenValue[x] \in Int
    BY <1>5 DEF OpenTerms
  <2>4. OpenValue'[o] = 0
    <3>1. r.price \in Nat
      BY RequestParts
    <3>2. 0 * r.price = 0
      BY <3>1
    <3>. QED  BY <1>3, <2>1, <2>2, <3>2 DEF Known
  <2>. QED  BY <1>3, <2>1, <2>2, <2>3, <2>4 DEF Known
<1>7. ASSUME NEW u \in Users \ {System} PROVE StrandedNone(u)'
  <2>1. StrandedNone(u)
    BY StrandedByUser
  <2>2. Longer(order, order', r, o) /\ Continues(order, o, OpenQty, OpenQty')
        /\ Continues(order, o, OpenValue, OpenValue')
    BY <1>1, <1>2, <1>6 DEF Longer, Continues
  <2>3. \A side : Share(r, u, side, 0) = 0
    BY DEF Share
  <2>4. /\ Ledger(order', u, "ask", OpenQty') =
              Ledger(order, u, "ask", OpenQty) + Share(r, u, "ask", OpenQty'[o])
        /\ Ledger(order, u, "ask", OpenQty) \in Int
    BY <1>2, <1>6, <2>2, LedgerGrows, LedgerInt
  <2>5. /\ Ledger(order', u, "bid", OpenValue') =
              Ledger(order, u, "bid", OpenValue) + Share(r, u, "bid", OpenValue'[o])
        /\ Ledger(order, u, "bid", OpenValue) \in Int
    BY <1>2, <1>6, <2>2, LedgerGrows, LedgerInt
  <2>6. /\ Ledger(order', u, "ask", OpenQty') = Ledger(order, u, "ask", OpenQty)
        /\ Ledger(order', u, "bid", OpenValue') = Ledger(order, u, "bid", OpenValue)
    BY <1>6, <2>3, <2>4, <2>5
  <2>7. FairlyFilled(order', u) => FairlyFilled(order, u)
    BY <1>3 DEF FairlyFilled, OrdersFor, Known
  <2>8. FairlyFilled(order, u)' <=> FairlyFilled(order', u)
    BY <1>2 DEF FairlyFilled
  <2>. QED  BY <1>2, <2>1, <2>6, <2>7, <2>8 DEF StrandedNone
<1>8. NoEscrowStranded' <=> \A u \in Users \ {System} : StrandedNone(u)'
  <2>1. (NoEscrowStranded <=> \A u \in Users \ {System} : StrandedNone(u))'
    BY StrandedByUser, PTL
  <2>. QED  BY <2>1
<1>. QED  BY <1>7, <1>8

StrandInv == ReconcileInv /\ NoEscrowStranded

\* Every step keeps escrow from being stranded; after the one that ends the
\* engine nothing changes.
LEMMA NextNotStranded == StrandInv /\ [Next]_vars => StrandInv'
<1> SUFFICES ASSUME StrandInv, [Next]_vars PROVE StrandInv'
  OBVIOUS
<1>1. ReconcileInv /\ ReconcileInv' /\ IInv /\ IInv' /\ NoEscrowStranded
  BY NextReconciles DEF StrandInv, ReconcileInv
<1>2. CASE ~Dead'
  <2>1. ReconcileInv' /\ ~Dead' => NoEscrowStranded'
    BY ExplainedNotStranded, PTL
  <2>. QED  BY <1>1, <1>2, <2>1 DEF StrandInv
<1>3. ASSUME NEW r \in Requests, RejectOrderRaises(r) PROVE StrandInv'
  BY <1>1, <1>3, RejectRaisesNotStranded DEF StrandInv
<1>4. CASE UNCHANGED <<order, exec, paid, store, wallet, taker>>
  <2>1. OpenQty' = OpenQty /\ Known' = Known
    BY <1>4 DEF OpenQty, Known, Remaining
  <2>2. OpenValue' = OpenValue
    BY <1>4, <2>1 DEF OpenValue
  <2>3. NoEscrowStranded'
    BY <1>1, <1>4, <2>1, <2>2 DEF NoEscrowStranded, OrdersOf
  <2>. QED  BY <1>1, <2>3 DEF StrandInv
<1>5. CASE Dead' /\ ~(\E r \in Requests : RejectOrderRaises(r))
  <2>1. UNCHANGED <<order, exec, paid, store, wallet, taker>>
    BY <1>5 DEF Next, Command, MatchStep, vars, Dead, PlaceOrder, RejectOrder,
       BeginMatch, CancelOrder, ModifyRaises, ModifyRequeues, Trade, CancelMaker,
       TakerFilled, PlaceRemainder, Receive, Matching
  <2>. QED  BY <1>4, <2>1
<1>. QED  BY <1>2, <1>3, <1>5

\* Escrow is never stranded, for every number of users, orders and fills: it
\* never exceeds what the user's open orders may still need, except for the
\* cash a bid filled below its own price leaves behind in _process_trade.
THEOREM EscrowNeverStranded == Spec => []NoEscrowStranded
<1>1. Init => StrandInv
  <2>1. Init => ReconcileInv /\ ~Dead
    BY InitReconciles DEF Init, Dead
  <2>. QED  BY <2>1, ExplainedNotStranded DEF StrandInv
<1>2. StrandInv => NoEscrowStranded
  BY DEF StrandInv
<1>. QED  BY <1>1, <1>2, NextNotStranded, PTL DEF Spec

-----------------------------------------------------------------------------
(***************************************************************************)
(* Sequences and what they hold.                                           *)
(***************************************************************************)

\* The elements of a sequence.
In(s) == {s[i] : i \in DOMAIN s}

\* What a concatenation holds.
LEMMA InConcat ==
    ASSUME NEW S, NEW s \in Seq(S), NEW t \in Seq(S)
    PROVE  /\ s \o t \in Seq(S)
           /\ In(s \o t) = In(s) \cup In(t)
<1>1. s \o t \in Seq(S) /\ Len(s \o t) = Len(s) + Len(t) /\ Len(s) \in Nat /\ Len(t) \in Nat
  OBVIOUS
<1>2. /\ DOMAIN (s \o t) = 1 .. (Len(s) + Len(t))
      /\ DOMAIN s = 1 .. Len(s) /\ DOMAIN t = 1 .. Len(t)
  BY <1>1
<1>3. \A i \in DOMAIN s : i \in DOMAIN (s \o t) /\ (s \o t)[i] = s[i]
  BY <1>1, <1>2
<1>4. \A i \in DOMAIN t : Len(s) + i \in DOMAIN (s \o t) /\ (s \o t)[Len(s) + i] = t[i]
  BY <1>1, <1>2
<1>5. \A k \in DOMAIN (s \o t) : (s \o t)[k] \in In(s) \cup In(t)
  <2> SUFFICES ASSUME NEW k \in DOMAIN (s \o t)
               PROVE  (s \o t)[k] \in In(s) \cup In(t)
    OBVIOUS
  <2>1. CASE k <= Len(s)
    BY <1>1, <1>2, <1>3, <2>1 DEF In
  <2>2. CASE k > Len(s)
    <3>1. k - Len(s) \in DOMAIN t /\ Len(s) + (k - Len(s)) = k
      BY <1>1, <1>2, <2>2
    <3>. QED  BY <1>4, <3>1 DEF In
  <2>. QED  BY <1>1, <1>2, <2>1, <2>2
<1>6. In(s \o t) \subseteq In(s) \cup In(t)
  BY <1>5 DEF In
<1>7. In(s) \subseteq In(s \o t)
  BY <1>3 DEF In
<1>8. In(t) \subseteq In(s \o t)
  BY <1>4 DEF In
<1>. QED  BY <1>1, <1>6, <1>7, <1>8

\* What is left when the first event is taken.
LEMMA InTail ==
    ASSUME NEW S, NEW s \in Seq(S), s # << >>
    PROVE  /\ Head(s) \in S /\ Tail(s) \in Seq(S)
           /\ In(s) = {Head(s)} \cup In(Tail(s))
           /\ 1 \in DOMAIN s /\ s[1] = Head(s)
           /\ \A i \in DOMAIN Tail(s) : i + 1 \in DOMAIN s /\ Tail(s)[i] = s[i + 1] /\ 1 < i + 1
<1>1. /\ Len(s) \in Nat /\ Len(s) > 0 /\ DOMAIN s = 1 .. Len(s)
      /\ Head(s) = s[1] /\ Tail(s) \in Seq(S) /\ Len(Tail(s)) = Len(s) - 1
  OBVIOUS
<1>2. DOMAIN Tail(s) = 1 .. (Len(s) - 1)
  BY <1>1
<1>3. \A i \in 1 .. (Len(s) - 1) : Tail(s)[i] = s[i + 1]
  BY <1>1
<1>4. \A k \in DOMAIN s : k = 1 \/ (k - 1 \in DOMAIN Tail(s) /\ Tail(s)[k - 1] = s[k])
  BY <1>1, <1>2, <1>3
<1>5. \A i \in DOMAIN Tail(s) : i + 1 \in DOMAIN s /\ Tail(s)[i] = s[i + 1] /\ 1 < i + 1
  BY <1>1, <1>2, <1>3
<1>6. In(s) \subseteq {Head(s)} \cup In(Tail(s))
  BY <1>1, <1>4 DEF In
<1>7. {Head(s)} \cup In(Tail(s)) \subseteq In(s)
  BY <1>1, <1>5 DEF In
<1>. QED  BY <1>1, <1>5, <1>6, <1>7

-----------------------------------------------------------------------------
(***************************************************************************)
(* Climbs: what a reader that is behind has still to add.  A quantity that *)
(* stands at a and grows by at least w[i] at each of n steps ends at no    *)
(* more than b.  The climb through a queue of elements, each with its      *)
(* weight, bounds what its reader will make of it, without a sum over the  *)
(* queue: what is taken at the head and added at the end moves the two     *)
(* bounds.                                                                 *)
(***************************************************************************)

IsClimb(c, n, w, a, b) ==
    /\ c[0] = a /\ c[n] <= b
    /\ \A i \in 1 .. n : c[i - 1] + w[i] <= c[i]

Climb(n, w, a, b) ==
    /\ n \in Nat /\ a \in Nat /\ b \in Nat
    /\ \A i \in 1 .. n : w[i] \in Nat
    /\ \E c \in [0 .. n -> Nat] : IsClimb(c, n, w, a, b)

\* Nothing, or something at the first step only.
LEMMA ClimbAtFirst ==
    ASSUME NEW n \in Nat, NEW w, NEW a \in Nat, NEW b \in Nat, NEW q \in Nat,
           n > 0 => w[1] \in 0 .. q, \A i \in 2 .. n : w[i] = 0,
           a + q <= b
    PROVE  Climb(n, w, a, b)
<1> DEFINE c == [i \in 0 .. n |-> IF i = 0 THEN a ELSE a + q]
<1>1. c \in [0 .. n -> Nat] /\ c[0] = a /\ c[n] <= b
  OBVIOUS
<1>2. \A i \in 1 .. n : w[i] \in Nat /\ c[i - 1] + w[i] <= c[i]
  OBVIOUS
<1> HIDE DEF c
<1>. QED  BY <1>1, <1>2 DEF Climb, IsClimb

\* Less than a step is within the step.
LEMMA WithinStep ==
    ASSUME NEW p \in Nat, NEW q \in Nat, NEW u \in Nat, NEW v \in Nat, NEW w \in Nat,
           p <= q, v <= w, q + w <= u
    PROVE  p + v <= u
  OBVIOUS

\* A climb may begin lower and be bounded by more, and weights may be less.
LEMMA ClimbWiden ==
    ASSUME NEW n, NEW w, NEW v, NEW a, NEW b, Climb(n, w, a, b),
           NEW a2 \in Nat, a2 <= a, NEW b2 \in Nat, b <= b2,
           \A i \in 1 .. n : v[i] \in Nat /\ v[i] <= w[i]
    PROVE  Climb(n, v, a2, b2)
<1>1. PICK c \in [0 .. n -> Nat] : IsClimb(c, n, w, a, b)
  BY DEF Climb
<1>2. /\ n \in Nat /\ a \in Nat /\ b \in Nat /\ \A i \in 1 .. n : w[i] \in Nat
      /\ c[0] = a /\ c[n] <= b /\ \A i \in 0 .. n : c[i] \in Nat
      /\ \A i \in 1 .. n : c[i - 1] + w[i] <= c[i]
  BY <1>1 DEF Climb, IsClimb
<1>3. PICK d : d = [i \in 0 .. n |-> IF i = 0 THEN a2 ELSE c[i]]
  OBVIOUS
<1>4. d \in [0 .. n -> Nat] /\ d[0] = a2 /\ d[n] <= b2
  BY <1>2, <1>3
<1>5. ASSUME NEW i \in 1 .. n PROVE d[i - 1] + v[i] <= d[i]
  <2>1. i - 1 \in 0 .. n /\ i \in 0 .. n /\ i # 0
    BY <1>2
  <2>2. /\ c[i - 1] \in Nat /\ c[i] \in Nat /\ c[i - 1] + w[i] <= c[i]
        /\ w[i] \in Nat /\ v[i] \in Nat /\ v[i] <= w[i]
    BY <1>2, <2>1
  <2>3. d[i] = c[i]
    BY <1>3, <2>1
  <2>4. d[i - 1] \in Nat /\ d[i - 1] <= c[i - 1]
    <3>1. d[i - 1] = IF i - 1 = 0 THEN a2 ELSE c[i - 1]
      BY <1>3, <2>1
    <3>2. i - 1 = 0 => c[i - 1] = a
      BY <1>2
    <3>. QED  BY <1>2, <2>2, <3>1, <3>2
  <2>. QED  BY <2>2, <2>3, <2>4, WithinStep
<1>. QED  BY <1>2, <1>4, <1>5 DEF Climb, IsClimb

\* A climb is continued by another.
LEMMA ClimbJoin ==
    ASSUME NEW n, NEW m, NEW w, NEW v, NEW x, NEW a, NEW b, NEW d,
           Climb(n, w, a, b), Climb(m, v, b, d),
           \A i \in 1 .. n : x[i] = w[i],
           \A i \in 1 .. m : x[n + i] = v[i]
    PROVE  Climb(n + m, x, a, d)
<1>1. PICK f \in [0 .. n -> Nat] : IsClimb(f, n, w, a, b)
  BY DEF Climb
<1>2. PICK g \in [0 .. m -> Nat] : IsClimb(g, m, v, b, d)
  BY DEF Climb
<1>3. /\ n \in Nat /\ m \in Nat /\ a \in Nat /\ b \in Nat /\ d \in Nat
      /\ \A i \in 1 .. n : w[i] \in Nat
      /\ \A i \in 1 .. m : v[i] \in Nat
  BY DEF Climb
<1>4. /\ f[0] = a /\ f[n] <= b /\ \A i \in 1 .. n : f[i - 1] + w[i] <= f[i]
      /\ g[0] = b /\ g[m] <= d /\ \A i \in 1 .. m : g[i - 1] + v[i] <= g[i]
      /\ \A i \in 0 .. n : f[i] \in Nat
      /\ \A i \in 0 .. m : g[i] \in Nat
  BY <1>1, <1>2 DEF IsClimb
<1>5. PICK c : c = [i \in 0 .. (n + m) |-> IF i <= n THEN f[i] ELSE g[i - n]]
  OBVIOUS
<1>6. /\ \A i \in 0 .. n : c[i] = f[i]
      /\ \A j \in 1 .. m : c[n + j] = g[j]
  BY <1>3, <1>5
<1>7. c \in [0 .. (n + m) -> Nat]
  <2>1. ASSUME NEW i \in 0 .. (n + m) PROVE (IF i <= n THEN f[i] ELSE g[i - n]) \in Nat
    <3>1. CASE i <= n
      BY <1>3, <1>4, <3>1
    <3>2. CASE i > n
      <4>1. i - n \in 0 .. m
        BY <1>3, <3>2
      <4>. QED  BY <1>3, <1>4, <3>2, <4>1
    <3>. QED  BY <1>3, <3>1, <3>2
  <2>. QED  BY <1>5, <2>1
<1>8. c[0] = a
  BY <1>3, <1>4, <1>6
<1>9. c[n + m] <= d
  <2>1. CASE m = 0
    <3>1. n + m = n /\ n \in 0 .. n /\ 0 \in 0 .. m /\ m \in 0 .. m
      BY <1>3, <2>1
    <3>2. c[n + m] = f[n] /\ g[m] = b /\ f[n] \in Nat
      BY <1>4, <1>6, <2>1, <3>1
    <3>. QED  BY <1>3, <1>4, <3>2
  <2>2. CASE m # 0
    <3>1. m \in 1 .. m
      BY <1>3, <2>2
    <3>. QED  BY <1>4, <1>6, <3>1
  <2>. QED  BY <2>1, <2>2
<1>10. ASSUME NEW i \in 1 .. (n + m) PROVE x[i] \in Nat /\ c[i - 1] + x[i] <= c[i]
  <2>1. CASE i <= n
    <3>1. i \in 1 .. n /\ i - 1 \in 0 .. n /\ i \in 0 .. n
      BY <1>3, <2>1
    <3>. QED  BY <1>3, <1>4, <1>6, <3>1
  <2>2. CASE i > n
    <3>1. PICK j \in 1 .. m : i = n + j
      <4>1. i - n \in 1 .. m /\ i = n + (i - n)
        BY <1>3, <2>2
      <4>. QED  BY <4>1
    <3>2. x[i] = v[j] /\ v[j] \in Nat /\ c[i] = g[j] /\ g[j - 1] + v[j] <= g[j]
      BY <1>3, <1>4, <1>6, <3>1
    <3>3. j \in Nat /\ j - 1 \in 0 .. m /\ j \in 0 .. m /\ n \in 0 .. n /\ i - 1 = n + (j - 1)
      BY <1>3, <3>1
    <3>4. g[j - 1] \in Nat /\ g[j] \in Nat /\ f[n] \in Nat
      BY <1>4, <3>3
    <3>5. c[i - 1] \in Nat /\ c[i - 1] <= g[j - 1]
      <4>1. CASE j = 1
        <5>1. i - 1 = n /\ j - 1 = 0
          BY <1>3, <3>3, <4>1
        <5>. QED  BY <1>3, <1>4, <1>6, <3>3, <3>4, <5>1
      <4>2. CASE j # 1
        <5>1. j - 1 \in 1 .. m
          BY <1>3, <3>3, <4>2
        <5>. QED  BY <1>6, <3>3, <3>4, <5>1
      <4>. QED  BY <4>1, <4>2
    <3>. QED  BY <3>2, <3>4, <3>5
  <2>. QED  BY <1>3, <2>1, <2>2
<1>11. n + m \in Nat
  BY <1>3
<1>. QED  BY <1>3, <1>7, <1>8, <1>9, <1>10, <1>11 DEF Climb, IsClimb

\* The first step is done.
LEMMA ClimbRest ==
    ASSUME NEW n, NEW w, NEW v, NEW a, NEW b, Climb(n, w, a, b), n > 0,
           \A i \in 1 .. (n - 1) : v[i] \in Nat /\ v[i] <= w[i + 1]
    PROVE  /\ a + w[1] \in Nat
           /\ Climb(n - 1, v, a + w[1], b)
<1>1. PICK c \in [0 .. n -> Nat] : IsClimb(c, n, w, a, b)
  BY DEF Climb
<1>2. /\ n \in Nat /\ a \in Nat /\ b \in Nat /\ \A i \in 1 .. n : w[i] \in Nat
      /\ c[0] = a /\ c[n] <= b /\ \A i \in 0 .. n : c[i] \in Nat
      /\ \A i \in 1 .. n : c[i - 1] + w[i] <= c[i]
  BY <1>1 DEF Climb, IsClimb
<1>3. 1 \in 1 .. n /\ 1 - 1 = 0 /\ w[1] \in Nat /\ c[1] \in Nat
  BY <1>1, <1>2
<1>4. a + w[1] \in Nat /\ a + w[1] <= c[1]
  <2>1. c[1 - 1] + w[1] <= c[1]
    BY <1>2, <1>3
  <2>. QED  BY <1>2, <1>3, <2>1
<1>5. PICK a2 \in Nat : a2 = a + w[1] /\ a2 <= c[1]
  BY <1>4
<1>6. PICK d : d = [i \in 0 .. (n - 1) |-> IF i = 0 THEN a2 ELSE c[i + 1]]
  OBVIOUS
<1>7. d[0] = a2 /\ \A i \in 1 .. (n - 1) : d[i] = c[i + 1]
  BY <1>2, <1>6
<1>8. d \in [0 .. (n - 1) -> Nat]
  <2>1. ASSUME NEW i \in 0 .. (n - 1) PROVE c[i + 1] \in Nat
    BY <1>2
  <2>. QED  BY <1>5, <1>6, <2>1
<1>9. d[n - 1] <= b
  <2>1. CASE n = 1
    BY <1>2, <1>5, <1>7, <2>1
  <2>2. CASE n # 1
    <3>1. n - 1 \in 1 .. (n - 1) /\ (n - 1) + 1 = n
      BY <1>2, <2>2
    <3>. QED  BY <1>2, <1>7, <3>1
  <2>. QED  BY <2>1, <2>2
<1>10. ASSUME NEW i \in 1 .. (n - 1) PROVE d[i - 1] + v[i] <= d[i]
  <2>1. i \in Nat /\ i + 1 \in 1 .. n /\ (i + 1) - 1 = i /\ i \in 0 .. n /\ i + 1 \in 0 .. n
    BY <1>2
  <2>2. d[i] = c[i + 1] /\ c[i] \in Nat /\ c[i + 1] \in Nat
    BY <1>2, <1>7, <2>1
  <2>3. c[i] + w[i + 1] <= c[i + 1] /\ w[i + 1] \in Nat /\ v[i] \in Nat /\ v[i] <= w[i + 1]
    BY <1>2, <2>1
  <2>4. d[i - 1] \in Nat /\ d[i - 1] <= c[i]
    <3>1. CASE i = 1
      BY <1>5, <1>7, <3>1
    <3>2. CASE i # 1
      <4>1. i - 1 \in 1 .. (n - 1) /\ (i - 1) + 1 = i
        BY <1>2, <2>1, <3>2
      <4>. QED  BY <1>7, <2>2, <4>1
    <3>. QED  BY <3>1, <3>2
  <2>. QED  BY <2>2, <2>3, <2>4, WithinStep
<1>11. n - 1 \in Nat
  BY <1>2
<1>. QED  BY <1>2, <1>5, <1>7, <1>8, <1>9, <1>10, <1>11 DEF Climb, IsClimb

\* The climb bounds its beginning.
LEMMA ClimbRises ==
    ASSUME NEW n, NEW w, NEW a, NEW b, Climb(n, w, a, b)
    PROVE  a <= b
<1>1. PICK c \in [0 .. n -> Nat] : IsClimb(c, n, w, a, b)
  BY DEF Climb
<1>2. /\ n \in Nat /\ a \in Nat /\ b \in Nat /\ \A i \in 1 .. n : w[i] \in Nat
      /\ c[0] = a /\ c[n] <= b /\ \A i \in 0 .. n : c[i] \in Nat
      /\ \A i \in 1 .. n : c[i - 1] + w[i] <= c[i]
  BY <1>1 DEF Climb, IsClimb
<1> DEFINE T == {i \in 0 .. n : c[n - i] >= a}
<1>3. n \in T /\ T \subseteq Nat
  BY <1>2
<1> HIDE DEF T
<1>4. PICK k \in T : \A j \in T : k <= j
  BY <1>3, LeastNatural
<1>5. k \in 0 .. n /\ c[n - k] >= a
  BY <1>4 DEF T
<1>6. CASE k = 0
  BY <1>1, <1>2, <1>5, <1>6
<1>7. CASE k # 0
  <2>1. n - k \in 0 .. n /\ (n - k) + 1 \in 1 .. n /\ ((n - k) + 1) - 1 = n - k /\ n - (k - 1) = (n - k) + 1
    BY <1>2, <1>5, <1>7
  <2>2. c[n - k] + w[(n - k) + 1] <= c[(n - k) + 1] /\ w[(n - k) + 1] \in Nat
    BY <1>2, <2>1
  <2>3. c[n - k] \in Nat /\ c[(n - k) + 1] \in Nat
    BY <1>1, <2>1
  <2>4. c[n - (k - 1)] = c[(n - k) + 1] /\ k - 1 \in 0 .. n
    BY <1>2, <1>5, <1>7, <2>1
  <2>5. c[(n - k) + 1] >= a
    <3>1. \A x, y, z \in Nat : x >= a /\ x + y <= z => z >= a
      BY <1>2
    <3>. QED  BY <1>5, <2>2, <2>3, <3>1
  <2>6. k - 1 \in T
    BY <2>4, <2>5 DEF T
  <2>. QED  BY <1>4, <1>5, <2>6
<1>. QED  BY <1>6, <1>7

-----------------------------------------------------------------------------
(***************************************************************************)
(* The climb through a sequence, by the weights f of its elements.         *)
(***************************************************************************)

WeightsIn(s, f) == [i \in DOMAIN s |-> f[s[i]]]

Run(s, f, a, b) == Climb(Len(s), WeightsIn(s, f), a, b)

\* What the indices of a sequence say of its elements.
LEMMA SeqParts ==
    ASSUME NEW S, NEW s \in Seq(S), NEW f \in [S -> Nat]
    PROVE  /\ Len(s) \in Nat /\ DOMAIN s = 1 .. Len(s)
           /\ \A i \in 1 .. Len(s) :
                 s[i] \in S /\ s[i] \in In(s) /\ WeightsIn(s, f)[i] = f[s[i]]
                 /\ f[s[i]] \in Nat
<1>1. Len(s) \in Nat /\ DOMAIN s = 1 .. Len(s) /\ \A i \in 1 .. Len(s) : s[i] \in S
  OBVIOUS
<1>. QED  BY <1>1 DEF In, WeightsIn

\* Elements without weight add nothing.
LEMMA RunSilent ==
    ASSUME NEW S, NEW s \in Seq(S), NEW f \in [S -> Nat], NEW a \in Nat, NEW b \in Nat,
           a <= b, \A e \in In(s) : f[e] = 0
    PROVE  Run(s, f, a, b)
<1>1. PICK n, w : n = Len(s) /\ w = WeightsIn(s, f)
  OBVIOUS
<1>2. n \in Nat /\ \A i \in 1 .. n : w[i] = 0
  BY <1>1, SeqParts
<1>3. n > 0 => w[1] \in 0 .. 0
  BY <1>2
<1>4. \A i \in 2 .. n : w[i] = 0
  BY <1>2
<1>5. a + 0 <= b
  OBVIOUS
<1>6. Climb(n, w, a, b)
  BY <1>2, <1>3, <1>4, <1>5, ClimbAtFirst
<1>. QED  BY <1>1, <1>6 DEF Run

\* One element adds its weight.
LEMMA RunOne ==
    ASSUME NEW S, NEW e \in S, NEW f \in [S -> Nat], NEW a \in Nat, NEW b \in Nat,
           a + f[e] <= b
    PROVE  Run(<<e>>, f, a, b)
<1>1. PICK w : w = WeightsIn(<<e>>, f)
  OBVIOUS
<1>2. w[1] = f[e] /\ f[e] \in Nat /\ Len(<<e>>) = 1
  BY <1>1 DEF WeightsIn
<1>3. 1 \in Nat /\ (1 > 0 => w[1] \in 0 .. f[e]) /\ \A i \in 2 .. 1 : w[i] = 0
  BY <1>2
<1>4. Climb(1, w, a, b)
  BY <1>2, <1>3, ClimbAtFirst
<1>. QED  BY <1>1, <1>2, <1>4 DEF Run

\* One sequence after the other.
LEMMA RunConcat ==
    ASSUME NEW S, NEW s \in Seq(S), NEW t \in Seq(S), NEW f \in [S -> Nat],
           NEW a, NEW b, NEW d, Run(s, f, a, b), Run(t, f, b, d)
    PROVE  Run(s \o t, f, a, d)
<1>1. PICK n, m, w, v, x :
          /\ n = Len(s) /\ m = Len(t) /\ w = WeightsIn(s, f) /\ v = WeightsIn(t, f)
          /\ x = WeightsIn(s \o t, f)
  OBVIOUS
<1>2. /\ n \in Nat /\ m \in Nat /\ Len(s \o t) = n + m
      /\ \A i \in 1 .. n : w[i] = f[s[i]]
      /\ \A i \in 1 .. m : v[i] = f[t[i]]
  BY <1>1, SeqParts
<1>3. DOMAIN (s \o t) = 1 .. (n + m)
  BY <1>1, <1>2
<1>4. ASSUME NEW i \in 1 .. n PROVE x[i] = w[i]
  <2>1. i \in 1 .. (n + m) /\ (s \o t)[i] = s[i]
    BY <1>1, <1>2
  <2>. QED  BY <1>1, <1>2, <1>3, <2>1 DEF WeightsIn
<1>5. ASSUME NEW i \in 1 .. m PROVE x[n + i] = v[i]
  <2>1. n + i \in 1 .. (n + m) /\ (s \o t)[n + i] = t[i]
    BY <1>1, <1>2
  <2>. QED  BY <1>1, <1>2, <1>3, <2>1 DEF WeightsIn
<1>6. Climb(n, w, a, b) /\ Climb(m, v, b, d)
  BY <1>1 DEF Run
<1>7. Climb(n + m, x, a, d)
  BY <1>4, <1>5, <1>6, ClimbJoin
<1>. QED  BY <1>1, <1>2, <1>7 DEF Run

\* The first element is taken.
LEMMA RunTail ==
    ASSUME NEW S, NEW s \in Seq(S), s # << >>, NEW f \in [S -> Nat],
           NEW a, NEW b, Run(s, f, a, b)
    PROVE  /\ a + f[Head(s)] \in Nat
           /\ Run(Tail(s), f, a + f[Head(s)], b)
<1>1. PICK n, w, v : n = Len(s) /\ w = WeightsIn(s, f) /\ v = WeightsIn(Tail(s), f)
  OBVIOUS
<1>2. /\ n \in Nat /\ n > 0 /\ Head(s) = s[1] /\ Tail(s) \in Seq(S) /\ Len(Tail(s)) = n - 1
      /\ \A i \in 1 .. (n - 1) : Tail(s)[i] = s[i + 1]
  BY <1>1
<1>3. /\ \A i \in 1 .. n : w[i] = f[s[i]] /\ w[i] \in Nat
      /\ \A i \in 1 .. (n - 1) : v[i] = f[Tail(s)[i]]
  <2>1. \A i \in 1 .. n : w[i] = f[s[i]] /\ w[i] \in Nat
    BY <1>1, SeqParts
  <2>2. DOMAIN Tail(s) = 1 .. (n - 1)
    BY <1>2
  <2>. QED  BY <1>1, <2>1, <2>2 DEF WeightsIn
<1>4. ASSUME NEW i \in 1 .. (n - 1) PROVE v[i] \in Nat /\ v[i] <= w[i + 1]
  <2>1. i + 1 \in 1 .. n
    BY <1>2
  <2>. QED  BY <1>2, <1>3, <2>1
<1>5. Climb(n, w, a, b)
  BY <1>1 DEF Run
<1>6. a + w[1] \in Nat /\ Climb(n - 1, v, a + w[1], b)
  BY <1>2, <1>4, <1>5, ClimbRest
<1>7. w[1] = f[Head(s)]
  <2>1. 1 \in 1 .. n
    BY <1>2
  <2>. QED  BY <1>2, <1>3, <2>1
<1>. QED  BY <1>1, <1>2, <1>6, <1>7 DEF Run

\* The bounds of a run, which may be widened.
LEMMA RunBounds ==
    ASSUME NEW S, NEW s \in Seq(S), NEW f \in [S -> Nat], NEW a, NEW b, Run(s, f, a, b)
    PROVE  /\ a \in Nat /\ b \in Nat /\ a <= b
           /\ \A a2 \in Nat, b2 \in Nat : a2 <= a /\ b <= b2 => Run(s, f, a2, b2)
<1>1. PICK n, w : n = Len(s) /\ w = WeightsIn(s, f)
  OBVIOUS
<1>2. Climb(n, w, a, b)
  BY <1>1 DEF Run
<1>3. a \in Nat /\ b \in Nat /\ \A i \in 1 .. n : w[i] \in Nat /\ w[i] <= w[i]
  BY <1>2 DEF Climb
<1>4. a <= b
  BY <1>2, ClimbRises
<1>5. ASSUME NEW a2 \in Nat, NEW b2 \in Nat, a2 <= a, b <= b2
      PROVE  Climb(n, w, a2, b2)
  BY <1>2, <1>3, <1>5, ClimbWiden
<1>. QED  BY <1>1, <1>3, <1>4, <1>5 DEF Run

\* What the reader appends one element to, it climbs a step further.
LEMMA RunAppend ==
    ASSUME NEW S, NEW s \in Seq(S), NEW e \in S, NEW f \in [S -> Nat],
           NEW a, NEW b, Run(s, f, a, b)
    PROVE  /\ b + f[e] \in Nat
           /\ Run(Append(s, e), f, a, b + f[e])
<1>1. b \in Nat /\ f[e] \in Nat /\ b + f[e] \in Nat
  BY RunBounds
<1>2. Run(<<e>>, f, b, b + f[e])
  BY <1>1, RunOne
<1>3. <<e>> \in Seq(S) /\ Append(s, e) = s \o <<e>>
  OBVIOUS
<1>4. Run(s \o <<e>>, f, a, b + f[e])
  BY <1>2, <1>3, RunConcat
<1>. QED  BY <1>1, <1>3, <1>4

=============================================================================
