--------------------------- MODULE MultiLegProofs ---------------------------
(***************************************************************************)
(* Linked orders, for every number of users, prices, quantities and        *)
(* orders: the book stays consistent, of two orders that cancel each other *)
(* one trades at most, children follow their parent, and the engine ends   *)
(* on a linked order in the two cases LinkFailuresExplained names only.    *)
(*                                                                         *)
(* The invariant is MSound.  Its part LiveSound is about a running engine  *)
(* and says of every state, also while a taker is matched, which orders    *)
(* are quoted, stored and waiting: a handler that quotes a child must find *)
(* it absent from the book, and one that withdraws a counterparty must     *)
(* find it there, or else the exception has to be explained.               *)
(***************************************************************************)
EXTENDS MultiLeg, SpotEngineProofs

-----------------------------------------------------------------------------
(***************************************************************************)
(* The inductive invariant.                                                *)
(***************************************************************************)

TypesSound ==
    /\ MTypeOK
    /\ Len(order) <= MaxOrders
    /\ paid \in [OrderIds -> Nat]
    /\ cancels \in [OrderIds -> Nat]
    /\ taker \in OrderIds \cup {NoOrder}

\* The engine is running.
Live == pc \in {"idle", "matching"}

\* A counterparty is another order of the same command.
PeerLinks(o) ==
    LET d == links[o].peer IN d # NoOrder =>
        /\ d \in Known /\ d # o
        /\ links[d].peer = o
        /\ links[d].kind = links[o].kind
        /\ links[d].parent = links[o].parent
        /\ order[d].user = order[o].user
        /\ links[o].children = {}
        /\ links[o].kind \in {"oco", "otoco"}

\* A child is on the other side than its parent.
ChildLinks(o) ==
    LET p == links[o].parent IN p # NoOrder =>
        /\ p \in Known /\ p # o
        /\ o \in links[p].children
        /\ links[p].parent = NoOrder /\ links[p].peer = NoOrder
        /\ links[p].kind = links[o].kind
        /\ order[p].user = order[o].user
        /\ order[p].side # order[o].side
        /\ links[o].children = {}

\* What the links of each kind are.
KindLinks(o) ==
    /\ links[o].kind = "single" => links[o] = NoLinks
    /\ links[o].kind = "oco" => /\ links[o].peer # NoOrder
                                /\ links[o].parent = NoOrder /\ links[o].children = {}
    /\ links[o].kind = "oto" => links[o].peer = NoOrder
    /\ links[o].kind = "oto" /\ links[o].children # {} =>
          links[o].parent = NoOrder /\ \E c \in Known : links[o].children = {c}
    /\ links[o].kind = "otoco" /\ links[o].children # {} =>
          /\ links[o].parent = NoOrder /\ links[o].peer = NoOrder
          /\ \E c, d \in Known : /\ c # d /\ links[o].children = {c, d}
                                 /\ links[c].peer = d
    /\ links[o].kind = "otoco" /\ links[o].children = {} =>
          links[o].parent # NoOrder /\ links[o].peer # NoOrder
    /\ \A c \in links[o].children : c \in Known /\ links[c].parent = o

LinksSound ==
    /\ \A o \in OrderIds \ Known : links[o] = NoLinks /\ exec[o] = 0
    /\ \A o \in Known : PeerLinks(o) /\ ChildLinks(o) /\ KindLinks(o)

\* A child trades only once its parent is filled.
ChildrenNotEarly ==
    \A o \in Known : links[o].parent # NoOrder /\ exec[o] > 0 =>
        Remaining(links[o].parent) = 0

\* A filled parent of an OTOCO that is being matched has quoted its children.
JustQuoted ==
    IF pc = "matching" /\ links[taker].kind = "otoco" /\ Remaining(taker) = 0
    THEN links[taker].children
    ELSE {}

\* The book holds the orders of S, each on its level, and its cache is right.
Holds(b, S, ord) ==
    /\ b \in Books /\ BestIsExtremum(b) /\ NoDuplicates(b)
    /\ \A s \in Sides, p \in Prices, o \in OrderIds :
          OnLevel(b, s, p, o) <=> o \in S /\ ord[o].side = s /\ ord[o].price = p

StoreSound ==
    \A o \in store : /\ o \in Known /\ Remaining(o) > 0
                     /\ links[o].kind # "single" => order[o].user = System

WaitingSound ==
    \A o \in waiting : o \in Known /\ links[o].parent # NoOrder /\ exec[o] = 0

\* The order being matched is a single order or a parent, and the children of
\* a parent wait until it is filled.
TakerSound ==
    pc = "matching" =>
        /\ taker \in Known /\ taker \notin store /\ taker \notin waiting
        /\ links[taker].peer = NoOrder /\ links[taker].parent = NoOrder
        /\ Remaining(taker) >= 0
        /\ Remaining(taker) > 0 => links[taker].children \subseteq waiting \ store
        /\ JustQuoted \cap store = {}

FamilySound ==
    \A o \in Known : links[o].parent # NoOrder =>
        /\ o \in store \cap waiting <=> links[o].parent \in store
        /\ o \notin waiting => Remaining(links[o].parent) = 0

\* A pair is quoted together.  An OCO leg that has traded stays alone; a child
\* of an OTOCO never does.
PairSound ==
    \A o \in store : LET d == links[o].peer IN
        /\ links[o].kind = "oco" =>
              \/ d \in store /\ exec[o] = 0 /\ exec[d] = 0
              \/ d \notin store /\ exec[o] > 0 /\ cancels[d] > 0
        /\ links[o].kind = "otoco" /\ d # NoOrder =>
              d \in store /\ exec[o] = 0 /\ (o \in waiting <=> d \in waiting)

LiveSound ==
    /\ Holds(book, (store \ waiting) \cup JustQuoted, order)
    /\ StoreSound /\ WaitingSound /\ TakerSound /\ FamilySound /\ PairSound

MSound ==
    /\ TypesSound /\ LinksSound /\ ChildrenNotEarly /\ OneLegTrades
    /\ LinkFailuresExplained
    /\ Live => LiveSound

-----------------------------------------------------------------------------
(***************************************************************************)
(* The book.                                                               *)
(***************************************************************************)

\* A quoted order can be removed.
LEMMA HoldsRemove ==
    ASSUME NEW b, NEW S, NEW ord, Holds(b, S, ord),
           NEW o \in OrderIds, o \in S, ord[o].side \in Sides, ord[o].price \in Prices
    PROVE  Holds(RemoveOrder(b, ord[o].side, ord[o].price, o), S \ {o}, ord)
<1> DEFINE s == ord[o].side
           p == ord[o].price
           c == RemoveOrder(b, s, p, o)
<1>1. b \in Books /\ BestIsExtremum(b) /\ NoDuplicates(b) /\ OnLevel(b, s, p, o)
  BY DEF Holds
<1>2. s \in Sides /\ p \in Prices
  OBVIOUS
<1> HIDE DEF s, p
<1>3. c \in Books /\ BestIsExtremum(c) /\ NoDuplicates(c)
  BY <1>1, <1>2, RemoveLevels, RemoveKeepsBest, RemoveKeepsDistinct
<1>4. ASSUME NEW s2 \in Sides, NEW p2 \in Prices, NEW x \in OrderIds
      PROVE  OnLevel(c, s2, p2, x) <=> x \in S \ {o} /\ ord[x].side = s2 /\ ord[x].price = p2
  <2>1. OnLevel(c, s2, p2, x) <=>
           OnLevel(b, s2, p2, x) /\ ~(s2 = s /\ p2 = p /\ x = o)
    BY <1>1, <1>2, RemoveOnLevel
  <2>2. OnLevel(b, s2, p2, x) <=> x \in S /\ ord[x].side = s2 /\ ord[x].price = p2
    BY DEF Holds
  <2>3. x = o /\ ord[x].side = s2 /\ ord[x].price = p2 => s2 = s /\ p2 = p
    BY DEF s, p
  <2>. QED  BY <2>1, <2>2, <2>3
<1> HIDE DEF c
<1>5. Holds(c, S \ {o}, ord)
  BY <1>3, <1>4 DEF Holds
<1>. QED  BY <1>5 DEF c, s, p

\* An order that is not quoted can be appended.
LEMMA HoldsAppend ==
    ASSUME NEW b, NEW S, NEW ord, Holds(b, S, ord),
           NEW o \in OrderIds, o \notin S, ord[o].side \in Sides, ord[o].price \in Prices
    PROVE  Holds(AppendOrder(b, ord[o].side, ord[o].price, o), S \cup {o}, ord)
<1> DEFINE s == ord[o].side
           p == ord[o].price
           c == AppendOrder(b, s, p, o)
<1>1. b \in Books /\ BestIsExtremum(b) /\ NoDuplicates(b) /\ ~OnLevel(b, s, p, o)
  BY DEF Holds
<1>2. s \in Sides /\ p \in Prices
  OBVIOUS
<1> HIDE DEF s, p
<1>3. c \in Books /\ BestIsExtremum(c) /\ NoDuplicates(c)
  BY <1>1, <1>2, AppendLevels, AppendKeepsBest, AppendKeepsDistinct
<1>4. ASSUME NEW s2 \in Sides, NEW p2 \in Prices, NEW x \in OrderIds
      PROVE  OnLevel(c, s2, p2, x) <=>
                x \in S \cup {o} /\ ord[x].side = s2 /\ ord[x].price = p2
  <2>1. OnLevel(c, s2, p2, x) <=>
           OnLevel(b, s2, p2, x) \/ (s2 = s /\ p2 = p /\ x = o)
    BY <1>1, <1>2, AppendOnLevel
  <2>2. OnLevel(b, s2, p2, x) <=> x \in S /\ ord[x].side = s2 /\ ord[x].price = p2
    BY DEF Holds
  <2>3. x = o /\ ord[x].side = s2 /\ ord[x].price = p2 <=> s2 = s /\ p2 = p /\ x = o
    BY DEF s, p
  <2>. QED  BY <2>1, <2>2, <2>3
<1> HIDE DEF c
<1>5. Holds(c, S \cup {o}, ord)
  BY <1>3, <1>4 DEF Holds
<1>. QED  BY <1>5 DEF c, s, p

\* New orders leave the quoted ones alone.
LEMMA HoldsMore ==
    ASSUME NEW b, NEW S, NEW ord, NEW ord2, Holds(b, S, ord), \A o \in S : ord2[o] = ord[o]
    PROVE  Holds(b, S, ord2)
  BY DEF Holds

-----------------------------------------------------------------------------
(***************************************************************************)
(* The execution context.                                                  *)
(***************************************************************************)

OrderSets == SUBSET OrderIds

Contexts == [book : Books, store : SUBSET OrderIds, waiting : SUBSET OrderIds,
             raised : BOOLEAN]

\* Nothing has been raised, the book holds the orders of S, and what else the
\* context holds.
Good(c, S, stored, wait) ==
    /\ c \in Contexts /\ ~c.raised /\ Holds(c.book, S, order)
    /\ c.store = stored /\ c.waiting = wait

\* An exception of the book.
Raised(c) == c \in Contexts /\ c.raised

\* The orders of the engine have sides and prices.
Quotable(o) == o \in OrderIds /\ order[o].side \in Sides /\ order[o].price \in Prices

\* OrderBook.remove of a quoted order.
LEMMA WithdrawQuoted ==
    ASSUME NEW c, NEW S, NEW stored, NEW wait, Good(c, S, stored, wait),
           NEW o \in S, Quotable(o)
    PROVE  Good(Withdraw(c, o), S \ {o}, stored, wait)
<1>1. /\ c \in Contexts /\ c.raised = FALSE /\ Holds(c.book, S, order)
      /\ o \in OrderIds /\ order[o].side \in Sides /\ order[o].price \in Prices
      /\ c.store = stored /\ c.waiting = wait
  BY DEF Good, Quotable, Contexts
<1>2. PICK s, p : s = order[o].side /\ p = order[o].price
  OBVIOUS
<1>3. OnLevel(c.book, s, p, o)
  BY <1>1, <1>2 DEF Holds
<1>4. c.book.level[s][p] # << >>
  BY <1>3 DEF OnLevel
<1>5. PICK b : b = RemoveOrder(c.book, s, p, o)
  OBVIOUS
<1>6. Withdraw(c, o) = [c EXCEPT !.book = b]
  BY <1>1, <1>2, <1>3, <1>4, <1>5 DEF Withdraw
<1>7. Holds(b, S \ {o}, order)
  BY <1>1, <1>2, <1>5, HoldsRemove
<1>8. b \in Books
  BY <1>7 DEF Holds
<1>. QED  BY <1>1, <1>6, <1>7, <1>8 DEF Good, Contexts

\* OrderBook.remove of an order that is not quoted: nothing, or KeyError.
LEMMA WithdrawAbsent ==
    ASSUME NEW c, NEW S, NEW stored, NEW wait, Good(c, S, stored, wait),
           NEW o, o \notin S, Quotable(o)
    PROVE  Withdraw(c, o) = c \/ Raised(Withdraw(c, o))
<1>1. /\ c \in Contexts /\ c.raised = FALSE /\ Holds(c.book, S, order)
      /\ o \in OrderIds /\ order[o].side \in Sides /\ order[o].price \in Prices
  BY DEF Good, Quotable, Contexts
<1>2. ~OnLevel(c.book, order[o].side, order[o].price, o)
  BY <1>1 DEF Holds
<1>3. Withdraw(c, o) = c \/ Withdraw(c, o) = [c EXCEPT !.raised = TRUE]
  BY <1>2 DEF Withdraw
<1>. QED  BY <1>1, <1>3 DEF Contexts, Raised

\* OrderBook.append of an order that is not quoted.
LEMMA QuoteAbsent ==
    ASSUME NEW c, NEW S, NEW stored, NEW wait, Good(c, S, stored, wait),
           NEW o, o \notin S, Quotable(o)
    PROVE  Good(Quote(c, o), S \cup {o}, stored, wait)
<1>1. /\ c \in Contexts /\ c.raised = FALSE /\ Holds(c.book, S, order)
      /\ o \in OrderIds /\ order[o].side \in Sides /\ order[o].price \in Prices
      /\ c.store = stored /\ c.waiting = wait
  BY DEF Good, Quotable, Contexts
<1>2. ~OnLevel(c.book, order[o].side, order[o].price, o)
  BY <1>1 DEF Holds
<1>3. PICK b : b = AppendOrder(c.book, order[o].side, order[o].price, o)
  OBVIOUS
<1>4. Quote(c, o) = [c EXCEPT !.book = b]
  BY <1>1, <1>2, <1>3 DEF Quote
<1>5. Holds(b, S \cup {o}, order)
  BY <1>1, <1>3, HoldsAppend
<1>6. b \in Books
  BY <1>5 DEF Holds
<1>. QED  BY <1>1, <1>4, <1>5, <1>6 DEF Good, Contexts

\* OrderBook.append of an order that is quoted: ValueError.
LEMMA QuoteTwice ==
    ASSUME NEW c, NEW S, NEW stored, NEW wait, Good(c, S, stored, wait),
           NEW o \in S, Quotable(o)
    PROVE  Raised(Quote(c, o))
<1>1. /\ c \in Contexts /\ c.raised = FALSE /\ Holds(c.book, S, order)
      /\ o \in OrderIds /\ order[o].side \in Sides /\ order[o].price \in Prices
  BY DEF Good, Quotable, Contexts
<1>2. OnLevel(c.book, order[o].side, order[o].price, o)
  BY <1>1 DEF Holds
<1>3. Quote(c, o) = [c EXCEPT !.raised = TRUE]
  BY <1>1, <1>2 DEF Quote
<1>. QED  BY <1>1, <1>3 DEF Contexts, Raised

\* A child becomes active.
LEMMA ActivateAbsent ==
    ASSUME NEW c, NEW S, NEW stored, NEW wait, Good(c, S, stored, wait),
           NEW o, o \notin S, Quotable(o)
    PROVE  Good(Activate(c, o), S \cup {o}, stored, wait \ {o})
<1>1. PICK d : d = [c EXCEPT !.waiting = @ \ {o}]
  OBVIOUS
<1>2. Good(d, S, stored, wait \ {o})
  <2>1. /\ c \in Contexts /\ c.raised = FALSE /\ Holds(c.book, S, order)
        /\ c.store = stored /\ c.waiting = wait
    BY DEF Good, Contexts
  <2>2. /\ d \in Contexts /\ d.store = stored /\ d.waiting = wait \ {o}
        /\ d.book = c.book /\ d.raised = FALSE
    BY <1>1, <2>1 DEF Contexts
  <2>. QED  BY <2>1, <2>2 DEF Good
<1>3. Activate(c, o) = Quote(d, o)
  BY <1>1 DEF Activate
<1>. QED  BY <1>2, <1>3, QuoteAbsent

\* The order store is not the book's.
LEMMA StoreChanges ==
    ASSUME NEW c, NEW S, NEW stored, NEW wait, Good(c, S, stored, wait),
           NEW T \in OrderSets
    PROVE  /\ Good(Store(c, T), S, stored \cup T, wait)
           /\ Good(Discard(c, T), S, stored \ T, wait)
<1>1. /\ c \in Contexts /\ c.raised = FALSE /\ Holds(c.book, S, order)
      /\ c.store = stored /\ c.waiting = wait
  BY DEF Good, Contexts
<1>2. PICK d : d = [c EXCEPT !.store = @ \cup T]
  OBVIOUS
<1>3. /\ d \in Contexts /\ d.store = stored \cup T /\ d.waiting = wait
      /\ d.book = c.book /\ d.raised = FALSE
  BY <1>1, <1>2 DEF Contexts, OrderSets
<1>4. PICK e : e = [c EXCEPT !.store = @ \ T]
  OBVIOUS
<1>5. /\ e \in Contexts /\ e.store = stored \ T /\ e.waiting = wait
      /\ e.book = c.book /\ e.raised = FALSE
  BY <1>1, <1>4 DEF Contexts, OrderSets
<1>6. Store(c, T) = d /\ Discard(c, T) = e
  BY <1>1, <1>2, <1>4 DEF Store, Discard
<1>. QED  BY <1>1, <1>3, <1>5, <1>6 DEF Good

\* One or two orders are stored or discarded.
LEMMA StoreFew ==
    ASSUME NEW c, NEW S, NEW stored, NEW wait, Good(c, S, stored, wait),
           NEW o \in OrderIds, NEW d \in OrderIds
    PROVE  /\ Good(Store(c, {o}), S, stored \cup {o}, wait)
           /\ Good(Discard(c, {o}), S, stored \ {o}, wait)
           /\ Good(Discard(c, {o, d}), S, stored \ {o, d}, wait)
<1>1. {o} \in OrderSets /\ {o, d} \in OrderSets
  BY DEF OrderSets
<1>2. ASSUME NEW T \in OrderSets
      PROVE  Good(Store(c, T), S, stored \cup T, wait) /\ Good(Discard(c, T), S, stored \ T, wait)
  BY StoreChanges
<1>. QED  BY <1>1, <1>2, Zenon

\* After an exception nothing more happens.
LEMMA RaisedStays ==
    ASSUME NEW c, Raised(c)
    PROVE  \A o, T : Withdraw(c, o) = c /\ Quote(c, o) = c /\ Store(c, T) = c /\ Discard(c, T) = c
  BY DEF Raised, Withdraw, Quote, Store, Discard

-----------------------------------------------------------------------------
(***************************************************************************)
(* What the invariant says of a running engine.                            *)
(***************************************************************************)

\* The types of SpotEngine hold, and every order received can be quoted.
LEMMA LiveFacts ==
    ASSUME TypesSound, Live
    PROVE  /\ TypeOK
           /\ Len(order) \in Nat /\ Known = 1 .. Len(order) /\ Known \subseteq OrderIds
           /\ \A o \in Known : /\ Quotable(o)
                               /\ order[o] \in Requests
                               /\ order[o].qty \in Nat /\ order[o].qty > 0
                               /\ exec[o] \in Nat /\ Remaining(o) \in Int
<1>1. TypeOK
  BY DEF TypesSound, MTypeOK, Live, TypeOK, PCs
<1>. QED  BY <1>1, KnownOrders DEF Quotable

\* The parts of the invariant in a running engine.
LEMMA LiveParts ==
    ASSUME MSound, Live
    PROVE  /\ TypesSound /\ LinksSound /\ ChildrenNotEarly /\ OneLegTrades
           /\ Holds(book, (store \ waiting) \cup JustQuoted, order)
           /\ StoreSound /\ WaitingSound /\ TakerSound /\ FamilySound /\ PairSound
  BY DEF MSound, LiveSound

\* The links of a known order, and who may have which.
LEMMA LinkFacts ==
    ASSUME LinksSound, NEW o \in Known
    PROVE  PeerLinks(o) /\ ChildLinks(o) /\ KindLinks(o)
  BY DEF LinksSound

\* The head of the best level is a stored and active order, and the quantity of
\* the trade is positive and at most what is left of both orders.
LEMMA LinkedMakerFacts ==
    ASSUME MSound, Matching
    PROVE  /\ taker \in Known /\ taker \in OrderIds /\ MakerSide \in Sides
           /\ JustQuoted = {}
           /\ book.best[MakerSide] \in Prices
           /\ Maker \in store \ waiting /\ Maker \in Known /\ Maker \in OrderIds
           /\ Maker # taker
           /\ order[Maker].side = MakerSide
           /\ order[Maker].price = book.best[MakerSide]
           /\ TradeQuantity \in Nat /\ TradeQuantity > 0
           /\ exec[taker] + TradeQuantity <= order[taker].qty
           /\ exec[Maker] + TradeQuantity <= order[Maker].qty
<1> DEFINE s == MakerSide
           p == book.best[MakerSide]
           l == book.level[s][p]
<1>1. Live /\ pc = "matching" /\ Remaining(taker) > 0 /\ p # NoPrice
  BY DEF Matching, Live
<1>2. /\ TypesSound /\ StoreSound /\ taker \in Known /\ taker \notin store
      /\ Holds(book, (store \ waiting) \cup JustQuoted, order)
  BY <1>1, LiveParts DEF TakerSound
<1>3. JustQuoted = {}
  BY <1>1 DEF JustQuoted
<1>4. /\ taker \in OrderIds /\ s \in Sides
      /\ order[taker].qty \in Nat /\ exec[taker] \in Nat
  BY <1>1, <1>2, LiveFacts DEF Quotable, MakerSide, Opposite, Sides
<1>5. book \in Books /\ BestIsExtremum(book)
  BY <1>2 DEF Holds
<1>6. p \in Quotes(book, s)
  <2>1. Quotes(book, s) \subseteq Prices /\ p = Extremum(s, Quotes(book, s))
    BY <1>4, <1>5 DEF Quotes, BestIsExtremum
  <2>2. Quotes(book, s) # {}
    BY <1>1, <2>1 DEF Extremum
  <2>. QED  BY <1>4, <2>1, <2>2, ExtremumIsBest
<1>7. p \in Prices /\ l # << >>
  BY <1>6 DEF Quotes
<1>8. l \in Seq(OrderIds)
  BY <1>4, <1>5, <1>7 DEF Books
<1>9. Maker = l[1] /\ 1 \in DOMAIN l /\ Maker \in OrderIds
  <2>1. Maker = Head(l)
    BY DEF Maker
  <2> HIDE DEF l
  <2>. QED  BY <1>7, <1>8, <2>1
<1>10. OnLevel(book, s, p, Maker)
  BY <1>9 DEF OnLevel
<1>11. Maker \in store \ waiting /\ order[Maker].side = s /\ order[Maker].price = p
  BY <1>2, <1>3, <1>4, <1>7, <1>9, <1>10 DEF Holds
<1>12. Maker \in Known /\ Remaining(Maker) > 0
  BY <1>2, <1>11 DEF StoreSound
<1>13. order[Maker].qty \in Nat /\ exec[Maker] \in Nat
  BY <1>1, <1>2, <1>12, LiveFacts
<1>14. /\ TradeQuantity \in Nat /\ TradeQuantity > 0
       /\ exec[taker] + TradeQuantity <= order[taker].qty
       /\ exec[Maker] + TradeQuantity <= order[Maker].qty
  <2> HIDE DEF s, p, l
  <2>. QED  BY <1>1, <1>4, <1>12, <1>13 DEF TradeQuantity, Remaining
<1>. QED  BY <1>2, <1>3, <1>4, <1>7, <1>9, <1>11, <1>12, <1>14

-----------------------------------------------------------------------------
(***************************************************************************)
(* handle_filled.                                                          *)
(***************************************************************************)

\* The children that handle_filled makes active.
Activated(o, e) == IF e = order[o].qty THEN links[o].children ELSE {}

\* The orders that handle_filled of an order with a counterparty withdraws.
PairGone(o) ==
    IF links[o].kind = "otoco" THEN {o, links[o].peer} ELSE {links[o].peer}

\* The orders a trade takes out of the book and the store: the maker if it is
\* filled, and the orders its fill withdraws.
MakerGone(m, e) ==
    (IF links[m].peer = NoOrder THEN {} ELSE PairGone(m))
        \cup (IF e = order[m].qty THEN {m} ELSE {})

\* What is left of the context after the maker of a trade.
AfterMaker(c, m, e) ==
    IF e = order[m].qty THEN Discard(Withdraw(HandleFilled(c, m, e), m), {m})
                        ELSE HandleFilled(c, m, e)

\* The least and the greatest of one order and of two.
LEMMA LeastAndGreatest ==
    ASSUME NEW c \in Int, NEW d \in Int
    PROVE  /\ Min({c}) = c /\ {Min({c, d}), Max({c, d})} = {c, d}
           /\ c # d => Min({c, d}) # Max({c, d})
<1>1. Min({c}) = c
  BY DEF Min
<1>2. CASE c <= d
  <2>1. Min({c, d}) = c /\ Max({c, d}) = d
    BY <1>2 DEF Min, Max
  <2>. QED  BY <1>1, <2>1
<1>3. CASE d <= c
  <2>1. Min({c, d}) = d /\ Max({c, d}) = c
    BY <1>3 DEF Min, Max
  <2>. QED  BY <1>1, <2>1
<1>. QED  BY <1>2, <1>3

\* OTOStrategy.handle_filled and OTOCOStrategy.handle_filled of a parent: its
\* children become active when it is filled.
LEMMA ParentFilled ==
    ASSUME TypesSound, LinksSound, Live,
           NEW c, NEW S, NEW stored, NEW wait, Good(c, S, stored, wait),
           NEW o \in Known, links[o].peer = NoOrder,
           NEW e, NEW A, A = Activated(o, e), \A x \in A : x \notin S
    PROVE  /\ links[o].kind = "oto" =>
                 Good(HandleFilled(c, o, e), S \cup A, stored \cup A, wait \ A)
           /\ links[o].kind # "oto" =>
                 Good(HandleFilled(c, o, e), S \cup A, stored, wait \ A)
<1>1. /\ Known \subseteq OrderIds /\ OrderIds \subseteq Int
      /\ \A x \in Known : Quotable(x)
  BY LiveFacts DEF OrderIds
<1>2. KindLinks(o) /\ links[o].kind \in Kinds /\ links[o].children \subseteq OrderIds
  BY <1>1, LinkFacts DEF TypesSound, MTypeOK, Links
<1>3. CASE A = {}
  <2>1. links[o].kind # "oco" /\ (links[o].kind = "otoco" => links[o].children # {})
    BY <1>2 DEF KindLinks
  <2>2. links[o].kind \in {"single", "oto", "otoco"}
    BY <1>2, <2>1 DEF Kinds
  <2>3. e # order[o].qty \/ links[o].children = {}
    BY <1>3 DEF Activated
  <2>4. HandleFilled(c, o, e) = c
    BY <2>1, <2>2, <2>3 DEF HandleFilled, OTOFilled, OTOCOFilled
  <2>5. S \cup A = S /\ stored \cup A = stored /\ wait \ A = wait
    BY <1>3
  <2>. QED  BY <2>4, <2>5
<1>4. CASE A # {} /\ links[o].kind = "oto"
  <2>1. links[o].children # {} /\ e = order[o].qty /\ A = links[o].children
    BY <1>4 DEF Activated
  <2>2. PICK x \in Known : links[o].children = {x}
    BY <1>2, <1>4, <2>1 DEF KindLinks
  <2>3. Min(links[o].children) = x
    BY <1>1, <2>2, LeastAndGreatest
  <2>4. HandleFilled(c, o, e) = Store(Activate(c, x), {x})
    BY <1>4, <2>1, <2>2, <2>3 DEF HandleFilled, OTOFilled
  <2>5. x \notin S /\ Quotable(x) /\ A = {x} /\ x \in OrderIds
    BY <1>1, <2>1, <2>2
  <2>6. Good(Activate(c, x), S \cup {x}, stored, wait \ {x})
    BY <2>5, ActivateAbsent
  <2>7. Good(Store(Activate(c, x), {x}), S \cup {x}, stored \cup {x}, wait \ {x})
    BY <2>5, <2>6, StoreFew
  <2>. QED  BY <1>4, <2>4, <2>5, <2>7
<1>5. CASE A # {} /\ links[o].kind = "otoco"
  <2>1. links[o].children # {} /\ e = order[o].qty /\ A = links[o].children
    BY <1>5 DEF Activated
  <2>2. PICK x, y \in Known : x # y /\ links[o].children = {x, y}
    BY <1>2, <1>5, <2>1 DEF KindLinks
  <2>3. PICK a, b : a = Min(links[o].children) /\ b = Max(links[o].children)
    OBVIOUS
  <2>4. {a, b} = {x, y} /\ a # b
    BY <1>1, <2>2, <2>3, LeastAndGreatest
  <2>5. a \notin S /\ b \notin S \cup {a} /\ Quotable(a) /\ Quotable(b) /\ A = {a, b}
    BY <1>1, <2>1, <2>2, <2>4
  <2>6. HandleFilled(c, o, e) = Activate(Activate(c, a), b)
    BY <1>5, <2>1, <2>3 DEF HandleFilled, OTOCOFilled
  <2>7. Good(Activate(c, a), S \cup {a}, stored, wait \ {a})
    BY <2>5, ActivateAbsent
  <2>8. Good(Activate(Activate(c, a), b), (S \cup {a}) \cup {b}, stored, (wait \ {a}) \ {b})
    BY <2>5, <2>7, ActivateAbsent
  <2>9. (S \cup {a}) \cup {b} = S \cup A /\ (wait \ {a}) \ {b} = wait \ A
    BY <2>5
  <2>. QED  BY <1>5, <2>6, <2>8, <2>9
<1>6. A # {} => links[o].kind \in {"oto", "otoco"}
  BY <1>2 DEF KindLinks, Kinds, NoLinks, Activated
<1>. QED  BY <1>3, <1>4, <1>5, <1>6

\* handle_filled of an order with a counterparty: that one is withdrawn, and
\* from an OTOCO the order itself.
LEMMA LegFilled ==
    ASSUME TypesSound, LinksSound, Live,
           NEW c, NEW S, NEW stored, NEW wait, Good(c, S, stored, wait),
           NEW o \in Known, o \in S,
           NEW d, d = links[o].peer, d # NoOrder,
           links[o].kind = "otoco" => d \in S,
           NEW e, NEW D, D = PairGone(o)
    PROVE  \/ Good(HandleFilled(c, o, e), S \ D, stored \ D, wait)
           \/ Raised(HandleFilled(c, o, e))
<1>1. PeerLinks(o) /\ d \in Known /\ links[d].peer = o /\ d # o /\ links[o].children = {}
  BY LinkFacts DEF PeerLinks
<1>2. Quotable(o) /\ Quotable(d) /\ o \in OrderIds /\ d \in OrderIds
  BY <1>1, LiveFacts
<1>3. CASE links[o].kind = "oco"
  <2>1. HandleFilled(c, o, e) = Discard(Withdraw(c, d), {d}) /\ D = {d}
    BY <1>3 DEF HandleFilled, OCOFilled, PairGone
  <2>2. CASE d \in S
    <3>1. Good(Withdraw(c, d), S \ {d}, stored, wait)
      BY <1>2, <2>2, WithdrawQuoted
    <3>2. Good(Discard(Withdraw(c, d), {d}), S \ {d}, stored \ {d}, wait)
      BY <1>2, <3>1, StoreFew
    <3>. QED  BY <2>1, <3>2
  <2>3. CASE d \notin S
    <3>1. Withdraw(c, d) = c \/ Raised(Withdraw(c, d))
      BY <1>2, <2>3, WithdrawAbsent
    <3>2. CASE Withdraw(c, d) = c
      <4>1. S \ {d} = S
        BY <2>3
      <4>2. Good(Discard(c, {d}), S, stored \ {d}, wait)
        BY <1>2, StoreFew
      <4>. QED  BY <2>1, <3>2, <4>1, <4>2
    <3>3. CASE Raised(Withdraw(c, d))
      BY <2>1, <3>3, RaisedStays
    <3>. QED  BY <3>1, <3>2, <3>3
  <2>. QED  BY <2>2, <2>3
<1>4. CASE links[o].kind = "otoco"
  <2>1. /\ HandleFilled(c, o, e) = Discard(Withdraw(Withdraw(c, d), o), {d, o})
        /\ D = {d, o} /\ d \in S /\ o \in S \ {d}
    BY <1>1, <1>4 DEF HandleFilled, OTOCOFilled, WithdrawPair, PairGone
  <2>2. Good(Withdraw(c, d), S \ {d}, stored, wait)
    BY <1>2, <2>1, WithdrawQuoted
  <2>3. Good(Withdraw(Withdraw(c, d), o), (S \ {d}) \ {o}, stored, wait)
    BY <1>2, <2>1, <2>2, WithdrawQuoted
  <2>4. (S \ {d}) \ {o} = S \ D
    BY <2>1
  <2>5. PICK c2 : c2 = Withdraw(Withdraw(c, d), o)
    OBVIOUS
  <2>6. Good(c2, S \ D, stored, wait)
    BY <2>3, <2>4, <2>5
  <2>7. Good(Discard(c2, {d, o}), S \ D, stored \ {d, o}, wait)
    BY <1>2, <2>6, StoreFew
  <2>. QED  BY <2>1, <2>5, <2>7
<1>. QED  BY <1>1, <1>3, <1>4 DEF PeerLinks

\* What a trade does to the maker: its strategy, then the removal of a maker
\* that is filled.  An exception is due to a counterparty.
LEMMA MakerFilled ==
    ASSUME TypesSound, LinksSound, Live,
           NEW c, NEW S, NEW stored, NEW wait, Good(c, S, stored, wait),
           NEW m \in Known, m \in S, NEW d, d = links[m].peer,
           links[m].kind = "otoco" /\ d # NoOrder => d \in S,
           NEW e, NEW B, B = Activated(m, e), \A x \in B : x \notin S, B \subseteq stored,
           NEW D, D = MakerGone(m, e), NEW c3, c3 = AfterMaker(c, m, e)
    PROVE  \/ Good(c3, (S \cup B) \ D, stored \ D, wait \ B)
           \/ Raised(c3) /\ d # NoOrder
<1>1. Quotable(m) /\ m \in OrderIds /\ PeerLinks(m) /\ KindLinks(m)
  BY LiveFacts, LinkFacts
<1> PICK c2 : c2 = HandleFilled(c, m, e)
  OBVIOUS
<1>2. CASE d = NoOrder
  <2>1. Good(c2, S \cup B, stored, wait \ B)
    <3>1. stored \cup B = stored
      OBVIOUS
    <3>2. Good(c2, S \cup B, stored \cup B, wait \ B) \/ Good(c2, S \cup B, stored, wait \ B)
      BY <1>2, ParentFilled
    <3>. QED  BY <3>1, <3>2
  <2>2. CASE e # order[m].qty
    <3>1. c3 = c2 /\ (S \cup B) \ D = S \cup B /\ stored \ D = stored
      BY <1>2, <2>2 DEF AfterMaker, MakerGone
    <3>. QED  BY <2>1, <3>1
  <2>3. CASE e = order[m].qty
    <3>1. D = {m} /\ c3 = Discard(Withdraw(c2, m), {m}) /\ m \in S \cup B
      BY <1>2, <2>3 DEF AfterMaker, MakerGone
    <3>2. Good(Withdraw(c2, m), (S \cup B) \ {m}, stored, wait \ B)
      BY <1>1, <2>1, <3>1, WithdrawQuoted
    <3>3. Good(Discard(Withdraw(c2, m), {m}), (S \cup B) \ {m}, stored \ {m}, wait \ B)
      BY <1>1, <3>2, StoreFew
    <3>. QED  BY <3>1, <3>3
  <2>. QED  BY <2>2, <2>3
<1>3. CASE d # NoOrder
  <2>1. B = {} /\ links[m].kind \in {"oco", "otoco"} /\ d # m
    BY <1>1, <1>3 DEF PeerLinks, Activated
  <2>2. S \cup B = S /\ wait \ B = wait
    BY <2>1
  <2>3. PICK E : E = PairGone(m)
    OBVIOUS
  <2>4. Good(c2, S \ E, stored \ E, wait) \/ Raised(c2)
    BY <1>3, <2>3, LegFilled
  <2>5. CASE Raised(c2)
    <3>1. c3 = c2
      BY <2>5, RaisedStays DEF AfterMaker
    <3>. QED  BY <1>3, <2>5, <3>1
  <2>6. CASE e # order[m].qty /\ Good(c2, S \ E, stored \ E, wait)
    <3>1. c3 = c2 /\ E = D
      BY <1>3, <2>3, <2>6 DEF AfterMaker, MakerGone
    <3>. QED  BY <2>2, <2>6, <3>1
  <2>7. CASE e = order[m].qty /\ links[m].kind = "oco" /\ Good(c2, S \ E, stored \ E, wait)
    <3>1. E = {d} /\ m \in S \ E /\ D = {d, m} /\ c3 = Discard(Withdraw(c2, m), {m})
      BY <1>3, <2>1, <2>3, <2>7 DEF AfterMaker, MakerGone, PairGone
    <3>2. Good(Withdraw(c2, m), (S \ E) \ {m}, stored \ E, wait)
      BY <1>1, <2>7, <3>1, WithdrawQuoted
    <3>3. Good(Discard(Withdraw(c2, m), {m}), (S \ E) \ {m}, (stored \ E) \ {m}, wait)
      BY <1>1, <3>2, StoreFew
    <3>4. (S \ E) \ {m} = S \ D /\ (stored \ E) \ {m} = stored \ D
      BY <3>1
    <3>. QED  BY <2>2, <3>1, <3>3, <3>4
  <2>8. CASE e = order[m].qty /\ links[m].kind = "otoco" /\ Good(c2, S \ E, stored \ E, wait)
    <3>1. E = {m, d} /\ m \notin S \ E /\ D = E /\ c3 = Discard(Withdraw(c2, m), {m})
      BY <1>3, <2>1, <2>3, <2>8 DEF AfterMaker, MakerGone, PairGone
    <3>2. Withdraw(c2, m) = c2 \/ Raised(Withdraw(c2, m))
      BY <1>1, <2>8, <3>1, WithdrawAbsent
    <3>3. CASE Withdraw(c2, m) = c2
      <4>1. Good(Discard(c2, {m}), S \ E, (stored \ E) \ {m}, wait)
        BY <1>1, <2>8, StoreFew
      <4>2. (stored \ E) \ {m} = stored \ D
        BY <3>1
      <4>. QED  BY <2>2, <3>1, <3>3, <4>1, <4>2
    <3>4. CASE Raised(Withdraw(c2, m))
      BY <1>3, <3>1, <3>4, RaisedStays
    <3>. QED  BY <3>2, <3>3, <3>4
  <2>. QED  BY <2>1, <2>4, <2>5, <2>6, <2>7, <2>8
<1>. QED  BY <1>2, <1>3

-----------------------------------------------------------------------------
(***************************************************************************)
(* A trade.                                                                *)
(***************************************************************************)

\* What both kinds of trade change: the two orders are filled.
FillsBoth ==
    /\ exec' = [exec EXCEPT ![taker] = @ + TradeQuantity, ![Maker] = @ + TradeQuantity]
    /\ UNCHANGED <<order, links>>

\* A fill changes the taker and the maker only.
LEMMA FillsTwo ==
    ASSUME MSound, Matching, FillsBoth
    PROVE  /\ exec' \in [OrderIds -> Nat]
           /\ exec'[taker] = exec[taker] + TradeQuantity
           /\ exec'[Maker] = exec[Maker] + TradeQuantity
           /\ exec'[taker] <= order[taker].qty /\ exec'[Maker] <= order[Maker].qty
           /\ exec'[Maker] > 0
           /\ \A x \in OrderIds : x # taker /\ x # Maker => exec'[x] = exec[x]
           /\ order' = order /\ links' = links /\ Known' = Known
<1>1. PICK t, m, q : t = taker /\ m = Maker /\ q = TradeQuantity
  OBVIOUS
<1>2. /\ t \in OrderIds /\ m \in OrderIds /\ m # t /\ q \in Nat /\ q > 0
      /\ exec[t] + q <= order[t].qty /\ exec[m] + q <= order[m].qty
  BY <1>1, LinkedMakerFacts
<1>3. exec \in [OrderIds -> Nat]
  BY DEF MSound, TypesSound, MTypeOK
<1>4. exec' = [exec EXCEPT ![t] = @ + q, ![m] = @ + q]
  BY <1>1 DEF FillsBoth
<1>5. /\ exec' \in [OrderIds -> Nat] /\ exec'[t] = exec[t] + q /\ exec'[m] = exec[m] + q
      /\ exec[m] \in Nat
      /\ \A x \in OrderIds : x # t /\ x # m => exec'[x] = exec[x]
  BY <1>2, <1>3, <1>4
<1>6. exec'[m] > 0
  BY <1>2, <1>5
<1>. QED  BY <1>1, <1>2, <1>5, <1>6 DEF FillsBoth, Known

\* The parts of the invariant that do not depend on whether the engine goes on.
LEMMA FillKeeps ==
    ASSUME MSound, Matching, FillsBoth
    PROVE  LinksSound' /\ ChildrenNotEarly' /\ OneLegTrades'
<1>1. PICK t, m, q : t = taker /\ m = Maker /\ q = TradeQuantity
  OBVIOUS
<1>2. /\ t \in Known /\ m \in Known /\ m # t /\ m \in store \ waiting
      /\ t \in OrderIds /\ m \in OrderIds
      /\ \A x \in OrderIds : x # t /\ x # m => exec'[x] = exec[x]
      /\ order' = order /\ links' = links /\ Known' = Known
  BY <1>1, LinkedMakerFacts, FillsTwo
<1>3. pc = "matching" /\ Live /\ Remaining(t) > 0
  BY <1>1 DEF Matching, Live
<1>4. /\ TypesSound /\ LinksSound /\ ChildrenNotEarly /\ OneLegTrades
      /\ StoreSound /\ FamilySound /\ PairSound
      /\ links[t].peer = NoOrder /\ links[t].parent = NoOrder
  BY <1>1, <1>3, LiveParts DEF TakerSound
<1>5. /\ Known \subseteq OrderIds /\ Remaining(m) > 0
      /\ \A x \in Known : exec[x] \in Nat
      /\ links[m].kind \in Kinds
  BY <1>2, <1>3, <1>4, LiveFacts DEF StoreSound, TypesSound, MTypeOK, Links
<1>7. LinksSound'
  <2>1. \A o \in OrderIds \ Known : links[o] = NoLinks /\ exec'[o] = 0
    BY <1>2, <1>4 DEF LinksSound
  <2>2. ASSUME NEW o \in Known
        PROVE  PeerLinks(o)' /\ ChildLinks(o)' /\ KindLinks(o)'
    <3>1. PeerLinks(o) /\ ChildLinks(o) /\ KindLinks(o)
      BY <1>4, LinkFacts
    <3>. QED  BY <1>2, <3>1 DEF PeerLinks, ChildLinks, KindLinks
  <2>. QED  BY <1>2, <2>1, <2>2 DEF LinksSound
<1>8. ChildrenNotEarly'
  <2>1. SUFFICES ASSUME NEW o \in Known, links[o].parent # NoOrder, exec'[o] > 0
                 PROVE  Remaining(links[o].parent)' = 0
    BY <1>2 DEF ChildrenNotEarly
  <2>2. PICK p : p = links[o].parent
    OBVIOUS
  <2>3. p \in Known /\ o # t
    BY <1>4, <2>1, <2>2, LinkFacts DEF ChildLinks
  <2>4. Remaining(p) = 0
    <3>1. CASE o = m
      BY <1>2, <1>4, <2>1, <2>2, <3>1 DEF FamilySound
    <3>2. CASE o # m
      <4>1. exec[o] > 0
        BY <1>2, <1>5, <2>1, <2>3, <3>2
      <4>. QED  BY <1>4, <2>1, <2>2, <4>1 DEF ChildrenNotEarly
    <3>. QED  BY <3>1, <3>2
  <2>5. p # t /\ p # m
    BY <1>3, <1>5, <2>4
  <2>6. exec'[p] = exec[p]
    BY <1>2, <1>5, <2>3, <2>5
  <2>7. Remaining(links[o].parent)' = order[p].qty - exec'[p]
    BY <1>2, <2>2 DEF Remaining
  <2>. QED  BY <2>4, <2>6, <2>7 DEF Remaining
<1>9. links[m].peer # NoOrder => exec[links[m].peer] = 0 /\ links[m].peer # m
  <2>1. SUFFICES ASSUME links[m].peer # NoOrder
                 PROVE  exec[links[m].peer] = 0 /\ links[m].peer # m
    OBVIOUS
  <2>2. PICK d : d = links[m].peer
    OBVIOUS
  <2>3. /\ d \in Known /\ d # m /\ links[d].peer = m /\ links[d].kind = links[m].kind
        /\ links[m].kind \in {"oco", "otoco"} /\ m # NoOrder
    BY <1>2, <1>4, <2>1, <2>2, LinkFacts DEF PeerLinks, OrderIds, NoOrder
  <2>4. CASE links[m].kind = "oco"
    <3>1. exec[d] = 0 \/ exec[m] > 0
      BY <1>2, <1>4, <2>2, <2>4 DEF PairSound
    <3>2. exec[m] = 0 \/ exec[d] = 0
      BY <1>2, <1>4, <2>1, <2>2 DEF OneLegTrades
    <3>. QED  BY <2>2, <2>3, <3>1, <3>2
  <2>5. CASE links[m].kind = "otoco"
    <3>1. d \in store
      BY <1>2, <1>4, <2>1, <2>2, <2>5 DEF PairSound
    <3>2. exec[d] = 0
      BY <1>4, <2>3, <2>5, <3>1 DEF PairSound
    <3>. QED  BY <2>2, <2>3, <3>2
  <2>. QED  BY <2>3, <2>4, <2>5
<1>10. OneLegTrades'
  <2>1. SUFFICES ASSUME NEW o \in Known, NEW d, d = links[o].peer, d # NoOrder
                 PROVE  exec'[o] = 0 \/ exec'[d] = 0
    BY <1>2 DEF OneLegTrades
  <2>2. d \in Known /\ links[d].peer = o /\ d # o /\ o # NoOrder
    BY <1>4, <1>5, <2>1, LinkFacts DEF PeerLinks, OrderIds, NoOrder
  <2>3. o # t /\ d # t
    BY <1>4, <2>1, <2>2
  <2>4. CASE o = m
    BY <1>2, <1>5, <1>9, <2>1, <2>2, <2>3, <2>4
  <2>5. CASE d = m
    BY <1>2, <1>5, <1>9, <2>1, <2>2, <2>3, <2>5
  <2>6. CASE o # m /\ d # m
    BY <1>2, <1>4, <1>5, <2>1, <2>2, <2>3, <2>6 DEF OneLegTrades
  <2>. QED  BY <2>4, <2>5, <2>6
<1>. QED  BY <1>7, <1>8, <1>10

\* The types of a step that receives nothing.
LEMMA TypesStay ==
    ASSUME TypesSound, order' = order, links' = links,
           exec' \in [OrderIds -> Nat], paid' \in [OrderIds -> Nat],
           cancels' \in [OrderIds -> Nat], wallet' \in Wallets,
           book' \in Books, store' \in SUBSET OrderIds, waiting' \in SUBSET OrderIds,
           pc' \in PCs \cup {"dead_event", "dead_link"},
           taker' \in OrderIds \cup {NoOrder}
    PROVE  TypesSound'
  BY DEF TypesSound, MTypeOK

\* The sums and the balances of a trade.
LEMMA TradeTypes ==
    ASSUME MSound, Matching, NEW t, NEW m, NEW q, NEW p,
           t = taker, m = Maker, q = TradeQuantity, p = book.best[MakerSide]
    PROVE  /\ [paid EXCEPT ![t] = @ + q * p, ![m] = @ + q * p] \in [OrderIds -> Nat]
           /\ Settle(Settle(HoldAtFirstFill(HoldAtFirstFill(wallet, m), t),
                            order[t], q, p), order[m], q, p) \in Wallets
<1>1. /\ t \in Known /\ m \in Known /\ t \in OrderIds /\ m \in OrderIds /\ m # t
      /\ q \in Nat /\ p \in Prices
  BY LinkedMakerFacts
<1>2. p \in Nat /\ q * p \in Nat
  <2>1. p \in Nat
    BY <1>1, MaxPriceAssumption DEF Prices
  <2>. QED  BY <1>1, <2>1
<1>3. Live /\ TypesSound /\ wallet \in Wallets /\ paid \in [OrderIds -> Nat]
  BY DEF MSound, TypesSound, MTypeOK, Matching, Live
<1>4. order[t] \in Requests /\ order[m] \in Requests
  BY <1>1, <1>3, LiveFacts
<1>5. [paid EXCEPT ![t] = @ + q * p, ![m] = @ + q * p] \in [OrderIds -> Nat]
  <2> DEFINE v == q * p
  <2>1. v \in Nat
    BY <1>2
  <2> HIDE DEF v
  <2>2. [paid EXCEPT ![t] = @ + v, ![m] = @ + v] \in [OrderIds -> Nat]
    BY <1>1, <1>3, <2>1
  <2>. QED  BY <2>2 DEF v
<1>6. ASSUME NEW w \in Wallets, NEW x, order[x] \in Requests
      PROVE  HoldAtFirstFill(w, x) \in Wallets /\ Settle(w, order[x], q, p) \in Wallets
  <2>1. Hold(w, order[x]) \in Wallets /\ Settle(w, order[x], q, p) \in Wallets
    <3>1. q \in Int /\ p \in Int /\ order[x] \in Requests
      BY <1>1, <1>2, <1>6
    <3>. QED  BY <3>1, EngineWallets
  <2>. QED  BY <2>1 DEF HoldAtFirstFill
<1>7. HoldAtFirstFill(HoldAtFirstFill(wallet, m), t) \in Wallets
  BY <1>3, <1>4, <1>6
<1>. QED  BY <1>4, <1>5, <1>6, <1>7

\* The orders that a trade makes active and those it takes away.
LEMMA TradeSets ==
    ASSUME MSound, Matching, NEW t, NEW m, NEW q,
           t = taker, m = Maker, q = TradeQuantity,
           NEW A, A = Activated(t, exec[t] + q),
           NEW B, B = Activated(m, exec[m] + q),
           NEW D, D = MakerGone(m, exec[m] + q)
    PROVE  /\ A \subseteq Known /\ B \subseteq Known
           /\ \A x \in Known : x \in A <=> links[x].parent = t /\ exec[t] + q = order[t].qty
           /\ \A x \in Known : x \in B <=> links[x].parent = m /\ exec[m] + q = order[m].qty
           /\ \A x : x \in D <=>
                 \/ x = m /\ (exec[m] + q = order[m].qty
                                \/ (links[m].kind = "otoco" /\ links[m].peer # NoOrder))
                 \/ x = links[m].peer /\ x # NoOrder
           /\ A \subseteq waiting \ store
           /\ B \subseteq waiting \cap store
           /\ A \cap D = {} /\ B \cap D = {}
<1>1. /\ t \in Known /\ m \in Known /\ m # t /\ m \in store \ waiting
      /\ pc = "matching" /\ Live /\ Remaining(t) > 0
  BY LinkedMakerFacts DEF Matching, Live
<1>2. /\ TypesSound /\ LinksSound /\ StoreSound /\ FamilySound /\ PairSound
      /\ links[t].peer = NoOrder /\ links[t].parent = NoOrder
      /\ links[t].children \subseteq waiting \ store
  BY <1>1, LiveParts DEF TakerSound
<1>3. ASSUME NEW o \in Known
      PROVE  /\ links[o].children \subseteq Known
             /\ \A x \in Known : x \in links[o].children <=> links[x].parent = o
  <2>1. \A x \in links[o].children : x \in Known /\ links[x].parent = o
    BY <1>2, LinkFacts DEF KindLinks
  <2>2. ASSUME NEW x \in Known, links[x].parent = o
        PROVE  x \in links[o].children
    <3>1. o # NoOrder
      BY <1>1, <1>2, LiveFacts DEF OrderIds, NoOrder
    <3>. QED  BY <1>2, <2>2, <3>1, LinkFacts DEF ChildLinks
  <2>. QED  BY <2>1, <2>2
<1>4. /\ A \subseteq Known
      /\ \A x \in Known : x \in A <=> links[x].parent = t /\ exec[t] + q = order[t].qty
      /\ A \subseteq waiting \ store
  BY <1>1, <1>2, <1>3 DEF Activated
<1>5. /\ B \subseteq Known
      /\ \A x \in Known : x \in B <=> links[x].parent = m /\ exec[m] + q = order[m].qty
  BY <1>1, <1>3 DEF Activated
<1>6. m # NoOrder /\ B \subseteq waiting \cap store
  <2>1. m # NoOrder
    BY <1>1, <1>2, LiveFacts DEF OrderIds, NoOrder
  <2>. QED  BY <1>1, <1>2, <1>5, <2>1 DEF FamilySound
<1>7. \A x : x \in D <=>
                 \/ x = m /\ (exec[m] + q = order[m].qty
                                \/ (links[m].kind = "otoco" /\ links[m].peer # NoOrder))
                 \/ x = links[m].peer /\ x # NoOrder
  BY DEF MakerGone, PairGone
<1>8. ASSUME NEW x \in A \cup B
      PROVE  x \notin D
  <2>1. x \in waiting /\ x \in Known /\ (links[x].parent = t \/ links[x].parent = m)
    BY <1>4, <1>5, <1>6
  <2>2. x # m
    BY <1>1, <2>1
  <2>3. ASSUME x = links[m].peer, x # NoOrder PROVE FALSE
    <3>1. links[x].parent = links[m].parent /\ links[m].kind \in {"oco", "otoco"}
      BY <1>1, <1>2, <2>3, LinkFacts DEF PeerLinks
    <3>2. links[m].parent # m
      BY <1>1, <1>2, <1>6, LinkFacts DEF ChildLinks
    <3>3. links[m].parent = t
      BY <2>1, <3>1, <3>2
    <3>4. m \in links[t].children
      BY <1>1, <1>3, <3>3
    <3>. QED  BY <1>1, <1>2, <3>4
  <2>. QED  BY <1>7, <2>2, <2>3
<1>. QED  BY <1>4, <1>5, <1>6, <1>7, <1>8

\* The order store with the children that a trade has made active: those of an
\* OTO are stored by its handler, those of an OTOCO only after the match.
TradeStore(t, A) == IF links[t].kind = "oto" THEN store \cup A ELSE store

\* The context after the handlers of taker and maker.
LEMMA TradeContext ==
    ASSUME MSound, Matching, NEW t, NEW m, NEW q,
           t = taker, m = Maker, q = TradeQuantity,
           NEW A, A = Activated(t, exec[t] + q),
           NEW B, B = Activated(m, exec[m] + q),
           NEW D, D = MakerGone(m, exec[m] + q),
           NEW c3, c3 = AfterMaker(HandleFilled(Context, t, exec[t] + q), m, exec[m] + q),
           NEW T, T = TradeStore(t, A)
    PROVE  \/ Good(c3, (((store \ waiting) \cup A) \cup B) \ D, T \ D, (waiting \ A) \ B)
           \/ Raised(c3) /\ links[m].peer # NoOrder
<1>1. /\ t \in Known /\ m \in Known /\ m # t /\ m \in store \ waiting
      /\ JustQuoted = {} /\ Live /\ pc = "matching"
  BY LinkedMakerFacts DEF Matching, Live
<1>2. /\ TypesSound /\ LinksSound /\ PairSound /\ links[t].peer = NoOrder
      /\ Holds(book, (store \ waiting) \cup JustQuoted, order)
  BY <1>1, LiveParts DEF TakerSound
<1>3. PICK S, T2 : S = store \ waiting /\ T2 = store
  OBVIOUS
<1>4. Good(Context, S, store, waiting)
  <2>1. Holds(book, S, order)
    BY <1>1, <1>2, <1>3
  <2>2. Context \in Contexts
    BY <1>2 DEF Context, Ctx, Contexts, TypesSound, MTypeOK
  <2>. QED  BY <2>1, <2>2 DEF Good, Context, Ctx
<1>5. /\ A \subseteq waiting \ store /\ B \subseteq waiting \cap store
      /\ A \subseteq Known /\ B \subseteq Known
      /\ \A x \in Known : x \in A => links[x].parent = t
      /\ \A x \in Known : x \in B => links[x].parent = m
  BY TradeSets
<1>6. PICK c1 : c1 = HandleFilled(Context, t, exec[t] + q)
  OBVIOUS
<1>7. Good(c1, S \cup A, T, waiting \ A)
  <2>1. \A x \in A : x \notin S
    BY <1>3, <1>5
  <2>2. /\ links[t].kind = "oto" => Good(c1, S \cup A, store \cup A, waiting \ A)
        /\ links[t].kind # "oto" => Good(c1, S \cup A, store, waiting \ A)
    BY <1>1, <1>2, <1>4, <1>6, <2>1, ParentFilled
  <2>. QED  BY <2>2 DEF TradeStore
<1>8. PICK S1, w1 : S1 = S \cup A /\ w1 = waiting \ A
  OBVIOUS
<1>9. Good(c1, S1, T, w1)
  BY <1>7, <1>8
<1>10. PICK d : d = links[m].peer
  OBVIOUS
<1>11. /\ m \in S1 /\ (links[m].kind = "otoco" /\ d # NoOrder => d \in S1)
       /\ \A x \in B : x \notin S1
       /\ B \subseteq T
  <2>1. links[m].kind = "otoco" /\ d # NoOrder => d \in store \ waiting
    BY <1>1, <1>2, <1>10 DEF PairSound
  <2>2. B \cap A = {}
    BY <1>1, <1>5
  <2>. QED  BY <1>1, <1>3, <1>5, <1>8, <2>1, <2>2 DEF TradeStore
<1>12. c3 = AfterMaker(c1, m, exec[m] + q)
  BY <1>6
<1>13. \/ Good(c3, (S1 \cup B) \ D, T \ D, w1 \ B)
       \/ Raised(c3) /\ d # NoOrder
  <2> HIDE DEF AfterMaker
  <2>. QED  BY <1>1, <1>2, <1>9, <1>10, <1>11, <1>12, MakerFilled
<1>. QED  BY <1>3, <1>8, <1>10, <1>13

\* The running engine after a trade.
LEMMA TradeLive ==
    ASSUME MSound, Matching, FillsBoth, ~Unloggable(taker),
           NEW t, NEW m, NEW q, t = taker, m = Maker, q = TradeQuantity,
           NEW A, A = Activated(t, exec[t] + q),
           NEW B, B = Activated(m, exec[m] + q),
           NEW D, D = MakerGone(m, exec[m] + q),
           NEW T, T = TradeStore(t, A),
           Holds(book', (((store \ waiting) \cup A) \cup B) \ D, order),
           store' = T \ D, waiting' = (waiting \ A) \ B,
           pc' = pc, taker' = taker,
           \A x \in OrderIds : cancels'[x] \in Nat /\ cancels'[x] >= cancels[x],
           links[m].kind = "oco" => cancels'[links[m].peer] > 0
    PROVE  LiveSound'
<1>1. /\ t \in Known /\ m \in Known /\ m # t /\ m \in store \ waiting
      /\ t \in OrderIds /\ m \in OrderIds /\ Live /\ pc = "matching" /\ Remaining(t) > 0
  BY LinkedMakerFacts DEF Matching, Live
<1>2. /\ TypesSound /\ LinksSound /\ StoreSound /\ WaitingSound /\ FamilySound /\ PairSound
      /\ links[t].peer = NoOrder /\ links[t].parent = NoOrder /\ t \notin store
      /\ t \notin waiting /\ links[t].children \subseteq waiting \ store
  BY <1>1, LiveParts DEF TakerSound
<1>3. /\ Known \subseteq OrderIds /\ NoOrder \notin OrderIds
      /\ \A x \in Known : /\ order[x].qty \in Nat /\ order[x].qty > 0
                          /\ exec[x] \in Nat
  BY <1>1, <1>2, LiveFacts DEF OrderIds, NoOrder
<1>4. /\ A \subseteq Known /\ B \subseteq Known
      /\ \A x \in Known : x \in A <=> links[x].parent = t /\ exec[t] + q = order[t].qty
      /\ \A x \in Known : x \in B <=> links[x].parent = m /\ exec[m] + q = order[m].qty
      /\ \A x : x \in D <=>
            \/ x = m /\ (exec[m] + q = order[m].qty
                           \/ (links[m].kind = "otoco" /\ links[m].peer # NoOrder))
            \/ x = links[m].peer /\ x # NoOrder
      /\ A \subseteq waiting \ store
      /\ B \subseteq waiting \cap store
      /\ A \cap D = {} /\ B \cap D = {}
  BY TradeSets
<1>5. /\ exec'[t] = exec[t] + q /\ exec'[m] = exec[m] + q
      /\ exec'[t] <= order[t].qty /\ exec'[m] <= order[m].qty /\ exec'[m] > 0
      /\ exec'[t] \in Nat /\ exec'[m] \in Nat
      /\ \A x \in OrderIds : x # t /\ x # m => exec'[x] = exec[x]
      /\ order' = order /\ links' = links /\ Known' = Known
  <2>1. exec' \in [OrderIds -> Nat]
    BY FillsTwo
  <2>. QED  BY <1>1, <2>1, FillsTwo
<1>6. /\ \A x \in Known : Remaining(x)' = order[x].qty - exec'[x]
      /\ \A x \in Known : Remaining(x) = order[x].qty - exec[x]
  BY <1>5 DEF Remaining
<1>7. \A x \in A : links[t].kind \in {"oto", "otoco"} /\ links[x].kind = links[t].kind
                    /\ (links[t].kind = "oto" => links[x].peer = NoOrder)
  <2>1. SUFFICES ASSUME NEW x \in A
                 PROVE  links[t].kind \in {"oto", "otoco"} /\ links[x].kind = links[t].kind
                        /\ (links[t].kind = "oto" => links[x].peer = NoOrder)
    OBVIOUS
  <2>2. x \in Known /\ links[x].parent = t
    BY <1>4, <2>1
  <2>3. ChildLinks(x) /\ KindLinks(x) /\ KindLinks(t) /\ t # NoOrder
    BY <1>1, <1>2, <1>3, <2>2, LinkFacts
  <2>4. links[x].kind = links[t].kind /\ links[t].children # {} /\ links[t].kind \in Kinds
    BY <1>1, <1>2, <2>2, <2>3 DEF ChildLinks, TypesSound, MTypeOK, Links
  <2>5. links[t].kind \notin {"single", "oco"}
    BY <2>3, <2>4 DEF KindLinks, NoLinks
  <2>. QED  BY <2>3, <2>4, <2>5 DEF KindLinks, Kinds
<1>8. JustQuoted' = (IF links[t].kind = "otoco" THEN A ELSE {})
  <2>1. JustQuoted' = IF links[t].kind = "otoco" /\ Remaining(t)' = 0
                      THEN links[t].children ELSE {}
    BY <1>1, <1>5 DEF JustQuoted, Remaining
  <2>2. Remaining(t)' = 0 <=> exec[t] + q = order[t].qty
    BY <1>1, <1>3, <1>5, <1>6
  <2>. QED  BY <2>1, <2>2 DEF Activated
<1>9. T \cap waiting \subseteq store \cup A /\ store \subseteq T /\ T \subseteq store \cup A
      /\ (links[t].kind = "oto" => A \subseteq T) /\ (links[t].kind # "oto" => T = store)
      /\ (links[t].kind = "oto" => T = store \cup A)
  BY DEF TradeStore
<1>10. Holds(book, (store \ waiting) \cup JustQuoted, order)'
  <2>1. (store' \ waiting') \cup JustQuoted' = (((store \ waiting) \cup A) \cup B) \ D
    <3>1. CASE links[t].kind = "otoco"
      BY <1>4, <1>8, <1>9, <3>1
    <3>2. CASE links[t].kind = "oto"
      BY <1>4, <1>8, <1>9, <3>2
    <3>3. CASE links[t].kind \notin {"oto", "otoco"}
      <4>1. A = {}
        BY <1>7, <3>3
      <4>. QED  BY <1>4, <1>8, <1>9, <3>3, <4>1
    <3>. QED  BY <3>1, <3>2, <3>3
  <2>. QED  BY <1>5, <2>1
<1>11. StoreSound'
  <2>1. SUFFICES ASSUME NEW o \in store'
                 PROVE  /\ o \in Known /\ Remaining(o)' > 0
                        /\ links[o].kind # "single" => order[o].user = System
    BY <1>5 DEF StoreSound
  <2>2. o \in T /\ o \notin D
    BY <2>1
  <2>3. CASE o \in store
    <3>1. o \in Known /\ Remaining(o) > 0 /\ (links[o].kind # "single" => order[o].user = System)
      BY <1>2, <2>3 DEF StoreSound
    <3>2. Remaining(o)' > 0
      BY <1>1, <1>2, <1>3, <1>4, <1>5, <1>6, <2>2, <2>3, <3>1
    <3>. QED  BY <3>1, <3>2
  <2>4. CASE o \in A /\ o \notin store
    <3>1. o \in Known /\ o \in waiting /\ links[o].parent = t /\ exec[o] = 0 /\ t # NoOrder
      BY <1>1, <1>2, <1>3, <1>4, <2>4 DEF WaitingSound
    <3>2. o # t /\ o # m
      BY <1>1, <1>2, <3>1
    <3>3. Remaining(o)' > 0
      BY <1>3, <1>5, <1>6, <3>1, <3>2
    <3>4. order[o].user = System
      <4>1. order[t].user = order[o].user
        BY <1>2, <3>1, LinkFacts DEF ChildLinks
      <4>2. links[t].kind # "single"
        BY <1>7, <2>4
      <4>. QED  BY <4>1, <4>2 DEF Unloggable
    <3>. QED  BY <3>1, <3>3, <3>4
  <2>. QED  BY <1>9, <2>2, <2>3, <2>4
<1>12. WaitingSound'
  <2>1. SUFFICES ASSUME NEW o \in waiting'
                 PROVE  o \in Known /\ links[o].parent # NoOrder /\ exec'[o] = 0
    BY <1>5 DEF WaitingSound
  <2>2. o \in waiting /\ o # t /\ o # m
    BY <1>1, <1>2, <2>1
  <2>. QED  BY <1>2, <1>3, <1>5, <2>2 DEF WaitingSound
<1>13. TakerSound'
  <2>1. t \notin store' /\ t \notin waiting'
    <3>1. t \notin A
      BY <1>1, <1>2, <1>3, <1>4
    <3>. QED  BY <1>2, <1>9, <3>1
  <2>2. Remaining(t)' >= 0
    BY <1>1, <1>3, <1>5, <1>6
  <2>3. ASSUME Remaining(t)' > 0 PROVE links[t].children \subseteq waiting' \ store'
    <3>1. exec[t] + q # order[t].qty
      BY <1>1, <1>3, <1>5, <1>6, <2>3
    <3>2. A = {}
      BY <3>1 DEF Activated
    <3>3. links[t].children \cap B = {}
      <4>1. \A x \in links[t].children : x \in Known /\ links[x].parent = t
        BY <1>1, <1>2, LinkFacts DEF KindLinks
      <4>. QED  BY <1>1, <1>4, <4>1
    <3>. QED  BY <1>2, <1>9, <3>2, <3>3
  <2>4. JustQuoted' \cap store' = {}
    BY <1>4, <1>8, <1>9
  <2>. QED  BY <1>1, <1>2, <1>5, <2>1, <2>2, <2>3, <2>4 DEF TakerSound, Remaining
<1>14. FamilySound'
  <2>1. SUFFICES ASSUME NEW o \in Known, NEW p, p = links[o].parent, p # NoOrder
                 PROVE  /\ o \in store' \cap waiting' <=> p \in store'
                        /\ o \notin waiting' => Remaining(p)' = 0
    BY <1>5 DEF FamilySound, Remaining
  <2>2. /\ p \in Known /\ p # o /\ links[p].parent = NoOrder /\ links[p].peer = NoOrder
    BY <1>2, <2>1, LinkFacts DEF ChildLinks
  <2>3. /\ o \in store \cap waiting <=> p \in store
        /\ o \notin waiting => Remaining(p) = 0
    BY <1>2, <2>1 DEF FamilySound
  <2>4. /\ p \notin A /\ (o \in A <=> p = t /\ exec[t] + q = order[t].qty)
        /\ (o \in B <=> p = m /\ exec[m] + q = order[m].qty)
    BY <1>1, <1>3, <1>4, <2>1, <2>2
  <2>5. CASE p = m
    <3>1. /\ o \notin A /\ links[m].peer = NoOrder /\ Remaining(m) > 0
          /\ o \in store \cap waiting
      BY <1>1, <1>2, <2>2, <2>3, <2>4, <2>5 DEF StoreSound
    <3>2. o \notin D
      BY <1>4, <2>2, <2>5, <3>1
    <3>3. CASE exec[m] + q = order[m].qty
      <4>1. p \in D /\ o \in B
        BY <1>4, <2>4, <2>5, <3>3
      <4>2. Remaining(p)' = 0
        BY <1>1, <1>3, <1>5, <1>6, <2>5, <3>3
      <4>. QED  BY <4>1, <4>2
    <3>4. CASE exec[m] + q # order[m].qty
      <4>1. p \notin D /\ o \notin B
        BY <1>4, <2>4, <2>5, <3>1, <3>4
      <4>. QED  BY <1>1, <1>9, <2>5, <3>1, <3>2, <4>1
    <3>. QED  BY <3>3, <3>4
  <2>6. CASE p = t
    <3>1. p \notin store' /\ o \in waiting /\ o \notin store /\ o \notin B
      <4>1. o \in links[t].children
        <5>1. ChildLinks(o)
          BY <1>2, LinkFacts
        <5>. QED  BY <2>1, <2>6, <5>1 DEF ChildLinks
      <4>. QED  BY <1>1, <1>2, <1>9, <2>4, <2>6, <4>1
    <3>2. CASE exec[t] + q = order[t].qty
      <4>1. o \in A
        BY <2>4, <2>6, <3>2
      <4>2. Remaining(p)' = 0
        BY <1>1, <1>3, <1>5, <1>6, <2>6, <3>2
      <4>. QED  BY <3>1, <4>1, <4>2
    <3>3. CASE exec[t] + q # order[t].qty
      <4>1. o \notin A
        BY <2>4, <3>3
      <4>. QED  BY <1>9, <3>1, <4>1
    <3>. QED  BY <3>2, <3>3
  <2>7. CASE p # m /\ p # t
    <3>1. o \notin A /\ o \notin B
      BY <2>4, <2>7
    <3>2. p \notin D
      <4>1. p # links[m].peer
        BY <1>1, <1>2, <1>3, <2>1, <2>2, LinkFacts DEF PeerLinks
      <4>. QED  BY <1>4, <2>7, <4>1
    <3>3. o \in store \cap waiting => o \notin D
      <4>1. o \in waiting => o # m
        BY <1>1
      <4>2. ASSUME o = links[m].peer, o \in waiting PROVE FALSE
        <5>1. o # NoOrder
          BY <1>3, <2>1
        <5>2. /\ links[m].kind \in {"oco", "otoco"} /\ links[m].parent = links[o].parent
              /\ links[o].kind = links[m].kind
          BY <1>1, <1>2, <4>2, <5>1, LinkFacts DEF PeerLinks
        <5>3. links[m].kind # "oco"
          BY <1>1, <1>2, <2>1, <5>2, LinkFacts DEF KindLinks
        <5>. QED  BY <1>1, <1>2, <4>2, <5>1, <5>2, <5>3 DEF PairSound
      <4>. QED  BY <1>4, <4>1, <4>2
    <3>4. o \in store' \cap waiting' <=> o \in store \cap waiting
      BY <1>9, <3>1, <3>3
    <3>5. p \in store' <=> p \in store
      BY <1>9, <2>4, <3>2
    <3>6. Remaining(p)' = Remaining(p)
      BY <1>3, <1>5, <1>6, <2>2, <2>7
    <3>7. o \in waiting' <=> o \in waiting
      BY <3>1
    <3>. QED  BY <2>3, <3>4, <3>5, <3>6, <3>7
  <2>. QED  BY <2>5, <2>6, <2>7
<1>15. PairSound'
  <2>1. SUFFICES ASSUME NEW o \in store', NEW d, d = links[o].peer
                 PROVE  /\ links[o].kind = "oco" =>
                              \/ d \in store' /\ exec'[o] = 0 /\ exec'[d] = 0
                              \/ d \notin store' /\ exec'[o] > 0 /\ cancels'[d] > 0
                        /\ links[o].kind = "otoco" /\ d # NoOrder =>
                              d \in store' /\ exec'[o] = 0 /\ (o \in waiting' <=> d \in waiting')
    BY <1>5 DEF PairSound
  <2>2. o \in Known /\ o \notin D
    BY <1>5, <1>11, <2>1 DEF StoreSound
  <2>3. CASE d # NoOrder /\ links[o].kind \in {"oco", "otoco"}
    <3>1. /\ d \in Known /\ d # o /\ links[d].peer = o /\ links[d].kind = links[o].kind
          /\ links[d].parent = links[o].parent /\ o # t /\ d # t
      BY <1>2, <1>3, <2>1, <2>2, <2>3, LinkFacts DEF PeerLinks
    <3>2. o \in A => links[o].kind = "otoco"
      BY <1>7, <2>1, <2>3
    <3>3. o \in store
      BY <1>7, <1>9, <2>1, <2>2, <2>3, <3>2
    <3>4. d # m
      BY <1>3, <1>4, <2>2, <3>1
    <3>5. CASE o = m
      <4>1. links[m].kind = "oco" /\ d \in D
        BY <1>4, <2>1, <2>2, <2>3, <3>5
      <4>. QED  BY <1>5, <2>1, <3>5, <4>1
    <3>6. CASE o # m
      <4>1. d \notin D /\ (d \in store' <=> d \in T)
        BY <1>3, <1>4, <2>1, <2>2, <3>1, <3>4, <3>6, <1>1, <1>2, LinkFacts DEF PeerLinks
      <4>2. d \in T <=> d \in store
        BY <1>7, <1>9, <2>1, <2>2, <2>3, <3>1
      <4>3. exec'[o] = exec[o] /\ exec'[d] = exec[d]
        BY <1>3, <1>5, <2>2, <3>1, <3>4, <3>6
      <4>4. (o \in A <=> d \in A) /\ (o \in B <=> d \in B)
        BY <1>4, <2>2, <3>1
      <4>5. cancels[d] > 0 => cancels'[d] > 0
        <5>1. cancels'[d] \in Nat /\ cancels'[d] >= cancels[d] /\ cancels[d] \in Nat
          BY <1>2, <1>3, <3>1 DEF TypesSound
        <5>. QED  BY <5>1
      <4>. QED  BY <1>2, <2>1, <2>3, <3>3, <4>1, <4>2, <4>3, <4>4, <4>5 DEF PairSound
    <3>. QED  BY <3>5, <3>6
  <2>4. links[o].kind = "oco" => d # NoOrder
    BY <1>2, <2>1, <2>2, LinkFacts DEF KindLinks
  <2>. QED  BY <2>3, <2>4
<1>. QED  BY <1>10, <1>11, <1>12, <1>13, <1>14, <1>15 DEF LiveSound

\* SpotEngine._process_trade keeps the invariant.
LEMMA LinkedTradeMSound ==
    ASSUME MSound, LinkedTrade
    PROVE  MSound'
<1>1. PICK t, m, q, p : t = taker /\ m = Maker /\ q = TradeQuantity
                        /\ p = book.best[MakerSide]
  OBVIOUS
<1>2. /\ t \in Known /\ m \in Known /\ m # t /\ m \in store \ waiting
      /\ t \in OrderIds /\ m \in OrderIds /\ q \in Nat
      /\ Matching /\ Live /\ pc = "matching" /\ TypesSound /\ LinksSound
  BY <1>1, LinkedMakerFacts, LiveParts DEF LinkedTrade, Matching, Live
<1>3. /\ order[m].qty \in Nat /\ exec[m] \in Nat
      /\ wallet \in Wallets /\ cancels \in [OrderIds -> Nat] /\ taker \in OrderIds
  BY <1>1, <1>2, LiveFacts DEF TypesSound, MTypeOK
<1>4. PICK A, B, D : /\ A = Activated(t, exec[t] + q) /\ B = Activated(m, exec[m] + q)
                     /\ D = MakerGone(m, exec[m] + q)
  OBVIOUS
<1>5. PICK c3 : c3 = AfterMaker(HandleFilled(Context, t, exec[t] + q), m, exec[m] + q)
  OBVIOUS
<1>6. PICK X : X = CancelledByFill(t) \cup CancelledByFill(m)
  OBVIOUS
<1>7. Remaining(m) = q <=> exec[m] + q = order[m].qty
  BY <1>2, <1>3 DEF Remaining
<1>8. PICK w : w = Settle(Settle(HoldAtFirstFill(HoldAtFirstFill(wallet, m), t),
                            order[t], q, p), order[m], q, p)
  OBVIOUS
<1>9. /\ FillsBoth /\ ~Unloggable(taker)
      /\ paid' = [paid EXCEPT ![t] = @ + q * p, ![m] = @ + q * p]
      /\ cancels' = [o \in OrderIds |-> cancels[o] + IF o \in X THEN 1 ELSE 0]
      /\ Commit(c3, pc)
      /\ wallet' = (IF c3.raised THEN wallet ELSE w)
      /\ order' = order /\ taker' = taker /\ links' = links
  BY <1>1, <1>5, <1>6, <1>7, <1>8 DEF LinkedTrade, FillsBoth, AfterMaker
<1>10. LinksSound' /\ ChildrenNotEarly' /\ OneLegTrades'
  BY <1>2, <1>9, FillKeeps
<1>11. /\ exec' \in [OrderIds -> Nat] /\ exec'[m] > 0
       /\ paid' \in [OrderIds -> Nat] /\ w \in Wallets
  BY <1>1, <1>2, <1>8, <1>9, FillsTwo, TradeTypes
<1>12. /\ cancels' \in [OrderIds -> Nat]
       /\ \A x \in OrderIds : cancels'[x] >= cancels[x]
       /\ \A x \in OrderIds : x \in X => cancels'[x] > 0
  BY <1>3, <1>9
<1>13. links[m].peer # NoOrder =>
          links[m].peer \in X /\ links[m].peer \in OrderIds /\ links[m].peer \in Known
  <2>1. links[m].peer # NoOrder =>
           links[m].peer \in Known /\ links[m].kind \in {"oco", "otoco"}
    BY <1>2, LinkFacts DEF PeerLinks
  <2>2. links[m].peer # NoOrder => links[m].peer \in CancelledByFill(m)
    BY <2>1 DEF CancelledByFill
  <2>. QED  BY <1>2, <1>6, <2>1, <2>2, LiveFacts
<1>14. PICK T : T = TradeStore(t, A)
  OBVIOUS
<1>15. \/ Good(c3, (((store \ waiting) \cup A) \cup B) \ D, T \ D, (waiting \ A) \ B)
       \/ Raised(c3) /\ links[m].peer # NoOrder
  BY <1>1, <1>2, <1>4, <1>5, <1>14, TradeContext
<1>16. /\ book' = c3.book /\ store' = c3.store /\ waiting' = c3.waiting
       /\ (c3.raised => pc' = "dead_link") /\ (~c3.raised => pc' = pc)
  BY <1>9 DEF Commit
<1>17. c3 \in Contexts
  BY <1>15 DEF Good, Raised
<1>18. TypesSound'
  <2>1. /\ book' \in Books /\ store' \in SUBSET OrderIds /\ waiting' \in SUBSET OrderIds
        /\ c3.raised \in BOOLEAN
    BY <1>16, <1>17 DEF Contexts
  <2>2. pc' \in PCs \cup {"dead_event", "dead_link"}
    BY <1>2, <1>16 DEF PCs
  <2>3. wallet' \in Wallets
    BY <1>3, <1>9, <1>11
  <2>4. taker' \in OrderIds \cup {NoOrder}
    BY <1>3, <1>9
  <2>. QED  BY <1>2, <1>9, <1>11, <1>12, <2>1, <2>2, <2>3, <2>4, TypesStay
<1>19. CASE Raised(c3) /\ links[m].peer # NoOrder
  <2>1. pc' = "dead_link"
    BY <1>16, <1>19 DEF Raised
  <2>2. cancels'[links[m].peer] > 0
    BY <1>12, <1>13, <1>19
  <2>3. LinkFailuresExplained'
    <3>1. /\ m \in Known' /\ links'[m].peer # NoOrder /\ exec'[m] > 0
          /\ cancels'[links'[m].peer] > 0
      BY <1>2, <1>9, <1>11, <1>19, <2>2 DEF Known
    <3>. QED  BY <3>1 DEF LinkFailuresExplained
  <2>4. ~Live'
    BY <2>1 DEF Live
  <2>. QED  BY <1>10, <1>18, <2>3, <2>4 DEF MSound
<1>20. CASE Good(c3, (((store \ waiting) \cup A) \cup B) \ D, T \ D, (waiting \ A) \ B)
  <2>1. /\ pc' = pc /\ store' = T \ D /\ waiting' = (waiting \ A) \ B
        /\ Holds(book', (((store \ waiting) \cup A) \cup B) \ D, order)
    BY <1>16, <1>20 DEF Good
  <2>2. links[m].kind = "oco" => cancels'[links[m].peer] > 0
    <3>1. links[m].kind = "oco" => links[m].peer # NoOrder
      BY <1>2, LinkFacts DEF KindLinks
    <3>. QED  BY <1>12, <1>13, <3>1
  <2>3. \A x \in OrderIds : cancels'[x] \in Nat /\ cancels'[x] >= cancels[x]
    BY <1>12
  <2>4. LiveSound'
    BY <1>1, <1>2, <1>4, <1>9, <1>14, <2>1, <2>2, <2>3, TradeLive
  <2>5. LinkFailuresExplained'
    BY <1>2, <2>1 DEF LinkFailuresExplained
  <2>. QED  BY <1>10, <1>18, <2>4, <2>5 DEF MSound
<1>. QED  BY <1>15, <1>19, <1>20

\* The taker's event cannot be written.
LEMMA FillEventRaisesMSound ==
    ASSUME MSound, FillEventRaises
    PROVE  MSound'
<1>1. PICK t, m, q, p : t = taker /\ m = Maker /\ q = TradeQuantity
                        /\ p = book.best[MakerSide]
  OBVIOUS
<1>2. /\ Matching /\ FillsBoth /\ pc' = "dead_event"
      /\ paid' = [paid EXCEPT ![t] = @ + q * p, ![m] = @ + q * p]
      /\ UNCHANGED <<order, cancels, store, book, wallet, taker, links, waiting>>
  BY <1>1 DEF FillEventRaises, FillsBoth
<1>3. LinksSound' /\ ChildrenNotEarly' /\ OneLegTrades'
  BY <1>2, FillKeeps
<1>4. exec' \in [OrderIds -> Nat] /\ paid' \in [OrderIds -> Nat]
  BY <1>1, <1>2, FillsTwo, TradeTypes
<1>5. TypesSound'
  BY <1>2, <1>4 DEF MSound, TypesSound, MTypeOK
<1>6. ~Live' /\ LinkFailuresExplained'
  BY <1>2 DEF Live, LinkFailuresExplained
<1>. QED  BY <1>3, <1>5, <1>6 DEF MSound

-----------------------------------------------------------------------------
(***************************************************************************)
(* Cancellations.                                                          *)
(***************************************************************************)

\* The orders of D go together with their counterparties and their children.
Closed(D) ==
    \A o \in Known :
        /\ links[o].peer # NoOrder => (o \in D <=> links[o].peer \in D)
        /\ links[o].parent # NoOrder /\ o \in store \cap waiting =>
              (o \in D <=> links[o].parent \in D)

\* An order that is active and has no counterparty goes with its children.
LEMMA FamilyClosed ==
    ASSUME MSound, Live, NEW o \in store \ waiting, links[o].peer = NoOrder,
           NEW D, D = {o} \cup links[o].children
    PROVE  /\ Closed(D) /\ D \subseteq Known
           /\ (store \ waiting) \ D = (store \ waiting) \ {o}
<1>1. /\ LinksSound /\ StoreSound /\ FamilySound /\ TypesSound
  BY LiveParts
<1>2. o \in Known /\ o # NoOrder /\ KindLinks(o)
  <2>1. o \in Known
    BY <1>1 DEF StoreSound
  <2>. QED  BY <1>1, <2>1, LiveFacts, LinkFacts DEF OrderIds, NoOrder
<1>3. \A x \in links[o].children : x \in Known /\ links[x].parent = o /\ x \in waiting
                                   /\ links[x].peer # o
  <2>1. ASSUME NEW x \in links[o].children PROVE x \in Known /\ links[x].parent = o
    BY <1>2 DEF KindLinks
  <2>. QED  BY <1>1, <1>2, <2>1, LinkFacts DEF FamilySound, PeerLinks
<1>4. ASSUME NEW x \in Known, links[x].peer # NoOrder
      PROVE  x \in D <=> links[x].peer \in D
  <2>1. PICK d : d = links[x].peer
    OBVIOUS
  <2>2. d \in Known /\ links[d].peer = x /\ links[d].parent = links[x].parent /\ x # NoOrder
    BY <1>1, <1>4, <2>1, LinkFacts, LiveFacts DEF PeerLinks, OrderIds, NoOrder
  <2>3. x # o /\ d # o
    BY <1>4, <2>1, <2>2
  <2>4. \A y \in Known : links[y].parent = o => y \in links[o].children
    BY <1>1, <1>2, LinkFacts DEF ChildLinks
  <2>. QED  BY <1>3, <1>4, <2>1, <2>2, <2>3, <2>4
<1>5. ASSUME NEW x \in Known, links[x].parent # NoOrder, x \in store \cap waiting
      PROVE  x \in D <=> links[x].parent \in D
  <2>1. PICK p : p = links[x].parent
    OBVIOUS
  <2>2. ChildLinks(x) /\ x # o
    BY <1>1, <1>5, LinkFacts
  <2>3. x \in links[p].children /\ links[p].parent = NoOrder
    BY <1>5, <2>1, <2>2 DEF ChildLinks
  <2>4. p \in D => p = o
    BY <1>2, <1>3, <2>3
  <2>5. x \in D => p = o
    BY <1>3, <2>1, <2>2
  <2>. QED  BY <2>1, <2>3, <2>4, <2>5
<1>6. Closed(D)
  BY <1>4, <1>5 DEF Closed
<1>. QED  BY <1>2, <1>3, <1>6

\* Orders that go together may go.
LEMMA GoneSound ==
    ASSUME MSound, Live, NEW D, Closed(D),
           order' = order, exec' = exec, links' = links, taker' = taker,
           waiting' = waiting, pc' = pc, TypesSound',
           store' = store \ D,
           Holds(book', ((store \ waiting) \ D) \cup JustQuoted, order),
           \A x \in OrderIds : cancels'[x] >= cancels[x]
    PROVE  MSound'
<1>1. /\ TypesSound /\ LinksSound /\ ChildrenNotEarly /\ OneLegTrades
      /\ StoreSound /\ WaitingSound /\ TakerSound /\ FamilySound /\ PairSound
  BY LiveParts
<1>2. Known' = Known /\ JustQuoted' = JustQuoted
  BY DEF Known, JustQuoted, Remaining
<1>3. LinksSound' /\ ChildrenNotEarly' /\ OneLegTrades'
  <2>1. LinksSound'
    BY <1>1, <1>2 DEF LinksSound, PeerLinks, ChildLinks, KindLinks
  <2>2. ChildrenNotEarly' /\ OneLegTrades'
    BY <1>1, <1>2 DEF ChildrenNotEarly, OneLegTrades, Remaining
  <2>. QED  BY <2>1, <2>2
<1>4. LinkFailuresExplained'
  BY DEF LinkFailuresExplained, Live
<1>5. Holds(book, (store \ waiting) \cup JustQuoted, order)'
  <2>1. (store \ D) \ waiting = (store \ waiting) \ D
    OBVIOUS
  <2>. QED  BY <1>2, <2>1
<1>6. StoreSound' /\ WaitingSound' /\ TakerSound'
  <2>1. StoreSound'
    BY <1>1, <1>2 DEF StoreSound, Remaining
  <2>2. WaitingSound'
    BY <1>1, <1>2 DEF WaitingSound
  <2>3. TakerSound'
    BY <1>1, <1>2 DEF TakerSound, Remaining
  <2>. QED  BY <2>1, <2>2, <2>3
<1>7. FamilySound'
  <2>1. SUFFICES ASSUME NEW o \in Known, NEW p, p = links[o].parent, p # NoOrder
                 PROVE  /\ o \in (store \ D) \cap waiting <=> p \in store \ D
                        /\ o \notin waiting => Remaining(p)' = 0
    BY <1>2 DEF FamilySound, Remaining
  <2>2. /\ o \in store \cap waiting <=> p \in store
        /\ o \notin waiting => Remaining(p) = 0
        /\ o \in store \cap waiting => (o \in D <=> p \in D)
    BY <1>1, <2>1 DEF FamilySound, Closed
  <2>. QED  BY <2>2 DEF Remaining
<1>8. PairSound'
  <2>1. SUFFICES ASSUME NEW o \in store \ D, NEW d, d = links[o].peer
                 PROVE  /\ links[o].kind = "oco" =>
                              \/ d \in store \ D /\ exec[o] = 0 /\ exec[d] = 0
                              \/ d \notin store \ D /\ exec[o] > 0 /\ cancels'[d] > 0
                        /\ links[o].kind = "otoco" /\ d # NoOrder =>
                              d \in store \ D /\ exec[o] = 0 /\ (o \in waiting <=> d \in waiting)
    BY DEF PairSound
  <2>2. o \in Known /\ (links[o].kind = "oco" => d # NoOrder)
    BY <1>1, <2>1, LinkFacts DEF StoreSound, KindLinks
  <2>3. d # NoOrder => d \in Known /\ d \notin D
    BY <1>1, <2>1, <2>2, LinkFacts DEF Closed, PeerLinks
  <2>4. d \in Known /\ cancels[d] > 0 => cancels'[d] > 0
    <3>1. d \in Known => cancels'[d] >= cancels[d] /\ cancels[d] \in Nat /\ cancels'[d] \in Nat
      BY <1>1, LiveFacts DEF TypesSound
    <3>. QED  BY <3>1
  <2>. QED  BY <1>1, <2>1, <2>2, <2>3, <2>4 DEF PairSound
<1>. QED  BY <1>3, <1>4, <1>5, <1>6, <1>7, <1>8 DEF MSound, LiveSound

\* Between two commands the context holds the orders that are active.
LEMMA IdleContext ==
    ASSUME MSound, pc = "idle"
    PROVE  /\ Live /\ JustQuoted = {}
           /\ Holds(book, store \ waiting, order)
           /\ Good(Context, store \ waiting, store, waiting)
<1>1. Live /\ JustQuoted = {}
  BY DEF Live, JustQuoted
<1>2. Holds(book, store \ waiting, order)
  <2>1. (store \ waiting) \cup {} = store \ waiting
    OBVIOUS
  <2>. QED  BY <1>1, <2>1, LiveParts
<1>3. Context \in Contexts
  BY DEF Context, Ctx, Contexts, MSound, TypesSound, MTypeOK
<1>. QED  BY <1>1, <1>2, <1>3 DEF Good, Context, Ctx

\* A stored order of a single command is alone, active and known.
LEMMA SingleStored ==
    ASSUME MSound, Live, NEW o \in store, links[o].kind = "single"
    PROVE  /\ o \in store \ waiting /\ o \in Known /\ o \in OrderIds
           /\ links[o].peer = NoOrder /\ links[o].children = {}
           /\ Quotable(o) /\ order[o] \in Requests /\ Remaining(o) \in Int
<1>1. StoreSound /\ WaitingSound /\ LinksSound /\ TypesSound
  BY LiveParts
<1>2. o \in Known
  BY <1>1 DEF StoreSound
<1>3. links[o] = NoLinks
  BY <1>1, <1>2, LinkFacts DEF KindLinks
<1>. QED  BY <1>1, <1>2, <1>3, LiveFacts DEF WaitingSound, NoLinks

\* The removal of a single order, by a command or as a maker.
LEMMA SingleGone ==
    ASSUME MSound, Live, NEW o \in store, links[o].kind = "single",
           cancels' = [cancels EXCEPT ![o] = @ + 1],
           book' = RemoveOrder(book, order[o].side, order[o].price, o),
           store' = store \ {o},
           wallet' = ReleaseEscrow(wallet, order[o], Remaining(o)),
           UNCHANGED <<order, exec, paid, pc, taker, links, waiting>>
    PROVE  MSound'
<1>1. /\ o \in store \ waiting /\ o \in Known /\ o \in OrderIds
      /\ links[o].peer = NoOrder /\ links[o].children = {}
      /\ Quotable(o) /\ order[o] \in Requests /\ Remaining(o) \in Int
  BY SingleStored
<1>2. Closed({o})
  <2>1. {o} = {o} \cup links[o].children
    BY <1>1
  <2>. QED  BY <1>1, <2>1, FamilyClosed
<1>3. TypesSound /\ TakerSound /\ Holds(book, (store \ waiting) \cup JustQuoted, order)
  BY LiveParts
<1>4. o \notin JustQuoted
  BY <1>3 DEF TakerSound, JustQuoted
<1>5. Holds(book', ((store \ waiting) \ {o}) \cup JustQuoted, order)
  <2>1. Holds(book', ((store \ waiting) \cup JustQuoted) \ {o}, order)
    BY <1>1, <1>3, HoldsRemove DEF Quotable
  <2>2. ((store \ waiting) \cup JustQuoted) \ {o} = ((store \ waiting) \ {o}) \cup JustQuoted
    BY <1>4
  <2>. QED  BY <2>1, <2>2
<1>6. cancels' \in [OrderIds -> Nat] /\ \A x \in OrderIds : cancels'[x] >= cancels[x]
  BY <1>1, <1>3 DEF TypesSound
<1>7. wallet' \in Wallets
  <2>1. wallet \in Wallets /\ 0 \in Int
    BY <1>3 DEF TypesSound, MTypeOK
  <2>. QED  BY <1>1, <2>1, EngineWallets
<1>8. TypesSound'
  <2>1. book' \in Books
    BY <1>5 DEF Holds
  <2>. QED  BY <1>3, <1>6, <1>7, <2>1 DEF TypesSound, MTypeOK
<1>. QED  BY <1>2, <1>5, <1>6, <1>8, GoneSound

LEMMA CancelOrderMSound ==
    ASSUME MSound, NEW o \in OrderIds, links[o].kind = "single", CancelOrder(o),
           UNCHANGED <<links, waiting>>
    PROVE  MSound'
<1>1. /\ Live /\ o \in store /\ cancels' = [cancels EXCEPT ![o] = @ + 1]
      /\ book' = RemoveOrder(book, order[o].side, order[o].price, o)
      /\ store' = store \ {o}
      /\ wallet' = ReleaseEscrow(wallet, order[o], Remaining(o))
      /\ UNCHANGED <<order, exec, paid, pc, taker, links, waiting>>
  BY DEF CancelOrder, Live
<1>. QED  BY <1>1, SingleGone

\* A maker that cannot pay is not the system user's, hence a single order.
LEMMA CancelMakerMSound ==
    ASSUME MSound, CancelMaker, UNCHANGED <<links, waiting>>
    PROVE  MSound'
<1>1. Matching /\ Live
  BY DEF CancelMaker, Matching, Live
<1>2. PICK m : m = Maker
  OBVIOUS
<1>3. /\ m \in store /\ order[m].side = MakerSide
      /\ order[m].price = book.best[MakerSide]
  BY <1>1, <1>2, LinkedMakerFacts
<1>4. order[m].user # System
  BY <1>2 DEF CancelMaker, Sufficient
<1>5. links[m].kind = "single"
  BY <1>1, <1>3, <1>4, LiveParts DEF StoreSound
<1>6. /\ cancels' = [cancels EXCEPT ![m] = @ + 1]
      /\ book' = RemoveOrder(book, order[m].side, order[m].price, m)
      /\ store' = store \ {m}
      /\ wallet' = ReleaseEscrow(wallet, order[m], Remaining(m))
      /\ UNCHANGED <<order, exec, paid, pc, taker, links, waiting>>
  BY <1>2, <1>3 DEF CancelMaker
<1>. QED  BY <1>1, <1>3, <1>5, <1>6, SingleGone

\* OCOStrategy.handle_cancel: it raises only if the counterparty is gone.
LEMMA PairWithdrawn ==
    ASSUME TypesSound, LinksSound, Live,
           NEW c, NEW S, NEW stored, NEW wait, Good(c, S, stored, wait),
           NEW o \in Known, o \in S, NEW d, d = links[o].peer, d # NoOrder
    PROVE  \/ Good(WithdrawPair(c, o), S \ {o, d}, stored \ {o, d}, wait)
           \/ d \notin S /\ Raised(WithdrawPair(c, o))
<1>1. d \in Known /\ d # o
  BY LinkFacts DEF PeerLinks
<1>2. Quotable(o) /\ Quotable(d) /\ o \in OrderIds /\ d \in OrderIds
  BY <1>1, LiveFacts
<1>3. PICK c1 : c1 = Withdraw(c, o)
  OBVIOUS
<1>4. Good(c1, S \ {o}, stored, wait)
  BY <1>2, <1>3, WithdrawQuoted
<1>5. PICK c2 : c2 = Withdraw(c1, d)
  OBVIOUS
<1>6. WithdrawPair(c, o) = Discard(c2, {o, d})
  BY <1>3, <1>5 DEF WithdrawPair
<1>7. ASSUME Good(c2, S \ {o, d}, stored, wait)
      PROVE  Good(WithdrawPair(c, o), S \ {o, d}, stored \ {o, d}, wait)
  <2>1. PICK S2 : S2 = S \ {o, d}
    OBVIOUS
  <2>2. Good(c2, S2, stored, wait)
    BY <1>7, <2>1
  <2>3. Good(Discard(c2, {o, d}), S2, stored \ {o, d}, wait)
    BY <1>2, <2>2, StoreFew
  <2>. QED  BY <1>6, <2>1, <2>3
<1>8. CASE d \in S
  <2>1. Good(c2, (S \ {o}) \ {d}, stored, wait)
    <3>1. d \in S \ {o}
      BY <1>1, <1>8
    <3>. QED  BY <1>2, <1>4, <1>5, <3>1, WithdrawQuoted
  <2>2. (S \ {o}) \ {d} = S \ {o, d}
    OBVIOUS
  <2>. QED  BY <1>7, <2>1, <2>2
<1>9. CASE d \notin S
  <2>1. d \notin S \ {o}
    BY <1>9
  <2>2. c2 = c1 \/ Raised(c2)
    BY <1>2, <1>4, <1>5, <2>1, WithdrawAbsent
  <2>3. CASE c2 = c1
    <3>1. S \ {o} = S \ {o, d}
      BY <1>9
    <3>. QED  BY <1>4, <1>7, <2>3, <3>1
  <2>4. CASE Raised(c2)
    <3>1. Discard(c2, {o, d}) = c2
      BY <2>4, RaisedStays
    <3>. QED  BY <1>6, <1>9, <2>4, <3>1
  <2>. QED  BY <2>2, <2>3, <2>4
<1>. QED  BY <1>8, <1>9

\* A cancellation of linked orders that goes through.
LEMMA LinkedGone ==
    ASSUME MSound, pc = "idle", NEW D, Closed(D), NEW c,
           Good(c, (store \ waiting) \ D, store \ D, waiting), Commit(c, "idle"),
           cancels' \in [OrderIds -> Nat], \A x \in OrderIds : cancels'[x] >= cancels[x],
           UNCHANGED <<order, exec, paid, wallet, taker, links>>
    PROVE  MSound'
<1>1. Live /\ JustQuoted = {} /\ TypesSound
  BY IdleContext, LiveParts
<1>2. /\ book' = c.book /\ store' = store \ D /\ waiting' = waiting /\ pc' = pc
      /\ Holds(book', (store \ waiting) \ D, order)
  BY DEF Commit, Good
<1>3. ((store \ waiting) \ D) \cup JustQuoted = (store \ waiting) \ D
  BY <1>1
<1>4. TypesSound'
  <2>1. book' \in Books /\ store' \in SUBSET OrderIds
    BY <1>1, <1>2 DEF Holds, TypesSound, MTypeOK
  <2>. QED  BY <1>1, <1>2, <2>1 DEF TypesSound, MTypeOK
<1>. QED  BY <1>1, <1>2, <1>3, <1>4, GoneSound

\* The engine ends by an exception of the book.
LEMMA LinkDead ==
    ASSUME MSound, Live, NEW c, Raised(c), NEW n, Commit(c, n),
           cancels' \in [OrderIds -> Nat],
           UNCHANGED <<order, exec, paid, wallet, taker, links>>,
           LinkFailuresExplained'
    PROVE  MSound'
<1>1. /\ TypesSound /\ LinksSound /\ ChildrenNotEarly /\ OneLegTrades
  BY LiveParts
<1>2. /\ book' = c.book /\ store' = c.store /\ waiting' = c.waiting /\ pc' = "dead_link"
      /\ Known' = Known
  BY DEF Commit, Raised, Known
<1>3. book' \in Books /\ store' \in SUBSET OrderIds /\ waiting' \in SUBSET OrderIds
  BY <1>2 DEF Raised, Contexts
<1>4. TypesSound'
  BY <1>1, <1>2, <1>3 DEF TypesSound, MTypeOK
<1>5. LinksSound'
  BY <1>1, <1>2 DEF LinksSound, PeerLinks, ChildLinks, KindLinks
<1>6. ChildrenNotEarly' /\ OneLegTrades'
  BY <1>1, <1>2 DEF ChildrenNotEarly, OneLegTrades, Remaining
<1>7. ~Live'
  BY <1>2 DEF Live
<1>. QED  BY <1>4, <1>5, <1>6, <1>7 DEF MSound

LEMMA CancelOCOMSound ==
    ASSUME MSound, NEW o \in OrderIds, CancelOCO(o)
    PROVE  MSound'
<1>1. /\ pc = "idle" /\ o \in store /\ links[o].kind = "oco"
      /\ cancels' = [cancels EXCEPT ![o] = @ + 1, ![links[o].peer] = @ + 1]
      /\ Commit(WithdrawPair(Context, o), "idle")
      /\ UNCHANGED <<order, exec, paid, wallet, taker, links>>
  BY DEF CancelOCO
<1>2. /\ Live /\ JustQuoted = {} /\ Good(Context, store \ waiting, store, waiting)
  BY <1>1, IdleContext
<1>3. TypesSound /\ LinksSound /\ StoreSound /\ WaitingSound /\ PairSound
  BY <1>2, LiveParts
<1>4. PICK d : d = links[o].peer
  OBVIOUS
<1>5. o \in Known /\ o \in store \ waiting /\ d # NoOrder
  BY <1>1, <1>3, <1>4, LinkFacts DEF StoreSound, WaitingSound, KindLinks
<1>6. d \in Known /\ d # o /\ links[d].peer = o /\ d \in OrderIds /\ o # NoOrder
      /\ links[d].kind = "oco"
  BY <1>1, <1>2, <1>3, <1>4, <1>5, LinkFacts, LiveFacts DEF PeerLinks, OrderIds, NoOrder
<1>7. /\ cancels' \in [OrderIds -> Nat] /\ \A x \in OrderIds : cancels'[x] >= cancels[x]
      /\ cancels'[d] > 0
  <2>1. /\ cancels \in [OrderIds -> Nat] /\ d \in OrderIds /\ d # o
        /\ cancels' = [cancels EXCEPT ![o] = @ + 1, ![d] = @ + 1]
    BY <1>1, <1>3, <1>4, <1>6 DEF TypesSound
  <2>2. cancels' \in [OrderIds -> Nat]
    BY <2>1
  <2>3. \A x \in OrderIds : cancels'[x] = cancels[x] + IF x \in {o, d} THEN 1 ELSE 0
    BY <2>1
  <2>4. \A x \in OrderIds : cancels[x] \in Nat
    BY <2>1
  <2>. QED  BY <2>1, <2>2, <2>3, <2>4
<1>8. Closed({o, d})
  <2>1. ASSUME NEW x \in Known, links[x].peer # NoOrder
        PROVE  x \in {o, d} <=> links[x].peer \in {o, d}
    <3>1. links[links[x].peer].peer = x
      BY <1>3, <2>1, LinkFacts DEF PeerLinks
    <3>. QED  BY <1>4, <1>6, <3>1
  <2>2. ASSUME NEW x \in Known, links[x].parent # NoOrder
        PROVE  x \notin {o, d} /\ links[x].parent \notin {o, d}
    <3>1. links[x].kind # "oco" /\ links[links[x].parent].kind = links[x].kind
      BY <1>3, <2>2, LinkFacts DEF ChildLinks, KindLinks
    <3>. QED  BY <1>1, <1>6, <3>1
  <2>. QED  BY <2>1, <2>2 DEF Closed
<1>9. \/ Good(WithdrawPair(Context, o), (store \ waiting) \ {o, d}, store \ {o, d}, waiting)
      \/ d \notin store \ waiting /\ Raised(WithdrawPair(Context, o))
  BY <1>2, <1>3, <1>4, <1>5, PairWithdrawn
<1>10. CASE Good(WithdrawPair(Context, o), (store \ waiting) \ {o, d}, store \ {o, d}, waiting)
  BY <1>1, <1>7, <1>8, <1>10, LinkedGone
<1>11. CASE d \notin store \ waiting /\ Raised(WithdrawPair(Context, o))
  <2>1. d \notin store
    BY <1>3, <1>6, <1>11, LinkFacts DEF WaitingSound, KindLinks
  <2>2. exec[o] > 0
    BY <1>1, <1>3, <1>4, <2>1 DEF PairSound
  <2>3. LinkFailuresExplained'
    <3>1. /\ o \in Known' /\ links'[o].peer # NoOrder /\ exec'[o] > 0
          /\ cancels'[links'[o].peer] > 0
      BY <1>1, <1>4, <1>5, <1>7, <2>2 DEF Known
    <3>. QED  BY <3>1 DEF LinkFailuresExplained
  <2>. QED  BY <1>1, <1>2, <1>7, <1>11, <2>3, LinkDead
<1>. QED  BY <1>9, <1>10, <1>11

\* The cancellation of an active order and its children.
LEMMA FamilyGone ==
    ASSUME MSound, pc = "idle", NEW top \in store \ waiting, links[top].peer = NoOrder,
           Commit(Discard(Withdraw(Context, top), {top} \cup links[top].children), "idle"),
           cancels' \in [OrderIds -> Nat], \A x \in OrderIds : cancels'[x] >= cancels[x],
           UNCHANGED <<order, exec, paid, wallet, taker, links>>
    PROVE  MSound'
<1>1. Live /\ Good(Context, store \ waiting, store, waiting) /\ TypesSound /\ StoreSound
  BY IdleContext, LiveParts
<1>2. PICK D : D = {top} \cup links[top].children
  OBVIOUS
<1>3. /\ Closed(D) /\ D \subseteq Known
      /\ (store \ waiting) \ D = (store \ waiting) \ {top}
  BY <1>1, <1>2, FamilyClosed
<1>4. D \in OrderSets /\ Quotable(top)
  BY <1>1, <1>3, LiveFacts DEF OrderSets, StoreSound
<1>5. PICK S, S2 : S = store \ waiting /\ S2 = S \ {top}
  OBVIOUS
<1>6. Good(Withdraw(Context, top), S2, store, waiting)
  BY <1>1, <1>4, <1>5, WithdrawQuoted
<1>7. Good(Discard(Withdraw(Context, top), D), S2, store \ D, waiting)
  BY <1>4, <1>6, StoreChanges
<1>8. PICK c : c = Discard(Withdraw(Context, top), D)
  OBVIOUS
<1>9. Good(c, (store \ waiting) \ D, store \ D, waiting)
  BY <1>3, <1>5, <1>7, <1>8
<1>10. Commit(c, "idle")
  BY <1>2, <1>8
<1>. QED  BY <1>3, <1>9, <1>10, LinkedGone

\* The order that leaves the book when o is cancelled.
LEMMA TopStored ==
    ASSUME MSound, Live, NEW o \in store,
           NEW top, top = (IF o \in waiting THEN links[o].parent ELSE o)
    PROVE  /\ top \in store \ waiting /\ top \in OrderIds
           /\ top # o => links[top].peer = NoOrder /\ o \in waiting
<1>1. TypesSound /\ LinksSound /\ StoreSound /\ WaitingSound /\ FamilySound
  BY LiveParts
<1>2. o \in Known
  BY <1>1 DEF StoreSound
<1>3. CASE o \in waiting
  <2>1. links[o].parent # NoOrder /\ top = links[o].parent
    BY <1>1, <1>3 DEF WaitingSound
  <2>2. top \in store /\ links[top].parent = NoOrder /\ links[top].peer = NoOrder /\ top \in Known
    BY <1>1, <1>2, <1>3, <2>1, LinkFacts DEF FamilySound, ChildLinks
  <2>. QED  BY <1>1, <1>3, <2>2, LiveFacts DEF WaitingSound
<1>4. CASE o \notin waiting
  BY <1>1, <1>2, <1>4, LiveFacts
<1>. QED  BY <1>3, <1>4

LEMMA CancelOTOMSound ==
    ASSUME MSound, NEW o \in OrderIds, CancelOTO(o)
    PROVE  MSound'
<1>1. PICK top : top = (IF o \in waiting THEN links[o].parent ELSE o)
  OBVIOUS
<1>2. /\ pc = "idle" /\ o \in store /\ links[o].kind = "oto"
      /\ cancels' = [cancels EXCEPT ![top] = @ + 1]
      /\ Commit(Discard(Withdraw(Context, top), {top} \cup links[top].children), "idle")
      /\ UNCHANGED <<order, exec, paid, wallet, taker, links>>
  BY <1>1 DEF CancelOTO
<1>3. Live /\ TypesSound /\ LinksSound /\ StoreSound
  BY <1>2, IdleContext, LiveParts
<1>4. /\ top \in store \ waiting /\ top \in OrderIds
      /\ top # o => links[top].peer = NoOrder
  BY <1>1, <1>2, <1>3, TopStored
<1>5. links[o].peer = NoOrder
  BY <1>2, <1>3, LinkFacts DEF StoreSound, KindLinks
<1>6. cancels' \in [OrderIds -> Nat] /\ \A x \in OrderIds : cancels'[x] >= cancels[x]
  BY <1>2, <1>3, <1>4 DEF TypesSound
<1>. QED  BY <1>2, <1>4, <1>5, <1>6, FamilyGone

LEMMA CancelOTOCOMSound ==
    ASSUME MSound, NEW o \in OrderIds, CancelOTOCO(o)
    PROVE  MSound'
<1>1. PICK top, X : /\ top = (IF o \in waiting THEN links[o].parent ELSE o)
                    /\ X = IF o \in waiting \/ links[o].children # {}
                           THEN {o} ELSE {o, links[o].peer}
  OBVIOUS
<1>2. /\ pc = "idle" /\ o \in store /\ links[o].kind = "otoco"
      /\ cancels' = [i \in OrderIds |-> cancels[i] + IF i \in X THEN 1 ELSE 0]
      /\ links[top].peer = NoOrder =>
            Commit(Discard(Withdraw(Context, top), {top} \cup links[top].children), "idle")
      /\ links[top].peer # NoOrder => Commit(WithdrawPair(Context, top), "idle")
      /\ UNCHANGED <<order, exec, paid, wallet, taker, links>>
  BY <1>1 DEF CancelOTOCO
<1>3. /\ Live /\ TypesSound /\ LinksSound /\ StoreSound /\ PairSound
      /\ Good(Context, store \ waiting, store, waiting)
  BY <1>2, IdleContext, LiveParts
<1>4. /\ top \in store \ waiting /\ top \in OrderIds
      /\ top # o => links[top].peer = NoOrder
  BY <1>1, <1>2, <1>3, TopStored
<1>5. cancels' \in [OrderIds -> Nat] /\ \A x \in OrderIds : cancels'[x] >= cancels[x]
  BY <1>2, <1>3 DEF TypesSound
<1>6. CASE links[top].peer = NoOrder
  BY <1>2, <1>4, <1>5, <1>6, FamilyGone
<1>7. CASE links[top].peer # NoOrder
  <2>1. PICK d : d = links[o].peer
    OBVIOUS
  <2>2. top = o /\ o \in Known /\ d # NoOrder /\ o # NoOrder
    BY <1>2, <1>3, <1>4, <1>7, <2>1 DEF StoreSound, OrderIds, NoOrder
  <2>3. d \in store \ waiting
    BY <1>2, <1>3, <1>4, <2>1, <2>2 DEF PairSound
  <2>4. links[d].peer = o
    BY <1>3, <2>1, <2>2, LinkFacts DEF PeerLinks
  <2>5. Closed({o, d})
    <3>1. ASSUME NEW x \in Known, links[x].peer # NoOrder
          PROVE  x \in {o, d} <=> links[x].peer \in {o, d}
      <4>1. links[links[x].peer].peer = x
        BY <1>3, <3>1, LinkFacts DEF PeerLinks
      <4>. QED  BY <2>1, <2>4, <4>1
    <3>2. ASSUME NEW x \in Known, links[x].parent # NoOrder, x \in waiting
          PROVE  x \notin {o, d} /\ links[x].parent \notin {o, d}
      <4>1. links[links[x].parent].peer = NoOrder
        BY <1>3, <3>2, LinkFacts DEF ChildLinks
      <4>. QED  BY <1>4, <2>1, <2>2, <2>3, <2>4, <3>2, <4>1
    <3>. QED  BY <3>1, <3>2 DEF Closed
  <2>6. \/ Good(WithdrawPair(Context, o), (store \ waiting) \ {o, d}, store \ {o, d}, waiting)
        \/ d \notin store \ waiting /\ Raised(WithdrawPair(Context, o))
    BY <1>3, <1>4, <2>1, <2>2, PairWithdrawn
  <2>7. Good(WithdrawPair(Context, o), (store \ waiting) \ {o, d}, store \ {o, d}, waiting)
    BY <2>3, <2>6
  <2>8. Commit(WithdrawPair(Context, o), "idle")
    BY <1>2, <1>7, <2>2
  <2>. QED  BY <1>2, <1>5, <2>5, <2>7, <2>8, LinkedGone
<1>. QED  BY <1>6, <1>7

\* An order that is modified leaves the book and comes back.
LEMMA LinkedModifyMSound ==
    ASSUME MSound, NEW o \in OrderIds, NEW p, LinkedModify(o, p)
    PROVE  MSound'
<1>1. /\ pc = "idle" /\ o \in store \ waiting
      /\ book' = AppendOrder(RemoveOrder(book, order[o].side, order[o].price, o),
                             order[o].side, order[o].price, o)
      /\ UNCHANGED <<order, exec, paid, cancels, store, wallet, pc, taker, links, waiting>>
  BY DEF LinkedModify, ModifyRequeues
<1>2. /\ Live /\ JustQuoted = {} /\ TypesSound /\ StoreSound
      /\ Holds(book, store \ waiting, order)
  BY <1>1, IdleContext, LiveParts
<1>3. order[o].side \in Sides /\ order[o].price \in Prices
  BY <1>1, <1>2, LiveFacts DEF StoreSound, Quotable
<1>4. PICK b, S : b = RemoveOrder(book, order[o].side, order[o].price, o)
                  /\ S = (store \ waiting) \ {o}
  OBVIOUS
<1>5. Holds(b, S, order)
  BY <1>1, <1>2, <1>3, <1>4, HoldsRemove
<1>6. Holds(book', S \cup {o}, order)
  BY <1>1, <1>3, <1>4, <1>5, HoldsAppend
<1>7. S \cup {o} = ((store \ waiting) \ {}) \cup JustQuoted
  BY <1>1, <1>2, <1>4
<1>8. TypesSound'
  <2>1. book' \in Books
    BY <1>6 DEF Holds
  <2>. QED  BY <1>1, <1>2, <2>1 DEF TypesSound, MTypeOK
<1>9. Closed({}) /\ store' = store \ {}
  BY <1>1 DEF Closed
<1>10. \A x \in OrderIds : cancels'[x] >= cancels[x]
  BY <1>1, <1>2 DEF TypesSound
<1>. QED  BY <1>1, <1>2, <1>6, <1>7, <1>8, <1>9, <1>10, GoneSound

-----------------------------------------------------------------------------
(***************************************************************************)
(* The end of a match.                                                     *)
(***************************************************************************)

\* The engine ends by an event that cannot be written.
LEMMA EventDead ==
    ASSUME MSound, Live, pc' \in {"dead_event", "dead_modify", "dead_remove"},
           UNCHANGED <<order, exec, paid, cancels, store, book, wallet, taker, links, waiting>>
    PROVE  MSound'
<1>1. /\ TypesSound /\ LinksSound /\ ChildrenNotEarly /\ OneLegTrades
  BY LiveParts
<1>2. Known' = Known
  BY DEF Known
<1>3. TypesSound'
  BY <1>1 DEF TypesSound, MTypeOK, PCs
<1>4. LinksSound'
  BY <1>1, <1>2 DEF LinksSound, PeerLinks, ChildLinks, KindLinks
<1>5. ChildrenNotEarly' /\ OneLegTrades'
  BY <1>1, <1>2 DEF ChildrenNotEarly, OneLegTrades, Remaining
<1>6. ~Live' /\ LinkFailuresExplained'
  BY DEF Live, LinkFailuresExplained
<1>. QED  BY <1>3, <1>4, <1>5, <1>6 DEF MSound

\* The children of a parent of an OTOCO are quoted a second time.
LEMMA OTOCOSuccessMSound ==
    ASSUME MSound, OTOCOSuccessRaises
    PROVE  MSound'
<1>1. PICK C, x, y : C = links[taker].children /\ x = Min(C) /\ y = Max(C)
  OBVIOUS
<1>2. /\ pc = "matching" /\ Remaining(taker) = 0 /\ links[taker].kind = "otoco"
      /\ Commit(Quote(Quote(Store(Context, C), x), y), "idle")
      /\ UNCHANGED <<order, exec, paid, cancels, wallet, taker, links>>
  BY <1>1 DEF OTOCOSuccessRaises
<1>3. Live /\ JustQuoted = C
  BY <1>1, <1>2 DEF Live, JustQuoted
<1>4. /\ TypesSound /\ LinksSound /\ TakerSound
      /\ Holds(book, (store \ waiting) \cup JustQuoted, order)
  BY <1>3, LiveParts
<1>5. taker \in Known /\ links[taker].parent = NoOrder
  BY <1>2, <1>4 DEF TakerSound
<1>6. KindLinks(taker) /\ C # {}
  BY <1>1, <1>2, <1>4, <1>5, LinkFacts DEF KindLinks
<1>7. PICK a, b \in Known : a # b /\ C = {a, b}
  BY <1>1, <1>2, <1>6 DEF KindLinks
<1>8. x \in C /\ Quotable(x) /\ C \in OrderSets
  <2>1. a \in Int /\ b \in Int /\ a \in OrderIds /\ b \in OrderIds
    BY <1>3, <1>4, LiveFacts DEF OrderIds
  <2>2. x \in {a, b}
    <3>1. {Min({a, b}), Max({a, b})} = {a, b}
      BY <2>1, LeastAndGreatest
    <3>. QED  BY <1>1, <1>7, <3>1
  <2>. QED  BY <1>3, <1>4, <1>7, <2>1, <2>2, LiveFacts DEF OrderSets
<1>9. PICK S : S = (store \ waiting) \cup JustQuoted
  OBVIOUS
<1>10. Good(Context, S, store, waiting)
  <2>1. Context \in Contexts
    BY <1>4 DEF Context, Ctx, Contexts, TypesSound, MTypeOK
  <2>. QED  BY <1>4, <1>9, <2>1 DEF Good, Context, Ctx
<1>11. Good(Store(Context, C), S, store \cup C, waiting)
  BY <1>8, <1>10, StoreChanges
<1>12. Raised(Quote(Store(Context, C), x))
  BY <1>3, <1>8, <1>9, <1>11, QuoteTwice
<1>13. Quote(Quote(Store(Context, C), x), y) = Quote(Store(Context, C), x)
  BY <1>12, RaisedStays
<1>14. LinkFailuresExplained'
  <2>1. Remaining(taker)' = Remaining(taker) /\ Known' = Known
    BY <1>2 DEF Remaining, Known
  <2>2. /\ taker \in Known' /\ links'[taker].kind = "otoco" /\ links'[taker].children # {}
    BY <1>1, <1>2, <1>5, <1>6, <2>1
  <2>3. Remaining(taker)' = order'[taker'].qty - exec'[taker']
    BY DEF Remaining
  <2>4. \E o \in Known' : /\ links'[o].kind = "otoco" /\ links'[o].children # {}
                          /\ order'[o].qty - exec'[o] = 0
    BY <1>2, <2>1, <2>2, <2>3
  <2>. QED  BY <2>4 DEF LinkFailuresExplained, Remaining
<1>15. PICK c : c = Quote(Store(Context, C), x)
  OBVIOUS
<1>16. cancels' \in [OrderIds -> Nat] /\ Commit(c, "idle") /\ Raised(c)
  BY <1>2, <1>4, <1>12, <1>13, <1>15 DEF TypesSound
<1>. QED  BY <1>2, <1>3, <1>14, <1>16, LinkDead

\* What is idle: the parts of the invariant that the match leaves alone.
LEMMA MatchEnds ==
    ASSUME MSound, pc = "matching", pc' = "idle", taker' = NoOrder,
           UNCHANGED <<order, exec, paid, cancels, wallet, links, waiting>>,
           store' \in SUBSET OrderIds, book' \in Books
    PROVE  /\ TypesSound' /\ LinksSound' /\ ChildrenNotEarly' /\ OneLegTrades'
           /\ LinkFailuresExplained' /\ JustQuoted' = {} /\ TakerSound' /\ WaitingSound'
           /\ Known' = Known /\ \A x : Remaining(x)' = order[x].qty - exec[x]
<1>1. /\ TypesSound /\ LinksSound /\ ChildrenNotEarly /\ OneLegTrades /\ WaitingSound
  BY LiveParts DEF Live
<1>2. Known' = Known /\ \A x : Remaining(x)' = order[x].qty - exec[x]
  BY DEF Known, Remaining
<1>3. TypesSound'
  BY <1>1 DEF TypesSound, MTypeOK, PCs
<1>4. LinksSound'
  BY <1>1, <1>2 DEF LinksSound, PeerLinks, ChildLinks, KindLinks
<1>5. ChildrenNotEarly' /\ OneLegTrades'
  BY <1>1, <1>2 DEF ChildrenNotEarly, OneLegTrades, Remaining
<1>6. LinkFailuresExplained' /\ JustQuoted' = {} /\ TakerSound'
  BY DEF LinkFailuresExplained, JustQuoted, TakerSound
<1>7. WaitingSound'
  BY <1>1, <1>2 DEF WaitingSound
<1>. QED  BY <1>2, <1>3, <1>4, <1>5, <1>6, <1>7

LEMMA LinkedTakerFilledMSound ==
    ASSUME MSound, LinkedTakerFilled
    PROVE  MSound'
<1>1. /\ pc = "matching" /\ pc' = "idle" /\ taker' = NoOrder /\ links[taker].kind # "otoco"
      /\ UNCHANGED <<order, exec, paid, cancels, store, book, wallet, links, waiting>>
  BY DEF LinkedTakerFilled, TakerFilled
<1>2. Live /\ JustQuoted = {}
  BY <1>1 DEF Live, JustQuoted
<1>3. /\ TypesSound /\ StoreSound /\ FamilySound /\ PairSound
      /\ Holds(book, (store \ waiting) \cup JustQuoted, order)
  BY <1>2, LiveParts
<1>4. /\ TypesSound' /\ LinksSound' /\ ChildrenNotEarly' /\ OneLegTrades'
      /\ LinkFailuresExplained' /\ JustQuoted' = {} /\ TakerSound' /\ WaitingSound'
      /\ Known' = Known
  <2>1. store' \in SUBSET OrderIds /\ book' \in Books
    BY <1>1, <1>3 DEF TypesSound, MTypeOK
  <2>. QED  BY <1>1, <2>1, MatchEnds
<1>5. StoreSound' /\ FamilySound' /\ PairSound'
  BY <1>1, <1>3, <1>4 DEF StoreSound, FamilySound, PairSound, Remaining
<1>6. Holds(book, (store \ waiting) \cup JustQuoted, order)'
  BY <1>1, <1>2, <1>3, <1>4
<1>. QED  BY <1>4, <1>5, <1>6 DEF MSound, LiveSound

\* What is left of the taker is quoted, and its children are stored with it.
LEMMA LinkedPlaceRemainderMSound ==
    ASSUME MSound, LinkedPlaceRemainder
    PROVE  MSound'
<1>1. PICK t, C : t = taker /\ C = links[t].children
  OBVIOUS
<1>2. /\ pc = "matching" /\ pc' = "idle" /\ taker' = NoOrder /\ Remaining(t) > 0
      /\ ~Unloggable(t)
      /\ store' = (store \cup {t}) \cup C
      /\ book' = AppendOrder(book, order[t].side, order[t].price, t)
      /\ UNCHANGED <<order, exec, paid, cancels, wallet, links, waiting>>
  BY <1>1 DEF LinkedPlaceRemainder
<1>3. Live /\ JustQuoted = {}
  BY <1>1, <1>2 DEF Live, JustQuoted
<1>4. /\ TypesSound /\ LinksSound /\ StoreSound /\ WaitingSound /\ FamilySound /\ PairSound
      /\ TakerSound /\ Holds(book, (store \ waiting) \cup JustQuoted, order)
  BY <1>3, LiveParts
<1>5. /\ t \in Known /\ t \notin store /\ t \notin waiting /\ C \subseteq waiting \ store
      /\ links[t].peer = NoOrder /\ links[t].parent = NoOrder
  BY <1>1, <1>2, <1>4 DEF TakerSound
<1>6. /\ Known \subseteq OrderIds /\ NoOrder \notin OrderIds
      /\ \A x \in Known : Quotable(x) /\ order[x].qty \in Nat /\ order[x].qty > 0
  BY <1>3, <1>4, LiveFacts DEF OrderIds, NoOrder
<1>7. /\ C \subseteq Known
      /\ \A x \in Known : x \in C <=> links[x].parent = t
      /\ \A x \in C : links[x].kind = links[t].kind /\ order[x].user = order[t].user
                      /\ exec[x] = 0
  <2>1. \A x \in C : x \in Known /\ links[x].parent = t
    BY <1>1, <1>4, <1>5, LinkFacts DEF KindLinks
  <2>2. ASSUME NEW x \in Known, links[x].parent = t
        PROVE  x \in C /\ links[x].kind = links[t].kind /\ order[x].user = order[t].user
    <3>1. t # NoOrder /\ ChildLinks(x)
      BY <1>4, <1>5, <1>6, LinkFacts
    <3>. QED  BY <1>1, <2>2, <3>1 DEF ChildLinks
  <2>. QED  BY <1>4, <1>5, <2>1, <2>2 DEF WaitingSound
<1>8. /\ Holds(book', (store \ waiting) \cup {t}, order)
  <2>1. Holds(book, store \ waiting, order)
    <3>1. (store \ waiting) \cup {} = store \ waiting
      OBVIOUS
    <3>. QED  BY <1>3, <1>4, <3>1
  <2>. QED  BY <1>2, <1>5, <1>6, <2>1, HoldsAppend DEF Quotable
<1>9. /\ TypesSound' /\ LinksSound' /\ ChildrenNotEarly' /\ OneLegTrades'
      /\ LinkFailuresExplained' /\ JustQuoted' = {} /\ TakerSound' /\ WaitingSound'
      /\ Known' = Known /\ \A x : Remaining(x)' = order[x].qty - exec[x]
  <2>1. store' \in SUBSET OrderIds
    BY <1>2, <1>4, <1>5, <1>6, <1>7 DEF TypesSound, MTypeOK
  <2>2. book' \in Books
    BY <1>8 DEF Holds
  <2>. QED  BY <1>2, <2>1, <2>2, MatchEnds
<1>10. Holds(book, (store \ waiting) \cup JustQuoted, order)'
  <2>1. (store' \ waiting) \cup {} = (store \ waiting) \cup {t}
    BY <1>2, <1>5
  <2>. QED  BY <1>2, <1>8, <1>9, <2>1
<1>11. StoreSound'
  <2>1. SUFFICES ASSUME NEW o \in store'
                 PROVE  /\ o \in Known /\ order[o].qty - exec[o] > 0
                        /\ links[o].kind # "single" => order[o].user = System
    BY <1>2, <1>9 DEF StoreSound
  <2>2. CASE o \in store
    BY <1>4, <2>2 DEF StoreSound, Remaining
  <2>3. CASE o = t
    BY <1>2, <1>5, <2>3 DEF Remaining, Unloggable
  <2>4. CASE o \in C
    BY <1>2, <1>6, <1>7, <2>4 DEF Unloggable
  <2>. QED  BY <1>2, <2>1, <2>2, <2>3, <2>4
<1>12. FamilySound'
  <2>1. SUFFICES ASSUME NEW o \in Known, NEW p, p = links[o].parent, p # NoOrder
                 PROVE  /\ o \in store' \cap waiting <=> p \in store'
                        /\ o \notin waiting => order[p].qty - exec[p] = 0
    BY <1>2, <1>9 DEF FamilySound, Remaining
  <2>2. /\ o \in store \cap waiting <=> p \in store
        /\ o \notin waiting => order[p].qty - exec[p] = 0
        /\ p \in Known /\ links[p].parent = NoOrder /\ o # t
    BY <1>4, <1>5, <2>1, LinkFacts DEF FamilySound, ChildLinks, Remaining
  <2>3. p \notin C
    BY <1>5, <1>6, <1>7, <2>2
  <2>4. o \in C <=> p = t
    BY <1>7, <2>1
  <2>. QED  BY <1>2, <1>5, <2>2, <2>3, <2>4
<1>13. PairSound'
  <2>1. SUFFICES ASSUME NEW o \in store', NEW d, d = links[o].peer
                 PROVE  /\ links[o].kind = "oco" =>
                              \/ d \in store' /\ exec[o] = 0 /\ exec[d] = 0
                              \/ d \notin store' /\ exec[o] > 0 /\ cancels[d] > 0
                        /\ links[o].kind = "otoco" /\ d # NoOrder =>
                              d \in store' /\ exec[o] = 0 /\ (o \in waiting <=> d \in waiting)
    BY <1>2 DEF PairSound
  <2>2. o \in Known /\ (links[o].kind = "oco" => d # NoOrder /\ links[o].parent = NoOrder)
    <3>1. o \in Known
      BY <1>9, <1>11, <2>1 DEF StoreSound
    <3>. QED  BY <1>4, <2>1, <3>1, LinkFacts DEF KindLinks
  <2>3. CASE d # NoOrder
    <3>1. d \in Known /\ links[d].peer = o /\ links[d].parent = links[o].parent /\ o # t /\ d # t
      BY <1>4, <1>5, <1>6, <2>1, <2>2, <2>3, LinkFacts DEF PeerLinks
    <3>2. o \in C <=> d \in C
      BY <1>7, <2>2, <3>1
    <3>3. CASE o \in C
      <4>1. links[o].kind # "oco"
        BY <1>5, <1>6, <1>7, <2>2, <3>3
      <4>. QED  BY <1>2, <1>5, <1>7, <3>2, <3>3, <4>1
    <3>4. CASE o \notin C
      <4>1. o \in store /\ (d \in store' <=> d \in store)
        BY <1>2, <2>1, <3>1, <3>2, <3>4
      <4>. QED  BY <1>4, <2>1, <2>3, <4>1 DEF PairSound
    <3>. QED  BY <3>3, <3>4
  <2>. QED  BY <2>2, <2>3
<1>. QED  BY <1>9, <1>10, <1>11, <1>12, <1>13 DEF MSound, LiveSound

-----------------------------------------------------------------------------
(***************************************************************************)
(* Arrivals.                                                               *)
(***************************************************************************)

\* The command leaves the orders received before it alone.
Arrives ==
    /\ Known \subseteq Known' /\ Known' \subseteq OrderIds
    /\ \A x \in Known : order'[x] = order[x] /\ links'[x] = links[x]

NewOrders == Known' \ Known

\* The links of the earlier orders stay sound.
LEMMA EarlierLinks ==
    ASSUME LinksSound, Arrives, NEW o \in Known
    PROVE  PeerLinks(o)' /\ ChildLinks(o)' /\ KindLinks(o)'
<1>1. PeerLinks(o) /\ ChildLinks(o) /\ KindLinks(o)
  BY LinkFacts
<1>2. PeerLinks(o)'
  BY <1>1 DEF PeerLinks, Arrives
<1>3. ChildLinks(o)'
  BY <1>1 DEF ChildLinks, Arrives
<1>4. KindLinks(o)'
  BY <1>1 DEF KindLinks, Arrives
<1>. QED  BY <1>2, <1>3, <1>4

\* New orders have not traded.
LEMMA ArrivalKeeps ==
    ASSUME MSound, pc = "idle", Arrives, exec' = exec, LinksSound'
    PROVE  /\ \A x \in NewOrders : exec[x] = 0
           /\ ChildrenNotEarly' /\ OneLegTrades'
           /\ \A x \in Known : Remaining(x)' = Remaining(x)
<1>1. LinksSound /\ ChildrenNotEarly /\ OneLegTrades
  BY LiveParts DEF Live
<1>2. \A x \in NewOrders : exec[x] = 0 /\ x \in OrderIds
  BY <1>1 DEF LinksSound, NewOrders, Arrives
<1>3. \A x \in Known : Remaining(x)' = Remaining(x)
  BY DEF Arrives, Remaining
<1>4. ChildrenNotEarly'
  <2>1. SUFFICES ASSUME NEW o \in Known', links'[o].parent # NoOrder, exec[o] > 0
                 PROVE  order'[links'[o].parent].qty - exec[links'[o].parent] = 0
    BY DEF ChildrenNotEarly, Remaining
  <2>2. o \in Known /\ links'[o] = links[o]
    BY <1>2, <2>1 DEF NewOrders, Arrives
  <2>3. links[o].parent \in Known /\ Remaining(links[o].parent) = 0
    BY <1>1, <2>1, <2>2, LinkFacts DEF ChildrenNotEarly, ChildLinks
  <2>. QED  BY <2>2, <2>3 DEF Remaining, Arrives
<1>5. OneLegTrades'
  <2>1. SUFFICES ASSUME NEW o \in Known', links'[o].peer # NoOrder, exec[o] # 0
                 PROVE  exec[links'[o].peer] = 0
    BY DEF OneLegTrades
  <2>2. o \in Known /\ links'[o] = links[o]
    BY <1>2, <2>1 DEF NewOrders, Arrives
  <2>. QED  BY <1>1, <2>1, <2>2 DEF OneLegTrades
<1>. QED  BY <1>2, <1>3, <1>4, <1>5

\* What a command may do with its orders: those of P are stored, those of W
\* wait.
NewStored(P, W) ==
    /\ P \subseteq NewOrders /\ W \subseteq NewOrders
    /\ \A x \in P : links'[x].kind # "single" => order'[x].user = System
    /\ \A x \in W : links'[x].parent # NoOrder
    /\ \A x \in NewOrders : links'[x].parent # NoOrder =>
          x \in W /\ links'[x].parent \in NewOrders /\ (x \in P <=> links'[x].parent \in P)
    /\ \A x \in P : links'[x].peer # NoOrder =>
          links'[x].peer \in P /\ (x \in W <=> links'[x].peer \in W)

\* The engine is idle, or the command's first order is matched.
NewTaker(P, W) ==
    \/ pc' = "idle"
    \/ /\ pc' = "matching" /\ taker' \in NewOrders /\ taker' \notin P /\ taker' \notin W
       /\ links'[taker'].peer = NoOrder /\ links'[taker'].parent = NoOrder
       /\ links'[taker'].children \subseteq W /\ links'[taker'].children \cap P = {}

\* The running engine after an arrival.
LEMMA ArrivalLive ==
    ASSUME MSound, pc = "idle", Arrives, exec' = exec, TypesSound', LinksSound',
           \A x \in Known : cancels'[x] >= cancels[x],
           NEW P, NEW W, NewStored(P, W), NewTaker(P, W),
           store' = store \cup P, waiting' = waiting \cup W,
           Holds(book', (store \ waiting) \cup (P \ W), order')
    PROVE  LiveSound'
<1>1. /\ Live /\ TypesSound /\ LinksSound /\ StoreSound /\ WaitingSound /\ FamilySound
      /\ PairSound
  BY LiveParts DEF Live
<1>2. /\ \A x \in NewOrders : exec[x] = 0 /\ x \in Known' /\ x \notin Known /\ x \in OrderIds
      /\ \A x \in Known : /\ Remaining(x)' = Remaining(x) /\ x \in Known' /\ x \notin NewOrders
                          /\ order'[x] = order[x] /\ links'[x] = links[x]
      /\ NoOrder \notin OrderIds
  BY ArrivalKeeps DEF NewOrders, Arrives, OrderIds, NoOrder
<1>3. store \subseteq Known /\ waiting \subseteq Known /\ P \subseteq NewOrders /\ W \subseteq NewOrders
  BY <1>1 DEF StoreSound, WaitingSound, NewStored
<1>4. \A x \in Known' : order'[x].qty \in Nat /\ order'[x].qty > 0
  <2>1. order' \in Seq(Requests)
    BY DEF TypesSound, MTypeOK
  <2>2. ASSUME NEW x \in Known' PROVE order'[x].qty \in Quantities
    <3>1. order'[x] \in Requests
      BY <2>1, <2>2 DEF Known
    <3>. QED  BY <3>1 DEF Requests
  <2>. QED  BY <2>2, QuantitiesPositive
<1>5. \A x \in NewOrders : Remaining(x)' > 0
  BY <1>2, <1>4 DEF Remaining
<1>6. JustQuoted' = {}
  <2>1. pc' = "matching" => Remaining(taker)' > 0
    <3>1. pc' = "matching" => taker' \in NewOrders
      BY DEF NewTaker
    <3>2. pc' = "matching" => order'[taker'].qty - exec'[taker'] > 0
      BY <1>2, <1>4, <3>1
    <3>. QED  BY <3>2 DEF Remaining
  <2>. QED  BY <2>1 DEF JustQuoted
<1>7. Holds(book, (store \ waiting) \cup JustQuoted, order)'
  <2>1. (store' \ waiting') \cup {} = (store \ waiting) \cup (P \ W)
    BY <1>2, <1>3
  <2>. QED  BY <1>6, <2>1
<1>8. StoreSound'
  <2>1. SUFFICES ASSUME NEW o \in store'
                 PROVE  /\ o \in Known' /\ Remaining(o)' > 0
                        /\ links'[o].kind # "single" => order'[o].user = System
    BY DEF StoreSound
  <2>2. CASE o \in store
    BY <1>1, <1>2, <2>2 DEF StoreSound
  <2>3. CASE o \in P
    BY <1>2, <1>3, <1>5, <2>3 DEF NewStored
  <2>. QED  BY <2>1, <2>2, <2>3
<1>9. WaitingSound'
  BY <1>1, <1>2, <1>3 DEF WaitingSound, NewStored
<1>10. TakerSound'
  <2>1. SUFFICES ASSUME pc' = "matching"
                 PROVE  /\ taker' \in Known' /\ taker' \notin store' /\ taker' \notin waiting'
                        /\ links'[taker'].peer = NoOrder /\ links'[taker'].parent = NoOrder
                        /\ Remaining(taker)' > 0
                        /\ links'[taker'].children \subseteq waiting' \ store'
    <3>1. Remaining(taker)' = order'[taker'].qty - exec'[taker'] /\ exec' \in [OrderIds -> Nat]
      BY DEF Remaining, TypesSound, MTypeOK
    <3>2. pc' = "matching" => order'[taker'].qty \in Nat /\ exec'[taker'] \in Nat
      BY <1>2, <1>4, <3>1 DEF NewTaker
    <3>3. pc' = "matching" => (Remaining(taker)' > 0 => Remaining(taker)' >= 0)
      BY <3>1, <3>2
    <3>. QED  BY <1>6, <3>3 DEF TakerSound
  <2>2. /\ taker' \in NewOrders /\ taker' \notin P /\ taker' \notin W
        /\ links'[taker'].peer = NoOrder /\ links'[taker'].parent = NoOrder
        /\ links'[taker'].children \subseteq W /\ links'[taker'].children \cap P = {}
    BY <2>1 DEF NewTaker
  <2>3. order'[taker'].qty - exec'[taker'] > 0
    BY <1>2, <1>4, <2>2
  <2>. QED  BY <1>2, <1>3, <2>2, <2>3 DEF Remaining
<1>11. FamilySound'
  <2>1. SUFFICES ASSUME NEW o \in Known', NEW p, p = links'[o].parent, p # NoOrder
                 PROVE  /\ o \in store' \cap waiting' <=> p \in store'
                        /\ o \notin waiting' => order'[p].qty - exec[p] = 0
    BY DEF FamilySound, Remaining
  <2>2. CASE o \in Known
    <3>1. p = links[o].parent /\ p \in Known
      BY <1>1, <1>2, <2>1, <2>2, LinkFacts DEF ChildLinks
    <3>2. /\ o \in store \cap waiting <=> p \in store
          /\ o \notin waiting => order[p].qty - exec[p] = 0
      BY <1>1, <2>1, <2>2, <3>1 DEF FamilySound, Remaining
    <3>. QED  BY <1>2, <1>3, <2>2, <3>1, <3>2
  <2>3. CASE o \notin Known
    <3>1. o \in NewOrders
      BY <2>1, <2>3 DEF NewOrders
    <3>2. o \in W /\ p \in NewOrders /\ (o \in P <=> p \in P)
      BY <2>1, <3>1 DEF NewStored
    <3>. QED  BY <1>2, <1>3, <3>1, <3>2
  <2>. QED  BY <2>2, <2>3
<1>12. PairSound'
  <2>1. SUFFICES ASSUME NEW o \in store', NEW d, d = links'[o].peer
                 PROVE  /\ links'[o].kind = "oco" =>
                              \/ d \in store' /\ exec[o] = 0 /\ exec[d] = 0
                              \/ d \notin store' /\ exec[o] > 0 /\ cancels'[d] > 0
                        /\ links'[o].kind = "otoco" /\ d # NoOrder =>
                              d \in store' /\ exec[o] = 0 /\ (o \in waiting' <=> d \in waiting')
    BY DEF PairSound
  <2>2. CASE o \in store
    <3>1. o \in Known /\ links'[o] = links[o] /\ d = links[o].peer
      BY <1>1, <1>2, <2>1, <2>2 DEF StoreSound
    <3>2. d # NoOrder => d \in Known
      BY <1>1, <3>1, LinkFacts DEF PeerLinks
    <3>3. links[o].kind = "oco" => d # NoOrder
      BY <1>1, <3>1, LinkFacts DEF KindLinks
    <3>4. d \in Known /\ cancels[d] > 0 => cancels'[d] > 0
      <4>1. d \in Known => cancels'[d] >= cancels[d] /\ cancels[d] \in Nat /\ cancels'[d] \in Nat
        BY <1>1, LiveFacts DEF TypesSound
      <4>. QED  BY <4>1
    <3>. QED  BY <1>1, <1>2, <1>3, <2>2, <3>1, <3>2, <3>3, <3>4 DEF PairSound
  <2>3. CASE o \in P
    <3>1. o \in NewOrders /\ o \in Known'
      BY <1>2, <1>3, <2>3
    <3>2. links'[o].kind = "oco" => d # NoOrder
      <4>1. KindLinks(o)'
        BY <3>1 DEF LinksSound
      <4>. QED  BY <2>1, <4>1 DEF KindLinks
    <3>3. d # NoOrder => d \in P /\ (o \in W <=> d \in W)
      BY <2>1, <2>3 DEF NewStored
    <3>. QED  BY <1>2, <1>3, <3>1, <3>2, <3>3
  <2>. QED  BY <2>1, <2>2, <2>3
<1>. QED  BY <1>7, <1>8, <1>9, <1>10, <1>11, <1>12 DEF LiveSound

\* The types of a step that receives orders.
LEMMA ArrivalTypes ==
    ASSUME TypesSound, LinksSound', order' \in Seq(Requests), Len(order') <= MaxOrders,
           links' \in [OrderIds -> Links], exec' = exec, paid' = paid,
           cancels' \in [OrderIds -> Nat], wallet' \in Wallets,
           book' \in Books, store' \in SUBSET OrderIds, waiting' \in SUBSET OrderIds,
           pc' \in PCs \cup {"dead_event"}, taker' \in OrderIds \cup {NoOrder}
    PROVE  TypesSound'
<1>1. ASSUME NEW o \in OrderIds
      PROVE  /\ links'[o].peer # NoOrder => links'[links'[o].peer].peer = o
             /\ \A c \in links'[o].children : links'[c].parent = o
  <2>1. CASE o \in Known'
    <3>1. PeerLinks(o)' /\ KindLinks(o)'
      BY <2>1 DEF LinksSound
    <3>2. links'[o].peer # NoOrder => links'[links'[o].peer].peer = o
      BY <3>1 DEF PeerLinks
    <3>3. \A c \in links'[o].children : links'[c].parent = o
      BY <3>1 DEF KindLinks
    <3>. QED  BY <3>2, <3>3
  <2>2. CASE o \notin Known'
    BY <2>2 DEF LinksSound, NoLinks
  <2>. QED  BY <2>1, <2>2
<1>2. MTypeOK'
  BY <1>1 DEF TypesSound, MTypeOK
<1>. QED  BY <1>2 DEF TypesSound

\* The invariant after an arrival.
LEMMA ArrivalMSound ==
    ASSUME MSound, pc = "idle", Arrives, exec' = exec, TypesSound', LinksSound',
           pc' # "dead_link", Live' => LiveSound'
    PROVE  MSound'
<1>1. ChildrenNotEarly' /\ OneLegTrades'
  BY ArrivalKeeps
<1>2. LinkFailuresExplained'
  BY DEF LinkFailuresExplained
<1>. QED  BY <1>1, <1>2 DEF MSound

\* The arrival of a single order.
LEMMA SingleArrives ==
    ASSUME MSound, NEW r \in Requests, Receive(r), exec' = exec, links' = links,
           NEW o, o = Len(order) + 1
    PROVE  /\ pc = "idle" /\ Live /\ Arrives /\ LinksSound' /\ TypesSound
           /\ NewOrders = {o} /\ o \in OrderIds /\ o \notin Known
           /\ order' \in Seq(Requests) /\ Len(order') <= MaxOrders /\ order'[o] = r
           /\ links'[o] = NoLinks
           /\ r.side \in Sides /\ r.price \in Prices /\ r.qty \in Int
<1>1. pc = "idle" /\ Live
  BY DEF Receive, Live
<1>2. TypesSound /\ LinksSound /\ TypeOK
  BY <1>1, LiveParts, LiveFacts
<1>3. /\ o \in OrderIds /\ o \notin Known
      /\ order' \in Seq(Requests) /\ Len(order') <= MaxOrders
      /\ Known' = Known \cup {o} /\ order'[o] = r
      /\ \A x \in Known : order'[x] = order[x]
      /\ Known \subseteq OrderIds
  BY <1>1, <1>2, ReceiveAdds, LiveFacts
<1>4. Arrives /\ NewOrders = {o}
  BY <1>3 DEF Arrives, NewOrders
<1>5. links[o] = NoLinks
  BY <1>2, <1>3 DEF LinksSound
<1>6. LinksSound'
  <2>1. PeerLinks(o)' /\ ChildLinks(o)' /\ KindLinks(o)'
    BY <1>5 DEF PeerLinks, ChildLinks, KindLinks, NoLinks
  <2>2. ASSUME NEW x \in Known' PROVE PeerLinks(x)' /\ ChildLinks(x)' /\ KindLinks(x)'
    <3>1. CASE x \in Known
      BY <1>2, <1>4, <3>1, EarlierLinks
    <3>2. CASE x = o
      BY <2>1, <3>2
    <3>. QED  BY <1>3, <3>1, <3>2
  <2>3. \A x \in OrderIds \ Known' : links'[x] = NoLinks /\ exec'[x] = 0
    BY <1>2, <1>3 DEF LinksSound
  <2>. QED  BY <2>2, <2>3 DEF LinksSound
<1>7. r.side \in Sides /\ r.price \in Prices /\ r.qty \in Int
  <2>1. r.side \in Sides /\ r.price \in Prices /\ r.qty \in Quantities
    BY DEF Requests
  <2>. QED  BY <2>1, QuantitiesPositive
<1>. QED  BY <1>1, <1>2, <1>3, <1>4, <1>5, <1>6, <1>7

LEMMA PlaceOrderMSound ==
    ASSUME MSound, NEW r \in Requests, PlaceOrder(r), UNCHANGED <<links, waiting>>
    PROVE  MSound'
<1>1. PICK o : o = Len(order) + 1
  OBVIOUS
<1>2. /\ Receive(r) /\ store' = store \cup {o} /\ book' = AppendOrder(book, r.side, r.price, o)
      /\ UNCHANGED <<exec, paid, cancels, wallet, pc, taker, links, waiting>>
  BY <1>1 DEF PlaceOrder
<1>3. /\ pc = "idle" /\ Live /\ Arrives /\ LinksSound' /\ TypesSound
      /\ NewOrders = {o} /\ o \in OrderIds /\ o \notin Known
      /\ order' \in Seq(Requests) /\ Len(order') <= MaxOrders /\ order'[o] = r
      /\ links'[o] = NoLinks /\ r.side \in Sides /\ r.price \in Prices
  BY <1>1, <1>2, SingleArrives
<1>4. StoreSound /\ Holds(book, store \ waiting, order)
  BY <1>3, IdleContext, LiveParts
<1>5. Holds(book', (store \ waiting) \cup {o}, order')
  <2>1. Holds(book, store \ waiting, order')
    BY <1>3, <1>4, HoldsMore DEF StoreSound, Arrives
  <2>2. o \notin store \ waiting
    BY <1>3, <1>4 DEF StoreSound
  <2>. QED  BY <1>2, <1>3, <2>1, <2>2, HoldsAppend
<1>6. TypesSound'
  <2>1. book' \in Books
    BY <1>5 DEF Holds
  <2>2. /\ store' \in SUBSET OrderIds /\ waiting' \in SUBSET OrderIds
        /\ links' \in [OrderIds -> Links] /\ wallet' \in Wallets
        /\ cancels' \in [OrderIds -> Nat] /\ taker' \in OrderIds \cup {NoOrder}
        /\ pc' \in PCs \cup {"dead_event"}
    BY <1>2, <1>3 DEF TypesSound, MTypeOK, PCs
  <2>. QED  BY <1>2, <1>3, <2>1, <2>2, ArrivalTypes
<1>7. NewStored({o}, {}) /\ NewTaker({o}, {})
  BY <1>2, <1>3 DEF NewStored, NewTaker, NoLinks
<1>8. {o} \ {} = {o} /\ waiting' = waiting \cup {}
  BY <1>2
<1>9. \A x \in Known : cancels'[x] >= cancels[x]
  BY <1>2, <1>3, LiveFacts DEF TypesSound
<1>10. LiveSound'
  BY <1>2, <1>3, <1>5, <1>6, <1>7, <1>8, <1>9, ArrivalLive
<1>. QED  BY <1>2, <1>3, <1>6, <1>10, ArrivalMSound

\* An order that is not placed: the book stays as it is.
LEMMA NotPlacedMSound ==
    ASSUME MSound, NEW r \in Requests, Receive(r), exec' = exec,
           UNCHANGED <<paid, store, book, links, waiting>>,
           wallet' \in Wallets, cancels' \in [OrderIds -> Nat],
           \A x \in Known : cancels'[x] >= cancels[x],
           \/ pc' \in {"idle", "dead_remove"} /\ taker' = taker
           \/ pc' = "matching" /\ taker' = Len(order) + 1
    PROVE  MSound'
<1>1. PICK o : o = Len(order) + 1
  OBVIOUS
<1>2. /\ pc = "idle" /\ Live /\ Arrives /\ LinksSound' /\ TypesSound
      /\ NewOrders = {o} /\ o \in OrderIds /\ o \notin Known
      /\ order' \in Seq(Requests) /\ Len(order') <= MaxOrders
      /\ links'[o] = NoLinks
  BY <1>1, SingleArrives
<1>3. StoreSound /\ Holds(book, store \ waiting, order)
  BY <1>2, IdleContext, LiveParts
<1>4. Holds(book', store \ waiting, order')
  BY <1>2, <1>3, HoldsMore DEF StoreSound, Arrives
<1>5. TypesSound'
  <2>1. /\ store' \in SUBSET OrderIds /\ waiting' \in SUBSET OrderIds /\ book' \in Books
        /\ links' \in [OrderIds -> Links] /\ taker' \in OrderIds \cup {NoOrder}
        /\ pc' \in PCs \cup {"dead_event"}
    BY <1>1, <1>2 DEF TypesSound, MTypeOK, PCs
  <2>. QED  BY <1>2, <2>1, ArrivalTypes
<1>6. (store \ waiting) \cup ({} \ {}) = store \ waiting /\ store' = store \cup {}
      /\ waiting' = waiting \cup {}
  OBVIOUS
<1>7. NewStored({}, {})
  BY <1>2 DEF NewStored, NoLinks
<1>8. ASSUME Live' PROVE LiveSound'
  <2>1. NewTaker({}, {})
    BY <1>1, <1>2, <1>8 DEF NewTaker, NoLinks, Live
  <2>. QED  BY <1>2, <1>4, <1>5, <1>6, <1>7, <2>1, ArrivalLive
<1>9. pc' # "dead_link"
  OBVIOUS
<1>. QED  BY <1>2, <1>5, <1>8, <1>9, ArrivalMSound

LEMMA RejectOrBeginMSound ==
    ASSUME MSound, NEW r \in Requests, UNCHANGED <<links, waiting>>,
           RejectOrder(r) \/ RejectOrderRaises(r) \/ BeginMatch(r)
    PROVE  MSound'
<1>1. PICK o : o = Len(order) + 1
  OBVIOUS
<1>2. Receive(r) /\ exec' = exec /\ UNCHANGED <<paid, store, book, links, waiting>>
  BY DEF RejectOrder, RejectOrderRaises, BeginMatch
<1>3. /\ pc = "idle" /\ Live /\ LinksSound /\ TypesSound /\ o \in OrderIds /\ o \notin Known
      /\ r.qty \in Int
  BY <1>1, <1>2, SingleArrives, LiveParts
<1>4. wallet \in Wallets /\ cancels \in [OrderIds -> Nat]
  BY <1>3 DEF TypesSound, MTypeOK
<1>5. \/ pc' \in {"idle", "dead_remove"} /\ taker' = taker
      \/ pc' = "matching" /\ taker' = Len(order) + 1
  BY <1>3 DEF RejectOrder, RejectOrderRaises, BeginMatch
<1>6. wallet' \in Wallets
  <2>1. CASE RejectOrder(r)
    <3>1. ReleaseEscrow(wallet, r, r.qty) \in Wallets
      BY <1>3, <1>4, EngineWallets
    <3>2. ReleaseEscrow(ReleaseEscrow(wallet, r, r.qty), r, r.qty) \in Wallets
      BY <1>3, <3>1, EngineWallets
    <3>. QED  BY <2>1, <3>2 DEF RejectOrder
  <2>2. CASE RejectOrderRaises(r) \/ BeginMatch(r)
    BY <1>4, <2>2 DEF RejectOrderRaises, BeginMatch
  <2>. QED  BY <2>1, <2>2
<1>7. cancels' \in [OrderIds -> Nat]
  BY <1>1, <1>3, <1>4 DEF RejectOrder, RejectOrderRaises, BeginMatch
<1>8. \A x \in Known : cancels'[x] >= cancels[x]
  <2>1. \A x \in Known : x \in OrderIds /\ x # o /\ cancels[x] \in Nat
    BY <1>3, <1>4, LiveFacts
  <2>2. \A x \in Known : cancels'[x] = cancels[x]
    BY <1>1, <1>4, <2>1 DEF RejectOrder, RejectOrderRaises, BeginMatch
  <2>. QED  BY <2>1, <2>2
<1>. QED  BY <1>2, <1>5, <1>6, <1>7, <1>8, NotPlacedMSound

LEMMA ModifyRaisesMSound ==
    ASSUME MSound, NEW o, ModifyRaises(o), UNCHANGED <<links, waiting>>
    PROVE  MSound'
<1>1. /\ Live /\ pc' = "dead_modify"
      /\ UNCHANGED <<order, exec, paid, cancels, store, book, wallet, taker, links, waiting>>
  BY DEF ModifyRaises, Live
<1>. QED  BY <1>1, EventDead

LEMMA PlaceEventRaisesMSound ==
    ASSUME MSound, PlaceEventRaises
    PROVE  MSound'
<1>1. /\ Live /\ pc' = "dead_event"
      /\ UNCHANGED <<order, exec, paid, cancels, store, book, wallet, taker, links, waiting>>
  BY DEF PlaceEventRaises, Live
<1>. QED  BY <1>1, EventDead

\* The links that ReceiveLegs gives to order i, o being the first of the n
\* orders of its command.
NewLinks(k, o, n, i) ==
    [kind     |-> k,
     parent   |-> IF k = "oco" \/ i = o THEN NoOrder ELSE o,
     children |-> IF k # "oco" /\ i = o THEN (o .. o + n - 1) \ {o} ELSE {},
     peer     |-> CASE k = "oco" -> 2 * o + 1 - i
                    [] k = "otoco" /\ i # o -> 2 * o + 3 - i
                    [] OTHER -> NoOrder]

\* The command has received its orders.
Received(k, rs, o, n) ==
    /\ o \in OrderIds /\ o \in Nat /\ o > 0 /\ n \in Nat
    /\ NewOrders = o .. o + n - 1 /\ NewOrders \subseteq OrderIds
    /\ order' \in Seq(Requests) /\ Len(order') <= MaxOrders
    /\ \A i \in 1 .. n : order'[o + i - 1] = rs[i]
    /\ \A x \in OrderIds \ NewOrders : links'[x] = links[x]
    /\ \A x \in NewOrders : links'[x] = NewLinks(k, o, n, x)
    /\ DOMAIN links' = OrderIds /\ links' = [x \in OrderIds |-> links'[x]]

\* The arrival of linked orders.
LEMMA LegsArrive ==
    ASSUME MSound, NEW k, NEW rs \in Seq(Requests), ReceiveLegs(rs, k), Len(rs) > 0,
           NEW o, o = Len(order) + 1, NEW n, n = Len(rs)
    PROVE  /\ pc = "idle" /\ Live /\ TypesSound /\ LinksSound /\ Arrives
           /\ Received(k, rs, o, n)
<1>1. pc = "idle" /\ Live
  BY DEF ReceiveLegs, Live
<1>2. TypesSound /\ LinksSound /\ order \in Seq(Requests)
  BY <1>1, LiveParts DEF TypesSound, MTypeOK
<1>3. PICK l : l = Len(order)
  OBVIOUS
<1>4. l \in Nat /\ Known = 1 .. l /\ Known \subseteq OrderIds /\ n \in Nat /\ n > 0 /\ o = l + 1
      /\ l + n <= MaxOrders
  BY <1>1, <1>2, <1>3, LiveFacts DEF ReceiveLegs
<1>5. order' = order \o rs
  BY DEF ReceiveLegs
<1>6. /\ order' \in Seq(Requests) /\ Len(order') = l + n
      /\ \A i \in 1 .. l + n : order'[i] = IF i <= l THEN order[i] ELSE rs[i - l]
  BY <1>2, <1>3, <1>4, <1>5, ConcatProperties
<1>7. Known' = 1 .. l + n
  BY <1>6 DEF Known
<1>8. NewOrders = o .. o + n - 1
  BY <1>4, <1>7 DEF NewOrders
<1>9. o .. Len(order) + Len(rs) = o .. o + n - 1
  BY <1>3, <1>4
<1>10. links' = [i \in OrderIds |-> IF i \notin NewOrders THEN links[i] ELSE NewLinks(k, o, n, i)]
  BY <1>8, <1>9 DEF ReceiveLegs, NewLinks
<1>11. /\ o \in OrderIds /\ NewOrders \subseteq OrderIds /\ Known' \subseteq OrderIds
       /\ Known \cap NewOrders = {}
  BY <1>4, <1>7, <1>8, MaxOrdersAssumption DEF OrderIds
<1>12. Arrives
  <2>1. \A x \in Known : order'[x] = order[x]
    BY <1>4, <1>6
  <2>2. \A x \in Known : links'[x] = links[x]
    BY <1>4, <1>10, <1>11
  <2>. QED  BY <1>4, <1>7, <1>11, <2>1, <2>2 DEF Arrives
<1>13. \A i \in 1 .. n : order'[o + i - 1] = rs[i]
  <2>1. SUFFICES ASSUME NEW i \in 1 .. n PROVE order'[o + i - 1] = rs[i]
    OBVIOUS
  <2>2. o + i - 1 \in 1 .. l + n /\ ~(o + i - 1 <= l) /\ (o + i - 1) - l = i
    BY <1>4
  <2>. QED  BY <1>6, <2>2
<1>14. /\ \A x \in OrderIds \ NewOrders : links'[x] = links[x]
       /\ \A x \in NewOrders : links'[x] = NewLinks(k, o, n, x)
       /\ DOMAIN links' = OrderIds /\ links' = [x \in OrderIds |-> links'[x]]
  BY <1>10, <1>11
<1>. QED  BY <1>1, <1>2, <1>4, <1>6, <1>8, <1>11, <1>12, <1>13, <1>14 DEF Received

\* The links are sound if the new ones are.
LEMMA LinksGrow ==
    ASSUME TypesSound, LinksSound, Arrives, exec' = exec,
           \A x \in OrderIds \ NewOrders : links'[x] = links[x],
           links' = [x \in OrderIds |-> links'[x]],
           \A x \in NewOrders :
               links'[x] \in Links /\ PeerLinks(x)' /\ ChildLinks(x)' /\ KindLinks(x)'
    PROVE  LinksSound' /\ links' \in [OrderIds -> Links]
<1>1. ASSUME NEW x \in Known' PROVE PeerLinks(x)' /\ ChildLinks(x)' /\ KindLinks(x)'
  <2>1. CASE x \in Known
    BY <2>1, EarlierLinks
  <2>2. CASE x \notin Known
    BY <1>1, <2>2 DEF NewOrders
  <2>. QED  BY <2>1, <2>2
<1>2. \A x \in OrderIds \ Known' : links'[x] = NoLinks /\ exec'[x] = 0
  BY DEF LinksSound, NewOrders, Arrives
<1>3. \A x \in OrderIds : links'[x] \in Links
  BY DEF TypesSound, MTypeOK
<1>4. LinksSound'
  BY <1>1, <1>2 DEF LinksSound
<1>5. links' \in [OrderIds -> Links]
  <2>1. PICK f : f = links'
    OBVIOUS
  <2>2. f = [x \in OrderIds |-> f[x]] /\ \A x \in OrderIds : f[x] \in Links
    BY <1>3, <2>1
  <2>3. f \in [OrderIds -> Links]
    BY <2>2
  <2>. QED  BY <2>1, <2>3
<1>. QED  BY <1>4, <1>5

\* The arrival of an OCO pair.
LEMMA OCOArrives ==
    ASSUME MSound, NEW a \in Requests, NEW b \in Requests, a.user = b.user,
           ReceiveLegs(<<a, b>>, "oco"), exec' = exec,
           NEW o, o = Len(order) + 1, NEW o2, o2 = o + 1
    PROVE  /\ NewOrders = {o, o2} /\ o # o2
           /\ order'[o] = a /\ order'[o2] = b
           /\ links'[o] = [kind |-> "oco", parent |-> NoOrder, children |-> {}, peer |-> o2]
           /\ links'[o2] = [kind |-> "oco", parent |-> NoOrder, children |-> {}, peer |-> o]
           /\ LinksSound' /\ links' \in [OrderIds -> Links]
<1>1. PICK rs : rs = <<a, b>>
  OBVIOUS
<1>2. rs \in Seq(Requests) /\ Len(rs) = 2 /\ rs[1] = a /\ rs[2] = b /\ Len(rs) > 0
      /\ ReceiveLegs(rs, "oco")
  BY <1>1
<1>3. TypesSound /\ LinksSound /\ Arrives /\ Received("oco", rs, o, 2)
  BY <1>2, LegsArrive
<1>4. /\ o \in Nat /\ o > 0
      /\ NewOrders = o .. o + 2 - 1 /\ NewOrders \subseteq OrderIds
      /\ \A i \in 1 .. 2 : order'[o + i - 1] = rs[i]
      /\ \A x \in OrderIds \ NewOrders : links'[x] = links[x]
      /\ \A x \in NewOrders : links'[x] = NewLinks("oco", o, 2, x)
      /\ links' = [x \in OrderIds |-> links'[x]]
  BY <1>3 DEF Received
<1>5. /\ NewOrders = {o, o2} /\ o # o2 /\ o \in OrderIds /\ o2 \in OrderIds /\ o2 \in Nat
      /\ o # NoOrder /\ o2 # NoOrder
  BY <1>4 DEF NoOrder
<1>6. order'[o] = a /\ order'[o2] = b
  <2>1. o + 1 - 1 = o /\ o + 2 - 1 = o2 /\ 1 \in 1 .. 2 /\ 2 \in 1 .. 2
    BY <1>4
  <2>. QED  BY <1>2, <1>4, <2>1
<1>7. /\ links'[o] = [kind |-> "oco", parent |-> NoOrder, children |-> {}, peer |-> o2]
      /\ links'[o2] = [kind |-> "oco", parent |-> NoOrder, children |-> {}, peer |-> o]
  <2>1. 2 * o + 1 - o = o2 /\ 2 * o + 1 - o2 = o
    BY <1>4
  <2>. QED  BY <1>4, <1>5, <2>1 DEF NewLinks
<1>8. \A x \in NewOrders : x \in Known'
  BY DEF NewOrders
<1>9. ASSUME NEW x \in NewOrders
      PROVE  links'[x] \in Links /\ PeerLinks(x)' /\ ChildLinks(x)' /\ KindLinks(x)'
  <2>1. PICK y : {x, y} = {o, o2} /\ x # y
    BY <1>5
  <2>2. /\ links'[x] = [kind |-> "oco", parent |-> NoOrder, children |-> {}, peer |-> y]
        /\ links'[y] = [kind |-> "oco", parent |-> NoOrder, children |-> {}, peer |-> x]
        /\ y \in Known' /\ y \in OrderIds /\ y # NoOrder
        /\ order'[x].user = order'[y].user
    BY <1>5, <1>6, <1>7, <1>8, <2>1
  <2>3. links'[x] \in Links
    BY <2>2 DEF Links, Kinds
  <2>4. PeerLinks(x)'
    BY <2>1, <2>2 DEF PeerLinks
  <2>5. ChildLinks(x)'
    BY <2>2 DEF ChildLinks
  <2>6. KindLinks(x)'
    BY <2>2 DEF KindLinks
  <2>. QED  BY <2>3, <2>4, <2>5, <2>6
<1>10. LinksSound' /\ links' \in [OrderIds -> Links]
  BY <1>4, <1>9, <1>3, LinksGrow
<1>. QED  BY <1>5, <1>6, <1>7, <1>10

\* A command has brought a parent and its children.
NewParent(o, C) ==
    /\ NewOrders = {o} \cup C /\ o \notin C
    /\ links'[o].parent = NoOrder /\ links'[o].peer = NoOrder /\ links'[o].children = C
    /\ \A x \in C : /\ links'[x].parent = o
                    /\ links'[x].peer # NoOrder => links'[x].peer \in C

\* The arrival of an OTO.
LEMMA OTOArrives ==
    ASSUME MSound, NEW a \in Requests, NEW b \in Requests, a.user = b.user, a.side # b.side,
           ReceiveLegs(<<a, b>>, "oto"), exec' = exec,
           NEW o, o = Len(order) + 1, NEW o2, o2 = o + 1
    PROVE  NewParent(o, {o2}) /\ LinksSound' /\ links' \in [OrderIds -> Links]
<1>1. PICK rs : rs = <<a, b>>
  OBVIOUS
<1>2. rs \in Seq(Requests) /\ Len(rs) = 2 /\ rs[1] = a /\ rs[2] = b /\ Len(rs) > 0
      /\ ReceiveLegs(rs, "oto")
  BY <1>1
<1>3. TypesSound /\ LinksSound /\ Arrives /\ Received("oto", rs, o, 2)
  BY <1>2, LegsArrive
<1>4. /\ o \in Nat /\ o > 0
      /\ NewOrders = o .. o + 2 - 1 /\ NewOrders \subseteq OrderIds
      /\ \A i \in 1 .. 2 : order'[o + i - 1] = rs[i]
      /\ \A x \in OrderIds \ NewOrders : links'[x] = links[x]
      /\ \A x \in NewOrders : links'[x] = NewLinks("oto", o, 2, x)
      /\ links' = [x \in OrderIds |-> links'[x]]
  BY <1>3 DEF Received
<1>5. /\ NewOrders = {o, o2} /\ o # o2 /\ o \in OrderIds /\ o2 \in OrderIds /\ o2 \in Nat
      /\ o # NoOrder /\ o2 # NoOrder
  BY <1>4 DEF NoOrder
<1>6. order'[o] = a /\ order'[o2] = b
  <2>1. o + 1 - 1 = o /\ o + 2 - 1 = o2 /\ 1 \in 1 .. 2 /\ 2 \in 1 .. 2
    BY <1>4
  <2>. QED  BY <1>2, <1>4, <2>1
<1>7. /\ links'[o] = [kind |-> "oto", parent |-> NoOrder, children |-> {o2}, peer |-> NoOrder]
      /\ links'[o2] = [kind |-> "oto", parent |-> o, children |-> {}, peer |-> NoOrder]
  <2>1. (o .. o + 2 - 1) \ {o} = {o2}
    BY <1>4
  <2>. QED  BY <1>4, <1>5, <2>1 DEF NewLinks
<1>8. o \in Known' /\ o2 \in Known'
  BY <1>5 DEF NewOrders
<1>9. ASSUME NEW x \in NewOrders
      PROVE  links'[x] \in Links /\ PeerLinks(x)' /\ ChildLinks(x)' /\ KindLinks(x)'
  <2>1. CASE x = o
    <3>1. links'[o] \in Links
      BY <1>5, <1>7 DEF Links, Kinds
    <3>2. PeerLinks(o)'
      BY <1>5, <1>6, <1>7, <1>8 DEF PeerLinks
    <3>3. ChildLinks(o)'
      BY <1>5, <1>6, <1>7, <1>8 DEF ChildLinks
    <3>4. KindLinks(o)'
      BY <1>5, <1>7, <1>8 DEF KindLinks
    <3>. QED  BY <2>1, <3>1, <3>2, <3>3, <3>4
  <2>2. CASE x = o2
    <3>1. links'[o2] \in Links
      BY <1>5, <1>7 DEF Links, Kinds
    <3>2. PeerLinks(o2)'
      BY <1>5, <1>6, <1>7, <1>8 DEF PeerLinks
    <3>3. ChildLinks(o2)'
      BY <1>5, <1>6, <1>7, <1>8 DEF ChildLinks
    <3>4. KindLinks(o2)'
      BY <1>5, <1>7, <1>8 DEF KindLinks
    <3>. QED  BY <2>2, <3>1, <3>2, <3>3, <3>4
  <2>. QED  BY <1>5, <2>1, <2>2
<1>10. LinksSound' /\ links' \in [OrderIds -> Links]
  BY <1>3, <1>4, <1>9, LinksGrow
<1>11. NewParent(o, {o2})
  BY <1>5, <1>7 DEF NewParent
<1>. QED  BY <1>10, <1>11

\* The arrival of an OTOCO.
LEMMA OTOCOArrives ==
    ASSUME MSound, NEW a \in Requests, NEW b \in Requests, NEW c \in Requests,
           a.user = b.user, a.user = c.user, a.side # b.side, a.side # c.side,
           ReceiveLegs(<<a, b, c>>, "otoco"), exec' = exec,
           NEW o, o = Len(order) + 1, NEW o2, o2 = o + 1, NEW o3, o3 = o + 2
    PROVE  NewParent(o, {o2, o3}) /\ LinksSound' /\ links' \in [OrderIds -> Links]
<1>1. PICK rs : rs = <<a, b, c>>
  OBVIOUS
<1>2. rs \in Seq(Requests) /\ Len(rs) = 3 /\ rs[1] = a /\ rs[2] = b /\ rs[3] = c /\ Len(rs) > 0
      /\ ReceiveLegs(rs, "otoco")
  BY <1>1
<1>3. TypesSound /\ LinksSound /\ Arrives /\ Received("otoco", rs, o, 3)
  BY <1>2, LegsArrive
<1>4. /\ o \in Nat /\ o > 0
      /\ NewOrders = o .. o + 3 - 1 /\ NewOrders \subseteq OrderIds
      /\ \A i \in 1 .. 3 : order'[o + i - 1] = rs[i]
      /\ \A x \in OrderIds \ NewOrders : links'[x] = links[x]
      /\ \A x \in NewOrders : links'[x] = NewLinks("otoco", o, 3, x)
      /\ links' = [x \in OrderIds |-> links'[x]]
  BY <1>3 DEF Received
<1>5. /\ NewOrders = {o, o2, o3} /\ o # o2 /\ o # o3 /\ o2 # o3
      /\ o \in OrderIds /\ o2 \in OrderIds /\ o3 \in OrderIds
      /\ o # NoOrder /\ o2 # NoOrder /\ o3 # NoOrder
  BY <1>4 DEF NoOrder
<1>6. order'[o] = a /\ order'[o2] = b /\ order'[o3] = c
  <2>1. /\ o + 1 - 1 = o /\ o + 2 - 1 = o2 /\ o + 3 - 1 = o3
        /\ 1 \in 1 .. 3 /\ 2 \in 1 .. 3 /\ 3 \in 1 .. 3
    BY <1>4
  <2>. QED  BY <1>2, <1>4, <2>1
<1>7. /\ links'[o] = [kind |-> "otoco", parent |-> NoOrder, children |-> {o2, o3},
                      peer |-> NoOrder]
      /\ links'[o2] = [kind |-> "otoco", parent |-> o, children |-> {}, peer |-> o3]
      /\ links'[o3] = [kind |-> "otoco", parent |-> o, children |-> {}, peer |-> o2]
  <2>1. (o .. o + 3 - 1) \ {o} = {o2, o3}
    BY <1>4
  <2>2. 2 * o + 3 - o2 = o3 /\ 2 * o + 3 - o3 = o2
    BY <1>4
  <2>. QED  BY <1>4, <1>5, <2>1, <2>2 DEF NewLinks
<1>8. o \in Known' /\ o2 \in Known' /\ o3 \in Known'
  BY <1>5 DEF NewOrders
<1>9. /\ links'[o].peer = NoOrder /\ links'[o].parent = NoOrder
       /\ links'[o].children = {o2, o3} /\ links'[o].kind = "otoco"
       /\ links'[o2].peer = o3 /\ links'[o2].parent = o
       /\ links'[o2].children = {} /\ links'[o2].kind = "otoco"
       /\ links'[o3].peer = o2 /\ links'[o3].parent = o
       /\ links'[o3].children = {} /\ links'[o3].kind = "otoco"
  BY <1>7
<1>10. /\ order'[o].user = order'[o2].user /\ order'[o].user = order'[o3].user
       /\ order'[o].side # order'[o2].side /\ order'[o].side # order'[o3].side
  BY <1>6
<1>11. ASSUME NEW x \in NewOrders
      PROVE  links'[x] \in Links /\ PeerLinks(x)' /\ ChildLinks(x)' /\ KindLinks(x)'
  <2>1. CASE x = o
    <3>1. links'[o] \in Links
      BY <1>5, <1>7 DEF Links, Kinds
    <3>2. PeerLinks(o)'
      BY <1>5, <1>8, <1>9, <1>10 DEF PeerLinks
    <3>3. ChildLinks(o)'
      BY <1>5, <1>8, <1>9, <1>10 DEF ChildLinks
    <3>4. KindLinks(o)'
      BY <1>5, <1>8, <1>9 DEF KindLinks
    <3>. QED  BY <2>1, <3>1, <3>2, <3>3, <3>4
  <2>2. CASE x = o2
    <3>1. links'[o2] \in Links
      BY <1>5, <1>7 DEF Links, Kinds
    <3>2. PeerLinks(o2)'
      BY <1>5, <1>8, <1>9, <1>10 DEF PeerLinks
    <3>3. ChildLinks(o2)'
      BY <1>5, <1>8, <1>9, <1>10 DEF ChildLinks
    <3>4. KindLinks(o2)'
      BY <1>5, <1>8, <1>9 DEF KindLinks
    <3>. QED  BY <2>2, <3>1, <3>2, <3>3, <3>4
  <2>3. CASE x = o3
    <3>1. links'[o3] \in Links
      BY <1>5, <1>7 DEF Links, Kinds
    <3>2. PeerLinks(o3)'
      BY <1>5, <1>8, <1>9, <1>10 DEF PeerLinks
    <3>3. ChildLinks(o3)'
      BY <1>5, <1>8, <1>9, <1>10 DEF ChildLinks
    <3>4. KindLinks(o3)'
      BY <1>5, <1>8, <1>9 DEF KindLinks
    <3>. QED  BY <2>3, <3>1, <3>2, <3>3, <3>4
  <2>. QED  BY <1>5, <2>1, <2>2, <2>3
<1>12. LinksSound' /\ links' \in [OrderIds -> Links]
  BY <1>3, <1>4, <1>11, LinksGrow
<1>13. NewParent(o, {o2, o3})
  BY <1>5, <1>9 DEF NewParent
<1>. QED  BY <1>12, <1>13

\* What the legs of a command are.
LegsOf(rs, k) ==
    \E u \in LinkedUsers : \/ k = "oco" /\ rs \in OCOLegs(u)
                           \/ k = "oto" /\ rs \in OTOLegs(u)
                           \/ k = "otoco" /\ rs \in OTOCOLegs(u)

\* The legs are requests of one user, and children are on the other side.
LEMMA LegsTuples ==
    ASSUME NEW rs, NEW k, LegsOf(rs, k)
    PROVE  \/ /\ k \in {"oco", "oto"}
              /\ \E a, b \in Requests : /\ rs = <<a, b>> /\ a.user = b.user
                                        /\ k = "oto" => a.side # b.side
           \/ /\ k = "otoco"
              /\ \E a, b, c \in Requests : /\ rs = <<a, b, c>>
                                           /\ a.user = b.user /\ a.user = c.user
                                           /\ a.side # b.side /\ a.side # c.side
<1>1. PICK u \in LinkedUsers : \/ k = "oco" /\ rs \in OCOLegs(u)
                               \/ k = "oto" /\ rs \in OTOLegs(u)
                               \/ k = "otoco" /\ rs \in OTOCOLegs(u)
  BY DEF LegsOf
<1>2. ASSUME rs \in OCOLegs(u)
      PROVE  \E a, b \in Requests : rs = <<a, b>> /\ a.user = u /\ b.user = u
  BY <1>2 DEF OCOLegs, SentBy
<1>3. ASSUME rs \in OTOLegs(u)
      PROVE  rs \in OCOLegs(u) /\ rs[1].side # rs[2].side
  BY <1>3 DEF OTOLegs, Triggers
<1>4. ASSUME rs \in OTOCOLegs(u)
      PROVE  \E a, b, c \in Requests : /\ rs = <<a, b, c>>
                                       /\ a.user = u /\ b.user = u /\ c.user = u
                                       /\ a.side # b.side /\ a.side # c.side
  BY <1>4 DEF OTOCOLegs, SentBy, Triggers
<1>5. CASE k = "oco" /\ rs \in OCOLegs(u)
  BY <1>2, <1>5
<1>6. CASE k = "oto" /\ rs \in OTOLegs(u)
  <2>1. PICK a, b \in Requests : rs = <<a, b>> /\ a.user = u /\ b.user = u
    BY <1>2, <1>3, <1>6
  <2>2. a.side # b.side
    BY <1>3, <1>6, <2>1
  <2>. QED  BY <1>6, <2>1, <2>2
<1>7. CASE k = "otoco" /\ rs \in OTOCOLegs(u)
  BY <1>4, <1>7
<1>. QED  BY <1>1, <1>5, <1>6, <1>7

\* The links after the arrival of a parent with its children.
LEMMA ParentArrives ==
    ASSUME MSound, NEW rs, NEW k, LegsOf(rs, k), k # "oco", ReceiveLegs(rs, k), exec' = exec,
           NEW o, o = Len(order) + 1, NEW C, C = o + 1 .. o + Len(rs) - 1
    PROVE  NewParent(o, C) /\ LinksSound' /\ links' \in [OrderIds -> Links]
<1>1. pc = "idle"
  BY DEF ReceiveLegs
<1>2. o \in Nat
  BY <1>1, LiveParts, LiveFacts DEF Live
<1>3. CASE k = "oto"
  <2>1. PICK a, b \in Requests : rs = <<a, b>> /\ a.user = b.user /\ a.side # b.side
    BY <1>3, LegsTuples
  <2>2. PICK o2 : o2 = o + 1
    OBVIOUS
  <2>3. C = {o2}
    <3>1. Len(rs) = 2
      BY <2>1
    <3>. QED  BY <1>2, <2>2, <3>1
  <2>4. NewParent(o, {o2}) /\ LinksSound' /\ links' \in [OrderIds -> Links]
    BY <1>3, <2>1, <2>2, OTOArrives
  <2>. QED  BY <2>3, <2>4
<1>4. CASE k = "otoco"
  <2>1. PICK a, b, c \in Requests : /\ rs = <<a, b, c>> /\ a.user = b.user /\ a.user = c.user
                                    /\ a.side # b.side /\ a.side # c.side
    BY <1>4, LegsTuples
  <2>2. PICK o2, o3 : o2 = o + 1 /\ o3 = o + 2
    OBVIOUS
  <2>3. C = {o2, o3}
    <3>1. Len(rs) = 3
      BY <2>1
    <3>. QED  BY <1>2, <2>2, <3>1
  <2>4. NewParent(o, {o2, o3}) /\ LinksSound' /\ links' \in [OrderIds -> Links]
    BY <1>4, <2>1, <2>2, OTOCOArrives
  <2>. QED  BY <2>3, <2>4
<1>. QED  BY <1>3, <1>4 DEF LegsOf

\* What holds after the arrival of any linked orders.
LEMMA LinkedArrives ==
    ASSUME MSound, NEW rs, NEW k, LegsOf(rs, k), ReceiveLegs(rs, k), exec' = exec,
           NEW o, o = Len(order) + 1
    PROVE  /\ pc = "idle" /\ Live /\ Arrives /\ TypesSound /\ StoreSound
           /\ LinksSound' /\ links' \in [OrderIds -> Links]
           /\ order' \in Seq(Requests) /\ Len(order') <= MaxOrders
           /\ o \in OrderIds /\ o # NoOrder /\ NewOrders \subseteq OrderIds
           /\ order'[o] = rs[1] /\ rs[1] \in Requests
           /\ Holds(book, store \ waiting, order')
<1>1. rs \in Seq(Requests) /\ Len(rs) > 0 /\ 1 \in 1 .. Len(rs) /\ rs[1] \in Requests
  <2>1. CASE k \in {"oco", "oto"}
    <3>1. PICK a, b \in Requests : rs = <<a, b>>
      BY <2>1, LegsTuples
    <3>. QED  BY <3>1
  <2>2. CASE k = "otoco"
    <3>1. PICK a, b, c \in Requests : rs = <<a, b, c>>
      BY <2>2, LegsTuples
    <3>. QED  BY <3>1
  <2>. QED  BY <2>1, <2>2 DEF LegsOf
<1>2. PICK n : n = Len(rs)
  OBVIOUS
<1>3. pc = "idle" /\ Live /\ TypesSound /\ Arrives /\ Received(k, rs, o, n)
  BY <1>1, <1>2, LegsArrive
<1>4. /\ o \in OrderIds /\ o # NoOrder /\ NewOrders \subseteq OrderIds
      /\ order' \in Seq(Requests) /\ Len(order') <= MaxOrders
      /\ order'[o] = rs[1]
  <2>1. o \in Nat /\ o + 1 - 1 = o
    BY <1>3 DEF Received
  <2>. QED  BY <1>1, <1>2, <1>3, <2>1 DEF Received, NoOrder
<1>5. LinksSound' /\ links' \in [OrderIds -> Links]
  <2>1. CASE k = "oco"
    <3>1. PICK a, b \in Requests : rs = <<a, b>> /\ a.user = b.user
      BY <2>1, LegsTuples
    <3>. QED  BY <2>1, <3>1, OCOArrives
  <2>2. CASE k # "oco"
    BY <2>2, ParentArrives
  <2>. QED  BY <2>1, <2>2
<1>6. StoreSound /\ Holds(book, store \ waiting, order)
  BY <1>3, IdleContext, LiveParts
<1>7. Holds(book, store \ waiting, order')
  BY <1>3, <1>6, HoldsMore DEF StoreSound, Arrives
<1>. QED  BY <1>1, <1>3, <1>4, <1>5, <1>6, <1>7

\* The types after the arrival of linked orders.
LEMMA LinkedTypes ==
    ASSUME MSound, NEW rs, NEW k, LegsOf(rs, k), ReceiveLegs(rs, k),
           UNCHANGED <<exec, paid, cancels, wallet>>,
           book' \in Books, store' \in SUBSET OrderIds, waiting' \in SUBSET OrderIds,
           pc' \in PCs \cup {"dead_event"}, taker' \in OrderIds \cup {NoOrder}
    PROVE  TypesSound'
<1>1. PICK o : o = Len(order) + 1
  OBVIOUS
<1>2. /\ TypesSound /\ LinksSound' /\ links' \in [OrderIds -> Links]
      /\ order' \in Seq(Requests) /\ Len(order') <= MaxOrders
  BY <1>1, LinkedArrives
<1>3. cancels' \in [OrderIds -> Nat] /\ wallet' \in Wallets
  BY <1>2 DEF TypesSound, MTypeOK
<1>. QED  BY <1>2, <1>3, ArrivalTypes

LEMMA PlaceOCOMSound ==
    ASSUME MSound, NEW rs, LegsOf(rs, "oco"), PlaceOCO(rs)
    PROVE  MSound'
<1>1. PICK o, o2 : o = Len(order) + 1 /\ o2 = o + 1
  OBVIOUS
<1>2. /\ ReceiveLegs(rs, "oco") /\ rs[1].user = System
      /\ book' = AppendOrder(AppendOrder(book, rs[1].side, rs[1].price, o),
                             rs[2].side, rs[2].price, o2)
      /\ store' = store \cup {o, o2}
      /\ UNCHANGED <<exec, paid, cancels, wallet, pc, taker, waiting>>
  BY <1>1 DEF PlaceOCO
<1>3. PICK a, b \in Requests : rs = <<a, b>> /\ a.user = b.user
  BY LegsTuples
<1>4. /\ NewOrders = {o, o2} /\ o # o2 /\ order'[o] = a /\ order'[o2] = b
      /\ links'[o] = [kind |-> "oco", parent |-> NoOrder, children |-> {}, peer |-> o2]
      /\ links'[o2] = [kind |-> "oco", parent |-> NoOrder, children |-> {}, peer |-> o]
  BY <1>1, <1>2, <1>3, OCOArrives
<1>5. /\ pc = "idle" /\ Live /\ Arrives /\ TypesSound /\ StoreSound /\ LinksSound'
      /\ NewOrders \subseteq OrderIds
      /\ Holds(book, store \ waiting, order')
  BY <1>1, <1>2, LinkedArrives
<1>6. /\ a.side \in Sides /\ a.price \in Prices /\ b.side \in Sides /\ b.price \in Prices
      /\ o \in OrderIds /\ o2 \in OrderIds /\ o \notin store /\ o2 \notin store
  BY <1>4, <1>5 DEF Requests, NewOrders, StoreSound
<1>7. PICK b1 : b1 = AppendOrder(book, a.side, a.price, o)
  OBVIOUS
<1>8. Holds(b1, (store \ waiting) \cup {o}, order')
  <2>1. o \notin store \ waiting
    BY <1>6
  <2>. QED  BY <1>4, <1>5, <1>6, <1>7, <2>1, HoldsAppend
<1>9. Holds(book', ((store \ waiting) \cup {o}) \cup {o2}, order')
  <2>1. o2 \notin (store \ waiting) \cup {o}
    BY <1>4, <1>6
  <2>2. book' = AppendOrder(b1, b.side, b.price, o2)
    BY <1>2, <1>3, <1>7
  <2>. QED  BY <1>4, <1>6, <1>8, <2>1, <2>2, HoldsAppend
<1>10. TypesSound'
  <2>1. book' \in Books
    BY <1>9 DEF Holds
  <2>2. /\ store' \in SUBSET OrderIds /\ waiting' \in SUBSET OrderIds
        /\ pc' \in PCs \cup {"dead_event"} /\ taker' \in OrderIds \cup {NoOrder}
    BY <1>2, <1>5, <1>6 DEF TypesSound, MTypeOK, PCs
  <2>. QED  BY <1>2, <2>1, <2>2, LinkedTypes
<1>11. NewStored({o, o2}, {}) /\ NewTaker({o, o2}, {})
  <2>1. order'[o].user = System /\ order'[o2].user = System
    BY <1>2, <1>3, <1>4
  <2>. QED  BY <1>2, <1>4, <1>5, <2>1 DEF NewStored, NewTaker
<1>12. /\ Holds(book', (store \ waiting) \cup ({o, o2} \ {}), order')
       /\ waiting' = waiting \cup {}
  <2>1. ((store \ waiting) \cup {o}) \cup {o2} = (store \ waiting) \cup ({o, o2} \ {})
    OBVIOUS
  <2>. QED  BY <1>2, <1>9, <2>1
<1>13. \A x \in Known : cancels'[x] >= cancels[x]
  BY <1>2, <1>5, LiveFacts DEF TypesSound
<1>14. LiveSound'
  BY <1>2, <1>5, <1>10, <1>11, <1>12, <1>13, ArrivalLive
<1>. QED  BY <1>2, <1>5, <1>10, <1>14, ArrivalMSound

LEMMA PlaceParentMSound ==
    ASSUME MSound, NEW rs, NEW k, LegsOf(rs, k), k # "oco", PlaceParent(rs, k)
    PROVE  MSound'
<1>1. PICK o, C : o = Len(order) + 1 /\ C = o + 1 .. o + Len(rs) - 1
  OBVIOUS
<1>2. /\ ReceiveLegs(rs, k) /\ rs[1].user = System
      /\ book' = AppendOrder(book, rs[1].side, rs[1].price, o)
      /\ store' = store \cup (o .. o + Len(rs) - 1)
      /\ waiting' = waiting \cup C
      /\ UNCHANGED <<exec, paid, cancels, wallet, pc, taker>>
  BY <1>1 DEF PlaceParent
<1>3. NewParent(o, C)
  BY <1>1, <1>2, ParentArrives
<1>4. /\ pc = "idle" /\ Live /\ Arrives /\ TypesSound /\ StoreSound /\ LinksSound'
      /\ o \in OrderIds /\ o # NoOrder /\ NewOrders \subseteq OrderIds
      /\ order'[o] = rs[1] /\ rs[1] \in Requests
      /\ Holds(book, store \ waiting, order')
  BY <1>1, <1>2, LinkedArrives
<1>5. store' = store \cup ({o} \cup C)
  <2>1. Len(rs) \in Nat /\ Len(rs) > 0 /\ o \in Nat
    <3>1. Len(rs) = 2 \/ Len(rs) = 3
      BY LegsTuples DEF LegsOf
    <3>. QED  BY <1>4, <3>1 DEF OrderIds
  <2>2. o .. o + Len(rs) - 1 = {o} \cup C
    BY <1>1, <2>1
  <2>. QED  BY <1>2, <2>2
<1>6. NewOrders = {o} \cup C /\ o \notin C
  BY <1>3 DEF NewParent
<1>7. Holds(book', (store \ waiting) \cup {o}, order')
  <2>1. rs[1].side \in Sides /\ rs[1].price \in Prices
    BY <1>4 DEF Requests
  <2>2. o \notin store \ waiting
    BY <1>4, <1>6 DEF StoreSound, NewOrders
  <2>. QED  BY <1>2, <1>4, <2>1, <2>2, HoldsAppend
<1>8. TypesSound'
  <2>1. book' \in Books
    BY <1>7 DEF Holds
  <2>2. /\ store' \in SUBSET OrderIds /\ waiting' \in SUBSET OrderIds
        /\ pc' \in PCs \cup {"dead_event"} /\ taker' \in OrderIds \cup {NoOrder}
    BY <1>2, <1>4, <1>5, <1>6 DEF TypesSound, MTypeOK, PCs
  <2>. QED  BY <1>2, <2>1, <2>2, LinkedTypes
<1>9. PICK P : P = {o} \cup C
  OBVIOUS
<1>10. NewStored(P, C) /\ NewTaker(P, C)
  <2>1. \A x \in P : order'[x].user = System
    <3>1. order'[o].user = System
      BY <1>2, <1>4
    <3>2. ASSUME NEW x \in C PROVE order'[x].user = System
      <4>1. ChildLinks(x)' /\ links'[x].parent = o
        BY <1>3, <1>6, <3>2, <1>4 DEF NewParent, LinksSound, NewOrders
      <4>. QED  BY <1>4, <3>1, <4>1 DEF ChildLinks
    <3>. QED  BY <1>9, <3>1, <3>2
  <2>2. NewStored(P, C)
    BY <1>3, <1>4, <1>9, <2>1 DEF NewStored, NewParent
  <2>. QED  BY <1>2, <1>4, <2>2 DEF NewTaker
<1>11. Holds(book', (store \ waiting) \cup (P \ C), order')
  <2>1. P \ C = {o}
    BY <1>6, <1>9
  <2>. QED  BY <1>7, <2>1
<1>12. \A x \in Known : cancels'[x] >= cancels[x]
  BY <1>2, <1>4, LiveFacts DEF TypesSound
<1>13. store' = store \cup P
  BY <1>5, <1>9
<1>14. LiveSound'
  BY <1>2, <1>4, <1>8, <1>10, <1>11, <1>12, <1>13, ArrivalLive
<1>. QED  BY <1>2, <1>4, <1>8, <1>14, ArrivalMSound

LEMMA MatchParentMSound ==
    ASSUME MSound, NEW rs, NEW k, LegsOf(rs, k), k # "oco", MatchParent(rs, k)
    PROVE  MSound'
<1>1. PICK o, C : o = Len(order) + 1 /\ C = o + 1 .. o + Len(rs) - 1
  OBVIOUS
<1>2. /\ ReceiveLegs(rs, k) /\ pc' = "matching" /\ taker' = o
      /\ waiting' = waiting \cup C
      /\ UNCHANGED <<exec, paid, cancels, store, book, wallet>>
  BY <1>1 DEF MatchParent
<1>3. NewParent(o, C)
  BY <1>1, <1>2, ParentArrives
<1>4. /\ pc = "idle" /\ Live /\ Arrives /\ TypesSound /\ StoreSound /\ LinksSound'
      /\ o \in OrderIds /\ o # NoOrder /\ NewOrders \subseteq OrderIds
      /\ Holds(book, store \ waiting, order')
  BY <1>1, <1>2, LinkedArrives
<1>5. TypesSound'
  <2>1. /\ book' \in Books /\ store' \in SUBSET OrderIds /\ waiting' \in SUBSET OrderIds
        /\ pc' \in PCs \cup {"dead_event"} /\ taker' \in OrderIds \cup {NoOrder}
    BY <1>2, <1>3, <1>4 DEF TypesSound, MTypeOK, PCs, NewParent
  <2>. QED  BY <1>2, <2>1, LinkedTypes
<1>6. NewStored({}, C) /\ NewTaker({}, C)
  BY <1>2, <1>3, <1>4 DEF NewStored, NewTaker, NewParent
<1>7. Holds(book', (store \ waiting) \cup ({} \ C), order') /\ store' = store \cup {}
  <2>1. (store \ waiting) \cup ({} \ C) = store \ waiting
    OBVIOUS
  <2>. QED  BY <1>2, <1>4, <2>1
<1>8. \A x \in Known : cancels'[x] >= cancels[x]
  BY <1>2, <1>4, LiveFacts DEF TypesSound
<1>9. LiveSound'
  BY <1>2, <1>4, <1>5, <1>6, <1>7, <1>8, ArrivalLive
<1>. QED  BY <1>2, <1>4, <1>5, <1>9, ArrivalMSound

LEMMA LinkedEventRaisesMSound ==
    ASSUME MSound, NEW rs, NEW k, LegsOf(rs, k), LinkedEventRaises(rs, k)
    PROVE  MSound'
<1>1. /\ ReceiveLegs(rs, k) /\ pc' = "dead_event"
      /\ UNCHANGED <<exec, paid, cancels, store, book, wallet, taker, waiting>>
  BY DEF LinkedEventRaises
<1>2. PICK o : o = Len(order) + 1
  OBVIOUS
<1>3. pc = "idle" /\ Arrives /\ TypesSound /\ LinksSound'
  BY <1>1, <1>2, LinkedArrives
<1>4. TypesSound'
  <2>1. /\ book' \in Books /\ store' \in SUBSET OrderIds /\ waiting' \in SUBSET OrderIds
        /\ taker' \in OrderIds \cup {NoOrder}
    BY <1>1, <1>3 DEF TypesSound, MTypeOK
  <2>. QED  BY <1>1, <2>1, LinkedTypes
<1>5. ~Live'
  BY <1>1 DEF Live
<1>. QED  BY <1>1, <1>3, <1>4, <1>5, ArrivalMSound

-----------------------------------------------------------------------------
(***************************************************************************)
(* The theorems.                                                           *)
(***************************************************************************)

\* Nothing has arrived.
LEMMA InitMSound == MInit => MSound
<1> SUFFICES ASSUME MInit PROVE MSound
  OBVIOUS
<1>1. Init /\ links = [o \in OrderIds |-> NoLinks] /\ waiting = {}
  BY DEF MInit
<1>2. IInv
  BY <1>1, InitIInv
<1>3. /\ Known = {} /\ store = {} /\ pc = "idle" /\ exec = [o \in OrderIds |-> 0]
  BY <1>1 DEF Init, Known
<1>4. \A o \in OrderIds : links[o] = NoLinks /\ exec[o] = 0
  BY <1>1, <1>3
<1>5. TypesSound
  <2>1. NoLinks \in Links
    BY DEF NoLinks, Links, Kinds
  <2>2. links \in [OrderIds -> Links]
    BY <1>1, <2>1
  <2>3. \A o \in OrderIds : links[o].peer = NoOrder /\ links[o].children = {}
    BY <1>4 DEF NoLinks
  <2>. QED  BY <1>1, <1>2, <1>3, <2>2, <2>3 DEF IInv, TypeOK, TypesSound, MTypeOK
<1>6. LinksSound /\ ChildrenNotEarly /\ OneLegTrades /\ LinkFailuresExplained
  BY <1>3, <1>4 DEF LinksSound, ChildrenNotEarly, OneLegTrades, LinkFailuresExplained
<1>7. JustQuoted = {}
  BY <1>3 DEF JustQuoted
<1>8. Holds(book, (store \ waiting) \cup JustQuoted, order)
  <2>1. (store \ waiting) \cup JustQuoted = {}
    BY <1>3, <1>7
  <2>2. Holds(book, {}, order)
    BY <1>2, <1>3 DEF IInv, TypeOK, BookConsistent, BookMatchesStore, Holds
  <2>. QED  BY <2>1, <2>2
<1>9. StoreSound /\ WaitingSound /\ TakerSound /\ FamilySound /\ PairSound
  BY <1>1, <1>3 DEF StoreSound, WaitingSound, TakerSound, FamilySound, PairSound
<1>. QED  BY <1>5, <1>6, <1>8, <1>9 DEF MSound, LiveSound

\* Every step of the engine keeps the invariant.
LEMMA NextMSound == MSound /\ [MNext]_mvars => MSound'
<1> SUFFICES ASSUME MSound, [MNext]_mvars PROVE MSound'
  OBVIOUS
<1>1. CASE SingleCommand
  <2>1. UNCHANGED <<links, waiting>>
    BY <1>1 DEF SingleCommand
  <2>2. CASE \E r \in Requests : PlaceOrder(r)
    BY <2>1, <2>2, PlaceOrderMSound
  <2>3. CASE \E r \in Requests : RejectOrder(r) \/ RejectOrderRaises(r) \/ BeginMatch(r)
    BY <2>1, <2>3, RejectOrBeginMSound
  <2>4. CASE \E o \in OrderIds : links[o].kind = "single" /\ CancelOrder(o)
    BY <2>1, <2>4, CancelOrderMSound
  <2>5. CASE \E o \in OrderIds : ModifyRaises(o)
    BY <2>1, <2>5, ModifyRaisesMSound
  <2>. QED  BY <1>1, <2>2, <2>3, <2>4, <2>5 DEF SingleCommand
<1>2. CASE LinkedCommand
  <2>1. ASSUME NEW rs, LegsOf(rs, "oco"), PlaceOCO(rs) PROVE MSound'
    BY <2>1, PlaceOCOMSound
  <2>2. ASSUME NEW rs, NEW k, LegsOf(rs, k), LinkedEventRaises(rs, k) PROVE MSound'
    BY <2>2, LinkedEventRaisesMSound
  <2>3. ASSUME NEW rs, NEW k, LegsOf(rs, k), k # "oco",
               PlaceParent(rs, k) \/ MatchParent(rs, k)
        PROVE  MSound'
    BY <2>3, PlaceParentMSound, MatchParentMSound
  <2>4. CASE \E o \in OrderIds : CancelOCO(o) \/ CancelOTO(o) \/ CancelOTOCO(o)
    BY <2>4, CancelOCOMSound, CancelOTOMSound, CancelOTOCOMSound
  <2>5. CASE \E o \in OrderIds, p \in Prices \cup {NoPrice} : LinkedModify(o, p)
    BY <2>5, LinkedModifyMSound
  <2>6. CASE \E u \in LinkedUsers :
                \/ \E rs \in OCOLegs(u) : PlaceOCO(rs) \/ LinkedEventRaises(rs, "oco")
                \/ \E rs \in OTOLegs(u) : ParentCommand(rs, "oto")
                \/ \E rs \in OTOCOLegs(u) : ParentCommand(rs, "otoco")
    <3>1. PICK u \in LinkedUsers :
                \/ \E rs \in OCOLegs(u) : PlaceOCO(rs) \/ LinkedEventRaises(rs, "oco")
                \/ \E rs \in OTOLegs(u) : ParentCommand(rs, "oto")
                \/ \E rs \in OTOCOLegs(u) : ParentCommand(rs, "otoco")
      BY <2>6
    <3>2. CASE \E rs \in OCOLegs(u) : PlaceOCO(rs) \/ LinkedEventRaises(rs, "oco")
      <4>1. PICK rs \in OCOLegs(u) : PlaceOCO(rs) \/ LinkedEventRaises(rs, "oco")
        BY <3>2
      <4>2. LegsOf(rs, "oco")
        BY <4>1 DEF LegsOf
      <4>. QED  BY <2>1, <2>2, <4>1, <4>2
    <3>3. CASE \E rs \in OTOLegs(u) : ParentCommand(rs, "oto")
      <4>1. PICK rs \in OTOLegs(u) : ParentCommand(rs, "oto")
        BY <3>3
      <4>2. LegsOf(rs, "oto")
        BY <4>1 DEF LegsOf
      <4>. QED  BY <2>2, <2>3, <4>1, <4>2 DEF ParentCommand
    <3>4. CASE \E rs \in OTOCOLegs(u) : ParentCommand(rs, "otoco")
      <4>1. PICK rs \in OTOCOLegs(u) : ParentCommand(rs, "otoco")
        BY <3>4
      <4>2. LegsOf(rs, "otoco")
        BY <4>1 DEF LegsOf
      <4>. QED  BY <2>2, <2>3, <4>1, <4>2 DEF ParentCommand
    <3>. QED  BY <3>1, <3>2, <3>3, <3>4
  <2>. QED  BY <1>2, <2>4, <2>5, <2>6 DEF LinkedCommand
<1>3. CASE LinkedMatchStep
  BY <1>3, LinkedTradeMSound, FillEventRaisesMSound, CancelMakerMSound, OTOCOSuccessMSound,
     LinkedTakerFilledMSound, LinkedPlaceRemainderMSound, PlaceEventRaisesMSound
     DEF LinkedMatchStep
<1>4. CASE UNCHANGED mvars
  <2>1. /\ UNCHANGED <<order, exec, paid, cancels, store, book, wallet, pc, taker>>
        /\ UNCHANGED <<links, waiting>>
    BY <1>4 DEF mvars, vars
  <2>2. Known' = Known /\ \A o : Remaining(o)' = Remaining(o)
    BY <2>1 DEF Known, Remaining
  <2>3. TypesSound'
    BY <2>1, <2>2 DEF MSound, TypesSound, MTypeOK
  <2>4. LinksSound'
    <3>1. /\ \A o : PeerLinks(o)' <=> PeerLinks(o)
          /\ \A o : ChildLinks(o)' <=> ChildLinks(o)
          /\ \A o : KindLinks(o)' <=> KindLinks(o)
      BY <2>1, <2>2 DEF PeerLinks, ChildLinks, KindLinks
    <3>. QED  BY <2>1, <2>2, <3>1 DEF MSound, LinksSound
  <2>5. ChildrenNotEarly' /\ OneLegTrades' /\ LinkFailuresExplained'
    BY <2>1, <2>2 DEF MSound, ChildrenNotEarly, OneLegTrades, LinkFailuresExplained
  <2>6. JustQuoted' = JustQuoted
    BY <2>1, <2>2 DEF JustQuoted
  <2>7. ASSUME Live' PROVE LiveSound'
    <3>1. LiveSound
      BY <2>1, <2>7 DEF MSound, Live
    <3>2. Holds(book, (store \ waiting) \cup JustQuoted, order)'
      BY <2>1, <2>6, <3>1 DEF LiveSound, Holds
    <3>3. StoreSound' /\ WaitingSound' /\ TakerSound'
      BY <2>1, <2>2, <2>6, <3>1 DEF LiveSound, StoreSound, WaitingSound, TakerSound
    <3>4. FamilySound' /\ PairSound'
      BY <2>1, <2>2, <3>1 DEF LiveSound, FamilySound, PairSound
    <3>. QED  BY <3>2, <3>3, <3>4 DEF LiveSound
  <2>. QED  BY <2>3, <2>4, <2>5, <2>7 DEF MSound
<1>. QED  BY <1>1, <1>2, <1>3, <1>4 DEF MNext

LEMMA AlwaysMSound == MSpec => []MSound
<1>1. MInit => MSound
  BY InitMSound
<1>2. MSound /\ [MNext]_mvars => MSound'
  BY NextMSound
<1>. QED  BY <1>1, <1>2, PTL DEF MSpec

\* The engine's state is sound with linked orders too: between two commands the
\* levels hold exactly the stored orders that are active, each once.
THEOREM LinkedBookAlwaysConsistent == MSpec => []MInv
<1>1. MSound => MInv
  <2>1. SUFFICES ASSUME MSound PROVE MInv
    OBVIOUS
  <2>2. MTypeOK
    BY <2>1 DEF MSound, TypesSound
  <2>3. ASSUME pc = "idle" PROVE Holds(book, store \ waiting, order) /\ StoreSound
    BY <2>1, <2>3, IdleContext, LiveParts
  <2>4. LinkedBookConsistent
    BY <2>3 DEF LinkedBookConsistent, Holds, StoreSound
  <2>. QED  BY <2>2, <2>4 DEF MInv
<1>. QED  BY <1>1, AlwaysMSound, PTL

\* Of two orders that cancel each other one trades at most.
THEOREM OneLegAlwaysTrades == MSpec => []OneLegTrades
<1>1. MSound => OneLegTrades
  BY DEF MSound
<1>. QED  BY <1>1, AlwaysMSound, PTL

\* Children are stored, waiting, exactly as long as their parent is stored, and
\* trade only after it.
THEOREM ChildrenAlwaysFollow == MSpec => []ChildrenFollowParent
<1>1. MSound => ChildrenFollowParent
  <2>1. SUFFICES ASSUME MSound PROVE ChildrenFollowParent
    OBVIOUS
  <2>2. ChildrenNotEarly /\ (pc = "idle" => FamilySound)
    BY <2>1, LiveParts DEF MSound, Live
  <2>. QED  BY <2>2 DEF ChildrenFollowParent, ChildrenNotEarly, FamilySound
<1>. QED  BY <1>1, AlwaysMSound, PTL

\* An exception of the book has one of two causes.
THEOREM LinkFailuresAlwaysExplained == MSpec => []LinkFailuresExplained
<1>1. MSound => LinkFailuresExplained
  BY DEF MSound
<1>. QED  BY <1>1, AlwaysMSound, PTL

\* A trade that does not end the engine leaves in the store what it does not
\* take away.
LEMMA TradeStores ==
    ASSUME MSound, LinkedTrade, pc' # "dead_link",
           NEW D, D = MakerGone(Maker, exec[Maker] + TradeQuantity)
    PROVE  store \ D \subseteq store'
<1>1. PICK t, m, q : t = taker /\ m = Maker /\ q = TradeQuantity
  OBVIOUS
<1>2. Matching /\ Live /\ TypesSound /\ m \in Known /\ q \in Nat
  BY <1>1, LinkedMakerFacts, LiveParts DEF LinkedTrade, Matching, Live
<1>3. Remaining(m) = q <=> exec[m] + q = order[m].qty
  BY <1>2, LiveFacts DEF Remaining
<1>4. PICK c3 : c3 = AfterMaker(HandleFilled(Context, t, exec[t] + q), m, exec[m] + q)
  OBVIOUS
<1>5. Commit(c3, pc)
  BY <1>1, <1>3, <1>4 DEF LinkedTrade, AfterMaker
<1>6. PICK A, B, T : /\ A = Activated(t, exec[t] + q) /\ B = Activated(m, exec[m] + q)
                     /\ T = TradeStore(t, A)
  OBVIOUS
<1>7. \/ Good(c3, (((store \ waiting) \cup A) \cup B) \ D, T \ D, (waiting \ A) \ B)
      \/ Raised(c3) /\ links[m].peer # NoOrder
  BY <1>1, <1>2, <1>4, <1>6, TradeContext
<1>8. ~Raised(c3)
  BY <1>5 DEF Commit, Raised
<1>9. store' = T \ D
  BY <1>5, <1>7, <1>8 DEF Commit, Good
<1>. QED  BY <1>6, <1>9 DEF TradeStore

\* What is left of an order after a partial fill stays, except for a child of
\* an OTOCO.
THEOREM PartialFillsPersist == MSpec => PartialFillPersists
<1> DEFINE Stays == \A o \in store : exec'[o] > exec[o] /\ exec'[o] < order[o].qty
                                        /\ pc' # "dead_link"
                        => o \in store' \/ (links[o].kind = "otoco" /\ links[o].peer # NoOrder)
<1>1. MSound /\ [MNext]_mvars => [Stays]_mvars
  <2>1. SUFFICES ASSUME MSound, MNext, NEW o \in store, exec'[o] > exec[o],
                        exec'[o] < order[o].qty, pc' # "dead_link",
                        ~(links[o].kind = "otoco" /\ links[o].peer # NoOrder)
                 PROVE  o \in store'
    OBVIOUS
  <2>2. exec[o] \in Nat
    BY <2>1 DEF MSound, TypesSound, MTypeOK
  <2>3. CASE exec' = exec
    BY <2>1, <2>2, <2>3
  <2>4. CASE FillEventRaises
    BY <2>1, <2>4 DEF FillEventRaises
  <2>5. CASE LinkedTrade
    <3>1. PICK t, m, q : t = taker /\ m = Maker /\ q = TradeQuantity
      OBVIOUS
    <3>2. Matching /\ FillsBoth /\ Live
      BY <2>5 DEF LinkedTrade, FillsBoth, Matching, Live
    <3>3. t \notin store /\ o \in OrderIds
      BY <2>1, <3>1, <3>2, LiveParts DEF TakerSound, Matching, TypesSound, MTypeOK
    <3>4. o = m /\ exec'[o] = exec[o] + q
      BY <2>1, <2>2, <3>1, <3>2, <3>3, FillsTwo
    <3>5. PICK A, B, D : /\ A = Activated(t, exec[t] + q) /\ B = Activated(m, exec[m] + q)
                         /\ D = MakerGone(m, exec[m] + q)
      OBVIOUS
    <3>6. /\ m \in D <=> (exec[m] + q = order[m].qty
                            \/ (links[m].kind = "otoco" /\ links[m].peer # NoOrder))
                         \/ (m = links[m].peer /\ m # NoOrder)
      BY <2>1, <3>1, <3>2, <3>5, TradeSets
    <3>7. m # links[m].peer
      BY <2>1, <3>1, <3>2, <3>3, <3>4, LinkedMakerFacts, LiveParts, LinkFacts
         DEF PeerLinks, OrderIds, NoOrder
    <3>8. exec'[o] # order[o].qty
      <4>1. order[o].qty \in Nat /\ exec'[o] \in Nat
        BY <2>1, <3>1, <3>2, <3>3, <3>4, FillsTwo, LinkedMakerFacts, LiveParts, LiveFacts
      <4>. QED  BY <2>1, <4>1
    <3>9. o \notin D
      BY <2>1, <3>4, <3>6, <3>7, <3>8
    <3>. QED  BY <2>1, <2>5, <3>1, <3>5, <3>9, TradeStores
  <2>6. exec' = exec \/ FillEventRaises \/ LinkedTrade
    BY <2>1 DEF MNext, SingleCommand, LinkedCommand, LinkedMatchStep, ParentCommand, PlaceOCO,
       PlaceParent, MatchParent, LinkedEventRaises, CancelOCO, CancelOTO, CancelOTOCO,
       LinkedModify, ModifyRequeues, PlaceOrder, RejectOrder, RejectOrderRaises, BeginMatch,
       CancelOrder, ModifyRaises, CancelMaker, OTOCOSuccessRaises, LinkedTakerFilled,
       TakerFilled, LinkedPlaceRemainder, PlaceEventRaises
  <2>. QED  BY <2>3, <2>4, <2>5, <2>6
<1>2. MSpec => [][MNext]_mvars
  BY PTL DEF MSpec
<1>. QED  BY <1>1, <1>2, AlwaysMSound, PTL DEF PartialFillPersists

=============================================================================
