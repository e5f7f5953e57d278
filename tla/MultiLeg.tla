------------------------------ MODULE MultiLeg ------------------------------
(***************************************************************************)
(* The engine of SpotEngine with the strategies for linked orders: OCO     *)
(* (two legs, one cancels the other), OTO (a parent whose fill places a    *)
(* child) and OTOCO (a parent whose fill places two children that cancel   *)
(* each other).  engine/strategies and engine/orders.                      *)
(*                                                                         *)
(* The links between orders and the flag "active" live in the dictionary   *)
(* behind an order.  An order event carries a copy of that dictionary, and *)
(* json.dumps raises TypeError on the Order objects in it: the first event *)
(* of a linked order ends the process.  Events of the system user are not  *)
(* logged, so its linked orders are the ones the strategies carry through. *)
(*                                                                         *)
(* The API asks for children on the other side than their parent, so while *)
(* a taker is matched orders only leave the side that is walked, and the   *)
(* next maker is the head of the best level as in SpotEngine.              *)
(***************************************************************************)
EXTENDS SpotEngine

CONSTANTS SingleUsers,    \* the users who send single orders
          LinkedUsers,    \* the users who send linked orders
          MaxSingles,     \* bound: the number of single orders
          MaxLinked       \* bound: the number of linked orders

ASSUME LinkedAssumption ==
    /\ SingleUsers \subseteq Users
    /\ LinkedUsers \subseteq Users
    /\ MaxSingles \in Nat
    /\ MaxLinked \in Nat

VARIABLES
    links,      \* kind, parent, children and counterparty of each order
    waiting     \* the orders whose flag active is false

mvars == <<vars, links, waiting>>

Kinds == {"single", "oco", "oto", "otoco"}

NoLinks == [kind |-> "single", parent |-> NoOrder, children |-> {}, peer |-> NoOrder]

Links == [kind     : Kinds,
          parent   : OrderIds \cup {NoOrder},
          children : SUBSET OrderIds,
          peer     : OrderIds \cup {NoOrder}]

\* The legs of a command, parent first: what the API lets through.
SentBy(u) == {r \in Requests : r.user = u}

Triggers(parent, child) == parent.qty = child.qty /\ parent.side # child.side

OCOLegs(u) == SentBy(u) \X SentBy(u)

OTOLegs(u) == {l \in OCOLegs(u) : Triggers(l[1], l[2])}

OTOCOLegs(u) ==
    {l \in SentBy(u) \X SentBy(u) \X SentBy(u) :
        Triggers(l[1], l[2]) /\ Triggers(l[1], l[3])}

Singles == {o \in Known : links[o].kind = "single"}

\* The dictionary of the order cannot be written to an event.
Unloggable(o) == links[o].kind # "single" /\ order[o].user # System

-----------------------------------------------------------------------------
(***************************************************************************)
(* The execution context while handlers run: the book, the store, the      *)
(* waiting orders and whether the book has raised.  After that nothing     *)
(* more happens.                                                           *)
(***************************************************************************)

Ctx(b, s, w) == [book |-> b, store |-> s, waiting |-> w, raised |-> FALSE]

Context == Ctx(book, store, waiting)

\* OrderBook.remove: nothing if there is no level at the price, KeyError if
\* the level does not hold the order.
Withdraw(c, o) ==
    LET r == order[o] IN
    IF c.raised \/ c.book.level[r.side][r.price] = << >> THEN c
    ELSE IF OnLevel(c.book, r.side, r.price, o)
         THEN [c EXCEPT !.book = RemoveOrder(@, r.side, r.price, o)]
         ELSE [c EXCEPT !.raised = TRUE]

\* OrderBook.append: ValueError if the level holds the order.
Quote(c, o) ==
    LET r == order[o] IN
    IF c.raised THEN c
    ELSE IF OnLevel(c.book, r.side, r.price, o) THEN [c EXCEPT !.raised = TRUE]
    ELSE [c EXCEPT !.book = AppendOrder(@, r.side, r.price, o)]

Store(c, S) == IF c.raised THEN c ELSE [c EXCEPT !.store = @ \cup S]

Discard(c, S) == IF c.raised THEN c ELSE [c EXCEPT !.store = @ \ S]

Activate(c, o) == Quote([c EXCEPT !.waiting = @ \ {o}], o)

\* OCOStrategy.handle_cancel, which OTOCOStrategy borrows.
WithdrawPair(c, o) ==
    Discard(Withdraw(Withdraw(c, o), links[o].peer), {o, links[o].peer})

\* Variant of OCOFilled: the counterparty stays in the book.
OCOFilledKeepsPeer(c, o) == Discard(c, {links[o].peer})

\* Variant of OCOFilled: the filled leg goes with its counterparty.
OCOFilledWithdrawsBoth(c, o) == WithdrawPair(c, o)

\* OCOStrategy.handle_filled, called at every fill, partial ones too.
OCOFilled(c, o) == Discard(Withdraw(c, links[o].peer), {links[o].peer})

\* Variant of OTOFilled: the child is quoted twice.
OTOFilledTwice(c, o, executed) ==
    IF links[o].children # {} /\ executed = order[o].qty
    THEN Quote(Activate(c, Min(links[o].children)), Min(links[o].children))
    ELSE c

\* OTOStrategy.handle_filled.
OTOFilled(c, o, executed) ==
    IF links[o].children # {} /\ executed = order[o].qty
    THEN Store(Activate(c, Min(links[o].children)), links[o].children)
    ELSE c

\* Variant of OTOCOFilled: a fill of one child leaves the other alone.
OTOCOFilledKeepsPeer(c, o, executed) ==
    LET C == links[o].children IN
    IF C # {} /\ executed = order[o].qty
    THEN Activate(Activate(c, Min(C)), Max(C))
    ELSE c

\* OTOCOStrategy.handle_filled.
OTOCOFilled(c, o, executed) ==
    LET C == links[o].children IN
    IF C # {} /\ executed = order[o].qty
    THEN Activate(Activate(c, Min(C)), Max(C))
    ELSE IF links[o].peer # NoOrder THEN WithdrawPair(c, links[o].peer) ELSE c

\* handle_filled of the order's own strategy; the single one does nothing.
HandleFilled(c, o, executed) ==
    CASE links[o].kind = "single" -> c
      [] links[o].kind = "oco"    -> OCOFilled(c, o)
      [] links[o].kind = "oto"    -> OTOFilled(c, o, executed)
      [] links[o].kind = "otoco"  -> OTOCOFilled(c, o, executed)

\* The orders for which handle_filled logs a cancellation.  For a child of an
\* OTOCO the filled order itself is one of them.
CancelledByFill(o) ==
    CASE links[o].kind = "oco" -> {links[o].peer}
      [] links[o].kind = "otoco" /\ links[o].peer # NoOrder -> {links[o].peer, o}
      [] OTHER -> {}

\* Write the context back; the process ends if the book has raised.
Commit(c, next) ==
    /\ book' = c.book
    /\ store' = c.store
    /\ waiting' = c.waiting
    /\ pc' = IF c.raised THEN "dead_link" ELSE next

-----------------------------------------------------------------------------
(***************************************************************************)
(* NEW_ORDER of linked orders.                                             *)
(***************************************************************************)

\* The orders of a command get the next numbers.
ReceiveLegs(rs, k) ==
    LET o == Len(order) + 1
        O == o .. Len(order) + Len(rs)
    IN
    /\ pc = "idle"
    /\ Len(order) + Len(rs) <= MaxOrders
    /\ Cardinality(Known \ Singles) + Len(rs) <= MaxLinked
    /\ order' = order \o rs
    /\ links' = [i \in OrderIds |->
         IF i \notin O THEN links[i]
         ELSE [kind     |-> k,
               parent   |-> IF k = "oco" \/ i = o THEN NoOrder ELSE o,
               children |-> IF k # "oco" /\ i = o THEN O \ {o} ELSE {},
               peer     |-> CASE k = "oco" -> 2 * o + 1 - i
                              [] k = "otoco" /\ i # o -> 2 * o + 3 - i
                              [] OTHER -> NoOrder]]

\* OCOStrategy.handle_new: both legs are quoted, whatever they cross.
PlaceOCO(rs) ==
    LET o  == Len(order) + 1
        b1 == AppendOrder(book, rs[1].side, rs[1].price, o)
        b2 == AppendOrder(b1, rs[2].side, rs[2].price, o + 1)
    IN
    /\ ReceiveLegs(rs, "oco")
    /\ rs[1].user = System
    /\ book' = b2
    /\ store' = store \cup {o, o + 1}
    /\ UNCHANGED <<exec, paid, cancels, wallet, pc, taker, waiting>>

\* The end of OTOStrategy.handle_new and OTOCOStrategy.handle_new when the
\* parent does not cross: the parent is quoted, all are stored.
PlaceParent(rs, k) ==
    LET o == Len(order) + 1 IN
    /\ ReceiveLegs(rs, k)
    /\ rs[1].user = System
    /\ ~Matchable(rs[1])
    /\ book' = AppendOrder(book, rs[1].side, rs[1].price, o)
    /\ store' = store \cup (o .. o + Len(rs) - 1)
    /\ waiting' = waiting \cup (o + 1 .. o + Len(rs) - 1)
    /\ UNCHANGED <<exec, paid, cancels, wallet, pc, taker>>

\* The parent crosses and its user can pay for it.
MatchParent(rs, k) ==
    LET o == Len(order) + 1 IN
    /\ ReceiveLegs(rs, k)
    /\ Matchable(rs[1])
    /\ Sufficient(wallet, rs[1], rs[1].qty, rs[1].price)
    /\ pc' = "matching"
    /\ taker' = o
    /\ waiting' = waiting \cup (o + 1 .. o + Len(rs) - 1)
    /\ UNCHANGED <<exec, paid, cancels, store, book, wallet>>

\* The first event of the command is about a linked order: a placement, or
\* the cancellation of a parent its user cannot pay for.
LinkedEventRaises(rs, k) ==
    /\ ReceiveLegs(rs, k)
    /\ rs[1].user # System
    /\ \/ k = "oco"
       \/ ~Matchable(rs[1])
       \/ ~Sufficient(wallet, rs[1], rs[1].qty, rs[1].price)
    /\ pc' = "dead_event"
    /\ UNCHANGED <<exec, paid, cancels, store, book, wallet, taker, waiting>>

-----------------------------------------------------------------------------
(***************************************************************************)
(* Matching.                                                               *)
(***************************************************************************)

\* SpotEngine._process_trade with the strategies of taker and maker: fills,
\* handle_filled of both, removal of a filled maker, escrow, settlement.
\* The balances come last: an exception of the book leaves them alone.
LinkedTrade ==
    LET m  == Maker
        q  == TradeQuantity
        p  == book.best[MakerSide]
        c1 == HandleFilled(Context, taker, exec[taker] + q)
        c2 == HandleFilled(c1, m, exec[m] + q)
        c3 == IF Remaining(m) = q THEN Discard(Withdraw(c2, m), {m}) ELSE c2
        w1 == HoldAtFirstFill(wallet, m)
        w2 == HoldAtFirstFill(w1, taker)
        w3 == Settle(w2, order[taker], q, p)
        X  == CancelledByFill(taker) \cup CancelledByFill(m)
    IN
    /\ Matching
    /\ Sufficient(wallet, order[m], q, p)
    /\ ~Unloggable(taker)
    /\ exec' = [exec EXCEPT ![taker] = @ + q, ![m] = @ + q]
    /\ paid' = [paid EXCEPT ![taker] = @ + q * p, ![m] = @ + q * p]
    /\ cancels' = [o \in OrderIds |-> cancels[o] + IF o \in X THEN 1 ELSE 0]
    /\ Commit(c3, pc)
    /\ wallet' = IF c3.raised THEN wallet ELSE Settle(w3, order[m], q, p)
    /\ UNCHANGED <<order, taker, links>>

\* The taker's fill event cannot be written: both orders are filled, nothing
\* else has happened.
FillEventRaises ==
    LET m == Maker
        q == TradeQuantity
        p == book.best[MakerSide]
    IN
    /\ Matching
    /\ Sufficient(wallet, order[m], q, p)
    /\ Unloggable(taker)
    /\ exec' = [exec EXCEPT ![taker] = @ + q, ![m] = @ + q]
    /\ paid' = [paid EXCEPT ![taker] = @ + q * p, ![m] = @ + q * p]
    /\ pc' = "dead_event"
    /\ UNCHANGED <<order, cancels, store, book, wallet, taker, links, waiting>>

\* OTOCOStrategy.handle_new after SUCCESS: handle_filled has quoted the
\* children, and the second append of the first one raises.
OTOCOSuccessRaises ==
    LET C == links[taker].children
        c == Quote(Quote(Store(Context, C), Min(C)), Max(C))
    IN
    /\ pc = "matching"
    /\ Remaining(taker) = 0
    /\ links[taker].kind = "otoco"
    /\ Commit(c, "idle")
    /\ UNCHANGED <<order, exec, paid, cancels, wallet, taker, links>>

\* SUCCESS of any other taker.
LinkedTakerFilled ==
    /\ TakerFilled
    /\ links[taker].kind # "otoco"
    /\ UNCHANGED <<links, waiting>>

\* PARTIAL or FAILURE: what is left of the taker is quoted, its children are
\* stored with it.
LinkedPlaceRemainder ==
    LET r == order[taker] IN
    /\ pc = "matching"
    /\ Remaining(taker) > 0
    /\ book.best[MakerSide] = NoPrice
    /\ ~Unloggable(taker)
    /\ store' = store \cup {taker} \cup links[taker].children
    /\ book' = AppendOrder(book, r.side, r.price, taker)
    /\ pc' = "idle"
    /\ taker' = NoOrder
    /\ UNCHANGED <<order, exec, paid, cancels, wallet, links, waiting>>

\* FAILURE, when the makers were all cancelled: the placement is not logged.
PlaceEventRaises ==
    /\ pc = "matching"
    /\ Remaining(taker) > 0
    /\ book.best[MakerSide] = NoPrice
    /\ Unloggable(taker)
    /\ pc' = "dead_event"
    /\ UNCHANGED <<order, exec, paid, cancels, store, book, wallet, taker, links, waiting>>

-----------------------------------------------------------------------------
(***************************************************************************)
(* CANCEL_ORDER and MODIFY_ORDER of linked orders.  Those stored are the   *)
(* system user's, whose escrow is not touched.                             *)
(***************************************************************************)

CancelOCO(o) ==
    /\ pc = "idle"
    /\ o \in store
    /\ links[o].kind = "oco"
    /\ cancels' = [cancels EXCEPT ![o] = @ + 1, ![links[o].peer] = @ + 1]
    /\ Commit(WithdrawPair(Context, o), "idle")
    /\ UNCHANGED <<order, exec, paid, wallet, taker, links>>

\* Variant of CancelOTO: a parent leaves its child behind.
CancelOTOKeepsChild(o) ==
    LET top == IF o \in waiting THEN links[o].parent ELSE o IN
    /\ pc = "idle"
    /\ o \in store
    /\ links[o].kind = "oto"
    /\ cancels' = [cancels EXCEPT ![top] = @ + 1]
    /\ Commit(Discard(Withdraw(Context, top), {top}), "idle")
    /\ UNCHANGED <<order, exec, paid, wallet, taker, links>>

\* A parent goes with its child, an active child alone, and a waiting child
\* takes its parent along; only the one withdrawn from the book is logged.
CancelOTO(o) ==
    LET top == IF o \in waiting THEN links[o].parent ELSE o IN
    /\ pc = "idle"
    /\ o \in store
    /\ links[o].kind = "oto"
    /\ cancels' = [cancels EXCEPT ![top] = @ + 1]
    /\ Commit(Discard(Withdraw(Context, top), {top} \cup links[top].children), "idle")
    /\ UNCHANGED <<order, exec, paid, wallet, taker, links>>

\* A parent goes with its children, an active child with its counterparty,
\* and a waiting child takes its parent and its counterparty along; for a
\* waiting child the event is about the child.
CancelOTOCO(o) ==
    LET top == IF o \in waiting THEN links[o].parent ELSE o
        X   == IF o \in waiting \/ links[o].children # {} THEN {o} ELSE {o, links[o].peer}
    IN
    /\ pc = "idle"
    /\ o \in store
    /\ links[o].kind = "otoco"
    /\ cancels' = [i \in OrderIds |-> cancels[i] + IF i \in X THEN 1 ELSE 0]
    /\ Commit(IF links[top].peer = NoOrder
              THEN Discard(Withdraw(Context, top), {top} \cup links[top].children)
              ELSE WithdrawPair(Context, top), "idle")
    /\ UNCHANGED <<order, exec, paid, wallet, taker, links>>

\* ModifyOrderMixin._modify_order of an order that is in the book.  For a
\* waiting child the new price goes to the key nobody reads: no change.
LinkedModify(o, newPrice) ==
    /\ o \notin waiting
    /\ ModifyRequeues(o, newPrice)
    /\ UNCHANGED <<links, waiting>>

-----------------------------------------------------------------------------
MInit ==
    /\ Init
    /\ links = [o \in OrderIds |-> NoLinks]
    /\ waiting = {}

SingleCommand ==
    /\ \/ \E r \in {r \in Requests : r.user \in SingleUsers} :
          /\ Cardinality(Singles) < MaxSingles
          /\ PlaceOrder(r) \/ RejectOrder(r) \/ RejectOrderRaises(r) \/ BeginMatch(r)
       \/ \E o \in OrderIds :
             links[o].kind = "single" /\ (CancelOrder(o) \/ ModifyRaises(o))
    /\ UNCHANGED <<links, waiting>>

ParentCommand(rs, k) ==
    \/ PlaceParent(rs, k)
    \/ MatchParent(rs, k)
    \/ LinkedEventRaises(rs, k)

LinkedCommand ==
    \/ \E u \in LinkedUsers :
          \/ \E rs \in OCOLegs(u) : PlaceOCO(rs) \/ LinkedEventRaises(rs, "oco")
          \/ \E rs \in OTOLegs(u) : ParentCommand(rs, "oto")
          \/ \E rs \in OTOCOLegs(u) : ParentCommand(rs, "otoco")
    \/ \E o \in OrderIds : CancelOCO(o) \/ CancelOTO(o) \/ CancelOTOCO(o)
    \/ \E o \in OrderIds, p \in Prices \cup {NoPrice} : LinkedModify(o, p)

LinkedMatchStep ==
    \/ LinkedTrade
    \/ FillEventRaises
    \/ CancelMaker /\ UNCHANGED <<links, waiting>>
    \/ OTOCOSuccessRaises
    \/ LinkedTakerFilled
    \/ LinkedPlaceRemainder
    \/ PlaceEventRaises

MNext == SingleCommand \/ LinkedCommand \/ LinkedMatchStep

MSpec == MInit /\ [][MNext]_mvars

-----------------------------------------------------------------------------
(***************************************************************************)
(* Correctness.                                                            *)
(***************************************************************************)

\* Every variable has its type, the link of a pair is mutual, and a child and
\* its parent name each other.
MTypeOK ==
    /\ order \in Seq(Requests)
    /\ exec \in [OrderIds -> Nat]
    /\ store \in SUBSET OrderIds
    /\ waiting \in SUBSET OrderIds
    /\ book \in Books
    /\ wallet \in Wallets
    /\ pc \in PCs \cup {"dead_event", "dead_link"}
    /\ links \in [OrderIds -> Links]
    /\ \A o \in OrderIds :
         /\ links[o].peer # NoOrder => links[links[o].peer].peer = o
         /\ \A c \in links[o].children : links[c].parent = o

\* Between two commands of a living engine the copies of the book agree, with
\* linked orders too: the levels hold exactly the stored orders that are
\* active, once each, with something left to trade.
LinkedBookConsistent ==
    pc = "idle" =>
      /\ BestIsExtremum(book)
      /\ NoDuplicates(book)
      /\ \A s \in Sides, p \in Prices, o \in OrderIds :
           OnLevel(book, s, p, o) <=>
               o \in store \ waiting /\ order[o].side = s /\ order[o].price = p
      /\ \A o \in store : o \in Known /\ Remaining(o) > 0

\* The state of the engine is sound: types, links and, between commands, the
\* copies of the book.
MInv == MTypeOK /\ LinkedBookConsistent

\* Of two orders that cancel each other at most one ever trades, though
\* both may be on one level that a taker sweeps, or on the two sides.
OneLegTrades ==
    \A o \in Known : links[o].peer # NoOrder => exec[o] = 0 \/ exec[links[o].peer] = 0

\* A child waits in the store exactly as long as its parent is stored, and
\* it trades only once its parent is filled: none is orphaned by a
\* cancellation or a partial fill and none is early.
ChildrenFollowParent ==
    /\ pc = "idle" =>
         \A o \in Known : links[o].parent # NoOrder =>
             (o \in store \cap waiting <=> links[o].parent \in store)
    /\ \A o \in Known : links[o].parent # NoOrder /\ exec[o] > 0 =>
             Remaining(links[o].parent) = 0

\* A fill or a cancellation of linked orders ends the engine in two cases
\* only: a parent of an OTOCO that is filled, whose children may be quoted
\* twice, and a leg that has traded and whose counterparty is gone already.
LinkFailuresExplained ==
    pc = "dead_link" =>
        \/ \E o \in Known : links[o].kind = "otoco" /\ links[o].children # {} /\ Remaining(o) = 0
        \/ \E o \in Known : links[o].peer # NoOrder /\ exec[o] > 0 /\ cancels[links[o].peer] > 0

\* What is left of a stored order after a partial fill stays stored, except
\* for a child of an OTOCO, whose fill cancels the child with its
\* counterparty.
PartialFillPersists ==
    [][\A o \in store : exec'[o] > exec[o] /\ exec'[o] < order[o].qty /\ pc' # "dead_link"
           => o \in store' \/ (links[o].kind = "otoco" /\ links[o].peer # NoOrder)]_mvars

=============================================================================
