--------------------------- MODULE OrderRowsProofs ---------------------------
(***************************************************************************)
(* The two read models of orders, for every number of users, prices,       *)
(* quantities and orders, with the fanout and the readers any number of    *)
(* events behind.                                                          *)
(*                                                                         *)
(* The order rows, for every number of copies of a message: a row claims   *)
(* nothing the engine has not done, its status follows the life cycle of   *)
(* an order, and once every event has been read the rows agree with the    *)
(* engine.  None of the three is inductive.  What a row will say is in the *)
(* events on their way, so that RowsSound describes each of them           *)
(* (EventsSound), their order (PlacedComesFirst: the event that places an  *)
(* order is not behind one that ends it, unless it is a copy of one        *)
(* already handled) and that none is missing (Announced).                  *)
(*                                                                         *)
(* The order book publisher: a level is what is left of the active orders  *)
(* at its price, and once every event has been read it does not hide what  *)
(* rests in the engine, unless a message about an order of this price was  *)
(* repeated.  PubSound says of the other orders that each is placed once   *)
(* (PlacedOnce) and that the trades a feed and the stream still hold       *)
(* account for what the engine has executed and the publisher has not seen *)
(* (FillsDue): two climbs through two queues, whose weights are the        *)
(* events.                                                                 *)
(*                                                                         *)
(* What the engine does is taken from its own invariant IInv.              *)
(***************************************************************************)
EXTENDS OrderBookPublisher, SpotEngineProofs

-----------------------------------------------------------------------------
(***************************************************************************)
(* The invariant.                                                          *)
(***************************************************************************)

\* The order events that the handler has not read yet.
OnTheWay == In(stream) \cup In(topic["order"])

Begins(e) == e.cat = "order" /\ e.type = "placed"

Ends(e) == e.cat = "order" /\ e.type \in {"filled", "cancelled"}

\* The engine has filled the order, or logged its cancellation.
IsFilled(o) == exec[o] = order[o].qty

IsCancelled(o) == cancels[o] > 0

\* An order event is about a known order and says what the engine has done.
EventSound(e) ==
    e.cat = "order" =>
        /\ e.type \in {"placed", "partially_filled", "filled", "cancelled"}
        /\ e.order \in Known
        /\ e.type = "filled" => IsFilled(e.order) /\ e.qty = exec[e.order]
        /\ e.type = "cancelled" => IsCancelled(e.order)

EventsSound ==
    /\ \A e \in OnTheWay : EventSound(e)
    /\ \A e \in In(topic["order"]) : e.cat = "order"

\* A row says nothing about an unknown order and nothing ahead of the engine.
ClaimsSound ==
    \A o \in OrderIds :
        /\ row[o].status # "partially_filled"
        /\ row[o].status # "pending" => o \in Known
        /\ row[o].status = "filled" => IsFilled(o) /\ row[o].executed = exec[o]
        /\ row[o].status = "cancelled" => IsCancelled(o)

\* An event that places an order and comes after one that ends it is a
\* duplicate of one of those handled.
MayFollow(e, f, keys) == Ends(e) /\ Begins(f) /\ e.order = f.order => Key(f) \in keys

InSequence(s, keys) == \A i, j \in DOMAIN s : i < j => MayFollow(s[i], s[j], keys)

PlacedComesFirst ==
    /\ InSequence(stream, seen)
    /\ InSequence(topic["order"], seen)
    /\ \A e \in In(topic["order"]), f \in In(stream) : MayFollow(e, f, seen)
    /\ \A f \in OnTheWay :
         Begins(f) /\ row[f.order].status \in {"filled", "cancelled"} => Key(f) \in seen

\* What a duplicate would do has been done.
SeenApplied ==
    \A c \in Nat, o \in OrderIds :
        /\ <<c, o, "placed">> \in seen => row[o].status # "pending"
        /\ <<c, o, "filled">> \in seen => row[o].status = "filled"
        /\ <<c, o, "cancelled">> \in seen => row[o].status = "cancelled"

Told(o, type) ==
    \/ row[o].status = type
    \/ \E e \in OnTheWay : e.cat = "order" /\ e.type = type /\ e.order = o

\* What the engine has done to an order is in its row or on its way, unless a
\* database error lost an event of the order.
Announced ==
    \A o \in Known \ lost : order[o].user # System =>
        /\ o \in store => Told(o, "placed")
        /\ IsFilled(o) => Told(o, "filled")
        /\ IsCancelled(o) => Told(o, "cancelled")

RowsSound ==
    /\ IInv
    /\ RowTypeOK
    /\ EventsSound
    /\ ClaimsSound
    /\ PlacedComesFirst
    /\ SeenApplied
    /\ Announced

-----------------------------------------------------------------------------
(***************************************************************************)
(* Sequences of events.                                                    *)
(***************************************************************************)

\* The sequence s is at most the event it is described by, and that event if the
\* user's events are logged and followed.
Logs(s, cat, type, o, qty) ==
    /\ s \in Seq(Events)
    /\ \A e \in In(s) : e.cat = cat /\ e.type = type /\ e.order = o /\ e.qty = qty
    /\ order'[o].user # System /\ cat \in Followed =>
          \E e \in In(s) : e.cat = cat /\ e.type = type /\ e.order = o

\* EngineLogger.log_event: one call adds the event it was called for, or nothing
\* if the user is the system user.
LEMMA LogIn ==
    ASSUME NEW cat \in Categories, NEW type \in EventTypes,
           NEW o \in OrderIds, NEW qty \in Nat, order'[o].user \in Users, cmd' \in Nat
    PROVE  Logs(Log(cat, type, o, qty), cat, type, o, qty)
<1> DEFINE e == [cat |-> cat, type |-> type, cmd |-> cmd', user |-> order'[o].user,
                 order |-> o, qty |-> qty]
<1>1. e \in Events
  BY DEF Events, Categories, EventTypes
<1>2. e.cat = cat /\ e.type = type /\ e.order = o /\ e.qty = qty
  OBVIOUS
<1>3. Log(cat, type, o, qty) =
        IF order'[o].user # System /\ cat \in Followed THEN <<e>> ELSE << >>
  BY DEF Log
<1> HIDE DEF e
<1>4. <<e>> \in Seq(Events) /\ In(<<e>>) = {e} /\ << >> \in Seq(Events) /\ In(<< >>) = {}
  BY <1>1 DEF In
<1>. QED  BY <1>2, <1>3, <1>4 DEF Logs

-----------------------------------------------------------------------------
(***************************************************************************)
(* What a step of the engine adds to the stream.                           *)
(***************************************************************************)

Says(s, o, type) == \E e \in In(s) : e.cat = "order" /\ e.type = type /\ e.order = o

\* New events are true, and an order that is placed has not ended.
Reports(new) ==
    \A e \in In(new) :
        /\ EventSound(e)'
        /\ Begins(e) => ~IsFilled(e.order)' /\ ~IsCancelled(e.order)'

\* What the step has done is among them.
Complete(new) ==
    \A o \in Known' : order'[o].user # System =>
        /\ o \in store' => o \in store \/ Says(new, o, "placed")
        /\ IsFilled(o)' => (o \in Known /\ IsFilled(o)) \/ Says(new, o, "filled")
        /\ IsCancelled(o)' => (o \in Known /\ IsCancelled(o)) \/ Says(new, o, "cancelled")

\* Known orders stay what they are, and so do the ways they ended.
Lasting ==
    \A o \in Known :
        /\ o \in Known' /\ order'[o] = order[o]
        /\ IsFilled(o) => exec'[o] = exec[o]
        /\ IsCancelled(o) => IsCancelled(o)'

\* A step of the engine that logs `new`.
Progress(new) ==
    /\ new \in Seq(Events)
    /\ Lasting
    /\ Reports(new)
    /\ Complete(new)

\* No step of the engine undoes a fill or a cancellation.
LEMMA EngineLasting ==
    ASSUME IInv, Next
    PROVE  Lasting
<1>1. TypeOK /\ OneFate /\ MatchState
  BY DEF IInv
<1>2. ASSUME NEW r \in Requests, PlaceOrder(r) \/ RejectOrder(r) \/ RejectOrderRaises(r) \/ BeginMatch(r)
      PROVE  Lasting
  <2>1. /\ Receive(r) /\ exec' = exec
        /\ \/ cancels' = cancels
           \/ cancels' = [cancels EXCEPT ![Len(order) + 1] = 1]
           \/ cancels' = [cancels EXCEPT ![Len(order) + 1] = 2]
    BY <1>2 DEF PlaceOrder, RejectOrder, RejectOrderRaises, BeginMatch
  <2>2. /\ Len(order) + 1 \notin Known /\ Known' = Known \cup {Len(order) + 1}
        /\ \A o \in Known : order'[o] = order[o]
    BY <1>1, <2>1, ReceiveAdds
  <2>3. Known \subseteq OrderIds /\ cancels \in [OrderIds -> Nat]
    BY <1>1, KnownOrders DEF TypeOK
  <2>4. \A o \in Known : cancels'[o] = cancels[o]
    BY <2>1, <2>2, <2>3
  <2>. QED  BY <2>1, <2>2, <2>4 DEF Lasting, IsFilled, IsCancelled
<1>3. ASSUME order' = order, exec' = exec,
             \/ cancels' = cancels
             \/ \E o \in OrderIds : cancels' = [cancels EXCEPT ![o] = @ + 1]
      PROVE  Lasting
  <2>1. Known' = Known
    BY <1>3 DEF Known
  <2>2. Known \subseteq OrderIds /\ cancels \in [OrderIds -> Nat]
    BY <1>1, KnownOrders DEF TypeOK
  <2>3. \A o \in Known : cancels[o] > 0 => cancels'[o] > 0
    BY <1>3, <2>2
  <2>. QED  BY <1>3, <2>1, <2>3 DEF Lasting, IsFilled, IsCancelled
<1>4. ASSUME NEW o \in OrderIds, CancelOrder(o) \/ ModifyRaises(o)
      PROVE  Lasting
  BY <1>3, <1>4 DEF CancelOrder, ModifyRaises
<1>5. ASSUME NEW o \in OrderIds, NEW p \in Prices \cup {NoPrice}, ModifyRequeues(o, p)
      PROVE  Lasting
  BY <1>3, <1>5 DEF ModifyRequeues
<1>6. CASE CancelMaker
  BY <1>3, <1>6, MakerFacts DEF CancelMaker
<1>7. CASE TakerFilled \/ PlaceRemainder
  BY <1>3, <1>7 DEF TakerFilled, PlaceRemainder
<1>8. CASE Trade
  <2>1. PICK t, m, q : t = taker /\ m = Maker /\ q = TradeQuantity
    OBVIOUS
  <2>2. /\ Matching /\ order' = order /\ cancels' = cancels
        /\ exec' = [exec EXCEPT ![t] = @ + q, ![m] = @ + q]
    BY <1>8, <2>1 DEF Trade
  <2>3. /\ q \in Nat /\ q > 0 /\ exec[m] + q <= order[m].qty /\ exec[t] + q <= order[t].qty
        /\ exec[m] \in Nat /\ order[m].qty \in Nat /\ m # t
    BY <2>1, <2>2, MakerFacts
  <2>4. exec[t] \in Nat /\ order[t].qty \in Nat
    BY <2>1, <2>2, TakerFacts DEF Matching
  <2>5. exec[m] # order[m].qty /\ exec[t] # order[t].qty
    BY <2>3, <2>4
  <2>6. Known' = Known /\ Known \subseteq OrderIds /\ exec \in [OrderIds -> Nat]
    BY <1>1, <2>2, KnownOrders DEF TypeOK, Known
  <2>7. \A o \in Known : o # t /\ o # m => exec'[o] = exec[o]
    BY <2>2, <2>6
  <2>. QED  BY <2>2, <2>5, <2>6, <2>7 DEF Lasting, IsFilled, IsCancelled
<1>. QED  BY <1>2, <1>4, <1>5, <1>6, <1>7, <1>8 DEF Next, Command, MatchStep

\* log_order_event: the event, unless the user is the system user.
LEMMA OrderEventIn ==
    ASSUME TypeOK', cmd' \in Nat, NEW o \in Known',
           NEW type \in {"placed", "partially_filled", "filled", "cancelled"}
    PROVE  /\ OrderEvent(type, o) \in Seq(Events)
           /\ \A e \in In(OrderEvent(type, o)) :
                 e.cat = "order" /\ e.type = type /\ e.order = o /\ e.qty = exec'[o]
           /\ order'[o].user # System => Says(OrderEvent(type, o), o, type)
<1>1. o \in OrderIds /\ order'[o] \in Requests /\ exec'[o] \in Nat
  <2>1. /\ order' \in Seq(Requests) /\ Len(order') \in Nat /\ Len(order') <= MaxOrders
        /\ exec' \in [OrderIds -> Nat]
    BY DEF TypeOK
  <2>2. o \in 1 .. Len(order')
    BY <2>1 DEF Known
  <2>3. o \in OrderIds
    BY <2>1, <2>2, MaxOrdersAssumption DEF OrderIds
  <2>. QED  BY <2>1, <2>2, <2>3
<1>2. order'[o].user \in Users
  BY <1>1 DEF Requests
<1> DEFINE s == Log("order", type, o, exec'[o])
<1>3. Logs(s, "order", type, o, exec'[o])
  <2>1. "order" \in Categories /\ type \in EventTypes
    BY DEF Categories, EventTypes
  <2>. QED  BY <1>1, <1>2, <2>1, LogIn, Zenon
<1>4. OrderEvent(type, o) = s
  BY DEF OrderEvent
<1> HIDE DEF s
<1>. QED  BY <1>3, <1>4, RowsAssumption DEF Logs, Says

\* log_balance_event and log_trade_event: no order event.
LEMMA OtherEventsIn ==
    ASSUME TypeOK', cmd' \in Nat, NEW o \in Known', NEW qty \in Nat,
           NEW cat \in {"balance", "trade"},
           NEW type \in {"asset_escrow_increased", "asset_escrow_decreased",
                         "ask_settled", "bid_settled", "taker", "maker"}
    PROVE  /\ Log(cat, type, o, qty) \in Seq(Events)
           /\ \A e \in In(Log(cat, type, o, qty)) : e.cat # "order"
<1>1. o \in OrderIds /\ order'[o] \in Requests
  <2>1. order' \in Seq(Requests) /\ Len(order') \in Nat /\ Len(order') <= MaxOrders
    BY DEF TypeOK
  <2>2. o \in 1 .. Len(order')
    BY <2>1 DEF Known
  <2>. QED  BY <2>1, <2>2, MaxOrdersAssumption DEF OrderIds
<1>2. order'[o].user \in Users
  BY <1>1 DEF Requests
<1>3. cat \in Categories /\ type \in EventTypes /\ cat # "order"
  BY DEF Categories, EventTypes
<1>4. Logs(Log(cat, type, o, qty), cat, type, o, qty)
  BY <1>1, <1>2, <1>3, LogIn, Zenon
<1>. QED  BY <1>3, <1>4 DEF Logs

\* Nothing, which is what a hold or a release of a bid logs.
LEMMA NothingIn == << >> \in Seq(Events) /\ In(<< >>) = {}
  BY DEF In

\* SingleOrderStrategy.handle_cancel: the only order event is the cancellation.
LEMMA CancelEventsIn ==
    ASSUME TypeOK', cmd' \in Nat, NEW o \in Known', order'[o].qty - exec[o] \in Nat
    PROVE  /\ CancelEvents(o) \in Seq(Events)
           /\ \A e \in In(CancelEvents(o)) :
                 e.cat = "order" => e.type = "cancelled" /\ e.order = o
           /\ order'[o].user # System => Says(CancelEvents(o), o, "cancelled")
<1> DEFINE s == OrderEvent("cancelled", o)
           t == EscrowEvent("asset_escrow_decreased", o, order'[o].qty - exec[o])
<1>1. /\ s \in Seq(Events)
      /\ \A e \in In(s) : e.cat = "order" /\ e.type = "cancelled" /\ e.order = o
      /\ order'[o].user # System => Says(s, o, "cancelled")
  BY OrderEventIn
<1>2. t \in Seq(Events) /\ \A e \in In(t) : e.cat # "order"
  BY OtherEventsIn, NothingIn DEF EscrowEvent
<1>3. CancelEvents(o) = s \o t
  BY DEF CancelEvents
<1> HIDE DEF s, t
<1>4. s \o t \in Seq(Events) /\ In(s \o t) = In(s) \cup In(t)
  BY <1>1, <1>2, InConcat
<1>. QED  BY <1>1, <1>2, <1>3, <1>4 DEF Says

-----------------------------------------------------------------------------
(***************************************************************************)
(* The actions of the engine and what they log.                            *)
(***************************************************************************)

\* What a new order is, with its fate still open.
LEMMA NewOrderFacts ==
    ASSUME IInv, NEW r \in Requests, Receive(r), exec' = exec, NEW n, n = Len(order) + 1
    PROVE  /\ n \in OrderIds /\ n \notin Known /\ Known' = Known \cup {n}
           /\ n \notin store
           /\ \A o \in Known : order'[o] = order[o]
           /\ order'[n] = r /\ exec'[n] = 0 /\ cancels[n] = 0 /\ exec[n] = 0
           /\ r.qty \in Nat /\ r.qty > 0
           /\ order'[n].qty - exec[n] \in Nat
           /\ ~IsFilled(n)'
           /\ \A o \in Known : IsFilled(o)' <=> IsFilled(o)
<1>1. TypeOK
  BY DEF IInv
<1>2. /\ n \in OrderIds /\ n \notin Known /\ Known' = Known \cup {n}
      /\ order'[n] = r /\ \A o \in Known : order'[o] = order[o]
  BY <1>1, ReceiveAdds
<1>3. /\ r.qty \in Nat /\ r.qty > 0 /\ n \notin store
      /\ exec[n] = 0 /\ cancels[n] = 0
  BY ReceiveState
<1>. QED  BY <1>2, <1>3 DEF IsFilled

\* handle_new of an order that rests: it is placed.
LEMMA PlaceProgress ==
    ASSUME IInv, IInv', cmd' \in Nat, NEW r \in Requests, PlaceOrder(r)
    PROVE  Progress(OrderEvent("placed", Len(order) + 1))
<1> PICK n : n = Len(order) + 1
  OBVIOUS
<1>1. /\ Receive(r) /\ exec' = exec /\ cancels' = cancels /\ store' = store \cup {n}
  BY DEF PlaceOrder
<1>2. /\ n \in OrderIds /\ n \notin Known /\ Known' = Known \cup {n}
      /\ cancels[n] = 0 /\ ~IsFilled(n)'
      /\ \A o \in Known : IsFilled(o)' <=> IsFilled(o)
  BY <1>1, NewOrderFacts
<1>3. Lasting
  BY EngineLasting DEF Next, Command
<1>4. PICK new : new = OrderEvent("placed", n)
  OBVIOUS
<1>5. /\ new \in Seq(Events)
      /\ \A e \in In(new) : e.cat = "order" /\ e.type = "placed" /\ e.order = n
      /\ order'[n].user # System => Says(new, n, "placed")
  <2>1. TypeOK' /\ n \in Known' /\ "placed" \in {"placed", "partially_filled", "filled", "cancelled"}
    BY <1>2 DEF IInv
  <2>. QED  BY <1>4, <2>1, OrderEventIn
<1>6. ~IsCancelled(n)' /\ \A o \in Known : IsCancelled(o)' <=> IsCancelled(o)
  BY <1>1, <1>2 DEF IsCancelled
<1>7. Reports(new)
  BY <1>2, <1>5, <1>6 DEF Reports, EventSound
<1>8. Complete(new)
  BY <1>1, <1>2, <1>5, <1>6 DEF Complete
<1>. QED  BY <1>3, <1>4, <1>5, <1>7, <1>8 DEF Progress

\* A new order that is not placed: a cancellation is the only order event, and
\* it is there when a cancellation was counted.
LEMMA NotPlacedProgress ==
    ASSUME IInv, NEW r \in Requests, Receive(r), exec' = exec, store' = store, Lasting,
           NEW n, n = Len(order) + 1,
           \A o \in Known : cancels'[o] = cancels[o],
           NEW new \in Seq(Events),
           \A e \in In(new) : e.cat = "order" => e.type = "cancelled" /\ e.order = n /\ IsCancelled(n)',
           order'[n].user # System /\ IsCancelled(n)' => Says(new, n, "cancelled")
    PROVE  Progress(new)
<1>1. /\ n \notin Known /\ Known' = Known \cup {n} /\ n \notin store
      /\ ~IsFilled(n)' /\ \A o \in Known : IsFilled(o)' <=> IsFilled(o)
  BY NewOrderFacts
<1>2. \A o \in Known : IsCancelled(o)' <=> IsCancelled(o)
  BY DEF IsCancelled
<1>3. Reports(new)
  BY <1>1 DEF Reports, EventSound, Begins
<1>4. Complete(new)
  BY <1>1, <1>2 DEF Complete
<1>. QED  BY <1>3, <1>4 DEF Progress

\* match and handle_new of an order its user cannot pay: two cancellations.
LEMMA RejectProgress ==
    ASSUME IInv, IInv', cmd' \in Nat, NEW r \in Requests, RejectOrder(r)
    PROVE  Progress(CancelEvents(Len(order) + 1) \o CancelEvents(Len(order) + 1))
<1> PICK n : n = Len(order) + 1
  OBVIOUS
<1>1. /\ Receive(r) /\ exec' = exec /\ store' = store
      /\ cancels' = [cancels EXCEPT ![n] = 2]
  BY DEF RejectOrder
<1>2. /\ n \in OrderIds /\ n \notin Known /\ Known' = Known \cup {n}
      /\ order'[n].qty - exec[n] \in Nat
  BY <1>1, NewOrderFacts
<1>3. Lasting
  BY EngineLasting DEF Next, Command
<1>4. IsCancelled(n)' /\ \A o \in Known : cancels'[o] = cancels[o]
  BY <1>1, <1>2, KnownOrders DEF IInv, TypeOK, IsCancelled
<1>5. PICK s : s = CancelEvents(n)
  OBVIOUS
<1>6. /\ s \in Seq(Events)
      /\ \A e \in In(s) : e.cat = "order" => e.type = "cancelled" /\ e.order = n
      /\ order'[n].user # System => Says(s, n, "cancelled")
  BY <1>2, <1>5, CancelEventsIn DEF IInv
<1>7. s \o s \in Seq(Events) /\ In(s \o s) = In(s) \cup In(s)
  BY <1>6, InConcat
<1>8. Progress(s \o s)
  BY <1>1, <1>3, <1>4, <1>6, <1>7, NotPlacedProgress DEF Says
<1>. QED  BY <1>5, <1>8

\* As above, but the removal raises after the first log.
LEMMA RejectRaisesProgress ==
    ASSUME IInv, IInv', cmd' \in Nat, NEW r \in Requests, RejectOrderRaises(r)
    PROVE  Progress(OrderEvent("cancelled", Len(order) + 1))
<1> PICK n : n = Len(order) + 1
  OBVIOUS
<1>1. /\ Receive(r) /\ exec' = exec /\ store' = store
      /\ cancels' = [cancels EXCEPT ![n] = 1]
  BY DEF RejectOrderRaises
<1>2. n \in OrderIds /\ n \notin Known /\ Known' = Known \cup {n}
  BY <1>1, NewOrderFacts
<1>3. Lasting
  BY EngineLasting DEF Next, Command
<1>4. IsCancelled(n)' /\ \A o \in Known : cancels'[o] = cancels[o]
  BY <1>1, <1>2, KnownOrders DEF IInv, TypeOK, IsCancelled
<1>5. PICK s : s = OrderEvent("cancelled", n)
  OBVIOUS
<1>6. /\ s \in Seq(Events)
      /\ \A e \in In(s) : e.cat = "order" /\ e.type = "cancelled" /\ e.order = n
      /\ order'[n].user # System => Says(s, n, "cancelled")
  <2>1. TypeOK' /\ n \in Known' /\ "cancelled" \in {"placed", "partially_filled", "filled", "cancelled"}
    BY <1>2 DEF IInv
  <2>. QED  BY <1>5, <2>1, OrderEventIn
<1>7. Progress(s)
  BY <1>1, <1>3, <1>4, <1>6, NotPlacedProgress
<1>. QED  BY <1>5, <1>7

\* match enters the loop and has logged nothing.
LEMMA BeginProgress ==
    ASSUME IInv, NEW r \in Requests, BeginMatch(r)
    PROVE  Progress(<< >>)
<1> PICK n : n = Len(order) + 1
  OBVIOUS
<1>1. Receive(r) /\ exec' = exec /\ store' = store /\ cancels' = cancels
  BY DEF BeginMatch
<1>2. ~IsCancelled(n)'
  BY <1>1, NewOrderFacts DEF IsCancelled
<1>3. Lasting
  BY EngineLasting DEF Next, Command
<1>. QED  BY <1>1, <1>2, <1>3, NothingIn, NotPlacedProgress

\* A step that ends nothing and places nothing need not log anything.
LEMMA QuietProgress ==
    ASSUME order' = order, exec' = exec, cancels' = cancels, store' = store, Lasting
    PROVE  Progress(<< >>)
<1>1. Known' = Known
  BY DEF Known
<1>2. Reports(<< >>) /\ Complete(<< >>)
  BY <1>1, NothingIn DEF Reports, Complete, IsFilled, IsCancelled
<1>. QED  BY <1>2, NothingIn DEF Progress

\* handle_cancel and the cancellation of a maker inside the loop.
LEMMA CancelProgress ==
    ASSUME IInv, IInv', cmd' \in Nat, NEW o \in store, order' = order, exec' = exec,
           cancels' = [cancels EXCEPT ![o] = @ + 1], store' = store \ {o}, Lasting
    PROVE  Progress(CancelEvents(o))
<1>1. /\ TypeOK /\ TypeOK' /\ o \in Known /\ Known' = Known /\ Known \subseteq OrderIds
      /\ order[o].qty - exec[o] \in Nat
  <2>1. TypeOK /\ TypeOK' /\ OneFate /\ o \in Known /\ Known' = Known
    BY DEF IInv, BookConsistent, BookMatchesStore, Known
  <2>2. /\ Known \subseteq OrderIds /\ exec[o] \in Nat /\ order[o].qty \in Nat
        /\ exec[o] <= order[o].qty
    BY <2>1, KnownOrders DEF OneFate
  <2>. QED  BY <2>1, <2>2
<1>2. /\ IsCancelled(o)'
      /\ \A x \in Known : x # o => (IsCancelled(x)' <=> IsCancelled(x))
      /\ \A x \in Known : IsFilled(x)' <=> IsFilled(x)
  BY <1>1 DEF TypeOK, IsCancelled, IsFilled
<1>3. PICK s : s = CancelEvents(o)
  OBVIOUS
<1>4. /\ s \in Seq(Events)
      /\ \A e \in In(s) : e.cat = "order" => e.type = "cancelled" /\ e.order = o
      /\ order'[o].user # System => Says(s, o, "cancelled")
  BY <1>1, <1>3, CancelEventsIn
<1>5. Reports(s)
  BY <1>1, <1>2, <1>4 DEF Reports, EventSound, Begins
<1>6. Complete(s)
  BY <1>1, <1>2, <1>4 DEF Complete
<1>. QED  BY <1>3, <1>4, <1>5, <1>6 DEF Progress

\* handle_new: what is left of the taker is placed.
LEMMA RemainderProgress ==
    ASSUME IInv, IInv', cmd' \in Nat, PlaceRemainder
    PROVE  Progress(OrderEvent("placed", taker))
<1>1. PICK t : t = taker
  OBVIOUS
<1>2. /\ pc = "matching" /\ Remaining(t) > 0 /\ store' = store \cup {t}
      /\ order' = order /\ exec' = exec /\ cancels' = cancels
  BY <1>1 DEF PlaceRemainder
<1>3. /\ t \in Known /\ Known' = Known /\ cancels[t] = 0
      /\ exec[t] \in Nat /\ order[t].qty \in Nat
  BY <1>1, <1>2, TakerFacts DEF Known
<1>4. ~IsFilled(t)' /\ ~IsCancelled(t)'
  BY <1>2, <1>3 DEF IsFilled, IsCancelled, Remaining
<1>5. \A o \in Known : (IsFilled(o)' <=> IsFilled(o)) /\ (IsCancelled(o)' <=> IsCancelled(o))
  BY <1>2 DEF IsFilled, IsCancelled
<1>6. Lasting
  BY EngineLasting DEF Next, MatchStep
<1>7. PICK new : new = OrderEvent("placed", t)
  OBVIOUS
<1>8. /\ new \in Seq(Events)
      /\ \A e \in In(new) : e.cat = "order" /\ e.type = "placed" /\ e.order = t
      /\ order'[t].user # System => Says(new, t, "placed")
  <2>1. TypeOK' /\ t \in Known' /\ "placed" \in {"placed", "partially_filled", "filled", "cancelled"}
    BY <1>3 DEF IInv
  <2>. QED  BY <1>7, <2>1, OrderEventIn
<1>9. Reports(new)
  BY <1>3, <1>4, <1>8 DEF Reports, EventSound
<1>10. Complete(new)
  BY <1>2, <1>3, <1>5, <1>8 DEF Complete
<1>. QED  BY <1>1, <1>6, <1>7, <1>8, <1>9, <1>10 DEF Progress

\* The order events of a sequence.
OrdersIn(s) == {e \in In(s) : e.cat = "order"}

\* Other events add no order event.
LEMMA OrdersInConcat ==
    ASSUME NEW s \in Seq(Events), NEW t \in Seq(Events)
    PROVE  s \o t \in Seq(Events) /\ OrdersIn(s \o t) = OrdersIn(s) \cup OrdersIn(t)
<1>1. s \o t \in Seq(Events) /\ In(s \o t) = In(s) \cup In(t)
  BY InConcat
<1>. QED  BY <1>1 DEF OrdersIn

\* The set f of events tells of a fill of o, and says filled exactly if o is.
TellsFill(f, o) ==
    /\ \A e \in f : /\ e.order = o
                    /\ e.qty = exec'[o]
                    /\ e.type \in {"filled", "partially_filled"}
                    /\ e.type = "filled" => IsFilled(o)'
    /\ order'[o].user # System /\ IsFilled(o)' =>
          \E e \in f : e.type = "filled" /\ e.order = o

\* _log_fill_event: the event says filled exactly if the order is.
LEMMA FillEventIn ==
    ASSUME TypeOK', cmd' \in Nat, order' = order, NEW o \in Known'
    PROVE  /\ FillEvent(o) \in Seq(Events)
           /\ TellsFill(OrdersIn(FillEvent(o)), o)
<1>1. PICK type : type = IF exec'[o] = order[o].qty THEN "filled" ELSE "partially_filled"
  OBVIOUS
<1>2. /\ type \in {"placed", "partially_filled", "filled", "cancelled"}
      /\ type \in {"filled", "partially_filled"}
      /\ type = "filled" <=> IsFilled(o)'
  BY <1>1 DEF IsFilled
<1>3. PICK s : s = OrderEvent(type, o)
  OBVIOUS
<1>4. FillEvent(o) = s
  BY <1>1, <1>3 DEF FillEvent
<1>5. /\ s \in Seq(Events)
      /\ \A e \in In(s) :
            e.cat = "order" /\ e.type = type /\ e.order = o /\ e.qty = exec'[o]
      /\ order'[o].user # System => Says(s, o, type)
  BY <1>2, <1>3, OrderEventIn
<1>. QED  BY <1>2, <1>4, <1>5 DEF OrdersIn, Says, TellsFill

\* Trades, holds and settlements are no order events.
LEMMA TradeLogsIn ==
    ASSUME IInv, IInv', cmd' \in Nat, order' = order, NEW o \in Known, NEW q \in Nat
    PROVE  /\ TradeEvent("taker", o, q) \in Seq(Events) /\ OrdersIn(TradeEvent("taker", o, q)) = {}
           /\ TradeEvent("maker", o, q) \in Seq(Events) /\ OrdersIn(TradeEvent("maker", o, q)) = {}
           /\ HoldEvent(o) \in Seq(Events) /\ OrdersIn(HoldEvent(o)) = {}
           /\ SettledEvent(o, q) \in Seq(Events) /\ OrdersIn(SettledEvent(o, q)) = {}
<1>1. TypeOK' /\ o \in Known' /\ order[o].qty \in Nat
  BY KnownOrders DEF IInv, Known
<1>2. ASSUME NEW cat \in {"balance", "trade"}, NEW n \in Nat,
             NEW type \in {"asset_escrow_increased", "asset_escrow_decreased",
                           "ask_settled", "bid_settled", "taker", "maker"}
      PROVE  Log(cat, type, o, n) \in Seq(Events) /\ OrdersIn(Log(cat, type, o, n)) = {}
  BY <1>1, OtherEventsIn DEF OrdersIn
<1>3. << >> \in Seq(Events) /\ OrdersIn(<< >>) = {}
  BY NothingIn DEF OrdersIn
<1>4. TradeEvent("taker", o, q) \in Seq(Events) /\ OrdersIn(TradeEvent("taker", o, q)) = {}
  BY <1>2 DEF TradeEvent
<1>5. TradeEvent("maker", o, q) \in Seq(Events) /\ OrdersIn(TradeEvent("maker", o, q)) = {}
  BY <1>2 DEF TradeEvent
<1>6. HoldEvent(o) \in Seq(Events) /\ OrdersIn(HoldEvent(o)) = {}
  BY <1>1, <1>2, <1>3 DEF HoldEvent, EscrowEvent
<1>7. SettledEvent(o, q) \in Seq(Events) /\ OrdersIn(SettledEvent(o, q)) = {}
  BY <1>2 DEF SettledEvent
<1>. QED  BY <1>4, <1>5, <1>6, <1>7

\* _process_trade: the order events are the two fill events.
LEMMA TradeEventsIn ==
    ASSUME IInv, IInv', cmd' \in Nat, order' = order, Matching
    PROVE  /\ TradeEvents \in Seq(Events)
           /\ OrdersIn(TradeEvents) = OrdersIn(FillEvent(taker)) \cup OrdersIn(FillEvent(Maker))
<1>1. PICK t, m, q : t = taker /\ m = Maker /\ q = TradeQuantity
  OBVIOUS
<1>2. t \in Known /\ m \in Known /\ q \in Nat
  BY <1>1, TakerFacts, MakerFacts DEF Matching
<1>3. TypeOK' /\ t \in Known' /\ m \in Known'
  BY <1>2 DEF IInv, Known
<1>4. PICK a1, a2, f1, f2, h1, h2, s1, s2 :
        /\ a1 = TradeEvent("taker", t, q) /\ a2 = TradeEvent("maker", m, q)
        /\ f1 = FillEvent(t) /\ f2 = FillEvent(m)
        /\ h1 = HoldEvent(m) /\ h2 = HoldEvent(t)
        /\ s1 = SettledEvent(t, q) /\ s2 = SettledEvent(m, q)
  OBVIOUS
<1>5. TradeEvents = a1 \o a2 \o f1 \o f2 \o h1 \o h2 \o s1 \o s2
  BY <1>1, <1>4, Zenon DEF TradeEvents
<1>6. /\ a1 \in Seq(Events) /\ a2 \in Seq(Events) /\ h1 \in Seq(Events)
      /\ h2 \in Seq(Events) /\ s1 \in Seq(Events) /\ s2 \in Seq(Events)
      /\ OrdersIn(a1) = {} /\ OrdersIn(a2) = {} /\ OrdersIn(h1) = {}
      /\ OrdersIn(h2) = {} /\ OrdersIn(s1) = {} /\ OrdersIn(s2) = {}
  BY <1>2, <1>4, TradeLogsIn
<1>7. f1 \in Seq(Events) /\ f2 \in Seq(Events)
  BY <1>3, <1>4, FillEventIn
<1>8. PICK c1, c2, c3, c4, c5, c6 :
        /\ c1 = a1 \o a2 /\ c2 = c1 \o f1 /\ c3 = c2 \o f2
        /\ c4 = c3 \o h1 /\ c5 = c4 \o h2 /\ c6 = c5 \o s1
  OBVIOUS
<1>9. c1 \in Seq(Events) /\ OrdersIn(c1) = OrdersIn(a1) \cup OrdersIn(a2)
  BY <1>6, <1>8, OrdersInConcat
<1>10. c2 \in Seq(Events) /\ OrdersIn(c2) = OrdersIn(c1) \cup OrdersIn(f1)
  BY <1>7, <1>8, <1>9, OrdersInConcat
<1>11. c3 \in Seq(Events) /\ OrdersIn(c3) = OrdersIn(c2) \cup OrdersIn(f2)
  BY <1>7, <1>8, <1>10, OrdersInConcat
<1>12. c4 \in Seq(Events) /\ OrdersIn(c4) = OrdersIn(c3) \cup OrdersIn(h1)
  BY <1>6, <1>8, <1>11, OrdersInConcat
<1>13. c5 \in Seq(Events) /\ OrdersIn(c5) = OrdersIn(c4) \cup OrdersIn(h2)
  BY <1>6, <1>8, <1>12, OrdersInConcat
<1>14. c6 \in Seq(Events) /\ OrdersIn(c6) = OrdersIn(c5) \cup OrdersIn(s1)
  BY <1>6, <1>8, <1>13, OrdersInConcat
<1>15. c6 \o s2 \in Seq(Events) /\ OrdersIn(c6 \o s2) = OrdersIn(c6) \cup OrdersIn(s2)
  BY <1>6, <1>14, OrdersInConcat
<1>16. OrdersIn(c6 \o s2) = OrdersIn(f1) \cup OrdersIn(f2)
  BY <1>6, <1>9, <1>10, <1>11, <1>12, <1>13, <1>14, <1>15
<1>17. TradeEvents = c6 \o s2
  BY <1>5, <1>8, Zenon
<1>. QED  BY <1>1, <1>4, <1>15, <1>16, <1>17, Zenon

\* A trade: a fill event for each side, and a side that is filled says so.
LEMMA TradeProgress ==
    ASSUME IInv, IInv', cmd' \in Nat, Trade
    PROVE  Progress(TradeEvents)
<1>1. PICK t, m, q : t = taker /\ m = Maker /\ q = TradeQuantity
  OBVIOUS
<1>2. /\ Matching /\ order' = order /\ cancels' = cancels /\ store' \subseteq store
      /\ exec' = [exec EXCEPT ![t] = @ + q, ![m] = @ + q]
  BY <1>1 DEF Trade
<1>3. t \in Known /\ m \in Known
  BY <1>1, <1>2, TakerFacts, MakerFacts DEF Matching
<1>4. TypeOK' /\ Known' = Known /\ t \in Known' /\ m \in Known'
  BY <1>2, <1>3 DEF IInv, Known
<1>5. /\ \A o \in Known : o # t /\ o # m => (IsFilled(o)' <=> IsFilled(o))
      /\ \A o \in Known : IsCancelled(o)' <=> IsCancelled(o)
  BY <1>2, <1>3, KnownOrders DEF IInv, TypeOK, IsFilled, IsCancelled
<1>6. PICK new : new = TradeEvents
  OBVIOUS
<1>7. PICK f1, f2 : f1 = OrdersIn(FillEvent(t)) /\ f2 = OrdersIn(FillEvent(m))
  OBVIOUS
<1>8. new \in Seq(Events) /\ OrdersIn(new) = f1 \cup f2
  BY <1>1, <1>2, <1>6, <1>7, TradeEventsIn
<1>9. TellsFill(f1, t) /\ TellsFill(f2, m)
  BY <1>2, <1>4, <1>7, FillEventIn
<1>10. \A e \in OrdersIn(new) :
          /\ e.order \in {t, m} /\ e.qty = exec'[e.order]
          /\ e.type \in {"filled", "partially_filled"}
          /\ e.type = "filled" => IsFilled(e.order)'
  BY <1>8, <1>9 DEF TellsFill, IsFilled
<1>11. \A o \in {t, m} : order'[o].user # System /\ IsFilled(o)' => Says(new, o, "filled")
  BY <1>8, <1>9 DEF TellsFill, Says, OrdersIn
<1>12. Lasting
  BY EngineLasting DEF Next, MatchStep
<1>13. Reports(new)
  BY <1>4, <1>10 DEF Reports, EventSound, OrdersIn, Begins
<1>14. Complete(new)
  BY <1>2, <1>4, <1>5, <1>11 DEF Complete
<1>. QED  BY <1>6, <1>8, <1>12, <1>13, <1>14 DEF Progress

\* Every step of the engine extends the stream by what it has to log.
LEMMA EngineProgress ==
    ASSUME IInv, cmd \in Nat, EngineStep
    PROVE  /\ IInv' /\ cmd' \in Nat /\ UNCHANGED <<topic, fanout>>
           /\ \E new : stream' = stream \o new /\ Progress(new)
<1>1. /\ cmd' \in Nat /\ UNCHANGED <<topic, fanout>>
      /\ Next
  BY DEF EngineStep, NewOrder, OldOrder, MatchingStep, NextCommand, SameCommand,
         Next, Command, MatchStep
<1>2. IInv'
  BY <1>1, NextIInv
<1>3. Lasting
  BY <1>1, EngineLasting
<1>4. ASSUME NEW r \in Requests, NewOrder(r)
      PROVE  \E new : stream' = stream \o new /\ Progress(new)
  BY <1>1, <1>2, <1>4, PlaceProgress, RejectProgress, RejectRaisesProgress, BeginProgress
  DEF NewOrder, NextCommand, Publish
<1>5. ASSUME NEW o \in OrderIds, OldOrder(o)
      PROVE  \E new : stream' = stream \o new /\ Progress(new)
  <2>1. CASE CancelOrder(o) /\ NextCommand(CancelEvents(o))
    BY <1>1, <1>2, <1>3, <2>1, CancelProgress DEF CancelOrder, NextCommand, Publish
  <2>2. CASE ModifyRaises(o) /\ NextCommand(<< >>)
    BY <1>3, <2>2, QuietProgress DEF ModifyRaises, NextCommand, Publish
  <2>. QED  BY <1>5, <2>1, <2>2 DEF OldOrder
<1>6. CASE MatchingStep
  <2>1. CASE Trade /\ SameCommand(TradeEvents)
    BY <1>1, <1>2, <2>1, TradeProgress DEF SameCommand, Publish
  <2>2. CASE CancelMaker /\ SameCommand(CancelEvents(Maker))
    <3>1. PICK m : m = Maker
      OBVIOUS
    <3>2. /\ m \in store /\ order' = order /\ exec' = exec
          /\ cancels' = [cancels EXCEPT ![m] = @ + 1] /\ store' = store \ {m}
      BY <2>2, <3>1, MakerFacts DEF CancelMaker
    <3>3. Progress(CancelEvents(m))
      BY <1>1, <1>2, <1>3, <3>2, CancelProgress
    <3>. QED  BY <1>1, <1>2, <2>2, <3>1, <3>3 DEF SameCommand, Publish
  <2>3. CASE TakerFilled /\ SameCommand(<< >>)
    BY <1>1, <1>2, <1>3, <2>3, QuietProgress DEF TakerFilled, SameCommand, Publish
  <2>4. CASE PlaceRemainder /\ SameCommand(OrderEvent("placed", taker))
    BY <1>1, <1>2, <2>4, RemainderProgress DEF SameCommand, Publish
  <2>. QED  BY <1>6, <2>1, <2>2, <2>3, <2>4 DEF MatchingStep
<1>. QED  BY <1>1, <1>2, <1>4, <1>5, <1>6 DEF EngineStep

-----------------------------------------------------------------------------
(***************************************************************************)
(* The order of the events.                                                *)
(***************************************************************************)

\* Events are added at the end.
LEMMA InSequenceConcat ==
    ASSUME NEW s \in Seq(Events), NEW t \in Seq(Events), NEW keys, InSequence(s, keys),
           \A e \in In(s) \cup In(t), f \in In(t) : MayFollow(e, f, keys)
    PROVE  InSequence(s \o t, keys)
<1> DEFINE u == s \o t
<1>1. /\ Len(s) \in Nat /\ Len(t) \in Nat /\ DOMAIN u = 1 .. (Len(s) + Len(t))
      /\ DOMAIN s = 1 .. Len(s) /\ DOMAIN t = 1 .. Len(t)
      /\ \A i \in 1 .. Len(s) : u[i] = s[i]
      /\ \A i \in 1 .. Len(t) : u[Len(s) + i] = t[i]
  OBVIOUS
<1>2. In(u) = In(s) \cup In(t)
  BY InConcat
<1> HIDE DEF u
<1>3. ASSUME NEW i \in DOMAIN u, NEW j \in DOMAIN u, i < j
      PROVE  MayFollow(u[i], u[j], keys)
  <2>1. CASE j <= Len(s)
    <3>1. i \in DOMAIN s /\ j \in DOMAIN s /\ u[i] = s[i] /\ u[j] = s[j]
      BY <1>1, <1>3, <2>1
    <3>. QED  BY <1>3, <3>1 DEF InSequence
  <2>2. CASE j > Len(s)
    <3>1. j - Len(s) \in DOMAIN t /\ u[Len(s) + (j - Len(s))] = t[j - Len(s)]
          /\ Len(s) + (j - Len(s)) = j
      BY <1>1, <2>2
    <3>2. u[j] \in In(t) /\ u[i] \in In(u)
      BY <3>1 DEF In
    <3>. QED  BY <1>2, <3>2
  <2>. QED  BY <1>1, <2>1, <2>2
<1>. QED  BY <1>3 DEF InSequence, u

\* The first event is taken.
LEMMA InSequenceTail ==
    ASSUME NEW s \in Seq(Events), s # << >>, NEW keys, InSequence(s, keys)
    PROVE  /\ InSequence(Tail(s), keys)
           /\ \A f \in In(Tail(s)) : MayFollow(Head(s), f, keys)
<1>1. /\ 1 \in DOMAIN s /\ s[1] = Head(s) /\ Tail(s) \in Seq(Events)
      /\ \A i \in DOMAIN Tail(s) : i + 1 \in DOMAIN s /\ Tail(s)[i] = s[i + 1] /\ 1 < i + 1
  BY InTail
<1>2. \A i \in DOMAIN Tail(s) : i \in Nat
  BY <1>1
<1>3. ASSUME NEW i \in DOMAIN Tail(s), NEW j \in DOMAIN Tail(s), i < j
      PROVE  MayFollow(Tail(s)[i], Tail(s)[j], keys)
  <2>1. i + 1 \in DOMAIN s /\ j + 1 \in DOMAIN s /\ i + 1 < j + 1
    BY <1>1, <1>2, <1>3
  <2>2. MayFollow(s[i + 1], s[j + 1], keys)
    BY <2>1 DEF InSequence
  <2>. QED  BY <1>1, <2>2
<1>4. ASSUME NEW j \in DOMAIN Tail(s)
      PROVE  MayFollow(Head(s), Tail(s)[j], keys)
  <2>1. MayFollow(s[1], s[j + 1], keys)
    BY <1>1 DEF InSequence
  <2>. QED  BY <1>1, <2>1
<1>. QED  BY <1>3, <1>4 DEF InSequence, In

\* More handled keys permit more.
LEMMA MoreKeys ==
    ASSUME NEW keys, NEW more, keys \subseteq more
    PROVE  /\ \A s : InSequence(s, keys) => InSequence(s, more)
           /\ \A e, f : MayFollow(e, f, keys) => MayFollow(e, f, more)
  BY DEF InSequence, MayFollow

-----------------------------------------------------------------------------
(***************************************************************************)
(* The invariant is kept.                                                  *)
(***************************************************************************)

\* An order has one fate: what is stored has not ended, and what is filled is
\* not cancelled.
LEMMA FatesExclude ==
    ASSUME IInv, NEW o \in Known
    PROVE  /\ o \in store => ~IsFilled(o) /\ ~IsCancelled(o)
           /\ ~(IsFilled(o) /\ IsCancelled(o))
<1>1. o \in OrderIds /\ exec[o] \in Nat /\ order[o].qty \in Nat /\ cancels[o] \in Nat
  BY KnownOrders DEF IInv, TypeOK
<1>. QED  BY <1>1 DEF IInv, OneFate, IsFilled, IsCancelled, Remaining

\* Before the first command there are neither events nor claims.
LEMMA RowsInit == RowInit => RowsSound
<1> SUFFICES ASSUME RowInit PROVE RowsSound
  OBVIOUS
<1>1. /\ IInv /\ stream = << >> /\ topic["order"] = << >> /\ seen = {} /\ order = << >> /\ lost = {}
      /\ row = [o \in OrderIds |-> [status |-> "pending", executed |-> 0]]
  BY InitIInv, RowsAssumption DEF RowInit, StreamInit, Init
<1>2. In(stream) = {} /\ In(topic["order"]) = {} /\ Known = {}
  BY <1>1 DEF In, Known
<1>3. RowTypeOK
  BY <1>1 DEF RowTypeOK, StreamTypeOK, RowInit, StreamInit, Statuses
<1>4. EventsSound /\ ClaimsSound /\ SeenApplied /\ Announced
  BY <1>1, <1>2 DEF EventsSound, OnTheWay, ClaimsSound, SeenApplied, Announced
<1>5. PlacedComesFirst
  BY <1>1, <1>2 DEF PlacedComesFirst, OnTheWay, InSequence
<1>. QED  BY <1>1, <1>3, <1>4, <1>5 DEF RowsSound

\* A step of the engine: old events stay true, and a new one that places an
\* order cannot be behind one that ended it.
LEMMA EngineKeepsRows ==
    ASSUME RowsSound, EngineStep, UNCHANGED hvars
    PROVE  RowsSound'
<1>1. /\ IInv /\ RowTypeOK /\ EventsSound /\ ClaimsSound /\ PlacedComesFirst
      /\ SeenApplied /\ Announced
      /\ stream \in Seq(Events) /\ cmd \in Nat
  BY DEF RowsSound, RowTypeOK, StreamTypeOK
<1>2. /\ IInv' /\ cmd' \in Nat /\ topic' = topic /\ fanout' = fanout
      /\ row' = row /\ seen' = seen /\ lost' = lost
  BY <1>1, EngineProgress DEF hvars
<1>3. PICK new : stream' = stream \o new /\ Progress(new)
  BY <1>1, EngineProgress
<1>4. /\ new \in Seq(Events) /\ Lasting /\ Reports(new) /\ Complete(new)
  BY <1>3 DEF Progress
<1>5. /\ stream' \in Seq(Events) /\ In(stream') = In(stream) \cup In(new)
  BY <1>1, <1>3, <1>4, InConcat
<1>6. OnTheWay' = OnTheWay \cup In(new) /\ In(topic'["order"]) = In(topic["order"])
  BY <1>2, <1>5 DEF OnTheWay
<1>7. RowTypeOK'
  BY <1>1, <1>2, <1>5 DEF RowTypeOK, StreamTypeOK
<1>8. ASSUME NEW e, EventSound(e)
      PROVE  EventSound(e)'
  BY <1>4, <1>8 DEF EventSound, Lasting, IsFilled, IsCancelled
<1>9. \A e \in OnTheWay' : EventSound(e)'
  BY <1>1, <1>4, <1>6, <1>8 DEF EventsSound, Reports
<1>10. EventsSound'
  BY <1>1, <1>6, <1>9 DEF EventsSound
<1>11. ClaimsSound'
  BY <1>1, <1>2, <1>4 DEF ClaimsSound, Lasting, IsFilled, IsCancelled
<1>12. ASSUME NEW e \in OnTheWay', NEW f \in In(new)
       PROVE  MayFollow(e, f, seen)
  <2> SUFFICES ASSUME Ends(e), Begins(f), e.order = f.order PROVE FALSE
    BY DEF MayFollow
  <2>1. IsFilled(e.order)' \/ IsCancelled(e.order)'
    BY <1>9 DEF EventSound, Ends
  <2>2. ~IsFilled(f.order)' /\ ~IsCancelled(f.order)'
    BY <1>4 DEF Reports
  <2>. QED  BY <2>1, <2>2 DEF IsFilled, IsCancelled
<1>13. InSequence(stream', seen)
  BY <1>1, <1>3, <1>4, <1>5, <1>12, InSequenceConcat DEF PlacedComesFirst, OnTheWay
<1>14. ASSUME NEW f \in In(new), Begins(f), row[f.order].status \in {"filled", "cancelled"}
       PROVE  FALSE
  <2>1. f.order \in Known' /\ ~IsFilled(f.order)' /\ ~IsCancelled(f.order)'
    BY <1>4, <1>14 DEF Reports, EventSound, Begins
  <2>2. f.order \in OrderIds
    <3>1. f \in Events
      BY <1>4 DEF In
    <3>. QED  BY <3>1 DEF Events, Categories
  <2>3. IsFilled(f.order)' \/ IsCancelled(f.order)'
    BY <1>2, <1>11, <1>14, <2>2 DEF ClaimsSound, IsFilled, IsCancelled
  <2>. QED  BY <2>1, <2>3
<1>15. \A e \in In(topic["order"]), f \in In(stream') : MayFollow(e, f, seen)
  BY <1>1, <1>5, <1>6, <1>12 DEF PlacedComesFirst, OnTheWay
<1>16. \A f \in OnTheWay' :
         Begins(f) /\ row[f.order].status \in {"filled", "cancelled"} => Key(f) \in seen
  BY <1>1, <1>6, <1>14 DEF PlacedComesFirst
<1>17. PlacedComesFirst'
  BY <1>1, <1>2, <1>13, <1>15, <1>16 DEF PlacedComesFirst
<1>18. SeenApplied'
  BY <1>1, <1>2, Zenon DEF SeenApplied
<1>19. Announced'
  <2>1. \A o, type : Told(o, type) => Told(o, type)'
    BY <1>2, <1>6 DEF Told
  <2>2. \A o, type : Says(new, o, type) => Told(o, type)'
    BY <1>6 DEF Told, Says
  <2> SUFFICES ASSUME NEW o \in Known', o \notin lost, order'[o].user # System
               PROVE  /\ o \in store' => Told(o, "placed")'
                      /\ IsFilled(o)' => Told(o, "filled")'
                      /\ IsCancelled(o)' => Told(o, "cancelled")'
    BY <1>2 DEF Announced
  <2>3. /\ o \in store' => o \in store \/ Says(new, o, "placed")
        /\ IsFilled(o)' => (o \in Known /\ IsFilled(o)) \/ Says(new, o, "filled")
        /\ IsCancelled(o)' => (o \in Known /\ IsCancelled(o)) \/ Says(new, o, "cancelled")
    BY <1>4 DEF Complete
  <2>4. o \in store => o \in Known
    BY <1>1 DEF IInv, BookConsistent, BookMatchesStore
  <2>5. o \in Known => order[o].user # System
    BY <1>4 DEF Lasting
  <2>. QED  BY <1>1, <2>1, <2>2, <2>3, <2>4, <2>5 DEF Announced
<1>. QED  BY <1>2, <1>7, <1>10, <1>11, <1>17, <1>18, <1>19 DEF RowsSound

\* KafkaFanout.run: an order event goes from the head of the stream to the end
\* of its topic, once or several times, and events of other categories go
\* elsewhere.
LEMMA RouteKeepsRows ==
    ASSUME RowsSound, NEW copies \in 1 .. MaxCopies, Route(copies), UNCHANGED <<vars, hvars>>
    PROVE  RowsSound'
<1>1. /\ IInv /\ RowTypeOK /\ EventsSound /\ ClaimsSound /\ PlacedComesFirst
      /\ SeenApplied /\ Announced
      /\ stream \in Seq(Events) /\ cmd \in Nat /\ topic \in [Followed -> Seq(Events)]
      /\ topic["order"] \in Seq(Events)
  BY RowsAssumption DEF RowsSound, RowTypeOK, StreamTypeOK
<1>2. PICK h, c, q : h = Head(stream) /\ c = [j \in 1 .. copies |-> h] /\ q = topic["order"]
  OBVIOUS
<1>3. /\ stream # << >> /\ stream' = Tail(stream) /\ cmd' = cmd /\ fanout' = fanout
      /\ topic' = [topic EXCEPT ![h.cat] = @ \o c]
      /\ row' = row /\ seen' = seen /\ lost' = lost
      /\ order' = order /\ exec' = exec /\ cancels' = cancels /\ store' = store
  BY <1>2 DEF Route, vars, hvars
<1>4. /\ h \in Events /\ stream' \in Seq(Events) /\ In(stream) = {h} \cup In(stream')
  BY <1>1, <1>2, <1>3, InTail
<1>5. c \in Seq(Events) /\ In(c) = {h}
  <2>1. 1 \in 1 .. copies /\ copies \in Nat
    BY StreamAssumption
  <2>2. c \in Seq(Events) /\ DOMAIN c = 1 .. copies /\ \A j \in 1 .. copies : c[j] = h
    BY <1>2, <1>4, <2>1
  <2>. QED  BY <2>1, <2>2 DEF In
<1>6. q \o c \in Seq(Events) /\ In(q \o c) = In(q) \cup {h}
  <2>1. q \o c \in Seq(Events) /\ In(q \o c) = In(q) \cup In(c)
    BY <1>1, <1>2, <1>5, InConcat
  <2>. QED  BY <1>5, <2>1
<1>7. topic'["order"] = IF h.cat = "order" THEN q \o c ELSE q
  BY <1>1, <1>2, <1>3, RowsAssumption
<1>8. topic' \in [Followed -> Seq(Events)]
  <2>1. \A k \in Followed : topic[k] \in Seq(Events) /\ topic[k] \o c \in Seq(Events)
    BY <1>1, <1>5, InConcat
  <2>. QED  BY <1>1, <1>3, <2>1
<1>9. RowTypeOK'
  BY <1>1, <1>3, <1>4, <1>8 DEF RowTypeOK, StreamTypeOK
<1>10. /\ OnTheWay' \subseteq OnTheWay
       /\ \A e \in OnTheWay : e.cat = "order" => e \in OnTheWay'
       /\ In(topic'["order"]) \subseteq In(q) \cup {h}
       /\ h \in In(topic'["order"]) => h.cat = "order"
  BY <1>1, <1>2, <1>4, <1>6, <1>7 DEF OnTheWay, EventsSound
<1>11. IInv'
  BY <1>1, NextIInv DEF vars
<1>12. EventsSound'
  <2>1. \A e : EventSound(e)' <=> EventSound(e)
    BY <1>3 DEF EventSound, IsFilled, IsCancelled, Known
  <2>2. \A e \in In(topic'["order"]) : e.cat = "order"
    BY <1>1, <1>2, <1>10 DEF EventsSound
  <2>. QED  BY <1>1, <1>10, <2>1, <2>2 DEF EventsSound
<1>13. ClaimsSound' /\ SeenApplied'
  <2>1. SeenApplied'
    BY <1>1, <1>3, Zenon DEF SeenApplied
  <2>2. ClaimsSound'
    BY <1>1, <1>3 DEF ClaimsSound, IsFilled, IsCancelled, Known
  <2>. QED  BY <2>1, <2>2
<1>14. PlacedComesFirst'
  <2>1. /\ InSequence(stream, seen) /\ InSequence(q, seen)
        /\ \A e \in In(q), f \in In(stream) : MayFollow(e, f, seen)
        /\ \A f \in OnTheWay :
             Begins(f) /\ row[f.order].status \in {"filled", "cancelled"} => Key(f) \in seen
    BY <1>1, <1>2 DEF PlacedComesFirst
  <2>2. InSequence(stream', seen) /\ \A f \in In(stream') : MayFollow(h, f, seen)
    BY <1>1, <1>2, <1>3, <2>1, InSequenceTail
  <2>3. MayFollow(h, h, seen)
    BY DEF MayFollow, Ends, Begins
  <2>4. InSequence(q \o c, seen)
    BY <1>1, <1>2, <1>4, <1>5, <2>1, <2>3, InSequenceConcat
  <2>5. InSequence(topic'["order"], seen)
    BY <1>7, <2>1, <2>4
  <2>6. \A e \in In(topic'["order"]), f \in In(stream') : MayFollow(e, f, seen)
    BY <1>4, <1>10, <2>1, <2>2
  <2>. QED  BY <1>3, <1>10, <2>1, <2>2, <2>5, <2>6 DEF PlacedComesFirst
<1>15. Announced'
  <2>1. \A o, type : Told(o, type) => Told(o, type)'
    BY <1>3, <1>10 DEF Told
  <2>. QED  BY <1>1, <1>3, <2>1 DEF Announced, IsFilled, IsCancelled, Known
<1>. QED  BY <1>9, <1>11, <1>12, <1>13, <1>14, <1>15 DEF RowsSound

\* The fanout ends and leaves everything where it is.
LEMMA FailKeepsRows ==
    ASSUME RowsSound, UNCHANGED <<vars, cmd, stream, topic, hvars>>,
           fanout' \in {"running", "failed"}
    PROVE  RowsSound'
<1>1. IInv'
  BY NextIInv DEF vars, RowsSound
<1>2. RowTypeOK'
  BY DEF RowsSound, RowTypeOK, StreamTypeOK, hvars
<1>3. /\ order' = order /\ exec' = exec /\ cancels' = cancels /\ store' = store
      /\ stream' = stream /\ topic' = topic /\ row' = row /\ seen' = seen /\ lost' = lost
  BY DEF vars, hvars
<1>4. EventsSound'
  BY <1>3 DEF RowsSound, EventsSound, OnTheWay, EventSound, IsFilled, IsCancelled, Known
<1>5. ClaimsSound'
  BY <1>3 DEF RowsSound, ClaimsSound, IsFilled, IsCancelled, Known
<1>6. PlacedComesFirst'
  BY <1>3 DEF RowsSound, PlacedComesFirst, OnTheWay
<1>7. SeenApplied'
  BY <1>3, Zenon DEF RowsSound, SeenApplied
<1>8. Announced'
  BY <1>3 DEF RowsSound, Announced, Told, OnTheWay, IsFilled, IsCancelled, Known
<1>. QED  BY <1>1, <1>2, <1>4, <1>5, <1>6, <1>7, <1>8 DEF RowsSound

\* The event the handler reads, and what is left on its way.
LEMMA ConsumeFacts ==
    ASSUME RowsSound, Consume("order"), NEW e, e = Head(topic["order"])
    PROVE  /\ e \in Events /\ e.cat = "order" /\ EventSound(e) /\ e \in OnTheWay
           /\ e.order \in Known /\ e.order \in OrderIds /\ e.cmd \in Nat
           /\ e.type \in {"placed", "partially_filled", "filled", "cancelled"}
           /\ stream' = stream /\ cmd' = cmd /\ fanout' = fanout /\ vars' = vars
           /\ topic' \in [Followed -> Seq(Events)]
           /\ OnTheWay' \subseteq OnTheWay
           /\ \A f \in OnTheWay : f = e \/ f \in OnTheWay'
           /\ In(topic'["order"]) \subseteq In(topic["order"])
           /\ InSequence(topic'["order"], seen)
           /\ \A f \in OnTheWay' : MayFollow(e, f, seen)
<1>1. PICK q : q = topic["order"]
  OBVIOUS
<1>2. /\ RowTypeOK /\ EventsSound /\ PlacedComesFirst /\ IInv
      /\ stream \in Seq(Events) /\ topic \in [Followed -> Seq(Events)] /\ q \in Seq(Events)
  BY <1>1, RowsAssumption DEF RowsSound, RowTypeOK, StreamTypeOK
<1>3. /\ q # << >> /\ topic' = [topic EXCEPT !["order"] = Tail(q)]
      /\ stream' = stream /\ cmd' = cmd /\ fanout' = fanout /\ vars' = vars
  BY <1>1 DEF Consume
<1>4. /\ e \in Events /\ Tail(q) \in Seq(Events) /\ In(q) = {e} \cup In(Tail(q))
  BY <1>1, <1>2, <1>3, InTail
<1>5. topic'["order"] = Tail(q) /\ topic' \in [Followed -> Seq(Events)]
  BY <1>2, <1>3, <1>4, RowsAssumption
<1>6. e.cat = "order" /\ EventSound(e) /\ e \in OnTheWay
  BY <1>1, <1>2, <1>4 DEF EventsSound, OnTheWay
<1>7. /\ e.order \in Known /\ e.order \in OrderIds /\ e.cmd \in Nat
      /\ e.type \in {"placed", "partially_filled", "filled", "cancelled"}
  BY <1>4, <1>6 DEF EventSound, Events
<1>8. /\ OnTheWay' \subseteq OnTheWay
      /\ \A f \in OnTheWay : f = e \/ f \in OnTheWay'
      /\ In(topic'["order"]) \subseteq In(topic["order"])
  BY <1>1, <1>3, <1>4, <1>5 DEF OnTheWay
<1>9. /\ InSequence(Tail(q), seen) /\ \A f \in In(Tail(q)) : MayFollow(e, f, seen)
  BY <1>1, <1>2, <1>3, InSequenceTail DEF PlacedComesFirst
<1>10. \A f \in OnTheWay' : MayFollow(e, f, seen)
  <2>1. \A f \in In(stream) : MayFollow(e, f, seen)
    BY <1>1, <1>2, <1>4 DEF PlacedComesFirst
  <2>. QED  BY <1>3, <1>5, <1>9, <2>1 DEF OnTheWay
<1>. QED  BY <1>3, <1>4, <1>5, <1>6, <1>7, <1>8, <1>9, <1>10

\* An event that raises and a duplicate that is dropped change no row: what a
\* duplicate would have told is told already, and an order that loses another
\* event to a database error is counted as lost.
LEMMA DropKeepsRows ==
    ASSUME RowsSound, PartialFillRaises \/ DatabaseRaises \/ DropDuplicate
    PROVE  RowsSound'
<1>1. /\ IInv /\ RowTypeOK /\ EventsSound /\ ClaimsSound /\ PlacedComesFirst
      /\ SeenApplied /\ Announced
  BY DEF RowsSound
<1>2. PICK e : e = Head(topic["order"])
  OBVIOUS
<1>3. /\ Consume("order") /\ row' = row /\ seen' = seen
      /\ lost \subseteq lost' /\ lost' \subseteq lost \cup {e.order}
      /\ e.type = "partially_filled" \/ Key(e) \in seen \/ e.order \in lost'
  BY <1>2 DEF PartialFillRaises, DatabaseRaises, DropDuplicate, hvars
<1>4. /\ e \in Events /\ e.cat = "order" /\ e.order \in Known /\ e.order \in OrderIds
      /\ e.cmd \in Nat
      /\ stream' = stream /\ cmd' = cmd /\ fanout' = fanout /\ vars' = vars
      /\ topic' \in [Followed -> Seq(Events)]
      /\ OnTheWay' \subseteq OnTheWay
      /\ \A f \in OnTheWay : f = e \/ f \in OnTheWay'
      /\ In(topic'["order"]) \subseteq In(topic["order"])
      /\ InSequence(topic'["order"], seen)
  BY <1>2, <1>3, ConsumeFacts
<1>5. order' = order /\ exec' = exec /\ cancels' = cancels /\ store' = store
  BY <1>4 DEF vars
<1>6. IInv'
  BY <1>1, <1>4, NextIInv
<1>7. RowTypeOK'
  BY <1>1, <1>3, <1>4 DEF RowTypeOK, StreamTypeOK
<1>8. EventsSound'
  BY <1>1, <1>4, <1>5 DEF EventsSound, EventSound, IsFilled, IsCancelled, Known
<1>9. ClaimsSound'
  BY <1>1, <1>3, <1>5 DEF ClaimsSound, IsFilled, IsCancelled, Known
<1>10. PlacedComesFirst'
  BY <1>1, <1>3, <1>4 DEF PlacedComesFirst
<1>11. SeenApplied'
  BY <1>1, <1>3, Zenon DEF SeenApplied
<1>12. Announced'
  <2>1. ASSUME NEW o \in Known \ lost', NEW type \in {"placed", "filled", "cancelled"},
               Told(o, type), type = "placed" => o \in store
        PROVE  Told(o, type)'
    <3>1. CASE row[o].status = type
      BY <1>3, <3>1 DEF Told
    <3>2. CASE \E f \in OnTheWay' : f.cat = "order" /\ f.type = type /\ f.order = o
      BY <3>2 DEF Told
    <3>3. CASE e.type = type /\ e.order = o
      <4>1. <<e.cmd, o, type>> \in seen
        BY <1>3, <2>1, <3>3 DEF Key
      <4>2. /\ type = "placed" => row[o].status # "pending"
            /\ type = "filled" => row[o].status = "filled"
            /\ type = "cancelled" => row[o].status = "cancelled"
        BY <1>1, <1>4, <3>3, <4>1, Zenon DEF SeenApplied
      <4>3. type = "placed" => row[o].status = "placed"
        <5>1. row[o].status \in Statuses
          BY <1>1, <1>4, <3>3 DEF RowTypeOK
        <5>2. o \in store => ~IsFilled(o) /\ ~IsCancelled(o)
          BY <1>1, FatesExclude
        <5>. QED  BY <1>1, <1>4, <2>1, <3>3, <4>2, <5>1, <5>2 DEF ClaimsSound, Statuses
      <4>. QED  BY <3>1, <4>2, <4>3
    <3>. QED  BY <1>4, <2>1, <3>1, <3>2, <3>3 DEF Told
  <2>2. Known' = Known /\ \A o : (IsFilled(o)' <=> IsFilled(o)) /\ (IsCancelled(o)' <=> IsCancelled(o))
    BY <1>5 DEF Known, IsFilled, IsCancelled
  <2>. QED  BY <1>1, <1>3, <1>5, <2>1, <2>2 DEF Announced
<1>. QED  BY <1>6, <1>7, <1>8, <1>9, <1>10, <1>11, <1>12 DEF RowsSound

\* What the handler makes of the row: the status the event names, unless it
\* would take back a fill or a cancellation, which the invariant excludes.
LEMMA HandleFacts ==
    ASSUME RowsSound, HandleOrderEvent, NEW e, e = Head(topic["order"])
    PROVE  /\ Consume("order") /\ Key(e) \notin seen /\ seen' = seen \cup {Key(e)}
           /\ lost' = lost
           /\ e.type \in {"placed", "filled", "cancelled"}
           /\ row' \in [OrderIds -> [status : Statuses, executed : Nat]]
           /\ \A o \in OrderIds : o # e.order => row'[o] = row[o]
           /\ row'[e.order].status = e.type
           /\ e.type = "filled" => row'[e.order].executed = e.qty /\ IsFilled(e.order)
           /\ e.type = "cancelled" => IsCancelled(e.order)
           /\ row[e.order].status = "filled" => e.type = "filled"
           /\ row[e.order].status = "cancelled" => e.type = "cancelled"
<1>1. /\ Consume("order") /\ Key(e) \notin seen /\ seen' = seen \cup {Key(e)}
      /\ lost' = lost /\ e.type # "partially_filled" /\ row' = Apply(e)
  BY DEF HandleOrderEvent
<1>2. /\ e \in Events /\ e.cat = "order" /\ EventSound(e) /\ e \in OnTheWay
      /\ e.order \in Known /\ e.order \in OrderIds
      /\ e.type \in {"placed", "partially_filled", "filled", "cancelled"}
  BY <1>1, ConsumeFacts
<1>3. e.type \in {"placed", "filled", "cancelled"} /\ e.qty \in Nat
  BY <1>1, <1>2 DEF Events
<1>4. row \in [OrderIds -> [status : Statuses, executed : Nat]]
  BY DEF RowsSound, RowTypeOK
<1>5. PICK x : x = CASE e.type = "placed"    -> [row[e.order] EXCEPT !.status = "placed"]
                     [] e.type = "filled"    -> [status |-> "filled", executed |-> e.qty]
                     [] e.type = "cancelled" -> [row[e.order] EXCEPT !.status = "cancelled"]
  OBVIOUS
<1>6. row' = [row EXCEPT ![e.order] = x]
  BY <1>1, <1>5 DEF Apply
<1>7. /\ x \in [status : Statuses, executed : Nat] /\ x.status = e.type
      /\ e.type = "filled" => x.executed = e.qty
  <2>1. row[e.order] \in [status : Statuses, executed : Nat]
    BY <1>2, <1>4
  <2>2. CASE e.type = "placed"
    <3>1. x = [row[e.order] EXCEPT !.status = "placed"]
      BY <1>5, <2>2
    <3>. QED  BY <2>1, <2>2, <3>1 DEF Statuses
  <2>3. CASE e.type = "filled"
    <3>1. x = [status |-> "filled", executed |-> e.qty]
      BY <1>5, <2>3
    <3>. QED  BY <1>3, <2>3, <3>1 DEF Statuses
  <2>4. CASE e.type = "cancelled"
    <3>1. x = [row[e.order] EXCEPT !.status = "cancelled"]
      BY <1>5, <2>4
    <3>. QED  BY <2>1, <2>4, <3>1 DEF Statuses
  <2>. QED  BY <1>3, <2>2, <2>3, <2>4
<1>8. /\ row' \in [OrderIds -> [status : Statuses, executed : Nat]]
      /\ \A o \in OrderIds : o # e.order => row'[o] = row[o]
      /\ row'[e.order] = x
  BY <1>2, <1>4, <1>6, <1>7
<1>9. /\ e.type = "filled" => IsFilled(e.order)
      /\ e.type = "cancelled" => IsCancelled(e.order)
  BY <1>2 DEF EventSound
<1>10. /\ row[e.order].status = "filled" => e.type = "filled"
       /\ row[e.order].status = "cancelled" => e.type = "cancelled"
  <2>1. /\ row[e.order].status = "filled" => IsFilled(e.order)
        /\ row[e.order].status = "cancelled" => IsCancelled(e.order)
    BY <1>2 DEF RowsSound, ClaimsSound
  <2>2. ~(IsFilled(e.order) /\ IsCancelled(e.order))
    BY <1>2, FatesExclude DEF RowsSound
  <2>3. row[e.order].status \in {"filled", "cancelled"} => e.type # "placed"
    BY <1>1, <1>2 DEF RowsSound, PlacedComesFirst, Begins
  <2>. QED  BY <1>3, <1>9, <2>1, <2>2, <2>3
<1>. QED  BY <1>1, <1>3, <1>7, <1>8, <1>9, <1>10

\* OrderEventHandler.handle_event: the row takes the status of the event.
LEMMA HandleKeepsRows ==
    ASSUME RowsSound, HandleOrderEvent
    PROVE  RowsSound'
<1>1. /\ IInv /\ RowTypeOK /\ EventsSound /\ ClaimsSound /\ PlacedComesFirst
      /\ SeenApplied /\ Announced
  BY DEF RowsSound
<1>2. PICK e : e = Head(topic["order"])
  OBVIOUS
<1>3. /\ Consume("order") /\ Key(e) \notin seen /\ seen' = seen \cup {Key(e)}
      /\ lost' = lost /\ e.type \in {"placed", "filled", "cancelled"}
      /\ row' \in [OrderIds -> [status : Statuses, executed : Nat]]
      /\ \A o \in OrderIds : o # e.order => row'[o] = row[o]
      /\ row'[e.order].status = e.type
      /\ e.type = "filled" => row'[e.order].executed = e.qty /\ IsFilled(e.order)
      /\ e.type = "cancelled" => IsCancelled(e.order)
      /\ row[e.order].status = "filled" => e.type = "filled"
      /\ row[e.order].status = "cancelled" => e.type = "cancelled"
  BY <1>2, HandleFacts
<1>4. /\ e \in Events /\ e.cat = "order" /\ EventSound(e)
      /\ e.order \in Known /\ e.order \in OrderIds /\ e.cmd \in Nat
      /\ stream' = stream /\ cmd' = cmd /\ fanout' = fanout /\ vars' = vars
      /\ topic' \in [Followed -> Seq(Events)]
      /\ OnTheWay' \subseteq OnTheWay
      /\ \A f \in OnTheWay : f = e \/ f \in OnTheWay'
      /\ In(topic'["order"]) \subseteq In(topic["order"])
      /\ InSequence(topic'["order"], seen)
      /\ \A f \in OnTheWay' : MayFollow(e, f, seen)
  BY <1>2, <1>3, ConsumeFacts
<1>5. /\ order' = order /\ exec' = exec /\ cancels' = cancels /\ store' = store
      /\ Known' = Known
      /\ \A o : (IsFilled(o)' <=> IsFilled(o)) /\ (IsCancelled(o)' <=> IsCancelled(o))
  BY <1>4 DEF vars, Known, IsFilled, IsCancelled
<1>6. IInv'
  BY <1>1, <1>4, NextIInv
<1>7. RowTypeOK'
  <2>1. e.type \in Statuses
    BY <1>3 DEF Statuses
  <2>2. <<e.cmd, e.order, e.type>> \in Nat \X OrderIds \X Statuses
    BY <1>4, <2>1
  <2>3. Key(e) \in Nat \X OrderIds \X Statuses
    BY <2>2 DEF Key
  <2>. QED  BY <1>1, <1>3, <1>4, <2>3 DEF RowTypeOK, StreamTypeOK
<1>8. EventsSound'
  BY <1>1, <1>4, <1>5 DEF EventsSound, EventSound
<1>9. ClaimsSound'
  <2> SUFFICES ASSUME NEW o \in OrderIds
               PROVE  /\ row'[o].status # "partially_filled"
                      /\ row'[o].status # "pending" => o \in Known
                      /\ row'[o].status = "filled" => IsFilled(o) /\ row'[o].executed = exec[o]
                      /\ row'[o].status = "cancelled" => IsCancelled(o)
    BY <1>5 DEF ClaimsSound
  <2>1. CASE o = e.order
    BY <1>3, <1>4, <2>1 DEF EventSound
  <2>2. CASE o # e.order
    BY <1>1, <1>3, <2>2 DEF ClaimsSound
  <2>. QED  BY <2>1, <2>2
<1>10. PlacedComesFirst'
  <2>1. seen \subseteq seen'
    BY <1>3
  <2>2. /\ InSequence(stream, seen') /\ InSequence(topic'["order"], seen')
        /\ \A x \in In(topic'["order"]), f \in In(stream) : MayFollow(x, f, seen')
    BY <1>1, <1>4, <2>1, MoreKeys DEF PlacedComesFirst
  <2>3. ASSUME NEW f \in OnTheWay', Begins(f), row'[f.order].status \in {"filled", "cancelled"}
        PROVE  Key(f) \in seen'
    <3>1. CASE f.order = e.order
      <4>1. Ends(e)
        BY <1>3, <1>4, <2>3, <3>1 DEF Ends
      <4>. QED  BY <1>4, <2>1, <2>3, <3>1, <4>1 DEF MayFollow
    <3>2. CASE f.order # e.order
      <4>1. f.order \in OrderIds /\ f \in OnTheWay
        <5>1. f \in OnTheWay /\ EventSound(f)
          BY <1>1, <1>4 DEF EventsSound
        <5>2. f.order \in Known
          BY <2>3, <5>1 DEF EventSound, Begins
        <5>. QED  BY <1>1, <5>1, <5>2, KnownOrders DEF IInv
      <4>2. row'[f.order] = row[f.order]
        BY <1>3, <3>2, <4>1
      <4>. QED  BY <1>1, <2>1, <2>3, <4>1, <4>2 DEF PlacedComesFirst
    <3>. QED  BY <3>1, <3>2
  <2>. QED  BY <1>4, <2>2, <2>3 DEF PlacedComesFirst
<1>11. SeenApplied'
  <2> SUFFICES ASSUME NEW c \in Nat, NEW o \in OrderIds
               PROVE  /\ <<c, o, "placed">> \in seen' => row'[o].status # "pending"
                      /\ <<c, o, "filled">> \in seen' => row'[o].status = "filled"
                      /\ <<c, o, "cancelled">> \in seen' => row'[o].status = "cancelled"
    BY Zenon DEF SeenApplied
  <2>1. /\ <<c, o, "placed">> \in seen => row[o].status # "pending"
        /\ <<c, o, "filled">> \in seen => row[o].status = "filled"
        /\ <<c, o, "cancelled">> \in seen => row[o].status = "cancelled"
    BY <1>1, Zenon DEF SeenApplied
  <2>2. \A type : <<c, o, type>> \in seen' => <<c, o, type>> \in seen \/ (o = e.order /\ type = e.type)
    BY <1>3 DEF Key
  <2>3. CASE o = e.order
    BY <1>3, <2>1, <2>2, <2>3
  <2>4. CASE o # e.order
    BY <1>3, <2>1, <2>2, <2>4
  <2>. QED  BY <2>3, <2>4
<1>12. Announced'
  <2>1. ASSUME NEW o \in Known, NEW type \in {"placed", "filled", "cancelled"}, Told(o, type),
               type = "placed" => o \in store,
               type = "filled" => IsFilled(o),
               type = "cancelled" => IsCancelled(o)
        PROVE  Told(o, type)'
    <3>1. CASE \E f \in OnTheWay' : f.cat = "order" /\ f.type = type /\ f.order = o
      BY <3>1 DEF Told
    <3>2. CASE e.type = type /\ e.order = o
      BY <1>3, <3>2 DEF Told
    <3>3. CASE row[o].status = type /\ o # e.order
      <4>1. o \in OrderIds
        BY <1>1, KnownOrders DEF IInv
      <4>. QED  BY <1>3, <3>3, <4>1 DEF Told
    <3>4. CASE row[o].status = type /\ o = e.order
      <4>1. e.type = type
        <5>1. o \in store => ~IsFilled(o) /\ ~IsCancelled(o)
          BY <1>1, FatesExclude
        <5>. QED  BY <1>3, <2>1, <3>4, <5>1
      <4>. QED  BY <3>2, <3>4, <4>1
    <3>. QED  BY <1>4, <2>1, <3>1, <3>2, <3>3, <3>4 DEF Told
  <2>. QED  BY <1>1, <1>3, <1>5, <2>1 DEF Announced
<1>. QED  BY <1>6, <1>7, <1>8, <1>9, <1>10, <1>11, <1>12 DEF RowsSound

\* Every step of the engine, the fanout and the handler keeps the invariant.
LEMMA RowsNext == RowsSound /\ [RowNext]_rvars => RowsSound'
<1> SUFFICES ASSUME RowsSound, [RowNext]_rvars PROVE RowsSound'
  OBVIOUS
<1>1. CASE EngineStep /\ UNCHANGED hvars
  BY <1>1, EngineKeepsRows
<1>2. CASE FanoutStep /\ UNCHANGED <<vars, hvars>>
  <2>1. CASE FanoutFails
    BY <1>2, <2>1, FailKeepsRows DEF FanoutFails
  <2>. QED  BY <1>2, <2>1, RouteKeepsRows DEF FanoutStep
<1>3. CASE HandlerStep
  BY <1>3, HandleKeepsRows, DropKeepsRows DEF HandlerStep
<1>4. CASE UNCHANGED rvars
  <2>1. fanout \in {"running", "failed"}
    BY DEF RowsSound, RowTypeOK, StreamTypeOK
  <2>. QED  BY <1>4, <2>1, FailKeepsRows DEF rvars, evars, svars
<1>. QED  BY <1>1, <1>2, <1>3, <1>4 DEF RowNext

-----------------------------------------------------------------------------
(***************************************************************************)
(* What follows.                                                           *)
(***************************************************************************)

\* The invariant of the rows and of the events on their way.
THEOREM RowsAlwaysSound == RowSpec => []RowsSound
  BY RowsInit, RowsNext, PTL DEF RowSpec

\* OrderEventHandler: a filled row is a filled order with the whole quantity, a
\* cancelled row a cancelled order, however far the consumers are behind and
\* however often a message is delivered.
THEOREM RowsNeverClaimAhead == RowSpec => []RowInv
<1>1. RowsSound => RowInv
  <2> SUFFICES ASSUME RowsSound PROVE RowsNeverAhead
    BY DEF RowsSound, RowInv
  <2> SUFFICES ASSUME NEW o \in Known
               PROVE  /\ row[o].status = "filled" => exec[o] = order[o].qty /\ row[o].executed = exec[o]
                      /\ row[o].status = "cancelled" => cancels[o] > 0 /\ o \notin store
    BY DEF RowsNeverAhead
  <2>1. o \in OrderIds
    BY KnownOrders DEF RowsSound, IInv
  <2>2. o \in store => ~IsFilled(o) /\ ~IsCancelled(o)
    BY FatesExclude DEF RowsSound
  <2>. QED  BY <2>1, <2>2 DEF RowsSound, ClaimsSound, IsFilled, IsCancelled
<1>. QED  BY <1>1, RowsAlwaysSound, PTL

\* Once every event has been read, the rows of the users whose events are logged
\* tell resting, filled and cancelled orders apart as the engine does, except for
\* orders an event of which met a database error.
THEOREM RowsAgreeWhenDrained == RowSpec => []RowsConverge
<1>1. RowsSound => RowsConverge
  <2> SUFFICES ASSUME RowsSound, Drained, NEW o \in Known \ lost, order[o].user # System
               PROVE  /\ o \in store => row[o].status = "placed"
                      /\ cancels[o] > 0 => row[o].status = "cancelled"
                      /\ Remaining(o) = 0 => row[o].status = "filled"
    BY DEF RowsConverge
  <2>1. OnTheWay = {}
    BY NothingIn, RowsAssumption DEF Drained, OnTheWay
  <2>2. /\ o \in store => row[o].status = "placed"
        /\ IsFilled(o) => row[o].status = "filled"
        /\ IsCancelled(o) => row[o].status = "cancelled"
    BY <2>1 DEF RowsSound, Announced, Told
  <2>3. Remaining(o) = 0 => IsFilled(o)
    <3>1. exec[o] \in Nat /\ order[o].qty \in Nat
      BY KnownOrders DEF RowsSound, IInv, TypeOK
    <3>. QED  BY <3>1 DEF IsFilled, Remaining
  <2>. QED  BY <2>2, <2>3 DEF IsCancelled
<1>. QED  BY <1>1, RowsAlwaysSound, PTL

\* The rows implement the life cycle of an order: initial rows are pending, and
\* what the handler does to a status is a move of the life cycle or none.
THEOREM RowsImplementLifecycle == RowSpec => RowsFollowLifecycle
<1> DEFINE status == [o \in OrderIds |-> row[o].status]
<1>1. RowInit => Lifecycle!Init
  BY DEF RowInit, Lifecycle!Init
<1>2. RowsSound /\ RowsSound' /\ [RowNext]_rvars => [Lifecycle!Next]_status
  <2> SUFFICES ASSUME RowsSound, RowsSound', [RowNext]_rvars PROVE [Lifecycle!Next]_status
    OBVIOUS
  <2>1. CASE row' = row
    BY <2>1
  <2>2. CASE HandleOrderEvent
    <3>1. PICK e : e = Head(topic["order"])
      OBVIOUS
    <3>2. /\ e.type \in {"placed", "filled", "cancelled"}
          /\ \A o \in OrderIds : o # e.order => row'[o] = row[o]
          /\ row'[e.order].status = e.type
          /\ row[e.order].status = "filled" => e.type = "filled"
          /\ row[e.order].status = "cancelled" => e.type = "cancelled"
      BY <2>2, <3>1, HandleFacts
    <3>3. \A o \in OrderIds : row[o].status \in {"pending", "placed", "filled", "cancelled"}
                            /\ row'[o].status \in {"pending", "placed", "filled", "cancelled"}
      BY DEF RowsSound, RowTypeOK, ClaimsSound, Statuses
    <3>4. status' \in [OrderIds -> Lifecycle!Statuses]
      BY <3>3 DEF Lifecycle!Statuses
    <3>5. ASSUME NEW o \in OrderIds
          PROVE  status'[o] = status[o] \/ <<status[o], status'[o]>> \in Lifecycle!Moves
      <4>1. CASE o # e.order
        BY <3>2, <4>1
      <4>2. CASE o = e.order
        BY <3>2, <3>3, <4>2 DEF Lifecycle!Moves
      <4>. QED  BY <4>1, <4>2
    <3>. QED  BY <3>4, <3>5 DEF Lifecycle!Next
  <2>. QED
    BY <2>1, <2>2 DEF RowNext, HandlerStep, PartialFillRaises, DatabaseRaises,
                      DropDuplicate, rvars, hvars
<1>. QED  BY <1>1, <1>2, RowsAlwaysSound, PTL DEF RowSpec, RowsFollowLifecycle, Lifecycle!Spec

-----------------------------------------------------------------------------
(***************************************************************************)
(* The invariant of the publisher.                                         *)
(***************************************************************************)

IsMaker(e) == e.cat = "trade" /\ e.type = "maker"

\* An event is about a known order; one that places an order leaves something of
\* it, and the order that is being matched is not resting.
QuoteSound(e) ==
    /\ EventSound(e)
    /\ e.order \in Known
    /\ Begins(e) => e.qty < order[e.order].qty
    /\ IsMaker(e) => e.order # taker

QuotesSound ==
    /\ \A e \in In(stream) : QuoteSound(e)
    /\ \A e \in In(topic["order"]) : QuoteSound(e) /\ e.cat = "order"
    /\ \A e \in In(feed["order"]) : QuoteSound(e) /\ e.cat = "order"
    /\ \A e \in In(feed["trade"]) : QuoteSound(e) /\ e.cat = "trade"

\* What holds with restarts too.
PubBase ==
    /\ IInv
    /\ PubTypeOK
    /\ QuotesSound

\* A climb that goes on in a second queue.
Through(s, t, f, a, d) == \E b \in Nat : Run(s, f, a, b) /\ Run(t, f, b, d)

Placings(o) == [e \in Events |-> IF Begins(e) /\ e.order = o THEN 1 ELSE 0]

Makings(o) == [e \in Events |-> IF IsMaker(e) /\ e.order = o THEN e.qty ELSE 0]

Shown(o) == IF o \in DOMAIN info THEN 1 ELSE 0

Placed(o) == IF o \in Known /\ o # taker THEN 1 ELSE 0

\* An order none of whose messages was repeated is placed once: while it is
\* active no event places it again.
PlacedOnce ==
    \A o \in OrderIds \ repeated :
        Through(feed["order"], stream, Placings(o), Shown(o), Placed(o))

\* The trades that the publisher has not read account for what the engine has
\* executed of the order o, if the publisher knows of the quantity a.
Due(o, a) == Through(feed["trade"], stream, Makings(o), a, exec[o])

\* The order events that the publisher has not read.
Unquoted == In(feed["order"]) \cup In(stream)

FillsDue ==
    /\ \A o \in DOMAIN info \ repeated :
          info[o] <= order[o].qty /\ Due(o, order[o].qty - info[o])
    /\ \A e \in Unquoted : Begins(e) /\ e.order \notin repeated => Due(e.order, e.qty)

\* What rests in the engine is active or its event is on its way.
QuotesComing ==
    \A o \in store \ repeated : order[o].user # System =>
        o \in DOMAIN info \/ \E e \in Unquoted : Begins(e) /\ e.order = o

PubShows ==
    /\ PlacedOnce
    /\ FillsDue
    /\ QuotesComing
    /\ LevelsMatchOrders

PubSound == PubBase /\ (restarts = 0 => PubShows)

-----------------------------------------------------------------------------
(***************************************************************************)
(* Climbs through the two queues.                                          *)
(***************************************************************************)

\* The bounds, of which the first may be lower and the second higher.
LEMMA ThroughBounds ==
    ASSUME NEW s \in Seq(Events), NEW t \in Seq(Events), NEW f \in [Events -> Nat],
           NEW a, NEW d, Through(s, t, f, a, d)
    PROVE  /\ a \in Nat /\ d \in Nat /\ a <= d
           /\ \A a2 \in Nat, d2 \in Nat : a2 <= a /\ d <= d2 => Through(s, t, f, a2, d2)
<1>1. PICK b \in Nat : Run(s, f, a, b) /\ Run(t, f, b, d)
  BY DEF Through
<1>2. a \in Nat /\ a <= b /\ \A a2 \in Nat : a2 <= a => Run(s, f, a2, b)
  BY <1>1, RunBounds
<1>3. d \in Nat /\ b <= d /\ \A d2 \in Nat : d <= d2 => Run(t, f, b, d2)
  BY <1>1, RunBounds
<1>4. a <= d
  BY <1>1, <1>2, <1>3
<1>5. ASSUME NEW a2 \in Nat, NEW d2 \in Nat, a2 <= a, d <= d2 PROVE Through(s, t, f, a2, d2)
  BY <1>2, <1>3, <1>5 DEF Through
<1>. QED  BY <1>2, <1>3, <1>4, <1>5

\* Queues without weight.
LEMMA ThroughSilent ==
    ASSUME NEW s \in Seq(Events), NEW t \in Seq(Events), NEW f \in [Events -> Nat],
           NEW a \in Nat, NEW d \in Nat, a <= d,
           \A e \in In(s) : f[e] = 0, \A e \in In(t) : f[e] = 0
    PROVE  Through(s, t, f, a, d)
<1>1. a <= a
  OBVIOUS
<1>2. Run(s, f, a, a)
  BY <1>1, RunSilent
<1>3. Run(t, f, a, d)
  BY RunSilent
<1>. QED  BY <1>2, <1>3 DEF Through

\* Events are added to the second queue.
LEMMA ThroughConcat ==
    ASSUME NEW s \in Seq(Events), NEW t \in Seq(Events), NEW n \in Seq(Events),
           NEW f \in [Events -> Nat], NEW a, NEW d, NEW g,
           Through(s, t, f, a, d), Run(n, f, d, g)
    PROVE  Through(s, t \o n, f, a, g)
<1>1. PICK b \in Nat : Run(s, f, a, b) /\ Run(t, f, b, d)
  BY DEF Through
<1>2. Run(t \o n, f, b, g)
  BY <1>1, RunConcat
<1>. QED  BY <1>1, <1>2 DEF Through

\* The head of the second queue goes to the first one, or elsewhere.
LEMMA ThroughRoute ==
    ASSUME NEW s \in Seq(Events), NEW t \in Seq(Events), t # << >>,
           NEW f \in [Events -> Nat], NEW a, NEW d, Through(s, t, f, a, d)
    PROVE  /\ Through(s \o <<Head(t)>>, Tail(t), f, a, d)
           /\ f[Head(t)] = 0 => Through(s, Tail(t), f, a, d)
<1>1. PICK b \in Nat : Run(s, f, a, b) /\ Run(t, f, b, d)
  BY DEF Through
<1>2. PICK h, r : h = Head(t) /\ r = Tail(t)
  OBVIOUS
<1>3. h \in Events /\ <<h>> \in Seq(Events)
  BY <1>2, InTail
<1>4. PICK c \in Nat : c = b + f[h] /\ Run(r, f, c, d)
  BY <1>1, <1>2, RunTail
<1>5. Run(<<h>>, f, b, c)
  <2>1. b + f[h] <= c
    BY <1>3, <1>4
  <2>. QED  BY <1>1, <1>3, <1>4, <2>1, RunOne
<1>6. Run(s \o <<h>>, f, a, c)
  BY <1>1, <1>3, <1>5, RunConcat
<1>7. Through(s \o <<h>>, r, f, a, d)
  BY <1>4, <1>6 DEF Through
<1>8. ASSUME f[h] = 0 PROVE Through(s, r, f, a, d)
  <2>1. c = b
    BY <1>4, <1>8
  <2>. QED  BY <1>1, <1>4, <2>1 DEF Through
<1>. QED  BY <1>2, <1>7, <1>8

\* The head of the second queue has no weight, and neither have its copies.
LEMMA ThroughCopies ==
    ASSUME NEW s \in Seq(Events), NEW t \in Seq(Events), t # << >>, NEW c \in Seq(Events),
           NEW f \in [Events -> Nat], NEW a, NEW d, Through(s, t, f, a, d),
           f[Head(t)] = 0, In(c) = {Head(t)}
    PROVE  Through(s \o c, Tail(t), f, a, d)
<1>1. PICK r : r = Tail(t)
  OBVIOUS
<1>2. Through(s, r, f, a, d)
  BY <1>1, ThroughRoute
<1>3. PICK b \in Nat : Run(s, f, a, b) /\ Run(r, f, b, d)
  BY <1>2 DEF Through
<1>4. b <= b /\ \A e \in In(c) : f[e] = 0
  OBVIOUS
<1>5. Run(c, f, b, b)
  BY <1>4, RunSilent
<1>6. Run(s \o c, f, a, b)
  BY <1>3, <1>5, RunConcat
<1>. QED  BY <1>1, <1>3, <1>6 DEF Through

\* The head of the first queue is read.
LEMMA ThroughRead ==
    ASSUME NEW s \in Seq(Events), NEW t \in Seq(Events), s # << >>,
           NEW f \in [Events -> Nat], NEW a, NEW d, Through(s, t, f, a, d)
    PROVE  /\ a + f[Head(s)] \in Nat
           /\ Through(Tail(s), t, f, a + f[Head(s)], d)
<1>1. PICK b \in Nat : Run(s, f, a, b) /\ Run(t, f, b, d)
  BY DEF Through
<1>2. a + f[Head(s)] \in Nat /\ Run(Tail(s), f, a + f[Head(s)], b)
  BY <1>1, RunTail
<1>. QED  BY <1>1, <1>2 DEF Through

\* The weights.
LEMMA QuoteWeights ==
    /\ \A o : Placings(o) \in [Events -> Nat] /\ Makings(o) \in [Events -> Nat]
    /\ \A o : \A e \in Events :
          /\ Placings(o)[e] = IF Begins(e) /\ e.order = o THEN 1 ELSE 0
          /\ Makings(o)[e] = IF IsMaker(e) /\ e.order = o THEN e.qty ELSE 0
          /\ e.qty \in Nat /\ e.order \in OrderIds /\ e.cmd \in Nat
  BY DEF Placings, Makings, Events

-----------------------------------------------------------------------------
(***************************************************************************)
(* What a step of the engine tells the publisher.                          *)
(***************************************************************************)

\* The sequence s is the event it is described by, or empty.
LogsOne(s, cat, type, o, qty) ==
    \/ s = << >>
    \/ \E e \in Events : /\ s = <<e>> /\ e.cat = cat /\ e.type = type
                         /\ e.order = o /\ e.qty = qty

\* EngineLogger.log_event: one call logs at most one event.
LEMMA LogOne ==
    ASSUME TypeOK', cmd' \in Nat, NEW cat \in Categories, NEW type \in EventTypes,
           NEW o \in Known', NEW qty \in Nat
    PROVE  LogsOne(Log(cat, type, o, qty), cat, type, o, qty)
<1>1. o \in OrderIds /\ order'[o] \in Requests
  <2>1. order' \in Seq(Requests) /\ Len(order') \in Nat /\ Len(order') <= MaxOrders
    BY DEF TypeOK
  <2>2. o \in 1 .. Len(order')
    BY <2>1 DEF Known
  <2>. QED  BY <2>1, <2>2, MaxOrdersAssumption DEF OrderIds
<1>2. order'[o].user \in Users
  BY <1>1 DEF Requests
<1> DEFINE e == [cat |-> cat, type |-> type, cmd |-> cmd', user |-> order'[o].user,
                 order |-> o, qty |-> qty]
<1>3. e \in Events
  BY <1>1, <1>2 DEF Events
<1>4. e.cat = cat /\ e.type = type /\ e.order = o /\ e.qty = qty
  OBVIOUS
<1>5. Log(cat, type, o, qty) =
        IF order'[o].user # System /\ cat \in Followed THEN <<e>> ELSE << >>
  BY DEF Log
<1> HIDE DEF e
<1>. QED  BY <1>3, <1>4, <1>5 DEF LogsOne

\* What it holds.
LEMMA LogsOneIn ==
    ASSUME NEW s, NEW cat, NEW type, NEW o, NEW qty, LogsOne(s, cat, type, o, qty)
    PROVE  /\ s \in Seq(Events)
           /\ \A e \in In(s) : e.cat = cat /\ e.type = type /\ e.order = o /\ e.qty = qty
<1>1. CASE s = << >>
  BY <1>1 DEF In
<1>2. ASSUME NEW e \in Events, s = <<e>>, e.cat = cat, e.type = type, e.order = o, e.qty = qty
      PROVE  s \in Seq(Events) /\ In(s) = {e}
  BY <1>2 DEF In
<1>. QED  BY <1>1, <1>2 DEF LogsOne

\* Events that neither place an order nor fill a resting one.
Quiet(s) ==
    /\ s \in Seq(Events)
    /\ \A e \in In(s) : e.order \in Known' /\ ~Begins(e) /\ ~IsMaker(e)

\* Nothing, and one after the other.
LEMMA QuietConcat ==
    /\ Quiet(<< >>)
    /\ \A s, t : Quiet(s) /\ Quiet(t) => Quiet(s \o t)
<1>1. Quiet(<< >>)
  BY DEF Quiet, In
<1>2. ASSUME NEW s, NEW t, Quiet(s), Quiet(t) PROVE Quiet(s \o t)
  <2>1. s \in Seq(Events) /\ t \in Seq(Events)
    BY <1>2 DEF Quiet
  <2>2. s \o t \in Seq(Events) /\ In(s \o t) = In(s) \cup In(t)
    BY <2>1, InConcat
  <2>. QED  BY <1>2, <2>2 DEF Quiet
<1>. QED  BY <1>1, <1>2

\* All other log calls.
LEMMA QuietLogs ==
    ASSUME IInv', cmd' \in Nat, NEW o \in Known'
    PROVE  /\ \A type \in {"filled", "partially_filled", "cancelled"} : Quiet(OrderEvent(type, o))
           /\ Quiet(FillEvent(o))
           /\ \A q \in Nat : Quiet(TradeEvent("taker", o, q)) /\ Quiet(SettledEvent(o, q))
           /\ order[o].qty \in Nat => Quiet(HoldEvent(o))
           /\ order'[o].qty - exec[o] \in Nat => Quiet(CancelEvents(o))
<1>1. TypeOK' /\ exec'[o] \in Nat
  <2>1. TypeOK' /\ exec' \in [OrderIds -> Nat]
    BY DEF IInv, TypeOK
  <2>2. /\ order' \in Seq(Requests) /\ Len(order') \in Nat /\ Len(order') <= MaxOrders
    BY <2>1 DEF TypeOK
  <2>3. o \in OrderIds
    BY <2>2, MaxOrdersAssumption DEF Known, OrderIds
  <2>. QED  BY <2>1, <2>3
<1>2. ASSUME NEW cat \in Categories, NEW type \in EventTypes, NEW q \in Nat,
             ~(cat = "order" /\ type = "placed"), ~(cat = "trade" /\ type = "maker")
      PROVE  Quiet(Log(cat, type, o, q))
  <2>1. LogsOne(Log(cat, type, o, q), cat, type, o, q)
    BY <1>1, LogOne
  <2>. QED  BY <1>2, <2>1, LogsOneIn DEF Quiet, Begins, IsMaker
<1>3. ASSUME NEW type \in {"filled", "partially_filled", "cancelled"}
      PROVE  Quiet(OrderEvent(type, o))
  BY <1>1, <1>2 DEF OrderEvent, Categories, EventTypes
<1>4. Quiet(FillEvent(o))
  BY <1>3 DEF FillEvent
<1>5. ASSUME NEW q \in Nat
      PROVE  Quiet(TradeEvent("taker", o, q)) /\ Quiet(SettledEvent(o, q))
  BY <1>2 DEF TradeEvent, SettledEvent, Categories, EventTypes
<1>6. ASSUME NEW q \in Nat, NEW type \in {"asset_escrow_increased", "asset_escrow_decreased"}
      PROVE  Quiet(EscrowEvent(type, o, q))
  BY <1>2, QuietConcat DEF EscrowEvent, Categories, EventTypes
<1>7. ASSUME order[o].qty \in Nat PROVE Quiet(HoldEvent(o))
  BY <1>6, <1>7, QuietConcat DEF HoldEvent
<1>8. ASSUME order'[o].qty - exec[o] \in Nat PROVE Quiet(CancelEvents(o))
  <2>1. PICK s, t : s = OrderEvent("cancelled", o)
                    /\ t = EscrowEvent("asset_escrow_decreased", o, order'[o].qty - exec[o])
    OBVIOUS
  <2>2. Quiet(s) /\ Quiet(t)
    BY <1>3, <1>6, <1>8, <2>1
  <2>3. CancelEvents(o) = s \o t
    BY <2>1 DEF CancelEvents
  <2>. QED  BY <2>2, <2>3, QuietConcat
<1>. QED  BY <1>3, <1>4, <1>5, <1>7, <1>8

\* Known orders stay known, nothing executed is taken back, and what is to be
\* matched next is new.
Onward ==
    /\ Known \subseteq Known'
    /\ \A o \in Known : exec[o] \in Nat /\ exec'[o] \in Nat /\ exec[o] <= exec'[o]
    /\ taker' = taker \/ taker' \notin Known

\* The events `new` tell the publisher what the step places and fills.
QuotesTold(new) ==
    /\ new \in Seq(Events)
    /\ \A e \in In(new) :
          /\ e.order \in Known'
          /\ Begins(e) => /\ e.order \notin Known \/ e.order = taker
                          /\ e.qty <= exec'[e.order] /\ exec'[e.order] \in Nat
                          /\ e.qty < order'[e.order].qty
                          /\ \A f \in In(new) : ~IsMaker(f)
          /\ IsMaker(e) => e.order # taker'
    /\ \A o \in OrderIds : Run(new, Placings(o), Placed(o), Placed(o)')
    /\ \A o \in Known : Run(new, Makings(o), exec[o], exec'[o])

\* An order that was placed stays so.
LEMMA PlacedGrows ==
    ASSUME Onward, NEW o
    PROVE  Placed(o) \in Nat /\ Placed(o)' \in Nat /\ Placed(o) <= Placed(o)'
  BY DEF Onward, Placed

\* Quiet events have no weight.
LEMMA QuietRuns ==
    ASSUME NEW s, Quiet(s), NEW o
    PROVE  /\ s \in Seq(Events)
           /\ \A a \in Nat, b \in Nat : a <= b => Run(s, Placings(o), a, b)
           /\ \A a \in Nat, b \in Nat : a <= b => Run(s, Makings(o), a, b)
<1>1. s \in Seq(Events) /\ In(s) \subseteq Events
  BY DEF Quiet, In
<1>2. \A e \in In(s) : Placings(o)[e] = 0 /\ Makings(o)[e] = 0
  BY <1>1, QuoteWeights DEF Quiet
<1>3. Placings(o) \in [Events -> Nat] /\ Makings(o) \in [Events -> Nat]
  BY QuoteWeights
<1>4. ASSUME NEW a \in Nat, NEW b \in Nat, a <= b
      PROVE  Run(s, Placings(o), a, b) /\ Run(s, Makings(o), a, b)
  BY <1>1, <1>2, <1>3, <1>4, RunSilent
<1>. QED  BY <1>1, <1>4

\* A step that places nothing and fills no resting order.
LEMMA QuietQuotes ==
    ASSUME Onward, NEW new, Quiet(new)
    PROVE  QuotesTold(new)
<1>1. \A o \in OrderIds : Run(new, Placings(o), Placed(o), Placed(o)')
  BY PlacedGrows, QuietRuns
<1>2. \A o \in Known : Run(new, Makings(o), exec[o], exec'[o])
  BY QuietRuns DEF Onward
<1>. QED  BY <1>1, <1>2 DEF QuotesTold, Quiet

\* What is logged besides.
LEMMA QuotesQuiet ==
    ASSUME Onward, NEW s, NEW t, QuotesTold(s), Quiet(t)
    PROVE  QuotesTold(s \o t)
<1>1. s \in Seq(Events) /\ t \in Seq(Events)
  BY DEF QuotesTold, Quiet
<1>2. s \o t \in Seq(Events) /\ In(s \o t) = In(s) \cup In(t)
  BY <1>1, InConcat
<1>3. ASSUME NEW o \in OrderIds PROVE Run(s \o t, Placings(o), Placed(o), Placed(o)')
  <2>1. Placed(o)' \in Nat /\ Placed(o)' <= Placed(o)'
    BY PlacedGrows
  <2>2. Run(t, Placings(o), Placed(o)', Placed(o)')
    BY <2>1, QuietRuns
  <2>3. Run(s, Placings(o), Placed(o), Placed(o)')
    BY DEF QuotesTold
  <2>. QED  BY <1>1, <2>2, <2>3, QuoteWeights, RunConcat
<1>4. ASSUME NEW o \in Known PROVE Run(s \o t, Makings(o), exec[o], exec'[o])
  <2>1. exec'[o] \in Nat /\ exec'[o] <= exec'[o]
    BY DEF Onward
  <2>2. Run(t, Makings(o), exec'[o], exec'[o])
    BY <2>1, QuietRuns
  <2>3. Run(s, Makings(o), exec[o], exec'[o])
    BY DEF QuotesTold
  <2>. QED  BY <1>1, <2>2, <2>3, QuoteWeights, RunConcat
<1>5. \A e \in In(s \o t) : e \in In(s) \/ (e.order \in Known' /\ ~Begins(e) /\ ~IsMaker(e))
  BY <1>2 DEF Quiet
<1>. QED  BY <1>2, <1>3, <1>4, <1>5 DEF QuotesTold

\* handle_new, _place_remainder: the order n is placed, with something left.
LEMMA PlacedQuotes ==
    ASSUME IInv', cmd' \in Nat, Onward, NEW n \in Known', n \notin Known \/ n = taker, n # taker',
           exec'[n] < order'[n].qty
    PROVE  QuotesTold(OrderEvent("placed", n))
<1>1. TypeOK' /\ exec'[n] \in Nat
  <2>1. TypeOK' /\ exec' \in [OrderIds -> Nat]
    BY DEF IInv, TypeOK
  <2>2. /\ order' \in Seq(Requests) /\ Len(order') \in Nat /\ Len(order') <= MaxOrders
    BY <2>1 DEF TypeOK
  <2>3. n \in OrderIds
    BY <2>2, MaxOrdersAssumption DEF Known, OrderIds
  <2>. QED  BY <2>1, <2>3
<1>2. PICK s, x : s = OrderEvent("placed", n) /\ x = exec'[n]
  OBVIOUS
<1>3. LogsOne(s, "order", "placed", n, x)
  BY <1>1, <1>2, LogOne DEF OrderEvent, Categories, EventTypes
<1>4. /\ s \in Seq(Events)
      /\ \A e \in In(s) : e.cat = "order" /\ e.type = "placed" /\ e.order = n /\ e.qty = x
  BY <1>3, LogsOneIn
<1>5. \A e \in In(s) : ~IsMaker(e) /\ e.qty <= exec'[e.order] /\ e.qty < order'[e.order].qty
  BY <1>1, <1>2, <1>4 DEF IsMaker
<1>6. In(s) \subseteq Events
  BY <1>4 DEF In
<1>7. ASSUME NEW o \in OrderIds PROVE Run(s, Placings(o), Placed(o), Placed(o)')
  <2>1. Placed(o) \in Nat /\ Placed(o)' \in Nat /\ Placed(o) <= Placed(o)'
    BY PlacedGrows
  <2>2. PICK f : f = Placings(o)
    OBVIOUS
  <2>3. f \in [Events -> Nat]
    BY <2>2, QuoteWeights
  <2>4. CASE o # n \/ s = << >>
    <3>1. \A e \in In(s) : f[e] = 0
      <4>1. CASE s = << >>
        BY <4>1 DEF In
      <4>2. CASE o # n
        BY <1>4, <1>6, <2>2, <4>2, QuoteWeights
      <4>. QED  BY <2>4, <4>1, <4>2
    <3>. QED  BY <1>4, <2>1, <2>2, <2>3, <3>1, RunSilent
  <2>5. CASE o = n /\ s # << >>
    <3>1. PICK e \in Events : s = <<e>> /\ e.cat = "order" /\ e.type = "placed" /\ e.order = n
      BY <1>3, <2>5 DEF LogsOne
    <3>2. f[e] = 1
      BY <2>2, <2>5, <3>1, QuoteWeights DEF Begins
    <3>3. Placed(o) = 0 /\ Placed(o)' = 1
      BY <2>5 DEF Placed
    <3>4. Placed(o) + f[e] <= Placed(o)'
      BY <3>2, <3>3
    <3>. QED  BY <2>1, <2>2, <2>3, <3>1, <3>4, RunOne
  <2>. QED  BY <2>4, <2>5
<1>8. ASSUME NEW o \in Known PROVE Run(s, Makings(o), exec[o], exec'[o])
  <2>1. \A e \in In(s) : Makings(o)[e] = 0
    BY <1>5, <1>6, QuoteWeights
  <2>2. exec[o] \in Nat /\ exec'[o] \in Nat /\ exec[o] <= exec'[o]
    BY DEF Onward
  <2>. QED  BY <1>4, <2>1, <2>2, QuoteWeights, RunSilent
<1>9. QuotesTold(s)
  BY <1>1, <1>4, <1>5, <1>7, <1>8 DEF QuotesTold
<1>. QED  BY <1>2, <1>9

\* log_trade_event: the two sides of a trade.
LEMMA MakerQuotes ==
    ASSUME IInv, IInv', cmd' \in Nat, Onward, Trade,
           NEW m, m = Maker, NEW q, q = TradeQuantity, NEW s, Quiet(s),
           NEW t, t = TradeEvent("maker", m, q)
    PROVE  QuotesTold(s \o t)
<1>1. /\ Matching /\ order' = order /\ taker' = taker
      /\ exec' = [exec EXCEPT ![taker] = @ + q, ![m] = @ + q]
  BY DEF Trade
<1>2. /\ m \in Known /\ m \in OrderIds /\ m # taker /\ q \in Nat /\ taker \in OrderIds
  BY <1>1, TakerFacts, MakerFacts DEF Matching
<1>3. TypeOK' /\ Known' = Known /\ exec'[m] = exec[m] + q
  <2>1. exec \in [OrderIds -> Nat]
    BY DEF IInv, TypeOK
  <2>. QED  BY <1>1, <1>2, <2>1 DEF IInv, Known
<1>4. LogsOne(t, "trade", "maker", m, q)
  BY <1>2, <1>3, LogOne DEF TradeEvent, Categories, EventTypes
<1>5. /\ t \in Seq(Events)
      /\ \A e \in In(t) : e.cat = "trade" /\ e.type = "maker" /\ e.order = m /\ e.qty = q
  BY <1>4, LogsOneIn
<1>6. s \in Seq(Events) /\ In(t) \subseteq Events
  BY <1>5 DEF Quiet, In
<1>7. s \o t \in Seq(Events) /\ In(s \o t) = In(s) \cup In(t)
  BY <1>5, <1>6, InConcat
<1>8. \A e \in In(s \o t) : ~Begins(e) /\ e.order \in Known' /\ (IsMaker(e) => e.order # taker')
  BY <1>1, <1>2, <1>3, <1>5, <1>7 DEF Quiet, Begins
<1>9. ASSUME NEW o \in OrderIds PROVE Run(s \o t, Placings(o), Placed(o), Placed(o)')
  <2>1. Placed(o) \in Nat /\ Placed(o)' \in Nat /\ Placed(o) <= Placed(o)' /\ Placed(o) <= Placed(o)
    BY PlacedGrows
  <2>2. \A e \in In(t) : Placings(o)[e] = 0
    BY <1>5, <1>6, QuoteWeights DEF Begins
  <2>3. Run(s, Placings(o), Placed(o), Placed(o))
    BY <2>1, QuietRuns
  <2>4. Run(t, Placings(o), Placed(o), Placed(o)')
    BY <1>5, <2>1, <2>2, QuoteWeights, RunSilent
  <2>. QED  BY <1>5, <1>6, <2>3, <2>4, QuoteWeights, RunConcat
<1>10. ASSUME NEW o \in Known PROVE Run(s \o t, Makings(o), exec[o], exec'[o])
  <2>1. exec[o] \in Nat /\ exec'[o] \in Nat /\ exec[o] <= exec'[o] /\ exec[o] <= exec[o]
    BY DEF Onward
  <2>2. Run(s, Makings(o), exec[o], exec[o])
    BY <2>1, QuietRuns
  <2>3. PICK f : f = Makings(o)
    OBVIOUS
  <2>4. f \in [Events -> Nat]
    BY <2>3, QuoteWeights
  <2>5. CASE o # m \/ t = << >>
    <3>1. \A e \in In(t) : f[e] = 0
      <4>1. CASE t = << >>
        BY <4>1 DEF In
      <4>2. CASE o # m
        <5>1. \A e \in In(t) : e \in Events /\ ~(IsMaker(e) /\ e.order = o)
          BY <1>5, <1>6, <4>2
        <5>. QED  BY <2>3, <5>1, QuoteWeights
      <4>. QED  BY <2>5, <4>1, <4>2
    <3>2. Run(t, f, exec[o], exec'[o])
      BY <1>5, <2>1, <2>4, <3>1, RunSilent
    <3>. QED  BY <1>5, <1>6, <2>2, <2>3, <2>4, <3>2, RunConcat
  <2>6. CASE o = m /\ t # << >>
    <3>1. PICK e \in Events : t = <<e>> /\ e.cat = "trade" /\ e.type = "maker" /\ e.order = m /\ e.qty = q
      BY <1>4, <2>6 DEF LogsOne
    <3>2. f[e] = q
      BY <2>3, <2>6, <3>1, QuoteWeights DEF IsMaker
    <3>3. exec[o] + f[e] <= exec'[o]
      BY <1>2, <1>3, <2>1, <2>6, <3>2
    <3>4. Run(t, f, exec[o], exec'[o])
      BY <2>1, <2>4, <3>1, <3>3, RunOne
    <3>. QED  BY <1>5, <1>6, <2>2, <2>3, <2>4, <3>4, RunConcat
  <2>. QED  BY <2>5, <2>6
<1>. QED  BY <1>7, <1>8, <1>9, <1>10 DEF QuotesTold

\* _process_trade: of its events the publisher counts that of the maker.
LEMMA TradeQuotes ==
    ASSUME IInv, IInv', cmd' \in Nat, Onward, Trade
    PROVE  QuotesTold(TradeEvents)
<1>1. PICK t, m, q : t = taker /\ m = Maker /\ q = TradeQuantity
  OBVIOUS
<1>2. Matching /\ order' = order
  BY DEF Trade
<1>3. t \in Known /\ m \in Known /\ q \in Nat /\ order[t].qty \in Nat /\ order[m].qty \in Nat
  BY <1>1, <1>2, TakerFacts, MakerFacts DEF Matching
<1>4. t \in Known' /\ m \in Known'
  BY <1>2, <1>3 DEF Known
<1>5. PICK a1, a2, f1, f2, h1, h2, s1, s2 :
        /\ a1 = TradeEvent("taker", t, q) /\ a2 = TradeEvent("maker", m, q)
        /\ f1 = FillEvent(t) /\ f2 = FillEvent(m)
        /\ h1 = HoldEvent(m) /\ h2 = HoldEvent(t)
        /\ s1 = SettledEvent(t, q) /\ s2 = SettledEvent(m, q)
  OBVIOUS
<1>6. TradeEvents = a1 \o a2 \o f1 \o f2 \o h1 \o h2 \o s1 \o s2
  BY <1>1, <1>5, Zenon DEF TradeEvents
<1>7. /\ Quiet(a1) /\ Quiet(f1) /\ Quiet(f2) /\ Quiet(h1) /\ Quiet(h2) /\ Quiet(s1) /\ Quiet(s2)
  BY <1>3, <1>4, <1>5, QuietLogs
<1>8. QuotesTold(a1 \o a2)
  BY <1>1, <1>5, <1>7, MakerQuotes
<1>9. QuotesTold(a1 \o a2 \o f1)
  BY <1>7, <1>8, QuotesQuiet
<1>10. QuotesTold(a1 \o a2 \o f1 \o f2)
  BY <1>7, <1>9, QuotesQuiet
<1>11. QuotesTold(a1 \o a2 \o f1 \o f2 \o h1)
  BY <1>7, <1>10, QuotesQuiet
<1>12. QuotesTold(a1 \o a2 \o f1 \o f2 \o h1 \o h2)
  BY <1>7, <1>11, QuotesQuiet
<1>13. QuotesTold(a1 \o a2 \o f1 \o f2 \o h1 \o h2 \o s1)
  BY <1>7, <1>12, QuotesQuiet
<1>14. QuotesTold(a1 \o a2 \o f1 \o f2 \o h1 \o h2 \o s1 \o s2)
  BY <1>7, <1>13, QuotesQuiet
<1>. QED  BY <1>6, <1>14, Zenon

\* Every step of the engine goes onward.
LEMMA EngineOnward ==
    ASSUME IInv, IInv', EngineStep
    PROVE  Onward
<1>1. /\ Known \subseteq OrderIds /\ exec \in [OrderIds -> Nat] /\ exec' \in [OrderIds -> Nat]
      /\ NoOrder \notin Known
  <2>1. TypeOK /\ exec \in [OrderIds -> Nat] /\ exec' \in [OrderIds -> Nat]
    BY DEF IInv, TypeOK
  <2>2. Len(order) \in Nat /\ Known = 1 .. Len(order) /\ Known \subseteq OrderIds
    BY <2>1, KnownOrders
  <2>3. NoOrder \notin Known
    BY <2>2 DEF NoOrder
  <2>. QED  BY <2>1, <2>2, <2>3
<1>2. \A o \in Known : exec[o] \in Nat /\ exec'[o] \in Nat
  BY <1>1
<1>3. ASSUME NEW r \in Requests, NewOrder(r) PROVE Onward
  <2>1. /\ Receive(r) /\ exec' = exec /\ (taker' = taker \/ taker' = Len(order) + 1)
    BY <1>3 DEF NewOrder, PlaceOrder, RejectOrder, RejectOrderRaises, BeginMatch
  <2>2. Known \subseteq Known' /\ Len(order) + 1 \notin Known
    BY <2>1, ReceiveAdds DEF IInv
  <2>. QED  BY <1>2, <2>1, <2>2 DEF Onward
<1>4. ASSUME order' = order, exec' = exec, taker' = taker \/ taker' = NoOrder PROVE Onward
  BY <1>1, <1>2, <1>4 DEF Onward, Known
<1>5. ASSUME NEW o \in OrderIds, OldOrder(o) PROVE Onward
  BY <1>4, <1>5 DEF OldOrder, CancelOrder, ModifyRaises
<1>6. CASE Trade
  <2>1. PICK t, m, q : t = taker /\ m = Maker /\ q = TradeQuantity
    OBVIOUS
  <2>2. /\ Matching /\ order' = order /\ taker' = taker
        /\ exec' = [exec EXCEPT ![t] = @ + q, ![m] = @ + q]
    BY <1>6, <2>1 DEF Trade
  <2>3. q \in Nat /\ t \in OrderIds /\ m \in OrderIds /\ m # t
    BY <2>1, <2>2, TakerFacts, MakerFacts DEF Matching
  <2>4. /\ \A o \in OrderIds : o # t /\ o # m => exec'[o] = exec[o]
        /\ exec'[t] = exec[t] + q /\ exec'[m] = exec[m] + q
    BY <1>1, <2>2, <2>3
  <2>5. \A o \in Known : exec[o] <= exec'[o]
    BY <1>1, <2>3, <2>4
  <2>. QED  BY <1>2, <2>2, <2>5 DEF Onward, Known
<1>7. CASE CancelMaker \/ TakerFilled \/ PlaceRemainder
  BY <1>4, <1>7 DEF CancelMaker, TakerFilled, PlaceRemainder
<1>. QED  BY <1>3, <1>5, <1>6, <1>7 DEF EngineStep, MatchingStep

\* What a step of the engine appends is what it tells the publisher.
LEMMA EngineQuotes ==
    ASSUME IInv, IInv', cmd \in Nat, cmd' \in Nat, Onward, EngineStep
    PROVE  \E new : stream' = stream \o new /\ QuotesTold(new)
<1>1. ASSUME NEW r \in Requests, NewOrder(r)
      PROVE  \E new : stream' = stream \o new /\ QuotesTold(new)
  <2>1. PICK n : n = Len(order) + 1
    OBVIOUS
  <2>2. Receive(r) /\ exec' = exec
    BY <1>1 DEF NewOrder, PlaceOrder, RejectOrder, RejectOrderRaises, BeginMatch
  <2>3. /\ n \in OrderIds /\ n \notin Known /\ Known' = Known \cup {n}
        /\ order'[n] = r /\ exec'[n] = 0 /\ exec[n] = 0 /\ r.qty \in Nat /\ r.qty > 0
        /\ order'[n].qty - exec[n] \in Nat
    BY <2>1, <2>2, NewOrderFacts
  <2>4. taker = NoOrder /\ n # NoOrder
    BY <2>1, <2>2, ReceiveState
  <2>5. n \in Known' /\ exec'[n] < order'[n].qty
    BY <2>3
  <2>6. CASE PlaceOrder(r) /\ NextCommand(OrderEvent("placed", n))
    <3>1. taker' = taker /\ stream' = stream \o OrderEvent("placed", n)
      BY <2>6 DEF PlaceOrder, NextCommand, Publish
    <3>2. n # taker'
      BY <2>4, <3>1
    <3>3. QuotesTold(OrderEvent("placed", n))
      BY <2>3, <2>5, <3>2, PlacedQuotes
    <3>. QED  BY <3>1, <3>3
  <2>7. ASSUME NEW s, Quiet(s), NextCommand(s)
        PROVE  \E new : stream' = stream \o new /\ QuotesTold(new)
    BY <2>7, QuietQuotes DEF NextCommand, Publish
  <2>8. Quiet(CancelEvents(n)) /\ Quiet(OrderEvent("cancelled", n)) /\ Quiet(<< >>)
    BY <2>3, <2>5, QuietLogs, QuietConcat
  <2>9. Quiet(CancelEvents(n) \o CancelEvents(n))
    BY <2>8, QuietConcat
  <2>. QED  BY <1>1, <2>1, <2>6, <2>7, <2>8, <2>9 DEF NewOrder
<1>2. ASSUME NEW o \in store, order' = order PROVE Quiet(CancelEvents(o))
  <2>1. /\ o \in Known' /\ o \in Known /\ exec[o] <= order[o].qty
    BY <1>2 DEF IInv, BookConsistent, BookMatchesStore, Known, OneFate
  <2>2. exec[o] \in Nat /\ order[o].qty \in Nat
    BY <2>1, KnownOrders DEF IInv
  <2>3. order'[o].qty - exec[o] \in Nat
    BY <1>2, <2>1, <2>2
  <2>. QED  BY <2>1, <2>3, QuietLogs
<1>3. ASSUME NEW o \in OrderIds, OldOrder(o)
      PROVE  \E new : stream' = stream \o new /\ QuotesTold(new)
  <2>1. CASE CancelOrder(o) /\ NextCommand(CancelEvents(o))
    <3>1. o \in store /\ order' = order /\ stream' = stream \o CancelEvents(o)
      BY <2>1 DEF CancelOrder, NextCommand, Publish
    <3>. QED  BY <1>2, <3>1, QuietQuotes
  <2>2. CASE ModifyRaises(o) /\ NextCommand(<< >>)
    BY <2>2, QuietQuotes, QuietConcat DEF NextCommand, Publish
  <2>. QED  BY <1>3, <2>1, <2>2 DEF OldOrder
<1>4. ASSUME MatchingStep
      PROVE  \E new : stream' = stream \o new /\ QuotesTold(new)
  <2>1. CASE Trade /\ SameCommand(TradeEvents)
    BY <2>1, TradeQuotes DEF SameCommand, Publish
  <2>2. CASE CancelMaker /\ SameCommand(CancelEvents(Maker))
    <3>1. PICK m : m = Maker
      OBVIOUS
    <3>2. m \in store /\ order' = order /\ stream' = stream \o CancelEvents(m)
      BY <2>2, <3>1, MakerFacts DEF CancelMaker, SameCommand, Publish
    <3>. QED  BY <1>2, <3>2, QuietQuotes
  <2>3. CASE TakerFilled /\ SameCommand(<< >>)
    BY <2>3, QuietQuotes, QuietConcat DEF SameCommand, Publish
  <2>4. CASE PlaceRemainder /\ SameCommand(OrderEvent("placed", taker))
    <3>1. PICK t : t = taker
      OBVIOUS
    <3>2. /\ pc = "matching" /\ Remaining(t) > 0 /\ taker' = NoOrder
          /\ order' = order /\ exec' = exec /\ stream' = stream \o OrderEvent("placed", t)
      BY <2>4, <3>1 DEF PlaceRemainder, SameCommand, Publish
    <3>3. t \in Known' /\ t # taker' /\ exec[t] \in Nat /\ order[t].qty \in Nat
      BY <3>1, <3>2, TakerFacts DEF Known
    <3>4. exec'[t] < order'[t].qty
      BY <3>2, <3>3 DEF Remaining
    <3>5. QuotesTold(OrderEvent("placed", t))
      BY <3>1, <3>3, <3>4, PlacedQuotes
    <3>. QED  BY <3>2, <3>5
  <2>. QED  BY <1>4, <2>1, <2>2, <2>3, <2>4 DEF MatchingStep
<1>. QED  BY <1>1, <1>3, <1>4 DEF EngineStep

\* What is appended is determined.
LEMMA ConcatCancel ==
    ASSUME NEW S, NEW s \in Seq(S), NEW a \in Seq(S), NEW b \in Seq(S), s \o a = s \o b
    PROVE  a = b
<1>1. /\ Len(s) \in Nat /\ Len(a) \in Nat /\ Len(b) \in Nat
      /\ Len(s \o a) = Len(s) + Len(a) /\ Len(s \o b) = Len(s) + Len(b)
  OBVIOUS
<1>2. Len(a) = Len(b)
  BY <1>1
<1>3. \A i \in 1 .. Len(a) : (s \o a)[Len(s) + i] = a[i]
  OBVIOUS
<1>4. \A i \in 1 .. Len(b) : (s \o b)[Len(s) + i] = b[i]
  OBVIOUS
<1>5. \A i \in 1 .. Len(a) : a[i] = b[i]
  BY <1>2, <1>3, <1>4
<1>. QED  BY <1>2, <1>5, SeqEqual

\* The two accounts of a step of the engine together.
LEMMA EngineTells ==
    ASSUME IInv, cmd \in Nat, stream \in Seq(Events), EngineStep
    PROVE  /\ IInv' /\ cmd' \in Nat /\ UNCHANGED <<topic, fanout>> /\ Onward
           /\ \E new : stream' = stream \o new /\ Progress(new) /\ QuotesTold(new)
<1>1. IInv' /\ cmd' \in Nat /\ UNCHANGED <<topic, fanout>>
  BY EngineProgress
<1>2. PICK a : stream' = stream \o a /\ Progress(a)
  BY EngineProgress
<1>3. Onward
  BY <1>1, EngineOnward
<1>4. PICK b : stream' = stream \o b /\ QuotesTold(b)
  BY <1>1, <1>3, EngineQuotes
<1>5. a \in Seq(Events) /\ b \in Seq(Events) /\ stream \o a = stream \o b
  BY <1>2, <1>4 DEF Progress, QuotesTold
<1>6. a = b
  BY <1>5, ConcatCancel
<1>. QED  BY <1>1, <1>2, <1>3, <1>4, <1>6

-----------------------------------------------------------------------------
(***************************************************************************)
(* The invariant of the publisher is kept.                                 *)
(***************************************************************************)

\* The parts of the types.
LEMMA PubTypes ==
    ASSUME PubBase
    PROVE  /\ IInv /\ TypeOK /\ RowTypeOK /\ QuotesSound /\ cmd \in Nat
           /\ stream \in Seq(Events) /\ topic \in [Followed -> Seq(Events)]
           /\ topic["order"] \in Seq(Events) /\ topic["trade"] \in Seq(Events)
           /\ feed \in [{"order", "trade"} -> Seq(Events)]
           /\ feed["order"] \in Seq(Events) /\ feed["trade"] \in Seq(Events)
           /\ fanout \in {"running", "failed"}
           /\ level \in [Sides -> [Prices -> Nat]]
           /\ \A o \in DOMAIN info : o \in Known /\ info[o] \in Nat \ {0}
           /\ restarts \in 0 .. MaxRestarts /\ repeated \subseteq Known
<1>1. /\ IInv /\ PubTypeOK /\ QuotesSound
  BY DEF PubBase
<1>2. "order" \in Followed /\ "trade" \in Followed
  BY PublisherAssumption
<1>. QED  BY <1>1, <1>2 DEF IInv, PubTypeOK, RowTypeOK, StreamTypeOK

\* At the start there is nothing to read and nothing to show.
LEMMA PubInitSound ==
    PubInit => PubSound
<1> SUFFICES ASSUME PubInit PROVE PubSound
  OBVIOUS
<1>1. /\ RowsSound /\ stream = << >> /\ topic["order"] = << >> /\ order = << >> /\ store = {}
      /\ feed = [c \in {"order", "trade"} |-> << >>] /\ level = NoLevels /\ info = << >>
      /\ restarts = 0 /\ repeated = {}
  BY RowsInit, RowsAssumption DEF PubInit, RowInit, StreamInit, Init
<1>2. /\ In(stream) = {} /\ In(topic["order"]) = {} /\ In(feed["order"]) = {} /\ In(feed["trade"]) = {}
      /\ feed["order"] \in Seq(Events) /\ feed["trade"] \in Seq(Events) /\ stream \in Seq(Events)
  BY <1>1 DEF In
<1>3. /\ Known = {} /\ DOMAIN info = {}
  BY <1>1 DEF Known
<1>4. PubTypeOK
  BY <1>1, <1>3, PublisherAssumption DEF PubTypeOK, RowsSound, NoLevels
<1>5. PubBase
  BY <1>1, <1>2, <1>4 DEF PubBase, QuotesSound, RowsSound
<1>6. PlacedOnce
  <2> SUFFICES ASSUME NEW o \in OrderIds \ repeated
               PROVE  Through(feed["order"], stream, Placings(o), Shown(o), Placed(o))
    BY DEF PlacedOnce
  <2>1. Shown(o) \in Nat /\ Placed(o) \in Nat /\ Shown(o) <= Placed(o)
    BY <1>3 DEF Shown, Placed
  <2>. QED  BY <1>2, <2>1, QuoteWeights, ThroughSilent
<1>7. FillsDue /\ QuotesComing
  BY <1>1, <1>2, <1>3 DEF FillsDue, QuotesComing, Unquoted
<1>8. LevelsMatchOrders
  <2> SUFFICES ASSUME NEW s \in Sides, NEW p \in Prices
               PROVE  level[s][p] = SumOver(QuotesOf(DOMAIN info, s, p), info)
    BY DEF LevelsMatchOrders
  <2>1. QuotesOf(DOMAIN info, s, p) = {}
    BY <1>3 DEF QuotesOf
  <2>2. Summand({}, info)
    BY FS_EmptySet DEF Summand
  <2>3. SumOver({}, info) = 0
    BY <2>2, SumUnfolds
  <2>. QED  BY <1>1, <2>1, <2>3 DEF NoLevels
<1>. QED  BY <1>5, <1>6, <1>7, <1>8 DEF PubSound, PubShows

\* The engine: old events stay sound.
LEMMA EngineKeepsQuotes ==
    ASSUME IInv, Lasting, Onward, NEW e, QuoteSound(e)
    PROVE  QuoteSound(e)'
<1>1. e.order \in Known /\ e.order \in Known' /\ order'[e.order] = order[e.order]
  BY DEF QuoteSound, Lasting
<1>2. EventSound(e)'
  BY <1>1 DEF QuoteSound, EventSound, Lasting, IsFilled
<1>3. Begins(e)' => e.qty < order'[e.order].qty
  BY <1>1 DEF QuoteSound, Begins
<1>4. IsMaker(e)' => e.order # taker'
  BY <1>1 DEF QuoteSound, IsMaker, Onward
<1>. QED  BY <1>1, <1>2, <1>3, <1>4 DEF QuoteSound

\* The engine: its events are sound, and what is known stays known.
LEMMA EngineKeepsBase ==
    ASSUME PubBase, EngineStep, UNCHANGED <<hvars, pvars>>
    PROVE  PubBase'
<1>1. /\ IInv /\ RowTypeOK /\ QuotesSound /\ cmd \in Nat /\ stream \in Seq(Events)
      /\ repeated \subseteq Known /\ \A o \in DOMAIN info : o \in Known /\ info[o] \in Nat \ {0}
  BY PubTypes
<1>2. IInv' /\ cmd' \in Nat /\ topic' = topic /\ fanout' = fanout /\ Onward
  BY <1>1, EngineTells
<1>3. PICK new : stream' = stream \o new /\ Progress(new) /\ QuotesTold(new)
  BY <1>1, EngineTells
<1>4. /\ row' = row /\ seen' = seen /\ feed' = feed /\ level' = level /\ info' = info
      /\ lost' = lost /\ restarts' = restarts /\ repeated' = repeated
  BY DEF hvars, pvars
<1>5. new \in Seq(Events) /\ Lasting /\ Reports(new)
  BY <1>3 DEF Progress
<1>6. stream' \in Seq(Events) /\ In(stream') = In(stream) \cup In(new)
  BY <1>1, <1>3, <1>5, InConcat
<1>7. PubTypeOK'
  <2>1. RowTypeOK'
    BY <1>1, <1>2, <1>4, <1>6 DEF RowTypeOK, StreamTypeOK
  <2>2. repeated' \subseteq Known' /\ \A o \in DOMAIN info' : o \in Known' /\ info'[o] \in Nat \ {0}
    BY <1>1, <1>2, <1>4 DEF Onward
  <2>. QED  BY <1>4, <2>1, <2>2 DEF PubBase, PubTypeOK
<1>8. \A e : QuoteSound(e) => QuoteSound(e)'
  BY <1>1, <1>2, <1>5, EngineKeepsQuotes
<1>9. \A e \in In(new) : QuoteSound(e)'
  BY <1>3, <1>5 DEF QuotesTold, Reports, QuoteSound, Begins, IsMaker
<1>10. QuotesSound'
  BY <1>1, <1>2, <1>4, <1>6, <1>8, <1>9 DEF QuotesSound
<1>. QED  BY <1>1, <1>2, <1>7, <1>10 DEF PubBase

\* The engine: what it places and fills is on its way.
LEMMA EngineKeepsShows ==
    ASSUME PubBase, PubShows, EngineStep, UNCHANGED <<hvars, pvars>>
    PROVE  PubShows'
<1>1. /\ IInv /\ QuotesSound /\ cmd \in Nat /\ stream \in Seq(Events)
      /\ feed["order"] \in Seq(Events) /\ feed["trade"] \in Seq(Events)
      /\ repeated \subseteq Known /\ \A o \in DOMAIN info : o \in Known /\ info[o] \in Nat \ {0}
  BY PubTypes
<1>2. IInv' /\ Onward
  BY <1>1, EngineTells
<1>3. PICK new : stream' = stream \o new /\ Progress(new) /\ QuotesTold(new)
  BY <1>1, EngineTells
<1>4. /\ feed' = feed /\ level' = level /\ info' = info /\ restarts' = restarts
      /\ repeated' = repeated
  BY DEF pvars
<1>5. new \in Seq(Events) /\ Lasting /\ Complete(new)
  BY <1>3 DEF Progress
<1>6. stream' \in Seq(Events) /\ In(stream') = In(stream) \cup In(new)
  BY <1>1, <1>3, <1>5, InConcat
<1>7. PlacedOnce'
  <2> SUFFICES ASSUME NEW o \in OrderIds \ repeated
               PROVE  Through(feed["order"], stream \o new, Placings(o), Shown(o), Placed(o)')
    BY <1>3, <1>4 DEF PlacedOnce, Shown
  <2>1. Through(feed["order"], stream, Placings(o), Shown(o), Placed(o))
    BY DEF PubShows, PlacedOnce
  <2>2. Run(new, Placings(o), Placed(o), Placed(o)')
    BY <1>3 DEF QuotesTold
  <2>. QED  BY <1>1, <1>5, <2>1, <2>2, QuoteWeights, ThroughConcat
<1>8. ASSUME NEW o \in Known, NEW a, Due(o, a) PROVE Due(o, a)'
  <2>1. Through(feed["trade"], stream, Makings(o), a, exec[o])
    BY <1>8 DEF Due
  <2>2. Run(new, Makings(o), exec[o], exec'[o])
    BY <1>3 DEF QuotesTold
  <2>3. Through(feed["trade"], stream \o new, Makings(o), a, exec'[o])
    BY <1>1, <1>5, <2>1, <2>2, QuoteWeights, ThroughConcat
  <2>. QED  BY <1>3, <1>4, <2>3 DEF Due
<1>9. ASSUME NEW e \in In(new), Begins(e) PROVE Due(e.order, e.qty)'
  <2>1. PICK o : o = e.order
    OBVIOUS
  <2>2. /\ o \notin Known \/ o = taker
        /\ e.qty <= exec'[o] /\ exec'[o] \in Nat
        /\ \A f \in In(new) : ~IsMaker(f)
    BY <1>3, <1>9, <2>1 DEF QuotesTold
  <2>3. \A f \in In(stream) \cup In(feed["trade"]) : ~(IsMaker(f) /\ f.order = o)
    BY <1>1, <2>2 DEF QuotesSound, QuoteSound
  <2>4. /\ In(stream') \subseteq Events /\ In(feed["trade"]) \subseteq Events /\ e \in Events
    BY <1>1, <1>5, <1>6, <1>9 DEF In
  <2>5. \A f \in In(stream') : Makings(o)[f] = 0
    BY <1>6, <2>2, <2>3, <2>4, QuoteWeights
  <2>6. \A f \in In(feed["trade"]) : Makings(o)[f] = 0
    BY <2>3, <2>4, QuoteWeights
  <2>7. Through(feed["trade"], stream', Makings(o), e.qty, exec'[o])
    BY <1>1, <1>6, <2>2, <2>4, <2>5, <2>6, QuoteWeights, ThroughSilent
  <2>. QED  BY <1>4, <2>1, <2>7 DEF Due
<1>10. FillsDue'
  <2>1. ASSUME NEW o \in DOMAIN info \ repeated
        PROVE  /\ info[o] <= order'[o].qty
               /\ Through(feed["trade"], stream', Makings(o), order'[o].qty - info[o], exec'[o])
    <3>1. PICK a : a = order[o].qty - info[o]
      OBVIOUS
    <3>2. info[o] <= order[o].qty /\ Due(o, a)
      BY <3>1 DEF PubShows, FillsDue
    <3>3. o \in Known /\ order'[o] = order[o]
      BY <1>1, <1>5 DEF Lasting
    <3>4. Due(o, a)'
      BY <1>8, <3>2, <3>3
    <3>. QED  BY <1>4, <3>1, <3>2, <3>3, <3>4 DEF Due
  <2>2. ASSUME NEW e \in In(feed["order"]) \cup In(stream), Begins(e), e.order \notin repeated
        PROVE  Due(e.order, e.qty)'
    <3>1. Due(e.order, e.qty)
      BY <2>2 DEF PubShows, FillsDue, Unquoted
    <3>2. e.order \in Known
      BY <1>1, <2>2 DEF QuotesSound, QuoteSound
    <3>. QED  BY <1>8, <3>1, <3>2
  <2>3. \A e \in In(feed'["order"]) \cup In(stream') :
           Begins(e) /\ e.order \notin repeated => Due(e.order, e.qty)'
    BY <1>4, <1>6, <1>9, <2>2
  <2>4. \A o \in DOMAIN info' \ repeated' : info'[o] <= order'[o].qty /\ Due(o, order[o].qty - info[o])'
    BY <1>4, <2>1 DEF Due
  <2>. QED  BY <1>4, <2>3, <2>4 DEF FillsDue, Unquoted, Begins
<1>11. QuotesComing'
  <2> SUFFICES ASSUME NEW o \in store' \ repeated, order'[o].user # System
               PROVE  o \in DOMAIN info \/ \E e \in In(feed["order"]) \cup In(stream') : Begins(e) /\ e.order = o
    BY <1>4 DEF QuotesComing, Unquoted, Begins
  <2>1. o \in Known'
    BY <1>2 DEF IInv, BookConsistent, BookMatchesStore
  <2>2. o \in store \/ Says(new, o, "placed")
    BY <1>5, <2>1 DEF Complete
  <2>3. CASE o \in store
    <3>1. o \in Known
      BY <1>1, <2>3 DEF IInv, BookConsistent, BookMatchesStore
    <3>2. order[o].user # System
      BY <1>5, <3>1 DEF Lasting
    <3>. QED  BY <1>6, <2>3, <3>2 DEF PubShows, QuotesComing, Unquoted
  <2>4. CASE Says(new, o, "placed")
    BY <1>6, <2>4 DEF Says, Begins
  <2>. QED  BY <2>2, <2>3, <2>4
<1>12. LevelsMatchOrders'
  <2>1. \A s, p : QuotesOf(DOMAIN info, s, p)' = QuotesOf(DOMAIN info, s, p)
    BY <1>1, <1>4, <1>5 DEF QuotesOf, Lasting
  <2>2. \A s, p : SentOnce(s, p)' = SentOnce(s, p)
    BY <1>1, <1>4, <1>5 DEF SentOnce, QuotesOf, Lasting
  <2>. QED  BY <1>4, <2>1, <2>2 DEF PubShows, LevelsMatchOrders
<1>. QED  BY <1>7, <1>10, <1>11, <1>12 DEF PubShows

\* The other steps leave the engine as it is.
LEMMA StillBase ==
    ASSUME PubBase, vars' = vars, PubTypeOK', In(stream') \subseteq In(stream),
           \A e \in In(topic'["order"]) \cup In(feed'["order"]) : QuoteSound(e) /\ e.cat = "order",
           \A e \in In(feed'["trade"]) : QuoteSound(e) /\ e.cat = "trade"
    PROVE  PubBase'
<1>1. /\ order' = order /\ exec' = exec /\ cancels' = cancels /\ taker' = taker
  BY DEF vars
<1>2. \A e : QuoteSound(e) => QuoteSound(e)'
  BY <1>1 DEF QuoteSound, EventSound, IsFilled, IsCancelled, Begins, IsMaker, Known
<1>3. QuotesSound'
  BY <1>2 DEF PubBase, QuotesSound
<1>4. IInv'
  BY NextIInv DEF PubBase
<1>. QED  BY <1>3, <1>4 DEF PubBase

\* A step that touches neither what is on its way nor what is active.
LEMMA StillShows ==
    ASSUME PubShows, UNCHANGED <<vars, stream, feed, level, info, restarts, repeated>>
    PROVE  PubShows'
<1>1. /\ order' = order /\ exec' = exec /\ store' = store /\ taker' = taker
      /\ stream' = stream /\ feed' = feed /\ level' = level /\ info' = info /\ restarts' = restarts
      /\ repeated' = repeated
  BY DEF vars
<1>2. PlacedOnce'
  BY <1>1 DEF PubShows, PlacedOnce, Shown, Placed, Known
<1>3. FillsDue'
  BY <1>1 DEF PubShows, FillsDue, Due, Unquoted, Begins
<1>4. QuotesComing'
  BY <1>1 DEF PubShows, QuotesComing, Unquoted, Begins
<1>5. LevelsMatchOrders'
  BY <1>1 DEF PubShows, LevelsMatchOrders, QuotesOf, SentOnce
<1>. QED  BY <1>2, <1>3, <1>4, <1>5 DEF PubShows

\* What was appended to a sequence.
LEMMA Appended ==
    ASSUME NEW S, NEW s \in Seq(S), NEW t \in Seq(S)
    PROVE  SubSeq(s \o t, Len(s) + 1, Len(s \o t)) = t
<1>1. PICK m, n : m = Len(s) + 1 /\ n = Len(s \o t)
  OBVIOUS
<1>2. /\ Len(s) \in Nat /\ Len(t) \in Nat /\ n = Len(s) + Len(t)
      /\ \A i \in 1 .. Len(t) : (s \o t)[Len(s) + i] = t[i] /\ t[i] \in S
  BY <1>1
<1>3. \A i \in m .. n : (s \o t)[i] \in S
  BY <1>1, <1>2
<1>4. PICK u : u = SubSeq(s \o t, m, n)
  OBVIOUS
<1>5. /\ u \in Seq(S) /\ Len(u) = IF m <= n THEN n - m + 1 ELSE 0
      /\ \A i \in 1 .. n - m + 1 : u[i] = (s \o t)[m + i - 1]
  BY <1>1, <1>2, <1>3, <1>4, SubSeqProperties
<1>6. Len(u) = Len(t) /\ n - m + 1 = Len(t)
  BY <1>1, <1>2, <1>5
<1>7. \A i \in 1 .. Len(t) : u[i] = t[i]
  <2> SUFFICES ASSUME NEW i \in 1 .. Len(t) PROVE u[i] = t[i]
    OBVIOUS
  <2>1. u[i] = (s \o t)[m + i - 1] /\ m + i - 1 = Len(s) + i
    BY <1>1, <1>2, <1>5, <1>6
  <2>. QED  BY <1>2, <2>1
<1>8. u = t
  BY <1>5, <1>6, <1>7, SeqEqual
<1>. QED  BY <1>1, <1>4, <1>8

\* One event is taken from the stream and reaches the topic of its category, as
\* the copies c of it: one, unless the order is counted among the repeated.
Routed(h, c) ==
    /\ h = Head(stream) /\ h \in Events /\ QuoteSound(h) /\ stream # << >>
    /\ stream' = Tail(stream) /\ stream' \in Seq(Events)
    /\ In(stream) = {h} \cup In(stream')
    /\ c \in Seq(Events) /\ In(c) = {h}
    /\ h.order \notin repeated' => c = <<h>>
    /\ repeated \subseteq repeated' /\ repeated' \subseteq Known
    /\ cmd' = cmd /\ fanout' = fanout /\ topic' \in [Followed -> Seq(Events)]
    /\ topic'["order"] = IF h.cat = "order" THEN topic["order"] \o c ELSE topic["order"]
    /\ feed' = [k \in {"order", "trade"} |-> IF h.cat = k THEN feed[k] \o c ELSE feed[k]]

\* Who is counted when a message is sent `copies` times.
Counts(copies) ==
    \/ copies = 1 /\ repeated' = repeated
    \/ repeated' = repeated \cup {Head(stream).order}

\* KafkaFanout.run: the readers of the topic have the event as well.
LEMMA RouteTells ==
    ASSUME PubBase, NEW copies \in 1 .. MaxCopies, Route(copies), Counts(copies), Feed
    PROVE  \E h, c : Routed(h, c)
<1>0. PICK h, c : h = Head(stream) /\ c = [j \in 1 .. copies |-> h]
  OBVIOUS
<1>1. /\ QuotesSound /\ stream \in Seq(Events) /\ topic \in [Followed -> Seq(Events)]
      /\ feed \in [{"order", "trade"} -> Seq(Events)] /\ repeated \subseteq Known
  BY PubTypes
<1>2. /\ stream # << >> /\ stream' = Tail(stream) /\ cmd' = cmd /\ fanout' = fanout
      /\ topic' = [topic EXCEPT ![h.cat] = @ \o c]
  BY <1>0 DEF Route
<1>3. h \in Events /\ stream' \in Seq(Events) /\ In(stream) = {h} \cup In(stream') /\ QuoteSound(h)
  BY <1>0, <1>1, <1>2, InTail DEF QuotesSound
<1>4. copies = 1 => [j \in 1 .. copies |-> h] = <<h>>
  <2>1. [j \in 1 .. 1 |-> h] \in Seq(Events) /\ <<h>> \in Seq(Events)
    BY <1>3
  <2>2. Len([j \in 1 .. 1 |-> h]) = 1 /\ Len(<<h>>) = 1
    BY <1>3, <2>1
  <2>3. \A i \in 1 .. 1 : [j \in 1 .. 1 |-> h][i] = <<h>>[i]
    OBVIOUS
  <2>. QED  BY <2>1, <2>2, <2>3, SeqEqual
<1>5. c \in Seq(Events) /\ In(c) = {h}
  <2>1. 1 \in 1 .. copies /\ copies \in Nat
    BY StreamAssumption
  <2>2. c \in Seq(Events) /\ DOMAIN c = 1 .. copies /\ \A j \in 1 .. copies : c[j] = h
    BY <1>0, <1>3, <2>1
  <2>. QED  BY <2>1, <2>2 DEF In
<1>6. /\ h.order \notin repeated' => c = <<h>>
      /\ repeated \subseteq repeated' /\ repeated' \subseteq Known
  <2>1. h.order \in Known
    BY <1>3 DEF QuoteSound
  <2>. QED  BY <1>0, <1>1, <1>4, <2>1 DEF Counts
<1>7. \A k \in Followed : /\ topic[k] \in Seq(Events) /\ topic[k] \o c \in Seq(Events)
                          /\ topic'[k] = IF h.cat = k THEN topic[k] \o c ELSE topic[k]
  <2> SUFFICES ASSUME NEW k \in Followed
               PROVE  /\ topic[k] \in Seq(Events) /\ topic[k] \o c \in Seq(Events)
                      /\ topic'[k] = IF h.cat = k THEN topic[k] \o c ELSE topic[k]
    OBVIOUS
  <2>1. topic[k] \in Seq(Events)
    BY <1>1
  <2>2. topic[k] \o c \in Seq(Events)
    BY <1>5, <2>1, InConcat
  <2>3. topic'[k] = IF h.cat = k THEN topic[k] \o c ELSE topic[k]
    BY <1>1, <1>2
  <2>. QED  BY <2>1, <2>2, <2>3
<1>8. topic' \in [Followed -> Seq(Events)]
  <2>1. DOMAIN topic' = Followed /\ topic' = [k \in Followed |-> topic'[k]]
    BY <1>1, <1>2
  <2>. QED  BY <1>7, <2>1
<1>9. ASSUME NEW k \in {"order", "trade"}
      PROVE  SubSeq(topic'[k], Len(topic[k]) + 1, Len(topic'[k])) = IF h.cat = k THEN c ELSE << >>
  <2>1. k \in Followed
    BY <1>9, PublisherAssumption
  <2>2. PICK t, x : t = topic[k] /\ x = IF h.cat = k THEN c ELSE << >>
    OBVIOUS
  <2>3. t \in Seq(Events) /\ x \in Seq(Events)
    BY <1>5, <1>7, <2>1, <2>2
  <2>4. t \o << >> = t
    BY <2>3
  <2>5. topic'[k] = t \o x
    BY <1>7, <2>1, <2>2, <2>4
  <2>6. SubSeq(t \o x, Len(t) + 1, Len(t \o x)) = x
    BY <2>3, Appended
  <2>. QED  BY <2>2, <2>5, <2>6
<1>10. feed' = [k \in {"order", "trade"} |-> IF h.cat = k THEN feed[k] \o c ELSE feed[k]]
  <2>1. DOMAIN feed = {"order", "trade"}
    BY <1>1
  <2>2. \A k \in {"order", "trade"} :
            feed[k] \o SubSeq(topic'[k], Len(topic[k]) + 1, Len(topic'[k]))
                = IF h.cat = k THEN feed[k] \o c ELSE feed[k]
    <3> SUFFICES ASSUME NEW k \in {"order", "trade"}
                 PROVE  feed[k] \o SubSeq(topic'[k], Len(topic[k]) + 1, Len(topic'[k]))
                            = IF h.cat = k THEN feed[k] \o c ELSE feed[k]
      OBVIOUS
    <3>1. feed[k] \in Seq(Events)
      BY <1>1
    <3>2. feed[k] \o << >> = feed[k]
      BY <3>1
    <3>3. PICK y : y = SubSeq(topic'[k], Len(topic[k]) + 1, Len(topic'[k]))
      OBVIOUS
    <3>4. y = IF h.cat = k THEN c ELSE << >>
      BY <1>9, <3>3
    <3>. QED  BY <3>2, <3>3, <3>4
  <2>. QED  BY <2>1, <2>2 DEF Feed
<1>11. topic'["order"] = IF h.cat = "order" THEN topic["order"] \o c ELSE topic["order"]
  BY <1>7, PublisherAssumption
<1>12. Routed(h, c)
  BY <1>0, <1>2, <1>3, <1>5, <1>6, <1>8, <1>10, <1>11 DEF Routed
<1>. QED  BY <1>12

\* KafkaFanout.run: the event keeps its place.
LEMMA RouteKeepsBase ==
    ASSUME PubBase, NEW copies \in 1 .. MaxCopies, Route(copies), Counts(copies), Feed,
           UNCHANGED <<vars, hvars, level, info, restarts>>
    PROVE  PubBase'
<1>1. PICK h, c : Routed(h, c)
  BY RouteTells
<1>2. /\ h \in Events /\ QuoteSound(h) /\ stream' \in Seq(Events) /\ In(stream) = {h} \cup In(stream')
      /\ cmd' = cmd /\ fanout' = fanout /\ topic' \in [Followed -> Seq(Events)]
      /\ topic'["order"] = IF h.cat = "order" THEN topic["order"] \o c ELSE topic["order"]
      /\ feed' = [k \in {"order", "trade"} |-> IF h.cat = k THEN feed[k] \o c ELSE feed[k]]
      /\ repeated' \subseteq Known
  BY <1>1 DEF Routed
<1>3. /\ QuotesSound /\ RowTypeOK /\ PubTypeOK
      /\ topic["order"] \in Seq(Events) /\ feed["order"] \in Seq(Events) /\ feed["trade"] \in Seq(Events)
  BY PubTypes DEF PubBase
<1>4. c \in Seq(Events) /\ In(c) = {h}
  BY <1>1 DEF Routed
<1>5. \A s \in Seq(Events) : s \o c \in Seq(Events) /\ In(s \o c) = In(s) \cup {h}
  <2> SUFFICES ASSUME NEW s \in Seq(Events)
               PROVE  s \o c \in Seq(Events) /\ In(s \o c) = In(s) \cup {h}
    OBVIOUS
  <2>1. s \o c \in Seq(Events) /\ In(s \o c) = In(s) \cup In(c)
    BY <1>4, InConcat
  <2>. QED  BY <1>4, <2>1
<1>6. feed' \in [{"order", "trade"} -> Seq(Events)]
  BY <1>2, <1>3, <1>5
<1>7. RowTypeOK'
  BY <1>2, <1>3 DEF RowTypeOK, StreamTypeOK, hvars
<1>8. PubTypeOK'
  <2>1. Known' = Known
    BY DEF vars, Known
  <2>. QED  BY <1>2, <1>3, <1>6, <1>7, <2>1 DEF PubTypeOK
<1>9. \A e \in In(topic'["order"]) : QuoteSound(e) /\ e.cat = "order"
  BY <1>2, <1>3, <1>5 DEF QuotesSound
<1>10. \A e \in In(feed'["order"]) : QuoteSound(e) /\ e.cat = "order"
  BY <1>2, <1>3, <1>5 DEF QuotesSound
<1>11. \A e \in In(feed'["trade"]) : QuoteSound(e) /\ e.cat = "trade"
  BY <1>2, <1>3, <1>5 DEF QuotesSound
<1>. QED  BY <1>2, <1>8, <1>9, <1>10, <1>11, StillBase

\* KafkaFanout.run: what is on its way stays on its way.
LEMMA RouteKeepsShows ==
    ASSUME PubBase, PubShows, NEW copies \in 1 .. MaxCopies, Route(copies), Counts(copies), Feed,
           UNCHANGED <<vars, hvars, level, info, restarts>>
    PROVE  PubShows'
<1>1. PICK h, c, fo, ft : Routed(h, c) /\ fo = feed["order"] /\ ft = feed["trade"]
  BY RouteTells
<1>2. /\ h \in Events /\ h = Head(stream) /\ QuoteSound(h) /\ stream # << >>
      /\ stream' = Tail(stream) /\ stream' \in Seq(Events)
      /\ In(stream) = {h} \cup In(stream')
      /\ c \in Seq(Events) /\ In(c) = {h} /\ (h.order \notin repeated' => c = <<h>>)
      /\ repeated \subseteq repeated'
      /\ feed' = [k \in {"order", "trade"} |-> IF h.cat = k THEN feed[k] \o c ELSE feed[k]]
  BY <1>1 DEF Routed
<1>3. /\ stream \in Seq(Events) /\ fo \in Seq(Events) /\ ft \in Seq(Events)
  BY <1>1, PubTypes
<1>4. /\ feed'["order"] = (IF h.cat = "order" THEN fo \o c ELSE fo)
      /\ feed'["trade"] = (IF h.cat = "trade" THEN ft \o c ELSE ft)
  BY <1>1, <1>2
<1>5. /\ order' = order /\ exec' = exec /\ store' = store /\ taker' = taker
      /\ level' = level /\ info' = info /\ restarts' = restarts
  BY DEF vars
<1>6. In(fo \o c) = In(fo) \cup {h}
  <2>1. c \in Seq(Events) /\ fo \in Seq(Events) /\ In(c) = {h}
    BY <1>2, <1>3
  <2>2. fo \o c \in Seq(Events) /\ In(fo \o c) = In(fo) \cup In(c)
    BY <2>1, InConcat, Zenon
  <2>. QED  BY <2>1, <2>2
<1>7. \A e : Begins(e) => (e \in Unquoted' <=> e \in Unquoted)
  BY <1>1, <1>2, <1>4, <1>6 DEF Unquoted, Begins
<1>8. PlacedOnce'
  <2> SUFFICES ASSUME NEW o \in OrderIds \ repeated'
               PROVE  Through(feed'["order"], stream', Placings(o), Shown(o), Placed(o))
    BY <1>5 DEF PlacedOnce, Shown, Placed, Known
  <2>1. Through(fo, stream, Placings(o), Shown(o), Placed(o))
    BY <1>1, <1>2 DEF PubShows, PlacedOnce
  <2>2. Placings(o) \in [Events -> Nat] /\ (h.cat # "order" \/ h.order # o => Placings(o)[h] = 0)
    BY <1>2, QuoteWeights DEF Begins
  <2>3. /\ Through(fo \o <<h>>, stream', Placings(o), Shown(o), Placed(o))
        /\ Placings(o)[h] = 0 => Through(fo, stream', Placings(o), Shown(o), Placed(o))
    BY <1>1, <1>2, <1>3, <2>1, <2>2, ThroughRoute
  <2>4. Placings(o)[h] = 0 => Through(fo \o c, stream', Placings(o), Shown(o), Placed(o))
    BY <1>1, <1>2, <1>3, <2>1, <2>2, ThroughCopies
  <2>5. Through(fo \o c, stream', Placings(o), Shown(o), Placed(o))
    <3>1. CASE h.order # o
      BY <2>2, <2>4, <3>1
    <3>2. CASE h.order = o
      BY <1>2, <2>3, <3>2
    <3>. QED  BY <3>1, <3>2
  <2>. QED  BY <1>4, <2>2, <2>3, <2>5
<1>9. ASSUME NEW o, o \notin repeated', NEW a, Due(o, a) PROVE Due(o, a)'
  <2>1. Through(ft, stream, Makings(o), a, exec[o])
    BY <1>1, <1>9 DEF Due
  <2>2. Makings(o) \in [Events -> Nat] /\ (h.cat # "trade" \/ h.order # o => Makings(o)[h] = 0)
    BY <1>2, QuoteWeights DEF IsMaker
  <2>3. /\ Through(ft \o <<h>>, stream', Makings(o), a, exec[o])
        /\ Makings(o)[h] = 0 => Through(ft, stream', Makings(o), a, exec[o])
    BY <1>1, <1>2, <1>3, <2>1, <2>2, ThroughRoute
  <2>4. Makings(o)[h] = 0 => Through(ft \o c, stream', Makings(o), a, exec[o])
    BY <1>1, <1>2, <1>3, <2>1, <2>2, ThroughCopies
  <2>5. Through(ft \o c, stream', Makings(o), a, exec[o])
    <3>1. CASE h.order # o
      BY <2>2, <2>4, <3>1
    <3>2. CASE h.order = o
      BY <1>2, <1>9, <2>3, <3>2
    <3>. QED  BY <3>1, <3>2
  <2>6. Through(feed'["trade"], stream', Makings(o), a, exec[o])
    BY <1>4, <2>2, <2>3, <2>5
  <2>. QED  BY <1>5, <2>6 DEF Due
<1>10. FillsDue'
  <2>1. \A e \in Unquoted' : Begins(e) /\ e.order \notin repeated' => Due(e.order, e.qty)'
    BY <1>2, <1>7, <1>9 DEF PubShows, FillsDue
  <2>2. \A o \in DOMAIN info \ repeated' : info[o] <= order[o].qty /\ Due(o, order[o].qty - info[o])'
    <3>1. ASSUME NEW o \in DOMAIN info \ repeated', NEW a, a = order[o].qty - info[o]
          PROVE  info[o] <= order[o].qty /\ Due(o, a)'
      <4>1. info[o] <= order[o].qty /\ Due(o, a)
        BY <1>2, <3>1 DEF PubShows, FillsDue
      <4>. QED  BY <1>9, <4>1
    <3>. QED  BY <1>5, <3>1 DEF Due
  <2>. QED  BY <1>5, <2>1, <2>2 DEF FillsDue, Begins
<1>11. QuotesComing'
  BY <1>2, <1>5, <1>7 DEF PubShows, QuotesComing, Begins
<1>12. LevelsMatchOrders'
  <2>1. \A s, p : SentOnce(s, p)' => SentOnce(s, p)
    BY <1>2, <1>5 DEF SentOnce, QuotesOf
  <2>2. \A s, p : QuotesOf(DOMAIN info, s, p)' = QuotesOf(DOMAIN info, s, p)
    BY <1>5 DEF QuotesOf
  <2>. QED  BY <1>5, <2>1, <2>2 DEF PubShows, LevelsMatchOrders
<1>. QED  BY <1>8, <1>10, <1>11, <1>12 DEF PubShows

\* The fanout ends and nothing moves.
LEMMA FailTells ==
    ASSUME PubBase, FanoutFails, Feed
    PROVE  feed' = feed /\ stream' = stream /\ topic' = topic /\ cmd' = cmd /\ fanout' = "failed"
<1>1. /\ topic \in [Followed -> Seq(Events)]
      /\ feed \in [{"order", "trade"} -> Seq(Events)]
  BY PubTypes
<1>2. stream' = stream /\ topic' = topic /\ cmd' = cmd /\ fanout' = "failed"
  BY DEF FanoutFails
<1>3. ASSUME NEW c \in {"order", "trade"}
      PROVE  feed[c] \o SubSeq(topic[c], Len(topic[c]) + 1, Len(topic[c])) = feed[c]
  <2>1. c \in Followed
    BY <1>3, PublisherAssumption
  <2>2. feed[c] \in Seq(Events) /\ topic[c] \in Seq(Events) /\ Len(topic[c]) \in Nat
    BY <1>1, <2>1
  <2>3. SubSeq(topic[c], Len(topic[c]) + 1, Len(topic[c])) = << >>
    <3>1. PICK n \in Nat : n = Len(topic[c])
      BY <2>2
    <3>2. n + 1 \in Int /\ n \in Int /\ n < n + 1
      BY <3>1
    <3>3. SubSeq(topic[c], n + 1, n) = << >>
      BY <3>2, SubSeqEmpty
    <3>. QED  BY <3>1, <3>3
  <2>4. feed[c] \o << >> = feed[c]
    BY <2>2
  <2>. QED  BY <2>3, <2>4
<1>4. feed' = [c \in {"order", "trade"} |-> feed[c]]
  BY <1>1, <1>2, <1>3 DEF Feed
<1>. QED  BY <1>1, <1>2, <1>4

\* OrderEventHandler.handle_event: a row keeps its type.
LEMMA ApplyTyped ==
    ASSUME row \in [OrderIds -> [status : Statuses, executed : Nat]], NEW e \in Events,
           e.type \in {"placed", "filled", "cancelled"}
    PROVE  Apply(e) \in [OrderIds -> [status : Statuses, executed : Nat]]
<1>1. e.order \in OrderIds /\ e.qty \in Nat
  BY QuoteWeights
<1>2. row[e.order] \in [status : Statuses, executed : Nat]
  BY <1>1
<1>3. /\ [row[e.order] EXCEPT !.status = "placed"] \in [status : Statuses, executed : Nat]
      /\ [status |-> "filled", executed |-> e.qty] \in [status : Statuses, executed : Nat]
      /\ [row[e.order] EXCEPT !.status = "cancelled"] \in [status : Statuses, executed : Nat]
  BY <1>1, <1>2 DEF Statuses
<1>4. PICK x \in [status : Statuses, executed : Nat] :
          x = CASE e.type = "placed"    -> [row[e.order] EXCEPT !.status = "placed"]
                [] e.type = "filled"    -> [status |-> "filled", executed |-> e.qty]
                [] e.type = "cancelled" -> [row[e.order] EXCEPT !.status = "cancelled"]
  <2>1. CASE e.type = "placed"
    BY <1>3, <2>1
  <2>2. CASE e.type = "filled"
    BY <1>3, <2>2
  <2>3. CASE e.type = "cancelled"
    BY <1>3, <2>3
  <2>. QED  BY <2>1, <2>2, <2>3
<1>5. Apply(e) = [row EXCEPT ![e.order] = x]
  BY <1>4 DEF Apply
<1>. QED  BY <1>1, <1>4, <1>5

\* The handler of the rows reads its own topic.
LEMMA HandlerKeepsBase ==
    ASSUME PubBase, HandlerStep, UNCHANGED pvars
    PROVE  PubBase'
<1>1. PICK e, q : e = Head(topic["order"]) /\ q = topic["order"]
  OBVIOUS
<1>2. /\ RowTypeOK /\ PubTypeOK /\ QuotesSound /\ topic \in [Followed -> Seq(Events)] /\ q \in Seq(Events)
      /\ row \in [OrderIds -> [status : Statuses, executed : Nat]]
      /\ seen \subseteq Nat \X OrderIds \X Statuses /\ lost \subseteq OrderIds
  BY <1>1, PubTypes DEF PubBase, RowTypeOK
<1>3. Consume("order")
  BY DEF HandlerStep, HandleOrderEvent, PartialFillRaises, DatabaseRaises, DropDuplicate
<1>4. /\ q # << >> /\ topic' = [topic EXCEPT !["order"] = Tail(q)]
      /\ stream' = stream /\ cmd' = cmd /\ fanout' = fanout /\ vars' = vars
  BY <1>1, <1>3 DEF Consume
<1>5. /\ e \in Events /\ Tail(q) \in Seq(Events) /\ In(q) = {e} \cup In(Tail(q))
  BY <1>1, <1>2, <1>4, InTail
<1>6. topic'["order"] = Tail(q) /\ topic' \in [Followed -> Seq(Events)]
  BY <1>2, <1>4, <1>5, RowsAssumption
<1>7. /\ e.cat = "order" /\ QuoteSound(e)
  BY <1>1, <1>2, <1>5 DEF QuotesSound
<1>8. /\ e.type \in {"placed", "partially_filled", "filled", "cancelled"}
      /\ e.cmd \in Nat /\ e.order \in OrderIds
  BY <1>5, <1>7, QuoteWeights DEF QuoteSound, EventSound
<1>9. /\ row' \in [OrderIds -> [status : Statuses, executed : Nat]]
      /\ seen' \subseteq Nat \X OrderIds \X Statuses /\ lost' \subseteq OrderIds
  <2>1. CASE HandleOrderEvent
    <3>1. /\ lost' = lost /\ row' = Apply(e) /\ seen' = seen \cup {Key(e)} /\ e.type # "partially_filled"
      BY <1>1, <2>1 DEF HandleOrderEvent
    <3>2. Key(e) \in Nat \X OrderIds \X Statuses
      BY <1>8 DEF Key, Statuses
    <3>3. e.type \in {"placed", "filled", "cancelled"}
      BY <1>8, <3>1
    <3>4. row' \in [OrderIds -> [status : Statuses, executed : Nat]]
      BY <1>2, <1>5, <3>1, <3>3, ApplyTyped
    <3>. QED  BY <1>2, <3>1, <3>2, <3>4
  <2>2. CASE PartialFillRaises \/ DropDuplicate
    BY <1>2, <2>2 DEF PartialFillRaises, DropDuplicate, hvars
  <2>3. CASE DatabaseRaises
    BY <1>1, <1>2, <1>8, <2>3 DEF DatabaseRaises
  <2>. QED  BY <2>1, <2>2, <2>3 DEF HandlerStep
<1>10. RowTypeOK'
  BY <1>2, <1>4, <1>6, <1>9 DEF RowTypeOK, StreamTypeOK
<1>11. /\ feed' = feed /\ level' = level /\ info' = info /\ restarts' = restarts
       /\ repeated' = repeated
       /\ Known' = Known
  BY <1>4 DEF pvars, vars, Known
<1>12. PubTypeOK'
  BY <1>2, <1>10, <1>11 DEF PubTypeOK
<1>13. /\ \A f \in In(topic'["order"]) \cup In(feed'["order"]) : QuoteSound(f) /\ f.cat = "order"
       /\ \A f \in In(feed'["trade"]) : QuoteSound(f) /\ f.cat = "trade"
  BY <1>1, <1>2, <1>5, <1>6, <1>11 DEF QuotesSound
<1>. QED  BY <1>4, <1>12, <1>13, StillBase

-----------------------------------------------------------------------------
(***************************************************************************)
(* The publisher reads an event.                                           *)
(***************************************************************************)

\* The levels are k where they were level, and n at one of them.
OneLevel(k, t, x, n) ==
    /\ k \in [Sides -> [Prices -> Nat]]
    /\ \A s \in Sides, p \in Prices : k[s][p] = IF t = s /\ x = p THEN n ELSE level[s][p]

\* The levels after an order was added to them or taken from them.
LEMMA LevelChanges ==
    ASSUME PubBase, NEW o \in Known, NEW q \in Nat
    PROVE  /\ IncrementLevel(o, q) \in [Sides -> [Prices -> Nat]]
           /\ DecrementLevel(o, q) \in [Sides -> [Prices -> Nat]]
           /\ \A s \in Sides, p \in Prices :
                 /\ level[s][p] \in Nat
                 /\ IncrementLevel(o, q)[s][p] =
                       IF order[o].side = s /\ order[o].price = p THEN level[s][p] + q ELSE level[s][p]
                 /\ DecrementLevel(o, q)[s][p] =
                       IF order[o].side = s /\ order[o].price = p
                       THEN IF level[s][p] > q THEN level[s][p] - q ELSE 0
                       ELSE level[s][p]
<1>1. level \in [Sides -> [Prices -> Nat]] /\ IInv
  BY PubTypes
<1>2. PICK t, x : t = order[o].side /\ x = order[o].price
  OBVIOUS
<1>3. t \in Sides /\ x \in Prices
  BY <1>1, <1>2, KnownOrders DEF IInv
<1>4. \A s \in Sides : level[s] \in [Prices -> Nat] /\ \A p \in Prices : level[s][p] \in Nat
  BY <1>1
<1>5. PICK l : l = level[t]
  OBVIOUS
<1>6. l \in [Prices -> Nat] /\ l[x] \in Nat
  BY <1>3, <1>4, <1>5
<1>7. ASSUME NEW n \in Nat, NEW k, k = [level EXCEPT ![t][x] = n]
      PROVE  OneLevel(k, t, x, n)
  <2>1. k = [level EXCEPT ![t] = [l EXCEPT ![x] = n]]
    BY <1>5, <1>7
  <2>2. PICK m : m = [l EXCEPT ![x] = n]
    OBVIOUS
  <2>3. m \in [Prices -> Nat] /\ \A p \in Prices : m[p] = IF x = p THEN n ELSE l[p]
    BY <1>3, <1>6, <2>2
  <2>4. k \in [Sides -> [Prices -> Nat]] /\ \A s \in Sides : k[s] = IF t = s THEN m ELSE level[s]
    BY <1>1, <1>3, <2>1, <2>2, <2>3
  <2>5. ASSUME NEW s \in Sides, NEW p \in Prices
        PROVE  k[s][p] = IF t = s /\ x = p THEN n ELSE level[s][p]
    <3>1. CASE t = s
      BY <1>5, <2>3, <2>4, <3>1
    <3>2. CASE t # s
      BY <2>4, <3>2
    <3>. QED  BY <3>1, <3>2
  <2>. QED  BY <2>4, <2>5 DEF OneLevel
<1>8. level[t][x] + q \in Nat /\ (IF level[t][x] > q THEN level[t][x] - q ELSE 0) \in Nat
  BY <1>5, <1>6
<1>9. PICK a, b \in Nat : a = level[t][x] + q /\ b = IF level[t][x] > q THEN level[t][x] - q ELSE 0
  BY <1>8
<1>10. /\ IncrementLevel(o, q) = [level EXCEPT ![t][x] = a]
       /\ DecrementLevel(o, q) = [level EXCEPT ![t][x] = b]
  BY <1>2, <1>9 DEF IncrementLevel, DecrementLevel
<1>11. PICK i, d : i = IncrementLevel(o, q) /\ d = DecrementLevel(o, q)
  OBVIOUS
<1>12. a \in Nat /\ b \in Nat /\ i = [level EXCEPT ![t][x] = a] /\ d = [level EXCEPT ![t][x] = b]
  BY <1>10, <1>11
<1>13. OneLevel(i, t, x, a) /\ OneLevel(d, t, x, b)
  BY <1>7, <1>12
<1>. QED  BY <1>2, <1>4, <1>9, <1>11, <1>13 DEF OneLevel

\* What is left of the orders at a price.
LEMMA QuotesNat ==
    ASSUME NEW D, IsFiniteSet(D), NEW f, \A x \in D : f[x] \in Nat, NEW s, NEW p
    PROVE  /\ SumOver(QuotesOf(D, s, p), f) \in Nat
           /\ Summand(QuotesOf(D, s, p), f) /\ QuotesOf(D, s, p) \subseteq D
<1>1. PICK S : S = QuotesOf(D, s, p)
  OBVIOUS
<1>2. S \subseteq D /\ IsFiniteSet(S)
  BY <1>1, FS_Subset DEF QuotesOf
<1>3. Summand(S, f) /\ Summand({}, f) /\ {} \in SUBSET S /\ \A x \in S : f[x] >= 0
  BY <1>2, FS_EmptySet DEF Summand
<1>4. SumOver(S, f) \in Int /\ SumOver({}, f) = 0
  BY <1>3, SumUnfolds
<1>5. SumOver({}, f) <= SumOver(S, f)
  BY <1>3, SumMonotone
<1>. QED  BY <1>1, <1>2, <1>3, <1>4, <1>5

\* The order o adds to what is left of the orders of D at its price.
AddsQuote(D, o, s, p, f, g) ==
    SumOver(QuotesOf(D \cup {o}, s, p), g) =
        SumOver(QuotesOf(D, s, p), f)
            + (IF order[o].side = s /\ order[o].price = p THEN g[o] ELSE 0)

\* What is left of the orders at a price, with one order more.
LEMMA QuotesAdded ==
    ASSUME NEW D, IsFiniteSet(D), NEW f, NEW g, NEW o, o \notin D,
           \A x \in D : f[x] \in Nat /\ g[x] = f[x], g[o] \in Nat, NEW s, NEW p
    PROVE  AddsQuote(D, o, s, p, f, g)
<1>1. PICK S : S = QuotesOf(D, s, p)
  OBVIOUS
<1>2. SumOver(S, f) \in Nat /\ Summand(S, f) /\ S \subseteq D
  BY <1>1, QuotesNat
<1>3. IsFiniteSet(S) /\ o \notin S
  BY <1>2 DEF Summand
<1>4. SumOver(S, g) = SumOver(S, f)
  BY <1>2, SumCongruent
<1>5. CASE order[o].side = s /\ order[o].price = p
  <2>1. QuotesOf(D \cup {o}, s, p) = S \cup {o} /\ (S \cup {o}) \ {o} = S
    BY <1>1, <1>2, <1>3, <1>5 DEF QuotesOf
  <2>2. Summand(S \cup {o}, g)
    BY <1>2, <1>3, FS_AddElement DEF Summand
  <2>3. PICK T : T = S \cup {o}
    OBVIOUS
  <2>4. SumOver(T, g) = g[o] + SumOver(T \ {o}, g)
    BY <2>2, <2>3, SumByElement
  <2>5. SumOver(T, g) = g[o] + SumOver(S, f)
    BY <1>4, <2>1, <2>3, <2>4
  <2>6. SumOver(T, g) = SumOver(S, f) + g[o]
    BY <1>2, <2>5
  <2>. QED  BY <1>1, <1>5, <2>1, <2>3, <2>6 DEF AddsQuote
<1>6. CASE ~(order[o].side = s /\ order[o].price = p)
  <2>1. QuotesOf(D \cup {o}, s, p) = S
    BY <1>1, <1>6 DEF QuotesOf
  <2>. QED  BY <1>1, <1>2, <1>4, <1>6, <2>1 DEF AddsQuote
<1>. QED  BY <1>5, <1>6

\* The same when less is left of one order.
LEMMA QuotesReduced ==
    ASSUME NEW D, IsFiniteSet(D), NEW f, NEW g, NEW o \in D,
           \A x \in D : f[x] \in Nat /\ g[x] \in Nat,
           \A x \in D : x # o => g[x] = f[x], NEW s, NEW p
    PROVE  SumOver(QuotesOf(D, s, p), g) =
               SumOver(QuotesOf(D, s, p), f)
                   + (IF order[o].side = s /\ order[o].price = p THEN g[o] - f[o] ELSE 0)
<1>1. PICK S : S = QuotesOf(D, s, p)
  OBVIOUS
<1>2. SumOver(S, f) \in Nat /\ SumOver(S, g) \in Nat /\ Summand(S, f) /\ Summand(S, g) /\ S \subseteq D
  BY <1>1, QuotesNat
<1>3. CASE order[o].side = s /\ order[o].price = p
  <2>1. o \in S
    BY <1>1, <1>3 DEF QuotesOf
  <2>2. SumOver(S, g) = SumOver(S, f) + (g[o] - f[o])
    BY <1>2, <2>1, SumOneChanges
  <2>. QED  BY <1>1, <1>2, <1>3, <2>2
<1>4. CASE ~(order[o].side = s /\ order[o].price = p)
  <2>1. \A x \in S : g[x] = f[x]
    BY <1>1, <1>2, <1>4 DEF QuotesOf
  <2>2. SumOver(S, g) = SumOver(S, f)
    BY <1>2, <2>1, SumCongruent
  <2>. QED  BY <1>1, <1>2, <1>4, <2>2
<1>. QED  BY <1>3, <1>4

\* The active orders are finitely many.
LEMMA ActiveFinite ==
    ASSUME PubBase
    PROVE  IsFiniteSet(DOMAIN info) /\ IsFiniteSet(Known)
<1>1. IInv /\ \A o \in DOMAIN info : o \in Known
  BY PubTypes
<1>2. Known = 1 .. Len(order) /\ Len(order) \in Nat
  BY <1>1, KnownOrders DEF IInv
<1>3. IsFiniteSet(Known)
  BY <1>2, FS_Interval
<1>. QED  BY <1>1, <1>3, FS_Subset

\* _handle_order_placed: the level of a new order grows by what is left of it.
LEMMA LevelPlaced ==
    ASSUME PubBase, LevelsMatchOrders, NEW o \in Known, NEW q \in Nat, o \notin DOMAIN info,
           order' = order, restarts' = restarts, repeated' = repeated,
           level' = IncrementLevel(o, q), info' = SetInfo(o, q)
    PROVE  LevelsMatchOrders'
<1> SUFFICES ASSUME NEW s \in Sides, NEW p \in Prices, restarts = 0, SentOnce(s, p)
             PROVE  level'[s][p] = SumOver(QuotesOf(DOMAIN info', s, p), info')
  BY DEF LevelsMatchOrders, QuotesOf, SentOnce
<1>1. IsFiniteSet(DOMAIN info) /\ \A x \in DOMAIN info : info[x] \in Nat
  BY ActiveFinite, PubTypes
<1>2. /\ DOMAIN info' = DOMAIN info \cup {o} /\ info'[o] = q
      /\ \A x \in DOMAIN info : info'[x] = info[x]
  BY DEF SetInfo
<1>3. level[s][p] = SumOver(QuotesOf(DOMAIN info, s, p), info)
  BY DEF LevelsMatchOrders
<1>4. AddsQuote(DOMAIN info, o, s, p, info, info')
  BY <1>1, <1>2, QuotesAdded
<1>5. /\ level[s][p] \in Nat
      /\ level'[s][p] = IF order[o].side = s /\ order[o].price = p THEN level[s][p] + q ELSE level[s][p]
  BY LevelChanges
<1>. QED  BY <1>2, <1>3, <1>4, <1>5 DEF AddsQuote

\* _handle_order_cancelled and the last fill: the level shrinks by what was left.
LEMMA LevelDropped ==
    ASSUME PubBase, LevelsMatchOrders, NEW o \in DOMAIN info,
           order' = order, restarts' = restarts, repeated' = repeated,
           level' = DecrementLevel(o, info[o]), info' = DropInfo(o)
    PROVE  LevelsMatchOrders'
<1> SUFFICES ASSUME NEW s \in Sides, NEW p \in Prices, restarts = 0, SentOnce(s, p)
             PROVE  level'[s][p] = SumOver(QuotesOf(DOMAIN info', s, p), info')
  BY DEF LevelsMatchOrders, QuotesOf, SentOnce
<1>1. IsFiniteSet(DOMAIN info) /\ \A x \in DOMAIN info : x \in Known /\ info[x] \in Nat
  BY ActiveFinite, PubTypes
<1>2. PICK D : D = DOMAIN info'
  OBVIOUS
<1>3. /\ D = DOMAIN info \ {o} /\ DOMAIN info = D \cup {o} /\ o \notin D
      /\ \A x \in D : info'[x] = info[x]
  BY <1>2 DEF DropInfo
<1>4. IsFiniteSet(D)
  BY <1>1, <1>3, FS_Subset
<1>5. level[s][p] = SumOver(QuotesOf(D \cup {o}, s, p), info)
  BY <1>3 DEF LevelsMatchOrders
<1>6. /\ SumOver(QuotesOf(D, s, p), info') \in Nat
      /\ SumOver(QuotesOf(D \cup {o}, s, p), info) =
          SumOver(QuotesOf(D, s, p), info')
              + (IF order[o].side = s /\ order[o].price = p THEN info[o] ELSE 0)
  <2>1. PICK f, g : f = info' /\ g = info
    OBVIOUS
  <2>2. g[o] \in Nat /\ \A x \in D : f[x] \in Nat /\ g[x] = f[x]
    BY <1>1, <1>3, <2>1
  <2>3. IsFiniteSet(D) /\ o \notin D
    BY <1>3, <1>4
  <2>4. AddsQuote(D, o, s, p, f, g)
    BY <2>2, <2>3, QuotesAdded
  <2>5. SumOver(QuotesOf(D, s, p), f) \in Nat
    BY <2>2, <2>3, QuotesNat
  <2>. QED  BY <2>1, <2>4, <2>5 DEF AddsQuote
<1>7. PICK q \in Nat : q = info[o]
  BY <1>1
<1>8. /\ level[s][p] \in Nat
      /\ level'[s][p] = IF order[o].side = s /\ order[o].price = p
                        THEN IF level[s][p] > q THEN level[s][p] - q ELSE 0
                        ELSE level[s][p]
  BY <1>1, <1>7, LevelChanges
<1>. QED  BY <1>2, <1>5, <1>6, <1>7, <1>8

\* _handle_trade: the level shrinks by what was filled.
LEMMA LevelReduced ==
    ASSUME PubBase, LevelsMatchOrders, NEW o \in DOMAIN info, NEW q \in Nat, q < info[o],
           order' = order, restarts' = restarts, repeated' = repeated,
           level' = DecrementLevel(o, q), info' = SetInfo(o, info[o] - q)
    PROVE  LevelsMatchOrders'
<1> SUFFICES ASSUME NEW s \in Sides, NEW p \in Prices, restarts = 0, SentOnce(s, p)
             PROVE  level'[s][p] = SumOver(QuotesOf(DOMAIN info', s, p), info')
  BY DEF LevelsMatchOrders, QuotesOf, SentOnce
<1>1. IsFiniteSet(DOMAIN info) /\ \A x \in DOMAIN info : x \in Known /\ info[x] \in Nat
  BY ActiveFinite, PubTypes
<1>2. PICK D : D = DOMAIN info
  OBVIOUS
<1>3. /\ DOMAIN info' = D /\ info'[o] = info[o] - q /\ \A x \in D : x # o => info'[x] = info[x]
  BY <1>2 DEF SetInfo
<1>4. \A x \in D : info[x] \in Nat /\ info'[x] \in Nat
  BY <1>1, <1>2, <1>3
<1>5. level[s][p] = SumOver(QuotesOf(D, s, p), info)
  BY <1>2 DEF LevelsMatchOrders
<1>6. /\ SumOver(QuotesOf(D, s, p), info') \in Nat
      /\ SumOver(QuotesOf(D, s, p), info') =
          SumOver(QuotesOf(D, s, p), info)
              + (IF order[o].side = s /\ order[o].price = p THEN info'[o] - info[o] ELSE 0)
  BY <1>1, <1>2, <1>3, <1>4, QuotesReduced, QuotesNat
<1>7. /\ level[s][p] \in Nat
      /\ level'[s][p] = IF order[o].side = s /\ order[o].price = p
                        THEN IF level[s][p] > q THEN level[s][p] - q ELSE 0
                        ELSE level[s][p]
  BY <1>1, LevelChanges
<1>8. info[o] \in Nat /\ info'[o] - info[o] = 0 - q
  BY <1>1, <1>3
<1>. QED  BY <1>3, <1>5, <1>6, <1>7, <1>8

\* The publisher takes the event e from its feed c.
Taking(c, e) ==
    /\ e = Head(feed[c]) /\ feed[c] # << >>
    /\ e \in Events /\ QuoteSound(e) /\ e.cat = c
    /\ feed'[c] = Tail(feed[c]) /\ feed'[c] \in Seq(Events)
    /\ In(feed[c]) = {e} \cup In(feed'[c])
    /\ \A d \in {"order", "trade"} : d # c => feed'[d] = feed[d]
    /\ vars' = vars /\ UNCHANGED <<stream, hvars, cmd, topic, fanout, restarts, repeated>>

\* _consume_loop: what a message is and what is left to read.
LEMMA ReadTells ==
    ASSUME PubBase, NEW c \in {"order", "trade"}, Read(c), UNCHANGED rvars
    PROVE  Taking(c, Head(feed[c])) /\ feed' \in [{"order", "trade"} -> Seq(Events)]
<1>1. QuotesSound /\ feed \in [{"order", "trade"} -> Seq(Events)]
  BY PubTypes
<1>2. PICK s : s = feed[c]
  OBVIOUS
<1>3. /\ s # << >> /\ feed' = [feed EXCEPT ![c] = Tail(s)] /\ UNCHANGED <<restarts, repeated>>
  BY <1>2 DEF Read
<1>4. /\ s \in Seq(Events) /\ Head(s) \in Events /\ Tail(s) \in Seq(Events)
      /\ In(s) = {Head(s)} \cup In(Tail(s))
  BY <1>1, <1>2, <1>3, InTail
<1>5. QuoteSound(Head(s)) /\ Head(s).cat = c
  BY <1>1, <1>2, <1>4 DEF QuotesSound
<1>6. /\ feed'[c] = Tail(s) /\ \A d \in {"order", "trade"} : d # c => feed'[d] = feed[d]
      /\ feed' \in [{"order", "trade"} -> Seq(Events)]
  BY <1>1, <1>3, <1>4
<1>7. vars' = vars /\ UNCHANGED <<stream, hvars, cmd, topic, fanout>>
  BY DEF rvars, evars, svars
<1>. QED  BY <1>2, <1>3, <1>4, <1>5, <1>6, <1>7 DEF Taking

\* _consume_loop: nothing but the feed, the levels and the active orders.
LEMMA ReadKeepsBase ==
    ASSUME PubBase, NEW c \in {"order", "trade"}, Read(c), UNCHANGED rvars,
           level' \in [Sides -> [Prices -> Nat]],
           \A o \in DOMAIN info' : o \in Known /\ info'[o] \in Nat \ {0}
    PROVE  PubBase'
<1>1. PICK e : Taking(c, e)
  BY ReadTells
<1>2. feed' \in [{"order", "trade"} -> Seq(Events)]
  BY ReadTells
<1>3. /\ vars' = vars /\ UNCHANGED <<stream, hvars, cmd, topic, fanout, restarts, repeated>>
      /\ In(feed[c]) = {e} \cup In(feed'[c])
      /\ \A d \in {"order", "trade"} : d # c => feed'[d] = feed[d]
  BY <1>1 DEF Taking
<1>4. RowTypeOK /\ PubTypeOK /\ QuotesSound
  BY PubTypes DEF PubBase
<1>5. RowTypeOK' /\ Known' = Known
  BY <1>3, <1>4 DEF RowTypeOK, StreamTypeOK, vars, hvars, Known
<1>6. PubTypeOK'
  BY <1>2, <1>3, <1>4, <1>5 DEF PubTypeOK
<1>7. In(feed'["order"]) \subseteq In(feed["order"]) /\ In(feed'["trade"]) \subseteq In(feed["trade"])
  BY <1>3
<1>8. /\ \A f \in In(topic'["order"]) \cup In(feed'["order"]) : QuoteSound(f) /\ f.cat = "order"
      /\ \A f \in In(feed'["trade"]) : QuoteSound(f) /\ f.cat = "trade"
  BY <1>3, <1>4, <1>7 DEF QuotesSound
<1>. QED  BY <1>3, <1>6, <1>8, StillBase

\* An order event is read: the other events are where they were.
LEMMA OrderEventRead ==
    ASSUME PubBase, PubShows, NEW e, Taking("order", e)
    PROVE  /\ \A o, a : Due(o, a) => Due(o, a)'
           /\ Unquoted' \subseteq Unquoted /\ e \in Unquoted
           /\ \A f \in Unquoted : f = e \/ f \in Unquoted'
           /\ \A o \in OrderIds \ repeated :
                 LET a == Shown(o) + (IF Begins(e) /\ e.order = o THEN 1 ELSE 0) IN
                 /\ a \in Nat /\ a <= Placed(o)
                 /\ \A a2 \in Nat : a2 <= a =>
                       Through(feed'["order"], stream', Placings(o), a2, Placed(o)')
<1>1. /\ order' = order /\ exec' = exec /\ taker' = taker /\ stream' = stream
      /\ feed'["trade"] = feed["trade"] /\ feed'["order"] = Tail(feed["order"])
      /\ e = Head(feed["order"]) /\ feed["order"] # << >> /\ e \in Events
      /\ In(feed["order"]) = {e} \cup In(feed'["order"])
      /\ feed'["order"] \in Seq(Events)
  BY DEF Taking, vars
<1>2. stream \in Seq(Events) /\ feed["order"] \in Seq(Events)
  BY PubTypes
<1>3. \A o, a : Due(o, a) => Due(o, a)'
  BY <1>1 DEF Due
<1>4. /\ Unquoted' \subseteq Unquoted /\ e \in Unquoted /\ \A f \in Unquoted : f = e \/ f \in Unquoted'
  BY <1>1 DEF Unquoted
<1>5. ASSUME NEW o \in OrderIds \ repeated, NEW a, a = Shown(o) + (IF Begins(e) /\ e.order = o THEN 1 ELSE 0)
      PROVE  /\ a \in Nat /\ a <= Placed(o)
             /\ \A a2 \in Nat : a2 <= a =>
                   Through(feed'["order"], stream', Placings(o), a2, Placed(o)')
  <2>1. PICK f, s, d : f = Placings(o) /\ s = feed["order"] /\ d = Placed(o)
    OBVIOUS
  <2>2. Through(s, stream, f, Shown(o), d)
    BY <2>1 DEF PubShows, PlacedOnce
  <2>3. f \in [Events -> Nat] /\ f[e] = IF Begins(e) /\ e.order = o THEN 1 ELSE 0
    BY <1>1, <2>1, QuoteWeights
  <2>4. Shown(o) + f[Head(s)] \in Nat /\ Through(Tail(s), stream, f, Shown(o) + f[Head(s)], d)
    BY <1>1, <1>2, <2>1, <2>2, <2>3, ThroughRead
  <2>5. a \in Nat /\ Through(feed'["order"], stream, f, a, d)
    BY <1>1, <1>5, <2>1, <2>3, <2>4
  <2>6. /\ d \in Nat /\ a <= d
        /\ \A a2 \in Nat, d2 \in Nat : a2 <= a /\ d <= d2 => Through(feed'["order"], stream, f, a2, d2)
    BY <1>1, <1>2, <2>3, <2>5, ThroughBounds
  <2>7. \A a2 \in Nat : a2 <= a => Through(feed'["order"], stream, f, a2, d)
    BY <2>6
  <2>8. Placed(o)' = d
    BY <1>1, <2>1 DEF Placed, Known
  <2>. QED  BY <1>1, <2>1, <2>5, <2>6, <2>7, <2>8
<1>. QED  BY <1>3, <1>4, <1>5

\* A trade event is read: it was due.
LEMMA TradeEventRead ==
    ASSUME PubBase, PubShows, NEW e, Taking("trade", e), NEW o \in Known, NEW a, Due(o, a)
    PROVE  /\ a \in Nat /\ exec[o] \in Nat /\ a <= exec[o] /\ Due(o, a)'
           /\ e.type = "maker" /\ e.order = o => a + e.qty <= exec[o] /\ Due(o, a + e.qty)'
<1>1. /\ exec' = exec /\ stream' = stream /\ feed'["trade"] = Tail(feed["trade"])
      /\ e = Head(feed["trade"]) /\ feed["trade"] # << >> /\ e \in Events /\ e.cat = "trade"
      /\ feed'["trade"] \in Seq(Events)
  BY DEF Taking, vars
<1>2. PICK s, f, d : s = feed["trade"] /\ f = Makings(o) /\ d = exec[o]
  OBVIOUS
<1>3. stream \in Seq(Events) /\ s \in Seq(Events)
  BY <1>2, PubTypes
<1>4. Through(s, stream, f, a, d)
  BY <1>2 DEF Due
<1>5. /\ f \in [Events -> Nat] /\ f[e] = (IF e.type = "maker" /\ e.order = o THEN e.qty ELSE 0)
      /\ e.qty \in Nat
  BY <1>1, <1>2, QuoteWeights DEF IsMaker
<1>6. a \in Nat /\ d \in Nat /\ a <= d
  BY <1>3, <1>4, <1>5, ThroughBounds
<1>7. PICK b : b = a + f[e]
  OBVIOUS
<1>8. b \in Nat /\ Through(feed'["trade"], stream, f, b, d)
  BY <1>1, <1>2, <1>3, <1>4, <1>5, <1>7, ThroughRead
<1>9. /\ b <= d
      /\ \A a2 \in Nat, d2 \in Nat : a2 <= b /\ d <= d2 => Through(feed'["trade"], stream, f, a2, d2)
  BY <1>1, <1>3, <1>5, <1>8, ThroughBounds
<1>10. a <= b /\ d <= d
  BY <1>5, <1>6, <1>7
<1>11. Through(feed'["trade"], stream, f, a, d)
  BY <1>6, <1>9, <1>10
<1>12. Due(o, a)'
  BY <1>1, <1>2, <1>11 DEF Due, Makings, IsMaker
<1>13. ASSUME e.type = "maker", e.order = o PROVE a + e.qty <= exec[o] /\ Due(o, a + e.qty)'
  <2>1. b = a + e.qty
    BY <1>5, <1>7, <1>13
  <2>2. Through(feed'["trade"], stream', Makings(o), a + e.qty, exec'[o])
    BY <1>1, <1>2, <1>8, <2>1
  <2>3. Due(o, a + e.qty)'
    BY <2>2 DEF Due, Makings, IsMaker
  <2>. QED  BY <1>2, <1>9, <2>1, <2>3
<1>. QED  BY <1>2, <1>6, <1>12, <1>13

\* An event of an order with repeated messages is read: nothing but this order and
\* its level changes.
LEMMA RepeatedKeepsShows ==
    ASSUME PubBase, PubShows, NEW c \in {"order", "trade"}, NEW e, Taking(c, e),
           e.order \in repeated,
           \A x : x # e.order =>
               /\ x \in DOMAIN info' <=> x \in DOMAIN info
               /\ x \in DOMAIN info => info'[x] = info[x],
           \A s \in Sides, p \in Prices :
               ~(order[e.order].side = s /\ order[e.order].price = p) => level'[s][p] = level[s][p]
    PROVE  PubShows'
<1>1. /\ order' = order /\ exec' = exec /\ store' = store /\ taker' = taker
      /\ stream' = stream /\ repeated' = repeated /\ restarts' = restarts /\ e \in Events
  BY DEF Taking, vars
<1>2. /\ \A x \in DOMAIN info : x \in Known /\ info[x] \in Nat \ {0}
  BY PubTypes
<1>3. /\ Unquoted' \subseteq Unquoted
      /\ \A f \in Unquoted : f.order # e.order => f \in Unquoted'
  <2>1. CASE c = "order"
    BY <2>1, OrderEventRead
  <2>2. CASE c = "trade"
    BY <2>2 DEF Taking, Unquoted
  <2>. QED  BY <2>1, <2>2
<1>4. ASSUME NEW x \in Known, NEW a, Due(x, a) PROVE Due(x, a)'
  <2>1. CASE c = "order"
    BY <1>4, <2>1, OrderEventRead
  <2>2. CASE c = "trade"
    BY <1>4, <2>2, TradeEventRead
  <2>. QED  BY <2>1, <2>2
<1>5. PlacedOnce'
  <2> SUFFICES ASSUME NEW x \in OrderIds \ repeated
               PROVE  Through(feed'["order"], stream', Placings(x), Shown(x)', Placed(x)')
    BY <1>1 DEF PlacedOnce, Placings, Begins
  <2>1. Shown(x)' = Shown(x) /\ Placed(x)' = Placed(x) /\ Shown(x) \in Nat /\ Shown(x) <= Shown(x)
    BY <1>1 DEF Shown, Placed, Known
  <2>2. CASE c = "order"
    <3>1. PICK a : a = Shown(x) + (IF Begins(e) /\ e.order = x THEN 1 ELSE 0)
      OBVIOUS
    <3>2. a = Shown(x)
      BY <2>1, <3>1
    <3>3. \A a2 \in Nat : a2 <= a => Through(feed'["order"], stream', Placings(x), a2, Placed(x)')
      BY <2>2, <3>1, OrderEventRead
    <3>. QED  BY <2>1, <3>2, <3>3
  <2>3. CASE c = "trade"
    <3>1. feed'["order"] = feed["order"]
      BY <2>3 DEF Taking
    <3>. QED  BY <1>1, <2>1, <3>1 DEF PubShows, PlacedOnce
  <2>. QED  BY <2>2, <2>3
<1>6. FillsDue'
  <2>1. ASSUME NEW x \in DOMAIN info' \ repeated, NEW a, a = order[x].qty - info'[x]
        PROVE  info'[x] <= order[x].qty /\ Due(x, a)'
    <3>1. x \in DOMAIN info /\ info'[x] = info[x] /\ x \in Known
      BY <1>2
    <3>2. info[x] <= order[x].qty /\ Due(x, a)
      BY <2>1, <3>1 DEF PubShows, FillsDue
    <3>. QED  BY <1>4, <3>1, <3>2
  <2>2. \A x \in DOMAIN info' \ repeated' : info'[x] <= order'[x].qty /\ Due(x, order[x].qty - info[x])'
    BY <1>1, <2>1 DEF Due
  <2>3. ASSUME NEW f \in Unquoted, Begins(f), f.order \notin repeated PROVE Due(f.order, f.qty)'
    <3>1. f.order \in Known /\ Due(f.order, f.qty)
      BY <2>3 DEF PubShows, FillsDue, PubBase, QuotesSound, QuoteSound, Unquoted
    <3>. QED  BY <1>4, <3>1
  <2>4. \A f \in Unquoted' : Begins(f)' /\ f.order \notin repeated' => Due(f.order, f.qty)'
    BY <1>1, <1>3, <2>3 DEF Begins
  <2>. QED  BY <2>2, <2>4 DEF FillsDue
<1>7. QuotesComing'
  BY <1>1, <1>3 DEF PubShows, QuotesComing, Begins
<1>8. LevelsMatchOrders'
  <2> SUFFICES ASSUME NEW s \in Sides, NEW p \in Prices, restarts = 0, SentOnce(s, p)
               PROVE  level'[s][p] = SumOver(QuotesOf(DOMAIN info', s, p), info')
    BY <1>1 DEF LevelsMatchOrders, QuotesOf, SentOnce
  <2>1. ~(order[e.order].side = s /\ order[e.order].price = p)
    BY DEF SentOnce, QuotesOf
  <2>2. PICK S : S = QuotesOf(DOMAIN info, s, p)
    OBVIOUS
  <2>3. level'[s][p] = level[s][p] /\ level[s][p] = SumOver(S, info)
    BY <2>1, <2>2 DEF PubShows, LevelsMatchOrders
  <2>4. QuotesOf(DOMAIN info', s, p) = S
    BY <2>1, <2>2 DEF QuotesOf
  <2>5. Summand(S, info) /\ S \subseteq DOMAIN info
    <3>1. IsFiniteSet(DOMAIN info) /\ \A x \in DOMAIN info : info[x] \in Nat
      BY <1>2, ActiveFinite
    <3>. QED  BY <2>2, <3>1, QuotesNat
  <2>6. \A x \in S : info'[x] = info[x]
    BY <2>1, <2>2, <2>5 DEF QuotesOf
  <2>7. SumOver(S, info') = SumOver(S, info)
    BY <2>5, <2>6, SumCongruent
  <2>. QED  BY <2>3, <2>4, <2>7
<1>. QED  BY <1>5, <1>6, <1>7, <1>8 DEF PubShows

\* _handle_order_placed and the types: something is left of the order.
LEMMA PlacedKeepsBase ==
    ASSUME PubBase, HandleOrderPlaced, UNCHANGED rvars
    PROVE  PubBase'
<1>1. PICK e : Taking("order", e)
  BY ReadTells DEF HandleOrderPlaced
<1>2. PICK o, q : o = e.order /\ q = order[o].qty - e.qty
  OBVIOUS
<1>3. Read("order") /\ e.type = "placed" /\ level' = IncrementLevel(o, q) /\ info' = SetInfo(o, q)
  BY <1>1, <1>2 DEF Taking, HandleOrderPlaced
<1>4. /\ o \in Known /\ order[o].qty \in Nat /\ e.qty \in Nat /\ e.qty < order[o].qty
      /\ \A x \in DOMAIN info : x \in Known /\ info[x] \in Nat \ {0}
  <2>1. IInv /\ \A x \in DOMAIN info : x \in Known /\ info[x] \in Nat \ {0}
    BY PubTypes
  <2>2. o \in Known /\ e.qty \in Nat /\ e.qty < order[o].qty
    BY <1>1, <1>2, <1>3, QuoteWeights DEF Taking, QuoteSound, Begins
  <2>. QED  BY <2>1, <2>2, KnownOrders DEF IInv
<1>5. q \in Nat \ {0}
  BY <1>2, <1>4
<1>6. level' \in [Sides -> [Prices -> Nat]]
  BY <1>3, <1>4, <1>5, LevelChanges
<1>7. \A x \in DOMAIN info' : x \in Known /\ info'[x] \in Nat \ {0}
  BY <1>3, <1>4, <1>5 DEF SetInfo
<1>. QED  BY <1>3, <1>6, <1>7, ReadKeepsBase

\* _handle_order_placed: the order was not active, and is now.
LEMMA PlacedKeepsShows ==
    ASSUME PubBase, PubShows, HandleOrderPlaced, UNCHANGED rvars
    PROVE  PubShows'
<1>1. PICK e : Taking("order", e)
  BY ReadTells DEF HandleOrderPlaced
<1>2. PICK o, q : o = e.order /\ q = order[o].qty - e.qty
  OBVIOUS
<1>3. e.type = "placed" /\ level' = IncrementLevel(o, q) /\ info' = SetInfo(o, q)
  BY <1>1, <1>2 DEF Taking, HandleOrderPlaced
<1>4. /\ e \in Events /\ Begins(e) /\ QuoteSound(e)
      /\ order' = order /\ store' = store /\ restarts' = restarts /\ repeated' = repeated
  BY <1>1, <1>3 DEF Taking, Begins, vars
<1>5. /\ o \in Known /\ o \in OrderIds /\ order[o].qty \in Nat /\ e.qty \in Nat /\ e.qty < order[o].qty
  <2>1. IInv
    BY PubTypes
  <2>2. o \in Known /\ e.qty \in Nat /\ e.qty < order[o].qty /\ o \in OrderIds
    BY <1>2, <1>4, QuoteWeights DEF QuoteSound
  <2>. QED  BY <2>1, <2>2, KnownOrders DEF IInv
<1>6. q \in Nat /\ q <= order[o].qty /\ order[o].qty - q = e.qty
  BY <1>2, <1>5
<1> SUFFICES ASSUME o \notin repeated PROVE PubShows'
  <2> SUFFICES ASSUME o \in repeated PROVE PubShows'
    OBVIOUS
  <2>1. \A s \in Sides, p \in Prices :
           ~(order[o].side = s /\ order[o].price = p) => level'[s][p] = level[s][p]
    BY <1>3, <1>5, <1>6, LevelChanges
  <2>2. \A x : x # o => /\ x \in DOMAIN info' <=> x \in DOMAIN info
                        /\ x \in DOMAIN info => info'[x] = info[x]
    BY <1>3 DEF SetInfo
  <2>. QED  BY <1>1, <1>2, <2>1, <2>2, RepeatedKeepsShows
<1>7. /\ \A x, a : Due(x, a) => Due(x, a)'
      /\ Unquoted' \subseteq Unquoted /\ e \in Unquoted
      /\ \A f \in Unquoted : f = e \/ f \in Unquoted'
  BY <1>1, OrderEventRead
<1>8. ASSUME NEW x \in OrderIds \ repeated
      PROVE  LET a == Shown(x) + (IF Begins(e) /\ e.order = x THEN 1 ELSE 0) IN
             /\ a \in Nat /\ a <= Placed(x)
             /\ \A a2 \in Nat : a2 <= a => Through(feed'["order"], stream', Placings(x), a2, Placed(x)')
  BY <1>1, OrderEventRead
<1>9. o \notin DOMAIN info
  <2>1. Shown(o) + 1 <= Placed(o)
    BY <1>2, <1>4, <1>5, <1>8
  <2>. QED  BY <2>1 DEF Shown, Placed
<1>10. /\ DOMAIN info' = DOMAIN info \cup {o} /\ info'[o] = q
       /\ \A x \in DOMAIN info : info'[x] = info[x]
  BY <1>3, <1>9 DEF SetInfo
<1>11. PlacedOnce'
  <2> SUFFICES ASSUME NEW x \in OrderIds \ repeated
               PROVE  Through(feed'["order"], stream', Placings(x), Shown(x)', Placed(x)')
    BY <1>4 DEF PlacedOnce, Placings, Begins
  <2>1. PICK a : a = Shown(x) + (IF Begins(e) /\ e.order = x THEN 1 ELSE 0)
    OBVIOUS
  <2>2. Shown(x)' \in Nat /\ Shown(x)' <= a
    BY <1>2, <1>4, <1>9, <1>10, <2>1 DEF Shown
  <2>3. \A a2 \in Nat : a2 <= a => Through(feed'["order"], stream', Placings(x), a2, Placed(x)')
    BY <1>8, <2>1
  <2>. QED  BY <2>2, <2>3
<1>12. FillsDue'
  <2>1. Due(o, e.qty)
    BY <1>2, <1>4, <1>7 DEF PubShows, FillsDue
  <2>2. Due(o, e.qty)'
    BY <1>7, <2>1
  <2>3. ASSUME NEW x \in DOMAIN info' \ repeated, NEW a, a = order[x].qty - info'[x]
        PROVE  info'[x] <= order[x].qty /\ Due(x, a)'
    <3>1. CASE x = o
      BY <1>6, <1>10, <2>2, <2>3, <3>1
    <3>2. CASE x # o
      <4>1. x \in DOMAIN info /\ info'[x] = info[x]
        BY <1>10, <3>2
      <4>2. info[x] <= order[x].qty /\ Due(x, a)
        BY <2>3, <4>1 DEF PubShows, FillsDue
      <4>. QED  BY <1>7, <4>1, <4>2
    <3>. QED  BY <3>1, <3>2
  <2>4. \A x \in DOMAIN info' \ repeated' : info'[x] <= order'[x].qty /\ Due(x, order[x].qty - info[x])'
    BY <1>4, <2>3 DEF Due
  <2>5. \A f \in Unquoted' : Begins(f)' /\ f.order \notin repeated' => Due(f.order, f.qty)'
    BY <1>4, <1>7 DEF PubShows, FillsDue, Begins
  <2>. QED  BY <2>4, <2>5 DEF FillsDue
<1>13. QuotesComing'
  BY <1>2, <1>4, <1>7, <1>10 DEF PubShows, QuotesComing, Begins
<1>14. LevelsMatchOrders'
  BY <1>3, <1>4, <1>5, <1>6, <1>9, LevelPlaced DEF PubShows
<1>. QED  BY <1>11, <1>12, <1>13, <1>14 DEF PubShows

\* _handle_order_cancelled and the fills: less is active.
LEMMA OtherKeepsBase ==
    ASSUME PubBase, HandleOrderCancelled \/ IgnoreOrderEvent, UNCHANGED rvars
    PROVE  PubBase'
<1>1. Read("order")
  BY DEF HandleOrderCancelled, IgnoreOrderEvent
<1>2. PICK e : Taking("order", e)
  BY <1>1, ReadTells
<1>3. level \in [Sides -> [Prices -> Nat]] /\ \A x \in DOMAIN info : x \in Known /\ info[x] \in Nat \ {0}
  BY PubTypes
<1>4. CASE IgnoreOrderEvent
  BY <1>1, <1>3, <1>4, ReadKeepsBase DEF IgnoreOrderEvent
<1>5. CASE HandleOrderCancelled
  <2>1. /\ level' = IF e.order \in DOMAIN info THEN DecrementLevel(e.order, info[e.order]) ELSE level
        /\ info' = DropInfo(e.order)
    BY <1>2, <1>5 DEF HandleOrderCancelled, Taking
  <2>2. level' \in [Sides -> [Prices -> Nat]]
    <3>1. ASSUME NEW o \in Known, NEW q \in Nat
          PROVE  DecrementLevel(o, q) \in [Sides -> [Prices -> Nat]]
      BY LevelChanges
    <3>. QED  BY <1>3, <2>1, <3>1
  <2>3. \A x \in DOMAIN info' : x \in Known /\ info'[x] \in Nat \ {0}
    BY <1>3, <2>1 DEF DropInfo
  <2>. QED  BY <1>1, <2>2, <2>3, ReadKeepsBase
<1>. QED  BY <1>4, <1>5

\* _handle_order_cancelled and the fills: an order that was cancelled does not
\* rest.
LEMMA OtherKeepsShows ==
    ASSUME PubBase, PubShows, HandleOrderCancelled \/ IgnoreOrderEvent, UNCHANGED rvars
    PROVE  PubShows'
<1>1. PICK e : Taking("order", e)
  BY ReadTells DEF HandleOrderCancelled, IgnoreOrderEvent
<1>2. PICK o : o = e.order
  OBVIOUS
<1>3. /\ e \in Events /\ QuoteSound(e) /\ e.cat = "order"
      /\ order' = order /\ store' = store /\ restarts' = restarts /\ repeated' = repeated
  BY <1>1 DEF Taking, vars
<1> SUFFICES ASSUME o \notin repeated PROVE PubShows'
  <2> SUFFICES ASSUME o \in repeated PROVE PubShows'
    OBVIOUS
  <2>1. CASE IgnoreOrderEvent
    <3>1. level' = level /\ info' = info
      BY <2>1 DEF IgnoreOrderEvent
    <3>. QED  BY <1>1, <1>2, <3>1, RepeatedKeepsShows
  <2>2. CASE HandleOrderCancelled
    <3>1. /\ level' = IF o \in DOMAIN info THEN DecrementLevel(o, info[o]) ELSE level
          /\ info' = DropInfo(o)
      BY <1>1, <1>2, <2>2 DEF HandleOrderCancelled, Taking
    <3>2. \A x \in DOMAIN info : x \in Known /\ info[x] \in Nat
      BY PubTypes
    <3>3. \A s \in Sides, p \in Prices :
             ~(order[o].side = s /\ order[o].price = p) => level'[s][p] = level[s][p]
      <4>1. CASE o \in DOMAIN info
        <5>1. PICK q \in Nat : q = info[o]
          BY <3>2, <4>1
        <5>2. level' = DecrementLevel(o, q) /\ o \in Known
          BY <3>1, <3>2, <4>1, <5>1
        <5>. QED  BY <5>2, LevelChanges
      <4>2. CASE o \notin DOMAIN info
        BY <3>1, <4>2
      <4>. QED  BY <4>1, <4>2
    <3>4. \A x : x # o => /\ x \in DOMAIN info' <=> x \in DOMAIN info
                          /\ x \in DOMAIN info => info'[x] = info[x]
      BY <3>1 DEF DropInfo
    <3>. QED  BY <1>1, <1>2, <3>3, <3>4, RepeatedKeepsShows
  <2>. QED  BY <2>1, <2>2
<1>4. /\ \A x, a : Due(x, a) => Due(x, a)'
      /\ Unquoted' \subseteq Unquoted /\ e \in Unquoted
      /\ \A f \in Unquoted : f = e \/ f \in Unquoted'
  BY <1>1, OrderEventRead
<1>5. /\ ~Begins(e) /\ DOMAIN info' \subseteq DOMAIN info /\ \A x \in DOMAIN info' : info'[x] = info[x]
      /\ \A x \in DOMAIN info : x \in DOMAIN info' \/ (x = o /\ e.type = "cancelled")
  <2>1. CASE IgnoreOrderEvent
    <3>1. info' = info /\ e.type \in {"filled", "partially_filled"}
      BY <1>1, <2>1 DEF IgnoreOrderEvent, Taking
    <3>. QED  BY <3>1 DEF Begins
  <2>2. CASE HandleOrderCancelled
    <3>1. info' = DropInfo(o) /\ e.type = "cancelled"
      BY <1>1, <1>2, <2>2 DEF HandleOrderCancelled, Taking
    <3>. QED  BY <3>1 DEF Begins, DropInfo
  <2>. QED  BY <2>1, <2>2
<1>6. e.type = "cancelled" => o \notin store
  <2>1. IInv /\ o \in Known
    BY <1>2, <1>3, PubTypes DEF QuoteSound
  <2>2. e.type = "cancelled" => IsCancelled(o)
    BY <1>2, <1>3 DEF QuoteSound, EventSound
  <2>. QED  BY <2>1, <2>2, FatesExclude
<1>7. PlacedOnce'
  <2> SUFFICES ASSUME NEW x \in OrderIds \ repeated
               PROVE  Through(feed'["order"], stream', Placings(x), Shown(x)', Placed(x)')
    BY <1>3 DEF PlacedOnce, Placings, Begins
  <2>1. PICK a : a = Shown(x) + (IF Begins(e) /\ e.order = x THEN 1 ELSE 0)
    OBVIOUS
  <2>2. Shown(x)' \in Nat /\ Shown(x)' <= a
    BY <1>5, <2>1 DEF Shown
  <2>3. \A a2 \in Nat : a2 <= a => Through(feed'["order"], stream', Placings(x), a2, Placed(x)')
    BY <1>1, <2>1, OrderEventRead
  <2>. QED  BY <2>2, <2>3
<1>8. FillsDue'
  <2>1. ASSUME NEW x \in DOMAIN info' \ repeated, NEW a, a = order[x].qty - info'[x]
        PROVE  info'[x] <= order[x].qty /\ Due(x, a)'
    <3>1. x \in DOMAIN info /\ info'[x] = info[x]
      BY <1>5
    <3>2. info[x] <= order[x].qty /\ Due(x, a)
      BY <2>1, <3>1 DEF PubShows, FillsDue
    <3>. QED  BY <1>4, <3>1, <3>2
  <2>2. \A x \in DOMAIN info' \ repeated' : info'[x] <= order'[x].qty /\ Due(x, order[x].qty - info[x])'
    BY <1>3, <2>1 DEF Due
  <2>3. \A f \in Unquoted' : Begins(f)' /\ f.order \notin repeated' => Due(f.order, f.qty)'
    BY <1>3, <1>4 DEF PubShows, FillsDue, Begins
  <2>. QED  BY <2>2, <2>3 DEF FillsDue
<1>9. QuotesComing'
  BY <1>3, <1>4, <1>5, <1>6 DEF PubShows, QuotesComing, Begins
<1>10. LevelsMatchOrders'
  <2>1. CASE info' = info /\ level' = level
    BY <1>3, <2>1 DEF PubShows, LevelsMatchOrders, QuotesOf, SentOnce
  <2>2. CASE HandleOrderCancelled /\ o \in DOMAIN info
    <3>1. level' = DecrementLevel(o, info[o]) /\ info' = DropInfo(o)
      BY <1>1, <1>2, <2>2 DEF HandleOrderCancelled, Taking
    <3>. QED  BY <1>3, <2>2, <3>1, LevelDropped DEF PubShows
  <2>3. CASE HandleOrderCancelled /\ o \notin DOMAIN info
    <3>1. level' = level /\ info' = DropInfo(o)
      BY <1>1, <1>2, <2>3 DEF HandleOrderCancelled, Taking
    <3>2. DOMAIN info' = DOMAIN info
      BY <2>3, <3>1 DEF DropInfo
    <3>3. \A s, p : QuotesOf(DOMAIN info, s, p)' = QuotesOf(DOMAIN info, s, p)
      BY <1>3, <3>2 DEF QuotesOf
    <3>4. ASSUME NEW s, NEW p
          PROVE  SumOver(QuotesOf(DOMAIN info, s, p), info') = SumOver(QuotesOf(DOMAIN info, s, p), info)
      <4>1. IsFiniteSet(DOMAIN info) /\ \A x \in DOMAIN info : info[x] \in Nat
        BY ActiveFinite, PubTypes
      <4>2. PICK S : S = QuotesOf(DOMAIN info, s, p)
        OBVIOUS
      <4>3. Summand(S, info) /\ S \subseteq DOMAIN info
        BY <4>1, <4>2, QuotesNat
      <4>4. \A x \in S : info'[x] = info[x]
        BY <1>5, <3>2, <4>3
      <4>5. SumOver(S, info') = SumOver(S, info)
        BY <4>3, <4>4, SumCongruent
      <4>. QED  BY <4>2, <4>5
    <3>5. \A s, p : SentOnce(s, p)' = SentOnce(s, p)
      BY <1>3 DEF SentOnce, QuotesOf
    <3>. QED  BY <1>3, <3>1, <3>3, <3>4, <3>5 DEF PubShows, LevelsMatchOrders
  <2>. QED  BY <2>1, <2>2, <2>3 DEF IgnoreOrderEvent
<1>. QED  BY <1>7, <1>8, <1>9, <1>10 DEF PubShows

\* _handle_trade: what the event does to the order it is about.
Filling(e) == e.type = "maker" /\ e.order \in DOMAIN info

\* _handle_trade and the types.
LEMMA TradeKeepsBase ==
    ASSUME PubBase, HandleTrade, UNCHANGED rvars
    PROVE  PubBase'
<1>1. Read("trade")
  BY DEF HandleTrade
<1>2. PICK e : Taking("trade", e)
  BY <1>1, ReadTells
<1>3. level \in [Sides -> [Prices -> Nat]] /\ \A x \in DOMAIN info : x \in Known /\ info[x] \in Nat \ {0}
  BY PubTypes
<1>4. CASE ~Filling(e)
  <2>1. level' = level /\ info' = info
    BY <1>2, <1>4 DEF HandleTrade, Taking, Filling
  <2>. QED  BY <1>1, <1>3, <2>1, ReadKeepsBase
<1>5. CASE Filling(e)
  <2>1. PICK o, q : o = e.order /\ q = e.qty
    OBVIOUS
  <2>2. /\ level' = DecrementLevel(o, q)
        /\ info' = IF info[o] <= q THEN DropInfo(o) ELSE SetInfo(o, info[o] - q)
    BY <1>2, <1>5, <2>1 DEF HandleTrade, Taking, Filling
  <2>3. o \in DOMAIN info /\ o \in Known /\ q \in Nat /\ info[o] \in Nat
    BY <1>2, <1>3, <1>5, <2>1, QuoteWeights DEF Taking, Filling
  <2>4. level' \in [Sides -> [Prices -> Nat]]
    BY <2>2, <2>3, LevelChanges
  <2>5. \A x \in DOMAIN info' : x \in Known /\ info'[x] \in Nat \ {0}
    <3>1. CASE info[o] <= q
      BY <1>3, <2>2, <3>1 DEF DropInfo
    <3>2. CASE ~(info[o] <= q)
      <4>1. info[o] - q \in Nat \ {0}
        BY <2>3, <3>2
      <4>. QED  BY <1>3, <2>2, <2>3, <3>2, <4>1 DEF SetInfo
    <3>. QED  BY <3>1, <3>2
  <2>. QED  BY <1>1, <2>4, <2>5, ReadKeepsBase
<1>. QED  BY <1>4, <1>5

\* _handle_trade: the order leaves when the engine has filled it, and the level
\* shrinks by the fill.
LEMMA TradeKeepsShows ==
    ASSUME PubBase, PubShows, HandleTrade, UNCHANGED rvars
    PROVE  PubShows'
<1>1. PICK e : Taking("trade", e)
  BY ReadTells DEF HandleTrade
<1>2. PICK o, q : o = e.order /\ q = e.qty
  OBVIOUS
<1>3. /\ e \in Events /\ order' = order /\ store' = store /\ taker' = taker /\ restarts' = restarts /\ repeated' = repeated
      /\ stream' = stream /\ feed'["order"] = feed["order"] /\ q \in Nat
  BY <1>1, <1>2, QuoteWeights DEF Taking, vars
<1>4. /\ IInv /\ stream \in Seq(Events) /\ feed["order"] \in Seq(Events)
      /\ \A x \in DOMAIN info : x \in Known /\ info[x] \in Nat \ {0}
  BY PubTypes
<1>5. Unquoted' = Unquoted
  BY <1>3 DEF Unquoted
<1>6. ~Filling(e) => level' = level /\ info' = info
  BY <1>1 DEF HandleTrade, Taking, Filling
<1>7. Filling(e) => /\ e.type = "maker" /\ o \in DOMAIN info /\ level' = DecrementLevel(o, q)
                    /\ info' = IF info[o] <= q THEN DropInfo(o) ELSE SetInfo(o, info[o] - q)
  BY <1>1, <1>2 DEF HandleTrade, Taking, Filling
<1> SUFFICES ASSUME o \notin repeated PROVE PubShows'
  <2> SUFFICES ASSUME o \in repeated PROVE PubShows'
    OBVIOUS
  <2>1. CASE ~Filling(e)
    BY <1>1, <1>2, <1>6, <2>1, RepeatedKeepsShows
  <2>2. CASE Filling(e)
    <3>1. /\ o \in Known /\ level' = DecrementLevel(o, q)
          /\ info' = IF info[o] <= q THEN DropInfo(o) ELSE SetInfo(o, info[o] - q)
      BY <1>4, <1>7, <2>2
    <3>2. \A s \in Sides, p \in Prices :
             ~(order[o].side = s /\ order[o].price = p) => level'[s][p] = level[s][p]
      BY <1>3, <3>1, LevelChanges
    <3>3. \A x : x # o => /\ x \in DOMAIN info' <=> x \in DOMAIN info
                          /\ x \in DOMAIN info => info'[x] = info[x]
      BY <3>1 DEF DropInfo, SetInfo
    <3>. QED  BY <1>1, <1>2, <3>2, <3>3, RepeatedKeepsShows
  <2>. QED  BY <2>1, <2>2
<1>8. ASSUME NEW x \in DOMAIN info \ repeated
      PROVE  /\ x \in Known /\ order[x].qty \in Nat /\ info[x] \in Nat /\ exec[x] \in Nat
             /\ info[x] <= order[x].qty /\ exec[x] <= order[x].qty
             /\ Due(x, order[x].qty - info[x])
  <2>1. x \in Known /\ info[x] \in Nat
    BY <1>4
  <2>2. order[x].qty \in Nat /\ exec[x] \in Nat /\ exec[x] <= order[x].qty
    BY <1>4, <2>1, KnownOrders DEF IInv, OneFate
  <2>. QED  BY <2>1, <2>2 DEF PubShows, FillsDue
<1>9. ASSUME Filling(e), info[o] <= q PROVE q = info[o] /\ o \notin store
  <2>1. o \in DOMAIN info /\ e.type = "maker"
    BY <1>7, <1>9
  <2>2. PICK a : a = order[o].qty - info[o]
    OBVIOUS
  <2>3. a + q <= exec[o]
    BY <1>1, <1>2, <1>8, <2>1, <2>2, TradeEventRead
  <2>4. q = info[o] /\ exec[o] = order[o].qty
    BY <1>3, <1>8, <1>9, <2>1, <2>2, <2>3
  <2>5. IsFilled(o) /\ o \in Known
    BY <1>8, <2>1, <2>4 DEF IsFilled
  <2>. QED  BY <1>4, <2>4, <2>5, FatesExclude
<1>10. /\ DOMAIN info' \subseteq DOMAIN info
       /\ \A x \in DOMAIN info : x \in DOMAIN info' \/ (x = o /\ Filling(e) /\ info[o] <= q)
       /\ \A x \in DOMAIN info' : info'[x] = info[x]
                                  \/ (x = o /\ Filling(e) /\ info[o] > q /\ info'[o] = info[o] - q)
  <2>1. CASE ~Filling(e)
    BY <1>6, <2>1
  <2>2. CASE Filling(e) /\ info[o] <= q
    BY <1>7, <2>2 DEF DropInfo
  <2>3. CASE Filling(e) /\ ~(info[o] <= q)
    <3>1. o \in DOMAIN info /\ info[o] \in Nat /\ info[o] > q
      BY <1>3, <1>7, <1>8, <2>3
    <3>2. info' = SetInfo(o, info[o] - q)
      BY <1>7, <2>3
    <3>. QED  BY <2>3, <3>1, <3>2 DEF SetInfo
  <2>. QED  BY <2>1, <2>2, <2>3
<1>11. PlacedOnce'
  <2> SUFFICES ASSUME NEW x \in OrderIds \ repeated
               PROVE  Through(feed'["order"], stream', Placings(x), Shown(x)', Placed(x)')
    BY <1>3 DEF PlacedOnce, Placings, Begins
  <2>1. Through(feed["order"], stream, Placings(x), Shown(x), Placed(x))
    BY DEF PubShows, PlacedOnce
  <2>2. Placings(x) \in [Events -> Nat]
    BY QuoteWeights
  <2>3. /\ Placed(x) \in Nat
        /\ \A a2 \in Nat, d2 \in Nat : a2 <= Shown(x) /\ Placed(x) <= d2 =>
              Through(feed["order"], stream, Placings(x), a2, d2)
    BY <1>4, <2>1, <2>2, ThroughBounds
  <2>4. Shown(x)' \in Nat /\ Shown(x)' <= Shown(x) /\ Placed(x) <= Placed(x) /\ Placed(x)' = Placed(x)
    BY <1>3, <1>10, <2>3 DEF Shown, Placed, Known
  <2>5. Through(feed["order"], stream, Placings(x), Shown(x)', Placed(x))
    BY <2>3, <2>4
  <2>. QED  BY <1>3, <2>4, <2>5
<1>12. FillsDue'
  <2>1. ASSUME NEW x \in DOMAIN info' \ repeated, NEW a, a = order[x].qty - info'[x]
        PROVE  info'[x] <= order[x].qty /\ Due(x, a)'
    <3>1. PICK b : b = order[x].qty - info[x]
      OBVIOUS
    <3>2. /\ x \in DOMAIN info /\ x \in Known /\ order[x].qty \in Nat /\ info[x] \in Nat
          /\ info[x] <= order[x].qty /\ Due(x, b)
      BY <1>8, <1>10, <3>1
    <3>3. /\ b \in Nat /\ Due(x, b)' /\ (e.type = "maker" /\ e.order = x => Due(x, b + e.qty)')
      BY <1>1, <3>2, TradeEventRead
    <3>4. CASE info'[x] = info[x]
      BY <2>1, <3>1, <3>2, <3>3, <3>4
    <3>5. CASE x = o /\ Filling(e) /\ info[o] > q /\ info'[o] = info[o] - q
      <4>1. a = b + q /\ info'[x] <= order[x].qty
        BY <1>3, <2>1, <3>1, <3>2, <3>5
      <4>2. Due(x, b + q)'
        BY <1>2, <1>7, <3>3, <3>5
      <4>. QED  BY <4>1, <4>2
    <3>. QED  BY <1>10, <3>4, <3>5
  <2>2. \A x \in DOMAIN info' \ repeated' : info'[x] <= order'[x].qty /\ Due(x, order[x].qty - info[x])'
    BY <1>3, <2>1 DEF Due
  <2>3. ASSUME NEW f \in Unquoted, Begins(f), f.order \notin repeated PROVE Due(f.order, f.qty)'
    <3>1. f.order \in Known /\ Due(f.order, f.qty)
      BY <2>3 DEF PubShows, FillsDue, PubBase, QuotesSound, QuoteSound, Unquoted
    <3>. QED  BY <1>1, <3>1, TradeEventRead
  <2>4. \A f \in Unquoted' : Begins(f)' /\ f.order \notin repeated' => Due(f.order, f.qty)'
    BY <1>3, <1>5, <2>3 DEF Begins
  <2>. QED  BY <2>2, <2>4 DEF FillsDue
<1>13. QuotesComing'
  BY <1>3, <1>5, <1>9, <1>10 DEF PubShows, QuotesComing, Begins
<1>14. LevelsMatchOrders'
  <2>1. CASE ~Filling(e)
    BY <1>3, <1>6, <2>1 DEF PubShows, LevelsMatchOrders, QuotesOf, SentOnce
  <2>2. CASE Filling(e) /\ info[o] <= q
    <3>1. o \in DOMAIN info /\ level' = DecrementLevel(o, info[o]) /\ info' = DropInfo(o)
      BY <1>7, <1>9, <2>2
    <3>. QED  BY <1>3, <3>1, LevelDropped DEF PubShows
  <2>3. CASE Filling(e) /\ ~(info[o] <= q)
    <3>1. /\ o \in DOMAIN info /\ q < info[o] /\ level' = DecrementLevel(o, q)
          /\ info' = SetInfo(o, info[o] - q)
      BY <1>3, <1>7, <1>8, <2>3
    <3>. QED  BY <1>3, <3>1, LevelReduced DEF PubShows
  <2>. QED  BY <2>1, <2>2, <2>3
<1>. QED  BY <1>11, <1>12, <1>13, <1>14 DEF PubShows

-----------------------------------------------------------------------------
(***************************************************************************)
(* The theorems about the publisher.                                       *)
(***************************************************************************)

\* A step that changes nothing.
LEMMA StutterKeepsBase ==
    ASSUME PubBase, UNCHANGED <<rvars, pvars>>
    PROVE  PubBase'
<1>1. /\ vars' = vars /\ UNCHANGED <<stream, hvars, cmd, topic, fanout>>
      /\ feed' = feed /\ level' = level /\ info' = info /\ restarts' = restarts /\ repeated' = repeated
  BY DEF rvars, evars, svars, pvars
<1>2. RowTypeOK /\ PubTypeOK /\ QuotesSound
  BY PubTypes DEF PubBase
<1>3. RowTypeOK' /\ Known' = Known
  BY <1>1, <1>2 DEF RowTypeOK, StreamTypeOK, vars, hvars, Known
<1>4. PubTypeOK'
  BY <1>1, <1>2, <1>3 DEF PubTypeOK
<1>5. /\ \A f \in In(topic'["order"]) \cup In(feed'["order"]) : QuoteSound(f) /\ f.cat = "order"
      /\ \A f \in In(feed'["trade"]) : QuoteSound(f) /\ f.cat = "trade"
      /\ In(stream') \subseteq In(stream)
  BY <1>1, <1>2 DEF QuotesSound
<1>. QED  BY <1>1, <1>4, <1>5, StillBase

\* The fanout ends.
LEMMA FailKeepsBase ==
    ASSUME PubBase, FanoutFails, Feed,
           UNCHANGED <<vars, hvars, level, info, restarts, repeated>>
    PROVE  PubBase'
<1>1. feed' = feed /\ stream' = stream /\ topic' = topic /\ cmd' = cmd /\ fanout' = "failed"
  BY FailTells
<1>2. RowTypeOK /\ PubTypeOK /\ QuotesSound
  BY PubTypes DEF PubBase
<1>3. RowTypeOK' /\ Known' = Known
  BY <1>1, <1>2 DEF RowTypeOK, StreamTypeOK, vars, hvars, Known
<1>4. PubTypeOK'
  BY <1>1, <1>2, <1>3 DEF PubTypeOK
<1>5. /\ \A f \in In(topic'["order"]) \cup In(feed'["order"]) : QuoteSound(f) /\ f.cat = "order"
      /\ \A f \in In(feed'["trade"]) : QuoteSound(f) /\ f.cat = "trade"
      /\ In(stream') \subseteq In(stream)
  BY <1>1, <1>2 DEF QuotesSound
<1>. QED  BY <1>4, <1>5, StillBase

\* _rehydrate_state: the active orders are those of the rows.
LEMMA RestartKeepsBase ==
    ASSUME PubBase, Restart
    PROVE  PubBase' /\ restarts' # 0
<1>1. PICK left : left = [o \in ActiveRows |-> order[o].qty - row[o].executed]
  OBVIOUS
<1>2. /\ restarts < MaxRestarts /\ restarts' = restarts + 1 /\ fanout' = "running" /\ stream' = << >>
      /\ info' = left /\ vars' = vars /\ UNCHANGED <<hvars, cmd, feed, repeated>>
      /\ topic' = [topic EXCEPT !["order"] = << >>]
      /\ level' = [s \in Sides |-> [p \in Prices |->
                      SumOver({o \in ActiveRows : order[o].side = s /\ order[o].price = p}, left)]]
  BY <1>1 DEF Restart
<1>3. RowTypeOK /\ PubTypeOK /\ QuotesSound /\ IInv /\ restarts \in 0 .. MaxRestarts
      /\ row \in [OrderIds -> [status : Statuses, executed : Nat]]
  BY PubTypes DEF PubBase, RowTypeOK
<1>4. Known \subseteq OrderIds /\ \A o \in Known : order[o].qty \in Nat
  BY <1>3, KnownOrders DEF IInv
<1>5. \A o \in ActiveRows : o \in Known /\ left[o] \in Nat \ {0}
  <2> SUFFICES ASSUME NEW o \in ActiveRows PROVE o \in Known /\ left[o] \in Nat \ {0}
    OBVIOUS
  <2>1. o \in Known /\ order[o].qty > row[o].executed
    BY DEF ActiveRows
  <2>2. row[o] \in [status : Statuses, executed : Nat]
    BY <1>3, <1>4, <2>1
  <2>3. row[o].executed \in Nat /\ order[o].qty \in Nat
    BY <1>4, <2>1, <2>2
  <2>. QED  BY <1>1, <2>1, <2>3
<1>6. IsFiniteSet(ActiveRows)
  <2>1. IsFiniteSet(Known) /\ ActiveRows \in SUBSET Known
    BY ActiveFinite DEF ActiveRows
  <2>. QED  BY <2>1, FS_Subset
<1>7. level' \in [Sides -> [Prices -> Nat]]
  <2>1. level' = [s \in Sides |-> [p \in Prices |-> SumOver(QuotesOf(ActiveRows, s, p), left)]]
    BY <1>2 DEF QuotesOf
  <2>2. \A o \in ActiveRows : left[o] \in Nat
    BY <1>5
  <2>3. \A s \in Sides, p \in Prices : SumOver(QuotesOf(ActiveRows, s, p), left) \in Nat
    BY <1>6, <2>2, QuotesNat
  <2>. QED  BY <2>1, <2>3
<1>8. /\ In(stream') = {} /\ stream' \in Seq(Events)
      /\ In(topic'["order"]) = {} /\ topic' \in [Followed -> Seq(Events)]
  <2>1. << >> \in Seq(Events) /\ In(<< >>) = {}
    BY DEF In
  <2>2. topic \in [Followed -> Seq(Events)] /\ "order" \in Followed
    BY PubTypes, PublisherAssumption
  <2>3. topic' \in [Followed -> Seq(Events)] /\ topic'["order"] = << >>
    BY <1>2, <2>1, <2>2
  <2>. QED  BY <1>2, <2>1, <2>3
<1>9. RowTypeOK' /\ Known' = Known
  BY <1>2, <1>3, <1>8 DEF RowTypeOK, StreamTypeOK, vars, hvars, Known
<1>10. restarts' \in 0 .. MaxRestarts /\ restarts' # 0
  BY <1>2, <1>3, PublisherAssumption
<1>11. DOMAIN info' = ActiveRows
  BY <1>1, <1>2
<1>12. PubTypeOK'
  BY <1>2, <1>3, <1>5, <1>7, <1>9, <1>10, <1>11 DEF PubTypeOK
<1>13. /\ \A f \in In(topic'["order"]) \cup In(feed'["order"]) : QuoteSound(f) /\ f.cat = "order"
       /\ \A f \in In(feed'["trade"]) : QuoteSound(f) /\ f.cat = "trade"
       /\ In(stream') \subseteq In(stream)
  BY <1>2, <1>3, <1>8 DEF QuotesSound
<1>14. PubBase'
  BY <1>2, <1>12, <1>13, StillBase
<1>. QED  BY <1>10, <1>14

\* Every step keeps the invariant.
LEMMA PubNextSound == PubSound /\ [PubNext]_<<rvars, pvars>> => PubSound'
<1> SUFFICES ASSUME PubSound, [PubNext]_<<rvars, pvars>> PROVE PubSound'
  OBVIOUS
<1>1. PubBase /\ (restarts = 0 => PubShows)
  BY DEF PubSound
<1>2. ASSUME PubBase', restarts' = restarts, PubShows => PubShows' PROVE PubSound'
  BY <1>1, <1>2 DEF PubSound
<1>3. CASE EngineStep /\ UNCHANGED <<hvars, pvars>>
  <2>1. restarts' = restarts
    BY <1>3 DEF pvars
  <2>. QED  BY <1>1, <1>2, <1>3, <2>1, EngineKeepsBase, EngineKeepsShows
<1>4. CASE FanoutRun
  <2>1. Feed /\ UNCHANGED <<vars, hvars, level, info, restarts>>
    BY <1>4 DEF FanoutRun
  <2>2. ASSUME NEW copies \in 1 .. MaxCopies, Route(copies), Counts(copies) PROVE PubSound'
    BY <1>1, <1>2, <2>1, <2>2, RouteKeepsBase, RouteKeepsShows
  <2>3. CASE FanoutFails /\ repeated' = repeated
    <3>1. feed' = feed /\ stream' = stream
      BY <1>1, <2>1, <2>3, FailTells
    <3>2. PubShows => PubShows'
      BY <2>1, <2>3, <3>1, StillShows
    <3>. QED  BY <1>1, <1>2, <2>1, <2>3, <3>2, FailKeepsBase
  <2>4. CASE Route(1) /\ repeated' = repeated
    <3>1. 1 \in 1 .. MaxCopies
      BY StreamAssumption
    <3>. QED  BY <2>2, <2>4, <3>1 DEF Counts
  <2>5. ASSUME NEW copies \in 2 .. MaxCopies, Route(copies),
               repeated' = repeated \cup {Head(stream).order}
        PROVE  PubSound'
    <3>1. copies \in 1 .. MaxCopies
      BY StreamAssumption
    <3>. QED  BY <2>2, <2>5, <3>1 DEF Counts
  <2>. QED  BY <1>4, <2>3, <2>4, <2>5 DEF FanoutRun
<1>5. CASE HandlerStep /\ UNCHANGED pvars
  <2>1. UNCHANGED <<vars, stream, feed, level, info, restarts, repeated>>
    BY <1>5 DEF HandlerStep, HandleOrderEvent, PartialFillRaises, DatabaseRaises, DropDuplicate, Consume, pvars
  <2>2. PubShows => PubShows'
    BY <2>1, StillShows
  <2>. QED  BY <1>1, <1>2, <1>5, <2>1, <2>2, HandlerKeepsBase
<1>6. CASE ConsumeStep /\ UNCHANGED rvars
  <2>1. restarts' = restarts
    BY <1>6 DEF ConsumeStep, HandleOrderPlaced, HandleOrderCancelled, IgnoreOrderEvent, HandleTrade, Read
  <2>2. CASE HandleOrderPlaced
    BY <1>1, <1>2, <1>6, <2>1, <2>2, PlacedKeepsBase, PlacedKeepsShows
  <2>3. CASE HandleOrderCancelled \/ IgnoreOrderEvent
    BY <1>1, <1>2, <1>6, <2>1, <2>3, OtherKeepsBase, OtherKeepsShows
  <2>4. CASE HandleTrade
    BY <1>1, <1>2, <1>6, <2>1, <2>4, TradeKeepsBase, TradeKeepsShows
  <2>. QED  BY <1>6, <2>2, <2>3, <2>4 DEF ConsumeStep
<1>7. CASE Restart
  BY <1>1, <1>7, RestartKeepsBase DEF PubSound
<1>8. CASE UNCHANGED <<rvars, pvars>>
  <2>1. UNCHANGED <<vars, stream, feed, level, info, restarts, repeated>>
    BY <1>8 DEF rvars, evars, svars, pvars
  <2>2. PubShows => PubShows'
    BY <2>1, StillShows
  <2>. QED  BY <1>1, <1>2, <1>8, <2>1, <2>2, StutterKeepsBase
<1>. QED  BY <1>3, <1>4, <1>5, <1>6, <1>7, <1>8 DEF PubNext

\* The publisher is sound in every state: the engine, the fanout and the two
\* readers at any distance from each other, messages sent several times, and
\* restarts.
THEOREM PublisherAlwaysSound == PubSpec => []PubSound
  BY PubInitSound, PubNextSound, PTL DEF PubSpec

\* PubInv: until a restart a level none of whose orders had a message repeated is
\* exactly what is left of the active orders at its price, although the two
\* topics are read in any order and _decrement_level cuts off at zero.
THEOREM LevelsAreActiveOrders == PubSpec => []PubInv
<1>1. PubSound => PubInv
  BY DEF PubSound, PubShows, PubBase, PubInv, LevelsMatchOrders
<1>. QED  BY <1>1, PublisherAlwaysSound, PTL

\* NoHiddenLiquidity: once it has read every event, a publisher that was not
\* restarted shows at least what rests in the engine, at each level none of whose
\* orders had a message repeated.
THEOREM LevelsHideNothing == PubSpec => []NoHiddenLiquidity
<1>1. ASSUME PubSound PROVE NoHiddenLiquidity
  <2> SUFFICES ASSUME PubDrained, restarts = 0, NEW s \in Sides, NEW p \in Prices, SentOnce(s, p)
               PROVE  level[s][p] >= RestingAt(s, p)
    BY DEF NoHiddenLiquidity
  <2>1. PubBase /\ PubShows
    BY <1>1 DEF PubSound
  <2>2. /\ IInv /\ stream = << >> /\ feed["order"] = << >> /\ feed["trade"] \in Seq(Events)
        /\ stream \in Seq(Events) /\ \A o \in DOMAIN info : o \in Known /\ info[o] \in Nat
    BY <2>1, PubTypes DEF PubDrained
  <2>3. Unquoted = {}
    BY <2>2 DEF Unquoted, In
  <2>4. ASSUME NEW o \in store \ repeated, order[o].user # System
        PROVE  o \in DOMAIN info /\ Remaining(o) \in Int /\ Remaining(o) <= info[o]
    <3>1. o \in DOMAIN info
      BY <2>1, <2>3, <2>4 DEF PubShows, QuotesComing
    <3>2. PICK a : a = order[o].qty - info[o]
      OBVIOUS
    <3>3. PICK q, f, d : q = feed["trade"] /\ f = Makings(o) /\ d = exec[o]
      OBVIOUS
    <3>4. q \in Seq(Events) /\ f \in [Events -> Nat] /\ Through(q, stream, f, a, d)
      BY <2>1, <2>2, <3>1, <3>2, <3>3, QuoteWeights DEF PubShows, FillsDue, Due
    <3>5. a \in Nat /\ d \in Nat /\ a <= d
      BY <2>2, <3>4, ThroughBounds
    <3>6. order[o].qty \in Nat /\ exec[o] \in Nat /\ info[o] \in Nat /\ Remaining(o) \in Int
      BY <2>2, <3>1, KnownOrders DEF IInv
    <3>. QED  BY <3>1, <3>2, <3>3, <3>5, <3>6 DEF Remaining
  <2>5. PICK Q, S, r : /\ Q = {o \in QuotesOf(store, s, p) : order[o].user # System}
                       /\ S = QuotesOf(DOMAIN info, s, p) /\ r = [o \in Q |-> Remaining(o)]
    OBVIOUS
  <2>6. Q \in SUBSET S /\ \A o \in Q : r[o] = Remaining(o) /\ r[o] \in Int /\ r[o] <= info[o]
    BY <2>4, <2>5 DEF QuotesOf, SentOnce
  <2>7. Summand(S, info) /\ S \subseteq DOMAIN info
    BY <2>1, <2>2, <2>5, ActiveFinite, QuotesNat
  <2>8. Summand(Q, r)
    BY <2>6, <2>7, FiniteSubsets DEF Summand
  <2>9. \A o \in S \ Q : info[o] >= 0
    BY <2>2, <2>7
  <2>10. SumOver(Q, r) <= SumOver(S, info)
    BY <2>6, <2>7, <2>8, <2>9, SumMonotone
  <2>11. RestingAt(s, p) = SumOver(Q, r) /\ level[s][p] = SumOver(S, info)
    BY <2>1, <2>5 DEF RestingAt, PubShows, LevelsMatchOrders
  <2>12. SumOver(Q, r) \in Int /\ SumOver(S, info) \in Int
    BY <2>7, <2>8, SumUnfolds
  <2>. QED  BY <2>10, <2>11, <2>12
<1>2. PubSound => NoHiddenLiquidity
  BY <1>1
<1>. QED  BY <1>2, PublisherAlwaysSound, PTL

=============================================================================
