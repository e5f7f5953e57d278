-------------------------- MODULE OrderBookPublisher --------------------------
(***************************************************************************)
(* The order book publisher (services/orderbook_publisher): it rebuilds    *)
(* the quantity of every price level from the order events and the trade   *)
(* events of the engine.  A snapshot it publishes is `level' at its time.  *)
(*                                                                         *)
(* The order events and the trade events come from two topics.  The        *)
(* consumer reads each of them in its order and mixes the two freely.      *)
(***************************************************************************)
EXTENDS OrderRows

CONSTANTS MaxRestarts,  \* bound: how often the services are restarted
          MaxRepeated   \* bound: how many orders have messages sent again

\* The publisher subscribes to both topics.
ASSUME PublisherAssumption ==
    /\ MaxRestarts \in Nat
    /\ MaxRepeated \in Nat
    /\ {"order", "trade"} \subseteq Followed

VARIABLES
    feed,       \* by topic: events the publisher has not read
    level,      \* BookState.bids and .asks; 0 for a price without a key
    info,       \* remaining_qty of the orders in _active_orders
    restarts,
    repeated    \* history: the orders one of whose messages was sent again

pvars == <<feed, level, info, restarts, repeated>>

NoLevels == [s \in Sides |-> [p \in Prices |-> 0]]

\* The quantity `qty` of an order is added to its level.
IncrementLevel(o, qty) ==
    [level EXCEPT ![order[o].side][order[o].price] = @ + qty]

\* _decrement_level: a level with nothing left loses its key.
DecrementLevel(o, qty) ==
    [level EXCEPT ![order[o].side][order[o].price] = IF @ > qty THEN @ - qty ELSE 0]

SetInfo(o, qty) == [p \in DOMAIN info \cup {o} |-> IF p = o THEN qty ELSE info[p]]

DropInfo(o) == [p \in DOMAIN info \ {o} |-> info[p]]

-----------------------------------------------------------------------------
(***************************************************************************)
(* _consume_loop: one message.                                             *)
(***************************************************************************)

Read(cat) ==
    /\ feed[cat] # << >>
    /\ feed' = [feed EXCEPT ![cat] = Tail(@)]
    /\ UNCHANGED <<restarts, repeated>>

\* _handle_order_placed; the event of an order with nothing left is ignored.
HandleOrderPlaced ==
    LET e       == Head(feed["order"])
        resting == order[e.order].qty - e.qty
    IN
    /\ Read("order")
    /\ e.type = "placed"
    /\ level' = IncrementLevel(e.order, resting)
    /\ info' = SetInfo(e.order, resting)

\* _handle_order_cancelled; an order that is not active is ignored.
HandleOrderCancelled ==
    LET e == Head(feed["order"]) IN
    /\ Read("order")
    /\ e.type = "cancelled"
    /\ level' = IF e.order \in DOMAIN info
                THEN DecrementLevel(e.order, info[e.order]) ELSE level
    /\ info' = DropInfo(e.order)

\* Fills are ignored here: the trades tell.
IgnoreOrderEvent ==
    /\ Read("order")
    /\ Head(feed["order"]).type \in {"filled", "partially_filled"}
    /\ UNCHANGED <<level, info>>

\* Variant of HandleTrade: the taker's event counts as well.
HandleTradeAnyRole ==
    LET e == Head(feed["trade"]) IN
    /\ Read("trade")
    /\ IF e.order \in DOMAIN info
       THEN /\ level' = DecrementLevel(e.order, e.qty)
            /\ info' = IF info[e.order] <= e.qty THEN DropInfo(e.order)
                       ELSE SetInfo(e.order, info[e.order] - e.qty)
       ELSE UNCHANGED <<level, info>>

\* Variant of HandleTrade: the level is decremented and the order is not.
HandleTradeLevelOnly ==
    LET e == Head(feed["trade"]) IN
    /\ Read("trade")
    /\ IF e.type = "maker" /\ e.order \in DOMAIN info
       THEN level' = DecrementLevel(e.order, e.qty)
       ELSE UNCHANGED level
    /\ UNCHANGED info

\* _handle_trade; the taker's event and orders that are not active are
\* ignored.
HandleTrade ==
    LET e == Head(feed["trade"]) IN
    /\ Read("trade")
    /\ IF e.type = "maker" /\ e.order \in DOMAIN info
       THEN /\ level' = DecrementLevel(e.order, e.qty)
            /\ info' = IF info[e.order] <= e.qty THEN DropInfo(e.order)
                       ELSE SetInfo(e.order, info[e.order] - e.qty)
       ELSE UNCHANGED <<level, info>>

ConsumeStep ==
    \/ HandleOrderPlaced
    \/ HandleOrderCancelled
    \/ IgnoreOrderEvent
    \/ HandleTrade

-----------------------------------------------------------------------------
(***************************************************************************)
(* The start of the services.                                              *)
(***************************************************************************)

\* The orders _rehydrate_state selects.
ActiveRows ==
    {o \in Known : row[o].status \in {"placed", "partially_filled"}
                   /\ order[o].qty > row[o].executed}

\* The process of the services stops and starts again.  The publisher's
\* consumer has a group and continues where it was.  The fanout and the order
\* event handler have none: they continue with the events still to come, and
\* what they had not read is lost to them.
Restart ==
    LET left == [o \in ActiveRows |-> order[o].qty - row[o].executed]
        At(s, p) == {o \in ActiveRows : order[o].side = s /\ order[o].price = p}
    IN
    /\ restarts < MaxRestarts
    /\ restarts' = restarts + 1
    /\ fanout' = "running"
    /\ stream' = << >>
    /\ topic' = [topic EXCEPT !["order"] = << >>]
    /\ info' = left
    /\ level' = [s \in Sides |-> [p \in Prices |-> SumOver(At(s, p), left)]]
    /\ UNCHANGED <<vars, hvars, cmd, feed, repeated>>

\* What the fanout sends to a topic reaches the publisher as well.
Feed ==
    feed' = [c \in DOMAIN feed |->
                feed[c] \o SubSeq(topic'[c], Len(topic[c]) + 1, Len(topic'[c]))]

PubInit ==
    /\ RowInit
    /\ feed = [c \in {"order", "trade"} |-> << >>]
    /\ level = NoLevels
    /\ info = << >>
    /\ restarts = 0
    /\ repeated = {}

\* What the fanout sends reaches the order event handler and the publisher.
FanoutRun ==
    /\ \/ Route(1) /\ UNCHANGED repeated
       \/ /\ Cardinality(repeated) < MaxRepeated
          /\ \E copies \in 2 .. MaxCopies : Route(copies)
          /\ repeated' = repeated \cup {Head(stream).order}
       \/ FanoutFails /\ UNCHANGED repeated
    /\ Feed
    /\ UNCHANGED <<vars, hvars, level, info, restarts>>

PubNext ==
    \/ EngineStep /\ UNCHANGED <<hvars, pvars>>
    \/ FanoutRun
    \/ HandlerStep /\ UNCHANGED pvars
    \/ ConsumeStep /\ UNCHANGED rvars
    \/ Restart

PubSpec == PubInit /\ [][PubNext]_<<rvars, pvars>>

\* The loops of the fanout and of the handler of the rows go on.
PubFairSpec ==
    /\ PubSpec
    /\ WF_<<rvars, pvars>>(FanoutRun)
    /\ WF_<<rvars, pvars>>(HandlerStep /\ UNCHANGED pvars)

-----------------------------------------------------------------------------
(***************************************************************************)
(* Correctness.                                                            *)
(***************************************************************************)

PubDrained == pc = "idle" /\ stream = << >> /\ \A c \in DOMAIN feed : feed[c] = << >>

QuotesOf(S, s, p) == {o \in S : order[o].side = s /\ order[o].price = p}

\* What rests in the engine, except for the orders of the system user, whose
\* events are not logged.
RestingAt(s, p) ==
    LET quotes == {o \in QuotesOf(store, s, p) : order[o].user # System}
    IN  SumOver(quotes, [o \in quotes |-> Remaining(o)])

\* Every variable of the publisher has its type; active orders have
\* something left.
PubTypeOK ==
    /\ RowTypeOK
    /\ feed \in [{"order", "trade"} -> Seq(Events)]
    /\ level \in [Sides -> [Prices -> Nat]]
    /\ \A o \in DOMAIN info : o \in Known /\ info[o] \in Nat \ {0}
    /\ restarts \in 0 .. MaxRestarts
    /\ repeated \subseteq Known

\* No message about an order of this side and price was sent twice: the
\* publisher does not recognise a duplicate.
SentOnce(s, p) == QuotesOf(repeated, s, p) = {}

\* Until the publisher is restarted a level shows exactly what is left of
\* the active orders at its price, in whatever order the two topics are
\* read.  A message that is delivered twice, which the publisher counts
\* twice, disturbs the level of its own order and no other.
LevelsMatchOrders ==
    restarts = 0 =>
        \A s \in Sides, p \in Prices : SentOnce(s, p) =>
            level[s][p] = SumOver(QuotesOf(DOMAIN info, s, p), info)

\* The publisher's state is sound: types, and levels that are the sums of the
\* active orders unless a message about one of their orders was repeated.
PubInv == PubTypeOK /\ LevelsMatchOrders

\* A publisher that was not restarted hides nothing: once it has read every
\* event, each level none of whose orders had a message delivered twice
\* shows at least what rests in the engine.  (A repeated trade is taken off
\* its level twice.)
NoHiddenLiquidity ==
    PubDrained /\ restarts = 0 =>
        \A s \in Sides, p \in Prices : SentOnce(s, p) =>
            level[s][p] >= RestingAt(s, p)

\* A fill reaches its row.  It is lost only if the services are restarted, the
\* fanout has ended, which nothing starts again, or the handler met a database
\* error at an event of the order.
FillRecorded ==
    \A o \in OrderIds :
        o \in Known /\ order[o].user # System /\ Remaining(o) = 0
            ~> \/ row[o].status = "filled"
               \/ restarts > 0
               \/ fanout = "failed"
               \/ o \in lost

=============================================================================
