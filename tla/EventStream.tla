----------------------------- MODULE EventStream -----------------------------
(***************************************************************************)
(* The events the engine of SpotEngine logs (engine/loggers, engine/events *)
(* and the log calls of the engine and of its strategy), and the fanout    *)
(* that routes them from the engine's topic to one topic per category.     *)
(*                                                                         *)
(* An action of the engine publishes its events in the order of the log    *)
(* calls.  Events of the system user are not logged.  An event of a        *)
(* modification fails its validation and is never published.  Cash events  *)
(* change no read model and are left out.                                  *)
(*                                                                         *)
(* Each topic has one partition: the fanout sends without a key, and with  *)
(* more partitions it would keep no order at all.                          *)
(***************************************************************************)
EXTENDS SpotEngine

CONSTANTS Followed,       \* the categories whose topics somebody reads
          FanoutMayFail,  \* whether the fanout may meet an exception
          MaxCopies       \* bound: how often a message may be delivered

ASSUME StreamAssumption ==
    /\ Followed \subseteq {"order", "balance", "trade"}
    /\ FanoutMayFail \in BOOLEAN
    /\ MaxCopies \in Nat \ {0}

VARIABLES
    cmd,      \* number of the command being handled, or handled last
    stream,   \* the engine's topic: events the fanout has not read
    topic,    \* by category: events the consumer has not read
    fanout    \* "running" or "failed"

svars == <<cmd, stream, topic, fanout>>

evars == <<vars, svars>>

\* LogEventType: the categories with a read model.
Categories == {"order", "balance", "trade"}

\* OrderEventType and BalanceEventType, as far as they change a read model, and
\* the role of an order in a trade.
EventTypes ==
    {"placed", "partially_filled", "filled", "cancelled",
     "asset_escrow_increased", "asset_escrow_decreased",
     "ask_settled", "bid_settled", "taker", "maker"}

Events == [cat   : Categories,
           type  : EventTypes,
           cmd   : Nat,
           user  : Users,
           order : OrderIds,
           qty   : Nat]

-----------------------------------------------------------------------------
(***************************************************************************)
(* The events of one order.                                                *)
(***************************************************************************)

\* EngineLogger.log_event under ignore_system_user: what one log call adds to
\* the stream, an event or nothing.
Log(cat, type, o, qty) ==
    IF order'[o].user # System /\ cat \in Followed
    THEN <<[cat |-> cat, type |-> type, cmd |-> cmd', user |-> order'[o].user,
            order |-> o, qty |-> qty]>>
    ELSE << >>

\* An order event carries the order's dictionary: its executed quantity here.
OrderEvent(type, o) == Log("order", type, o, exec'[o])

\* Variant of FillEvent: every fill is logged as the last one.
FillEventAlwaysFilled(o) == OrderEvent("filled", o)

\* SpotEngine._log_fill_event
FillEvent(o) ==
    OrderEvent(IF exec'[o] = order[o].qty THEN "filled" ELSE "partially_filled", o)

TradeEvent(role, o, q) == Log("trade", role, o, q)

SettledEvent(o, q) ==
    Log("balance", IF order[o].side = "bid" THEN "bid_settled" ELSE "ask_settled", o, q)

\* The balance event of a hold or a release; that of a bid is a cash event.
EscrowEvent(type, o, q) ==
    IF order'[o].side = "ask" THEN Log("balance", type, o, q) ELSE << >>

HoldEvent(o) ==
    IF exec[o] = 0 THEN EscrowEvent("asset_escrow_increased", o, order[o].qty) ELSE << >>

CancelEvents(o) ==
    OrderEvent("cancelled", o)
        \o EscrowEvent("asset_escrow_decreased", o, order'[o].qty - exec[o])

Publish(events) == stream' = stream \o events

\* A new command.
NextCommand(events) ==
    /\ cmd' = cmd + 1
    /\ Publish(events)
    /\ UNCHANGED <<topic, fanout>>

SameCommand(events) ==
    /\ cmd' = cmd
    /\ Publish(events)
    /\ UNCHANGED <<topic, fanout>>

-----------------------------------------------------------------------------
(***************************************************************************)
(* The engine's actions with what they log.                                *)
(***************************************************************************)

NewOrder(r) ==
    LET o == Len(order) + 1 IN
    \/ PlaceOrder(r)        /\ NextCommand(OrderEvent("placed", o))
    \/ RejectOrder(r)       /\ NextCommand(CancelEvents(o) \o CancelEvents(o))
    \/ RejectOrderRaises(r) /\ NextCommand(OrderEvent("cancelled", o))
    \/ BeginMatch(r)        /\ NextCommand(<< >>)

OldOrder(o) ==
    \/ CancelOrder(o)  /\ NextCommand(CancelEvents(o))
    \/ ModifyRaises(o) /\ NextCommand(<< >>)

\* SpotEngine._process_trade, in the order of its log calls.
TradeEvents ==
    LET m == Maker
        q == TradeQuantity
    IN  TradeEvent("taker", taker, q) \o TradeEvent("maker", m, q)
        \o FillEvent(taker) \o FillEvent(m)
        \o HoldEvent(m) \o HoldEvent(taker)
        \o SettledEvent(taker, q) \o SettledEvent(m, q)

MatchingStep ==
    \/ Trade          /\ SameCommand(TradeEvents)
    \/ CancelMaker    /\ SameCommand(CancelEvents(Maker))
    \/ TakerFilled    /\ SameCommand(<< >>)
    \/ PlaceRemainder /\ SameCommand(OrderEvent("placed", taker))

EngineStep ==
    \/ \E r \in Requests : NewOrder(r)
    \/ \E o \in OrderIds : OldOrder(o)
    \/ MatchingStep

-----------------------------------------------------------------------------
(***************************************************************************)
(* KafkaFanout.run.                                                        *)
(***************************************************************************)

\* Variant of Route: another partition overtakes.
RouteUnordered(copies) ==
    \E i \in DOMAIN stream :
    /\ fanout = "running"
    /\ i <= 2
    /\ stream' = RemoveAt(stream, i)
    /\ topic' = [topic EXCEPT ![stream[i].cat] = @ \o [j \in 1 .. copies |-> stream[i]]]
    /\ UNCHANGED <<cmd, fanout>>

\* One message is sent to the topic of its category.  The producer sends it
\* again when the acknowledgement is lost.
Route(copies) ==
    /\ fanout = "running"
    /\ stream # << >>
    /\ stream' = Tail(stream)
    /\ topic' = [topic EXCEPT ![Head(stream).cat] =
                     @ \o [j \in 1 .. copies |-> Head(stream)]]
    /\ UNCHANGED <<cmd, fanout>>

\* Any exception is printed and ends the coroutine normally, so the runner's
\* callback sees no failure and starts nothing.
FanoutFails ==
    /\ FanoutMayFail
    /\ fanout = "running"
    /\ stream # << >>
    /\ fanout' = "failed"
    /\ UNCHANGED <<cmd, stream, topic>>

FanoutStep ==
    \/ \E copies \in 1 .. MaxCopies : Route(copies)
    \/ FanoutFails

StreamInit ==
    /\ Init
    /\ cmd = 0
    /\ stream = << >>
    /\ topic = [c \in Followed |-> << >>]
    /\ fanout = "running"

\* The consumer takes the next event of a category.
Consume(cat) ==
    /\ topic[cat] # << >>
    /\ topic' = [topic EXCEPT ![cat] = Tail(@)]
    /\ UNCHANGED <<vars, cmd, stream, fanout>>

Drained ==
    pc = "idle" /\ stream = << >> /\ \A c \in Followed : topic[c] = << >>

StreamTypeOK ==
    /\ cmd \in Nat
    /\ stream \in Seq(Events)
    /\ topic \in [Followed -> Seq(Events)]
    /\ fanout \in {"running", "failed"}

=============================================================================
