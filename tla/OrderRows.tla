------------------------------ MODULE OrderRows ------------------------------
(***************************************************************************)
(* The read model of orders: the rows of the table orders, which the API   *)
(* inserts before it sends the command, and OrderEventHandler, which       *)
(* applies the order events (services/event_handlers/order_event_handler). *)
(***************************************************************************)
EXTENDS EventStream

CONSTANT MaxLost    \* bound: how many orders lose events to a database error

\* The handler consumes the topic of the order events.
ASSUME RowsAssumption == "order" \in Followed /\ MaxLost \in Nat

VARIABLES
    row,    \* status and executed_quantity of each row
    seen,   \* command, order and type of the rows of OrderEvents
    lost    \* history: the orders that lost an event to a database error

hvars == <<row, seen, lost>>

rvars == <<evars, hvars>>

Statuses == {"pending", "placed", "partially_filled", "filled", "cancelled"}

\* Variant of Key: the order is forgotten.
KeyWithoutOrder(e) == <<e.cmd, 1, e.type>>

\* The columns a duplicate is recognised by.
Key(e) == <<e.cmd, e.order, e.type>>

\* _handle_order_placed, _handle_order_filled, _handle_order_cancelled.
Apply(e) ==
    [row EXCEPT ![e.order] =
        CASE e.type = "placed"    -> [@ EXCEPT !.status = "placed"]
          [] e.type = "filled"    -> [status |-> "filled", executed |-> e.qty]
          [] e.type = "cancelled" -> [@ EXCEPT !.status = "cancelled"]]

\* OrderEventHandler.handle_event: the row of OrderEvents and the change of
\* the order are committed together.
HandleOrderEvent ==
    LET e == Head(topic["order"]) IN
    /\ Consume("order")
    /\ Key(e) \notin seen
    /\ e.type # "partially_filled"
    /\ row' = Apply(e)
    /\ seen' = seen \cup {Key(e)}
    /\ UNCHANGED lost

\* _handle_order_partially_filled reads event.executed_quantity, which the
\* event does not have: the exception is logged and the session rolled back.
PartialFillRaises ==
    /\ Consume("order")
    /\ Head(topic["order"]).type = "partially_filled"
    /\ UNCHANGED hvars

\* Any exception of the database is logged as well, the session is rolled
\* back and the next event is read: this one is not tried again.
DatabaseRaises ==
    LET e == Head(topic["order"]) IN
    /\ Consume("order")
    /\ Key(e) \notin seen
    /\ e.type # "partially_filled"
    /\ Cardinality(lost) < MaxLost
    /\ lost' = lost \cup {e.order}
    /\ UNCHANGED <<row, seen>>

DropDuplicate ==
    /\ Consume("order")
    /\ Key(Head(topic["order"])) \in seen
    /\ UNCHANGED hvars

HandlerStep ==
    \/ HandleOrderEvent
    \/ PartialFillRaises
    \/ DatabaseRaises
    \/ DropDuplicate

RowInit ==
    /\ StreamInit
    /\ row = [o \in OrderIds |-> [status |-> "pending", executed |-> 0]]
    /\ seen = {}
    /\ lost = {}

RowNext ==
    \/ EngineStep /\ UNCHANGED hvars
    \/ FanoutStep /\ UNCHANGED <<vars, hvars>>
    \/ HandlerStep

RowSpec == RowInit /\ [][RowNext]_rvars

-----------------------------------------------------------------------------
(***************************************************************************)
(* Correctness.                                                            *)
(***************************************************************************)

\* Every variable of the stream and of the rows has its type.
RowTypeOK ==
    /\ StreamTypeOK
    /\ row \in [OrderIds -> [status : Statuses, executed : Nat]]
    /\ seen \subseteq Nat \X OrderIds \X Statuses
    /\ lost \subseteq OrderIds

Lifecycle == INSTANCE OrderLifecycle
    WITH Orders <- OrderIds, status <- [o \in OrderIds |-> row[o].status]

\* The rows implement the life cycle of an order: a row that says filled or
\* cancelled never says anything else again and none goes back, with
\* messages delivered twice and the consumer any number of events behind.
RowsFollowLifecycle == Lifecycle!Spec

\* Rows never claim what the engine has not done: a filled row is a filled
\* order with the whole quantity, a cancelled row a cancelled order, however
\* far the consumers are behind.
RowsNeverAhead ==
    \A o \in Known :
        /\ row[o].status = "filled" => exec[o] = order[o].qty /\ row[o].executed = exec[o]
        /\ row[o].status = "cancelled" => cancels[o] > 0 /\ o \notin store

\* The rows are sound in every state: types, and no claim ahead of the engine.
RowInv == RowTypeOK /\ RowsNeverAhead

\* Once every event has been read, the rows of the users whose events are
\* logged tell resting, filled and cancelled orders apart as the engine does,
\* although events are delivered twice, partial fills are never applied and a
\* rejected order is cancelled twice.  Only an order whose event met a
\* database error may be told wrongly.
RowsConverge ==
    Drained =>
        \A o \in Known \ lost : order[o].user # System =>
            /\ o \in store => row[o].status \in {"placed", "partially_filled"}
            /\ cancels[o] > 0 => row[o].status = "cancelled"
            /\ Remaining(o) = 0 => row[o].status = "filled"

=============================================================================
