----------------------------- MODULE BalanceRows -----------------------------
(***************************************************************************)
(* The read model of balances: the rows of the table asset_balances and    *)
(* BalanceEventHandler, which applies the balance events                   *)
(* (services/event_handlers/balance_event_handler).  At the start the rows *)
(* agree with Redis.                                                       *)
(***************************************************************************)
EXTENDS EventStream

CONSTANT MaxLost    \* bound: how many users lose events to a database error

\* The handler consumes the topic of the balance events.
ASSUME BalanceRowsAssumption == "balance" \in Followed /\ MaxLost \in Nat

VARIABLES
    rows,     \* the users who have a row
    asset,    \* balance of each user's row; 0 without a row
    escrow,   \* escrow_balance of each user's row; 0 without a row
    seen,     \* command, user and type of the rows of BalanceEvents
    lost      \* history: the users who lost an event to a database error

hvars == <<rows, asset, escrow, seen, lost>>

bvars == <<evars, hvars>>

\* The columns a duplicate is recognised by.
Key(e) == <<e.cmd, e.user, e.type>>

\* Variant of IncreaseAssetBalance: the amount replaces the balance.
ReplaceAssetBalance(e) == [asset EXCEPT ![e.user] = e.qty]

\* _increase_asset_balance; a user without a row gets one with the amount.
IncreaseAssetBalance(e) == [asset EXCEPT ![e.user] = @ + e.qty]

\* _adjust_asset_balance, for an instrument that exists: an increase makes the
\* row it does not find, a decrease of the escrow does nothing without a row.
AdjustAssetBalance(e) ==
    /\ asset' = IF e.type = "bid_settled" THEN IncreaseAssetBalance(e) ELSE asset
    /\ escrow' = [escrow EXCEPT ![e.user] =
                     CASE e.type = "asset_escrow_increased" -> @ + e.qty
                       [] e.type = "asset_escrow_decreased" /\ e.user \in rows -> @ - e.qty
                       [] OTHER -> @]
    /\ rows' = IF e.type \in {"bid_settled", "asset_escrow_increased"}
               THEN rows \cup {e.user} ELSE rows

\* Variant of HandleBalanceEvent: nothing is recorded for the next time.
HandleWithoutRecord ==
    LET e == Head(topic["balance"]) IN
    /\ Consume("balance")
    /\ Key(e) \notin seen
    /\ e.type # "ask_settled"
    /\ AdjustAssetBalance(e)
    /\ UNCHANGED <<seen, lost>>

\* BalanceEventHandler.handle_event: the row of BalanceEvents and the change
\* of the balance are committed together.
HandleBalanceEvent ==
    LET e == Head(topic["balance"]) IN
    /\ Consume("balance")
    /\ Key(e) \notin seen
    /\ e.type # "ask_settled"
    /\ AdjustAssetBalance(e)
    /\ seen' = seen \cup {Key(e)}
    /\ UNCHANGED lost

\* The branch of ASK_SETTLED reads asset_balance_increased, which the event
\* does not have: the exception is logged and the session rolled back.
AskSettledRaises ==
    /\ Consume("balance")
    /\ Head(topic["balance"]).type = "ask_settled"
    /\ UNCHANGED hvars

\* Any exception of the database is logged as well, the session is rolled
\* back and the next event is read: this one is not tried again.
DatabaseRaises ==
    LET e == Head(topic["balance"]) IN
    /\ Consume("balance")
    /\ Key(e) \notin seen
    /\ e.type # "ask_settled"
    /\ Cardinality(lost) < MaxLost
    /\ lost' = lost \cup {e.user}
    /\ UNCHANGED <<rows, asset, escrow, seen>>

DropDuplicate ==
    /\ Consume("balance")
    /\ Key(Head(topic["balance"])) \in seen
    /\ UNCHANGED hvars

HandlerStep ==
    \/ HandleBalanceEvent
    \/ AskSettledRaises
    \/ DatabaseRaises
    \/ DropDuplicate

BalInit ==
    /\ StreamInit
    /\ rows \in {R \in SUBSET Users : \A u \in Users : InitAsset[u] > 0 => u \in R}
    /\ asset = InitAsset
    /\ escrow = [u \in Users |-> 0]
    /\ seen = {}
    /\ lost = {}

BalNext ==
    \/ EngineStep /\ UNCHANGED hvars
    \/ FanoutStep /\ UNCHANGED <<vars, hvars>>
    \/ HandlerStep

BalSpec == BalInit /\ [][BalNext]_bvars

-----------------------------------------------------------------------------
(***************************************************************************)
(* Correctness.                                                            *)
(***************************************************************************)

Bought(u) == SumOver(OrdersOf(u, "bid"), exec)

Sold(u) == SumOver(OrdersOf(u, "ask"), exec)

\* Every variable of the stream and of the rows has its type; without a row
\* there is no balance.
BalTypeOK ==
    /\ StreamTypeOK
    /\ rows \subseteq Users
    /\ asset \in [Users -> Nat]
    /\ escrow \in [Users -> Int]
    /\ \A u \in Users \ rows : asset[u] = 0 /\ escrow[u] = 0
    /\ seen \subseteq Nat \X Users \X EventTypes
    /\ lost \subseteq Users

\* No row ever shows more than its user had and bought, with events delivered
\* twice, commands that settle the same user several times, and events that
\* are delivered again after the database refused them.
NoDoubleCredit ==
    \A u \in Users : asset[u] <= InitAsset[u] + Bought(u)

\* The rows are sound in every state: types, and no event credited twice.
BalInv == BalTypeOK /\ NoDoubleCredit

\* Once every event has been read, the row of a user who bought and sold
\* nothing has grown, unless the database refused an event of the user.  How
\* much it has grown is not said: of two settlements of one command only the
\* first is applied.
BuyersCredited ==
    Drained =>
        \A u \in Users \ (lost \cup {System}) :
            Bought(u) > 0 /\ Sold(u) = 0 => asset[u] > InitAsset[u]

=============================================================================
