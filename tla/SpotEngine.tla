----------------------------- MODULE SpotEngine -----------------------------
(***************************************************************************)
(* The matching engine of one symbol (engine/matching_engines/spot_engine) *)
(* with the strategy for single orders, its order book, its order store    *)
(* and the balances it keeps in Redis.                                     *)
(*                                                                         *)
(* The engine is one process that handles one command at a time.  A new    *)
(* order that crosses the book is matched maker by maker; each maker is    *)
(* one step here, and nothing else happens between two of them (pc).       *)
(*                                                                         *)
(* An exception that escapes handle_command ends the process: the          *)
(* orchestrator logs it and raises it again.  pc keeps which one it was.   *)
(***************************************************************************)
EXTENDS OrderBook, BalanceManager

CONSTANTS Quantities,    \* the quantities an order may have
          OrderTypes     \* the order types in use

ASSUME RequestsAssumption ==
    /\ Quantities \subseteq Nat \ {0}
    /\ OrderTypes \subseteq {"limit", "stop"}

VARIABLES
    order,    \* the orders received, by number: what the request said
    exec,     \* executed_quantity of each order
    paid,     \* value of each order's _fills: the sum of quantity * price
    cancels,  \* how often ORDER_CANCELLED was logged for each order
    store,    \* OrderStore._orders
    book,     \* ctx.orderbook
    wallet,   \* the balances in Redis
    pc,       \* what the engine process is doing
    taker     \* the order being matched

vars == <<order, exec, paid, cancels, store, book, wallet, pc, taker>>

NoOrder == 0

\* "idle": waiting for a command; "matching": inside SpotEngine._match;
\* "dead_modify": the logger raised on a modify; "dead_remove": PriceLevel
\* raised KeyError on the removal of an order that is not on the level.
PCs == {"idle", "matching", "dead_modify", "dead_remove"}

Dead == pc \in {"dead_modify", "dead_remove"}

\* A NEW_ORDER command.  MARKET orders are refused by the API.
Requests == [user  : Users,
             side  : Sides,
             type  : OrderTypes,
             price : Prices,
             qty   : Quantities]

Known == DOMAIN order

Remaining(o) == order[o].qty - exec[o]

-----------------------------------------------------------------------------
(***************************************************************************)
(* Helpers of the engine.                                                  *)
(***************************************************************************)

\* SpotEngine._check_sufficient_balance
Sufficient(w, r, quantity, price) ==
    \/ r.user = System
    \/ r.side = "ask" /\ quantity <= AvailableAsset(w, r.user)
    \/ r.side = "bid" /\ quantity * price <= AvailableCash(w, r.user)

\* The escrow _process_trade takes for an order at its first fill: the whole
\* quantity, a bid at the order's own price.
Hold(w, r) ==
    IF r.side = "bid"
    THEN IncreaseCashEscrow(w, r.user, r.qty * r.price)
    ELSE IncreaseAssetEscrow(w, r.user, r.qty)

\* Variant of HoldAtFirstFill: escrow is taken at every fill.
HoldAtEveryFill(w, o) == Hold(w, order[o])

HoldAtFirstFill(w, o) == IF exec[o] = 0 THEN Hold(w, order[o]) ELSE w

\* SpotEngine._release_escrow
ReleaseEscrow(w, r, unfilled) ==
    IF r.side = "bid"
    THEN DecreaseCashEscrow(w, r.user, unfilled * r.price)
    ELSE DecreaseAssetEscrow(w, r.user, unfilled)

\* Variant of Settle: the two sides are swapped.
SettleSwapped(w, r, quantity, price) ==
    IF r.side = "ask"
    THEN SettleBid(w, r.user, quantity, price)
    ELSE SettleAsk(w, r.user, quantity, price)

Settle(w, r, quantity, price) ==
    IF r.side = "bid"
    THEN SettleBid(w, r.user, quantity, price)
    ELSE SettleAsk(w, r.user, quantity, price)

\* The decision SingleOrderStrategy.handle_new takes before it matches.
Matchable(r) ==
    IF r.type = "limit" THEN LimitCrossable(book, r.side, r.price)
                        ELSE StopCrossable(book, r.side, r.price)

-----------------------------------------------------------------------------
(***************************************************************************)
(* NEW_ORDER: SingleOrderStrategy.handle_new and SpotEngine.match.         *)
(***************************************************************************)

Receive(r) ==
    /\ pc = "idle"
    /\ Len(order) < MaxOrders
    /\ order' = Append(order, r)

\* The order does not cross: it rests, with no balance check and no escrow.
PlaceOrder(r) ==
    LET o == Len(order) + 1 IN
    /\ Receive(r)
    /\ ~Matchable(r)
    /\ store' = store \cup {o}
    /\ book' = AppendOrder(book, r.side, r.price, o)
    /\ UNCHANGED <<exec, paid, cancels, wallet, pc, taker>>

\* The order crosses and its user cannot pay for it at its own price.  match
\* calls handle_cancel, which logs, finds no level at that price on the
\* order's own side, and releases; handle_new then logs and releases again.
RejectOrder(r) ==
    LET o == Len(order) + 1 IN
    /\ Receive(r)
    /\ Matchable(r)
    /\ ~Sufficient(wallet, r, r.qty, r.price)
    /\ book.level[r.side][r.price] = << >>
    /\ cancels' = [cancels EXCEPT ![o] = 2]
    /\ wallet' = ReleaseEscrow(ReleaseEscrow(wallet, r, r.qty), r, r.qty)
    /\ UNCHANGED <<exec, paid, store, book, pc, taker>>

\* As above, but the order's own side has a level at that price.  The order
\* is not on it: PriceLevel.remove raises KeyError after the first log.
RejectOrderRaises(r) ==
    LET o == Len(order) + 1 IN
    /\ Receive(r)
    /\ Matchable(r)
    /\ ~Sufficient(wallet, r, r.qty, r.price)
    /\ book.level[r.side][r.price] # << >>
    /\ cancels' = [cancels EXCEPT ![o] = 1]
    /\ pc' = "dead_remove"
    /\ UNCHANGED <<exec, paid, store, book, wallet, taker>>

BeginMatch(r) ==
    /\ Receive(r)
    /\ Matchable(r)
    /\ Sufficient(wallet, r, r.qty, r.price)
    /\ pc' = "matching"
    /\ taker' = Len(order) + 1
    /\ UNCHANGED <<exec, paid, cancels, store, book, wallet>>

-----------------------------------------------------------------------------
(***************************************************************************)
(* SpotEngine._match.  The loop takes the best price of the other side and *)
(* walks its level from the head.  A maker it has dealt with has left the  *)
(* level, or else the taker is filled, so the next maker is always the     *)
(* head of the best level.  The loop's other exit, a best price equal to   *)
(* the previous one, would need a level that is walked to its end and not  *)
(* empty: BookConsistent excludes it.  The price of the taker is not       *)
(* looked at again.                                                        *)
(***************************************************************************)

MakerSide == Opposite(order[taker].side)

Matching ==
    /\ pc = "matching"
    /\ Remaining(taker) > 0
    /\ book.best[MakerSide] # NoPrice

Maker == Head(book.level[MakerSide][book.best[MakerSide]])

TradeQuantity ==
    IF Remaining(Maker) < Remaining(taker) THEN Remaining(Maker)
                                           ELSE Remaining(taker)

\* SpotEngine._process_trade: fills, removal of a filled maker, escrow at a
\* first fill (maker, then taker), settlement (taker, then maker).
Trade ==
    LET m  == Maker
        q  == TradeQuantity
        p  == book.best[MakerSide]
        w1 == HoldAtFirstFill(wallet, m)
        w2 == HoldAtFirstFill(w1, taker)
        w3 == Settle(w2, order[taker], q, p)
        filled == Remaining(m) = q
    IN
    /\ Matching
    /\ Sufficient(wallet, order[m], q, p)
    /\ exec' = [exec EXCEPT ![taker] = @ + q, ![m] = @ + q]
    /\ paid' = [paid EXCEPT ![taker] = @ + q * p, ![m] = @ + q * p]
    /\ store' = IF filled THEN store \ {m} ELSE store
    /\ book' = IF filled THEN RemoveOrder(book, MakerSide, p, m) ELSE book
    /\ wallet' = Settle(w3, order[m], q, p)
    /\ UNCHANGED <<order, cancels, pc, taker>>

\* The maker's user cannot pay for the trade: the maker is cancelled.
CancelMaker ==
    LET m == Maker
        p == book.best[MakerSide]
    IN
    /\ Matching
    /\ ~Sufficient(wallet, order[m], TradeQuantity, p)
    /\ cancels' = [cancels EXCEPT ![m] = @ + 1]
    /\ book' = RemoveOrder(book, MakerSide, p, m)
    /\ store' = store \ {m}
    /\ wallet' = ReleaseEscrow(wallet, order[m], Remaining(m))
    /\ UNCHANGED <<order, exec, paid, pc, taker>>

\* MatchOutcome.SUCCESS: the taker was filled and was never stored.
TakerFilled ==
    /\ pc = "matching"
    /\ Remaining(taker) = 0
    /\ pc' = "idle"
    /\ taker' = NoOrder
    /\ UNCHANGED <<order, exec, paid, cancels, store, book, wallet>>

\* Variant of PlaceRemainder: a taker that traded is forgotten.
ForgetRemainder ==
    /\ pc = "matching"
    /\ Remaining(taker) > 0
    /\ book.best[MakerSide] = NoPrice
    /\ pc' = "idle"
    /\ taker' = NoOrder
    /\ UNCHANGED <<order, exec, paid, cancels, store, book, wallet>>

\* PARTIAL or FAILURE: the other side is empty, what is left of the taker
\* is placed.
PlaceRemainder ==
    LET r == order[taker] IN
    /\ pc = "matching"
    /\ Remaining(taker) > 0
    /\ book.best[MakerSide] = NoPrice
    /\ store' = store \cup {taker}
    /\ book' = AppendOrder(book, r.side, r.price, taker)
    /\ pc' = "idle"
    /\ taker' = NoOrder
    /\ UNCHANGED <<order, exec, paid, cancels, wallet>>

-----------------------------------------------------------------------------
(***************************************************************************)
(* CANCEL_ORDER and MODIFY_ORDER.  An order that is not in the store is    *)
(* ignored, which changes nothing here.                                    *)
(***************************************************************************)

CancelOrder(o) ==
    LET r == order[o] IN
    /\ pc = "idle"
    /\ o \in store
    /\ cancels' = [cancels EXCEPT ![o] = @ + 1]
    /\ book' = RemoveOrder(book, r.side, r.price, o)
    /\ store' = store \ {o}
    /\ wallet' = ReleaseEscrow(wallet, r, Remaining(o))
    /\ UNCHANGED <<order, exec, paid, pc, taker>>

\* Both events of a modify lack the field "order" that OrderEventBase asks
\* for, so log_order_event raises for every user whose events are logged.
ModifyRaises(o) ==
    /\ pc = "idle"
    /\ o \in store
    /\ order[o].user # System
    /\ pc' = "dead_modify"
    /\ UNCHANGED <<order, exec, paid, cancels, store, book, wallet, taker>>

\* Events of the system user are not logged.  A new price (or none) that
\* crosses is refused.  Otherwise the order leaves the book and comes back: the
\* assignment to order.price sets the key "price" of the dictionary and not
\* the one the property price reads, so the order comes back at its old
\* price, behind the others of its level.
ModifyRequeues(o, newPrice) ==
    LET r == order[o] IN
    /\ pc = "idle"
    /\ o \in store
    /\ r.user = System
    /\ newPrice = NoPrice \/ ~Matchable([r EXCEPT !.price = newPrice])
    /\ book' = AppendOrder(RemoveOrder(book, r.side, r.price, o),
                           r.side, r.price, o)
    /\ UNCHANGED <<order, exec, paid, cancels, store, wallet, pc, taker>>

-----------------------------------------------------------------------------
Init ==
    /\ order = << >>
    /\ exec = [o \in OrderIds |-> 0]
    /\ paid = [o \in OrderIds |-> 0]
    /\ cancels = [o \in OrderIds |-> 0]
    /\ store = {}
    /\ book = EmptyBook
    /\ wallet = InitWallet
    /\ pc = "idle"
    /\ taker = NoOrder

Command ==
    \/ \E r \in Requests : PlaceOrder(r)
    \/ \E r \in Requests : RejectOrder(r)
    \/ \E r \in Requests : RejectOrderRaises(r)
    \/ \E r \in Requests : BeginMatch(r)
    \/ \E o \in OrderIds : CancelOrder(o)
    \/ \E o \in OrderIds : ModifyRaises(o)
    \/ \E o \in OrderIds : \E p \in Prices \cup {NoPrice} : ModifyRequeues(o, p)

MatchStep ==
    \/ Trade
    \/ CancelMaker
    \/ TakerFilled
    \/ PlaceRemainder

Next == Command \/ MatchStep

Spec == Init /\ [][Next]_vars

-----------------------------------------------------------------------------
(***************************************************************************)
(* Correctness.                                                            *)
(***************************************************************************)

\* Every variable has its type.
TypeOK ==
    /\ order \in Seq(Requests)
    /\ Len(order) <= MaxOrders
    /\ exec \in [OrderIds -> Nat]
    /\ paid \in [OrderIds -> Nat]
    /\ cancels \in [OrderIds -> Nat]
    /\ store \in SUBSET OrderIds
    /\ book \in Books
    /\ wallet \in Wallets
    /\ pc \in PCs
    /\ taker \in OrderIds \cup {NoOrder}

\* The order store and the levels hold the same orders, each one on the level
\* of its own side and price, with something left to trade.
BookMatchesStore ==
    /\ \A s \in Sides, p \in Prices, o \in OrderIds :
          OnLevel(book, s, p, o) <=>
              o \in store /\ order[o].side = s /\ order[o].price = p
    /\ \A o \in store : o \in Known /\ Remaining(o) > 0

\* Through any sequence of placements, fills, cancellations and requeueings,
\* the three copies of the book that the code keeps (cached best prices,
\* levels, order store) agree.
BookConsistent ==
    /\ BestIsExtremum(book)
    /\ NoDuplicates(book)
    /\ BookMatchesStore

\* Every order the engine has received has exactly one fate: it is stored,
\* or it is the order being matched, or it was filled, or a cancellation was
\* logged for it.  It is not lost, it is not both filled and cancelled, it
\* is not cancelled and still in the book, and it is never filled beyond its
\* quantity.
OneFate ==
    \A o \in Known :
        /\ exec[o] <= order[o].qty
        /\ o \in store => o # taker /\ cancels[o] = 0 /\ Remaining(o) > 0
        /\ o = taker => cancels[o] = 0
        /\ o \notin store /\ o # taker => (Remaining(o) = 0 <=> cancels[o] = 0)

\* The order being matched is known and the engine matches nothing else, and
\* an order not yet received has no history.
MatchState ==
    /\ pc = "matching" <=> taker # NoOrder
    /\ taker # NoOrder => taker \in Known
    /\ \A o \in OrderIds \ Known : exec[o] = 0 /\ cancels[o] = 0

\* The inductive invariant of SpotEngineProofs.
IInv ==
    /\ TypeOK
    /\ BookConsistent
    /\ OneFate
    /\ MatchState

OrdersOf(u, side) == {o \in Known : order[o].user = u /\ order[o].side = side}

SumOver(S, f) == MapThenSumSet(LAMBDA o : f[o], S)

\* Each user's balances are what the user started with, plus what the user's
\* orders bought and were paid, less what they sold and paid: no settlement
\* is missed, repeated or booked to the wrong side, whether the user is the
\* taker, the maker or both.
BalancesReconcile ==
    \A u \in Users \ {System} :
        /\ wallet[u].cash = InitCash[u] + SumOver(OrdersOf(u, "ask"), paid)
                                       - SumOver(OrdersOf(u, "bid"), paid)
        /\ wallet[u].asset = InitAsset[u] + SumOver(OrdersOf(u, "bid"), exec)
                                         - SumOver(OrdersOf(u, "ask"), exec)

\* What an order that is stored or being matched may still need.
OpenQty == [o \in Known |-> IF o \in store \/ o = taker THEN Remaining(o) ELSE 0]

OpenValue == [o \in Known |-> OpenQty[o] * order[o].price]

\* No escrow is stranded: what a user's escrow holds never exceeds what the
\* user's open orders may still need, so that it is gone when they are,
\* through partial fills, cancellations, rejections and trades with oneself.
\* A bid that was filled below its own price is the exception for cash:
\* _process_trade holds at the order's price and settles at the trade's, and
\* nothing releases the difference.
NoEscrowStranded ==
    \A u \in Users \ {System} :
        /\ wallet[u].assetEscrow <= SumOver(OrdersOf(u, "ask"), OpenQty)
        /\ (\A o \in OrdersOf(u, "bid") : paid[o] >= exec[o] * order[o].price)
             => wallet[u].cashEscrow <= SumOver(OrdersOf(u, "bid"), OpenValue)

OnlyLimits == \A o \in Known : order[o].type = "limit"

\* As long as only limit orders have been sent, the book is not crossed
\* between two commands, although a taker is matched against every price of
\* the other side and makers are cancelled while it is matched; and the
\* rejection of an order never fails.
LimitBookSound ==
    OnlyLimits =>
      /\ pc # "dead_remove"
      /\ pc = "idle" /\ book.best["bid"] # NoPrice /\ book.best["ask"] # NoPrice
           => book.best["bid"] < book.best["ask"]

\* A stored order is filled only when no stored order of its side has a
\* better price, and no stored order with its price arrived before it (the
\* system user's, which a modify may move back, excepted).
PriceTimePriority ==
    [][\A o \in store : exec'[o] > exec[o] =>
         \A q \in store \ {o} : order[q].side = order[o].side =>
            /\ ~Better(order[o].side, order[q].price, order[o].price)
            /\ order[q].price = order[o].price /\ order[q].user # System
                 => o < q]_vars

-----------------------------------------------------------------------------
(***************************************************************************)
(* What the documentation says, and the code does not do.                  *)
(***************************************************************************)

\* "Support for limit and stop orders": no limit order pays more, or is paid
\* less, than its limit for what it traded.
LimitRespected ==
    \A o \in Known : order[o].type = "limit" =>
        IF order[o].side = "bid" THEN paid[o] <= exec[o] * order[o].price
                                 ELSE paid[o] >= exec[o] * order[o].price

=============================================================================
