# A TLA+ model of spectuel-backend

The repository is a spot exchange: an HTTP and WebSocket API puts commands on
Kafka, one engine process per symbol matches orders and keeps balances in Redis,
a shadow of each engine takes snapshots, a heartbeat server records which engines
are alive, and a set of consumers builds the read models. This directory models
the parts that decide whether orders, balances and engine status are right.

## Inventory

| Part | State | Operations | Talks to |
|---|---|---|---|
| Order book (`engine/orderbook`) | levels per side (FIFO lists with a tracker), cached best bid and ask | `append`, `remove`, `get_orders`, crossing tests | called by the engine and the strategies |
| Orders, order store | one dictionary per order, list of fills; store by id | `add_fill`, `add`, `remove`, `get` | shared by book, store, strategies |
| Spot engine, single orders | execution context, current command | NEW, CANCEL and MODIFY command, `match`, `_process_trade`, `_release_escrow` | book, store, balance manager, logger |
| Multi-leg strategies (OCO, OTO, OTOCO) | links between legs, triggered flags | activation on fill, cancellation of the counterpart | engine, book, store |
| Balance manager | cash, cash escrow, asset, asset escrow and logs of event ids, in Redis | reads with defaults; Lua scripts for updates and settlements | engines of all symbols, the API |
| Orchestrator, shadow, loader | Kafka position, event queue, batch and index, snapshots | command loop, replay, snapshot, load, seed | engine, heartbeat client, database |
| Heartbeat server and client | registry of connections, instrument status | register, heartbeat, timeout, close | database, shadow process |
| Loggers, events, commands | hooks, producer | validate, publish, forward to the shadow | Kafka, event queue |
| Fanout and event handlers | order, balance and event rows | route, deduplicate, apply | Kafka, database, Redis |
| Order book publisher | aggregated book, active orders | rehydrate, apply, publish | two Kafka topics |
| OHLC builder | one bar per symbol and time frame | trade, end of period | Kafka, database |
| Orders API | order rows, the producer's batch | create (four kinds), modify, cancel | database, Kafka |
| Authentication | user row, tokens, one-time codes in Redis | register, login, logout, verify, three confirmed changes | database, Redis, balance manager |
| Market, user and public endpoints, rate limit | none (the middleware is not installed, `api/app.py:71`) | queries | database |
| WebSocket connection managers | connection per user, subscriptions, cleanup queue | connect, subscribe, broadcast, clean up | Kafka, clients |
| Runners, CLI, migrations, e-mail | none | wiring and I/O | |

What is hard in it: the engine is sequential but keeps the same facts in several
places (three copies of the book; escrow that is taken by one rule and released
by another) and an exception in the middle of a command ends it; the heartbeat
server interleaves coroutines and has three writers of one status; recovery
combines a snapshot, a command log and balances that survive the crash; the read
models see events at least once and on several topics. `PROJECT.json` lists each
hazard at its line.

What makes each part right: the book's copies agree and fills follow price and
time; every order has exactly one fate; balances and escrow are explained by the
orders; a served client is registered and ALIVE and a lost one becomes DEAD; of
two linked legs one trades, and children follow their parent; a committed command
was applied, the shadow follows its engine and a snapshot is the state at its
offset; the read models never claim what the engine has not done and converge to
it; an accepted order gets a decision and a cancellation holds; a new user is
credited, and for each code at most once per request that is being served; an open
connection is served and an ended one forgotten.

## Modules

`OrderBook` has the book as a value and each method of the class as an operator:
`AppendOrder`, `RemoveOrder`, `LimitCrossable`, `StopCrossable`. A side is a
function from prices to queues; a price that is not a key of the `SortedDict` has
the empty queue. The cached best prices are a field of their own, so that the
cache can be compared with the levels.

`BalanceManager` has the wallet (four balances per user) and one operator per
method. A method is one Lua script, hence atomic. Event ids are fresh at every
call, so the scripts' duplicate test never succeeds within one life of the
engine and is left out. Amounts are integers: ticks and lots in place of floats.

`SpotEngine` is the engine process. `order` is the sequence of requests received,
`exec` and `paid` are an order's executed quantity and the value of its fills,
`cancels` counts the ORDER_CANCELLED events logged for it (a history the code
sends to Kafka), `store` and `book` are the execution context, `wallet` is Redis,
and `pc` and `taker` say where the process is.

| Action | Code |
|---|---|
| `PlaceOrder` | `handle_new`, order does not cross |
| `RejectOrder`, `RejectOrderRaises` | `handle_new` and `match`, insufficient balance; the second where the removal of the unplaced order raises |
| `BeginMatch` | `match` reaches `_match` |
| `Trade`, `CancelMaker` | one turn of the inner loop of `_match` |
| `TakerFilled`, `PlaceRemainder` | the end of `_match` and of `handle_new` |
| `CancelOrder` | `handle_cancel` |
| `ModifyRaises`, `ModifyRequeues` | `_modify_order`; the events of the system user are not logged, so only its modifications get past the logger |

A command for an unknown order, and a refused modification of a system order,
change nothing and are the stuttering steps of the specification.

`Heartbeat` has one record of progress per connection for each of its three threads of
control: the client's main thread (`client`), its heartbeat thread (`thread`) and the
server's coroutine (`handler`). What a coroutine does between two awaits is one step; a
database write is a step of its own, and may fail (`WriteAliveFails`, outside the `try`;
`WriteDeadFails`). `inbox` says whether lines wait at the server; heartbeats are alike,
so their number is not kept. A client may be closed by its shadow, killed (the kernel
closes the socket), or vanish (nothing comes any more); its heartbeat thread ends
without a word when a send times out (`SendTimesOut`). Clients of one symbol may run at
the same time. `Timely` is the assumption that no message of a running client is late,
justified by the command line, which sets the interval of the heartbeats to half the
timeout.

`MultiLeg` extends `SpotEngine` with the three linked strategies. `links` is what
the dictionaries of linked orders refer to, `waiting` the orders whose flag
`active` is false. An event about a trader's linked order cannot be encoded and
ends the process (`LinkedEventRaises`), so what the handlers do beyond their first
event is reached by the orders of the system user, whose events are not logged.
The API in turn never sends a linked command (see `OrdersApi`); the module is
about the engine as its commands would drive it. `PlaceOCO`, `PlaceParent` and
`MatchParent` are `handle_new`; `OCOFilled`, `OTOFilled` and `OTOCOFilled` are the
`handle_filled` of a trade; `CancelOCO`, `CancelOTO`, `CancelOTOCO` and
`LinkedModify` are the rest. What the code passes from call to call - book, store,
links, flags and whether something raised - is the record `Context`.

`EventStream` extends `SpotEngine` with the events each action logs, in the order
of the log calls, each of which adds one event or, for the system user, none; and
with the fanout: `Route` moves an event to the topic of its
category up to `MaxCopies` times (delivery at least once), `FanoutFails` is its
end. Three consumers build on it:

- `OrderRows`, the order event handler and its rows. `Key` is the duplicate test,
  `PartialFillRaises` the event that is dropped by an exception of the handler's own,
  `DatabaseRaises` an event dropped by an error of the database (`lost` remembers its
  order). `OrderLifecycle` is the abstract specification of a status; `OrderRows` implements it under the
  mapping of a row to its status (`RowsFollowLifecycle`).
- `BalanceRows`, the balance event handler, with `AskSettledRaises` and
  `DatabaseRaises`. A user may have no row: an increase makes one, a decrease of the
  escrow does nothing without it.
- `OrderBookPublisher`, on top of `OrderRows`, whose rows it reads at a restart:
  two feeds read in any mixture, levels and active orders. It has no test for
  duplicates; `repeated` remembers the orders one of whose messages was sent again. What
  it publishes from time to time is a copy of `level` and no state of its own. A
  restart loses what the fanout and the order event handler have not read: their
  consumers have no group.

`OHLCBuilder` has a clock, the trades, the consumer that folds them into the bar of
each frame and one sleeper per frame, which takes its snapshot under the lock and
inserts the row later. After a restart trades whose offset was not committed are
read again. `punctual`, chosen at the start and never changed, marks the
behaviours in which nobody is late and nothing fails.

`EngineRecovery` is the orchestrator with its shadow and loader. The state of an
engine is the sequence of the commands it applied with their outcome. `Receive`,
`Apply`, `Process` are one turn of the command loop, `NoticeDeath` the turn that
finds the shadow dead; `ShadowReceived`, `ShadowEvent`, `ShadowProcessed` (with the
replay and the snapshot) the shadow's; `StartFresh` and `StartRestored` the two
ways of the loader. Offsets, auto-commit and the end of a process are external. A
crash takes the shadow and the queue along; a shadow that survives its
orchestrator is not modelled. `assign` on a consumer that was created with its
topic raises `IllegalStateError` in kafka-python: `StartRestored` fails.

`Auth` is the account of one user. A request is a record in `job` that goes from
await to await; `Register`, `LoginRead`, `LoginCommit`, `LogoutCommit`,
`RequestRead`, `RequestDelete`, `RequestSet`, `VerifyRead`, `VerifyDelete`,
`VerifyCredit`, `VerifyCommit`, `ChangeDelete`, `ChangeSet`, `ActionRead` and
`ActionDelete` are those steps, `MailExpires` and `ChangeExpires` the expiry of
keys, `RequestFails` an error at an await (the row is rolled back, Redis is not).
The payload of a username or e-mail change is a string after decoding, and the key
of a password change is not the one that is read: `PayloadIsRead` and `KeyIsRead` say
which changes get that far.

`WsConnections` is the orders WebSocket for one user: the socket coroutines, the
listener with its timeout and the cleanup worker. `orderly` marks the behaviours in
which sockets do not overlap and sends do not fail. `MarketConnections` is the market
WebSocket with its two indexes; `MktSubscribeRaises` is a request that raises between
the update of the one and of the other (`torn` remembers the socket), `started` says
whether the manager in use was started, which in the application it is not.
`MCWebSockets` composes the two: they run in one process and share no state, so one of
them, chosen at the start, moves.

`OrdersApi` has the requests between their awaits: rows committed, command in the
producer's batch, answer. The session of a request is made by `smaker.begin()`, and
SQLAlchemy refuses any statement on it after `commit`: the `refresh` of a linked
order raises (`RefreshRaises`). Producer, engine and order event handler are kept as
far as the endpoints depend on them: `send` may raise (`PutRaises`); a batch is
written, written twice (`BatchResent`) or expires (`BatchExpires`), of which the
endpoint hears nothing; the engine ends at a modification and at a second copy of an order
that rests (`EngineRaises`), or at a rejection (`RejectionRaises`), and stays down - its
restart is in `EngineRecovery`; the event of what it did may never reach the row
(`EventLost`). `lost` and `missed` remember the orders whose creation or whose last event
went that way. The validation of fields and the endpoints that only read are left out.

The modules with `Proofs` in their name hold the theorems: `SpotEngineProofs`,
which `MultiLegProofs`, `OrderRowsProofs` (rows and publisher) and `BalanceRowsProofs`
extend, `EngineRecoveryProofs`, `OrdersApiProofs`, `AuthProofs`, and `StreamProofs` for
the OHLC builder, both connection managers and the heartbeat. The modules with the
prefix `MC` fix constants for TLC. `OHLCBuilder`, `EngineRecovery` and `OrdersApi`
need no definitions for their constants and are run as they are.

How the modules build on each other: `OrderBook` and `BalanceManager` are used by
`SpotEngine`; `MultiLeg` and `EventStream` extend it; `OrderRows` and `BalanceRows`
extend `EventStream`; `OrderBookPublisher` extends `OrderRows`; `MCWebSockets` extends
the two connection managers; the rest stand alone.

## Runs

| Run | Result | Question |
|---|---|---|
| `MCSpotEngine` | holds | do the copies of the book agree, has every order one fate, are balances explained by the orders, is no escrow left behind by orders that are gone, is a book of limit orders uncrossed between commands, do fills respect price and time? |
| `MCMultiLeg` | holds | do book, store and flags agree with linked orders, does one leg of a pair trade, do children follow their parent, does a partly filled leg stay, and does a linked order end the engine in the known ways only? |
| `MCOrderRows` | holds | are rows never ahead of the engine, do they converge to it and implement the life cycle, with events delivered twice, events lost to the database and a fanout that may end? |
| `MCBalanceRows` | holds | is nobody credited twice, and every user who only bought credited, with events delivered twice and lost to the database, and rows that do not exist? |
| `MCPublisher` | holds | engine, fanout, rows and publisher with a restart, repeated messages, a fanout that may end and a database error: is a level the sum of the active orders and is no resting order hidden, wherever no message was repeated; does a fill reach its row unless one of these failures takes it? |
| `MCOHLC` | holds | does a stored bar show no later price, and is none stored early, whoever is late and whatever fails; are the rows the bars of the trades when nobody is late? |
| `MCAuth` | holds | do overlapping and failing requests credit a code at most once each, credit whom they verify and issue no claim before its time? |
| `MCWebSockets` | holds | is an ended connection queued for removal, is an orderly client served; do the two market indexes agree for every socket whose last request did not raise, and does a manager that was started forget ended sockets? |
| `MCRecovery` | holds | does the shadow follow, is a snapshot the state at its offset, is no committed command skipped or repeated, is the shadow's death noticed? |
| `MCOrdersApi` | holds | do rows precede decisions, does a cancellation after the answer hold although batches are sent twice, and is an accepted order decided unless the producer lost it, the engine ended or its event was lost? |
| `MCHeartbeat` | holds | do only running coroutines, and the one whose write of ALIVE failed, have an entry; does a lone client stay ALIVE and is a lost client found DEAD, when running clients are timely and the writes succeed? |
| `MCSpotLimitPrice` | violated | does no limit order trade beyond its limit? |

The violated property states what the documentation says; the finding in
`PROJECT.json` quotes the line and describes the counterexample.

Types are proved for the modules that have theorems of their own about them. For the
others they are part of the invariant that describes every state, one conjunction each:
`MInv` (types, mutual links, `LinkedBookConsistent`), `RowInv` (`RowsNeverAhead`),
`BalInv` (`NoDoubleCredit`), `PubInv` (`LevelsMatchOrders`) and `OHLCInv`
(`NoLookAhead`, `StoredAfterBegin`).

Deadlock is not checked: the inputs are bounded and a process that has raised has
stopped.

### Disagreements met while modelling

The models do what the code does. Where that differs from what the documentation
or a test says, the action named here has the difference; the properties are stated so
that they hold of the code and would hold of a repaired one:

| Where | What the code does |
|---|---|
| `PlaceOrder`, `HoldAtFirstFill` | An order is placed without escrow, which is taken at its first fill (`spot_engine.py:297`); `src/README.md:425` says "Assets locked in pending orders". `NoEscrowStranded` is an upper bound: escrow that is taken late, or released without being taken, is not caught by it. |
| `CancelOrder` | Cancelling an order that never traded releases escrow that was never taken (`spot_engine.py:380`); the docstring at `:371` says "if the executed quantity is greater than 0". |
| `BeginMatch`, `Trade` | A taker is checked once, for its own price, and a trade can leave a negative balance; `src/README.md:397` lists "Balance validation before execution". |
| `ModifyRaises` | The event of a modification fails its validation and ends the process (`modify_order_mixin.py:55`); `src/README.md:396` lists "Order modification and cancellation". |
| `RejectOrderRaises` | A rejected order is removed from a level that does not hold it, which raises; the test at `test_spot_engine_matching.py:68` is named `test_insufficient_balance_cancels_order`. |
| `Heartbeat`, without `Timely` | The shadow's own write of ALIVE can come after the server's DEAD and stay (`engine_shadow.py:105`); `src/README.md:335` says "engine marked as dead". |
| `Heartbeat`, the end of a coroutine | It removes the entry of its symbol whichever connection holds it (`server.py:130`), so a client that has reconnected is unregistered and marked DEAD. `LoneClientAlive` is about the only connection of a symbol for that reason. |
| `WriteAliveFails` | The first write of ALIVE is outside the `try` (`server.py:102`): when it raises, the entry stays and nobody watches the client. `RegistryServed` names this as the one way. |
| `LinkedEventRaises` | The dictionary of a linked order cannot be encoded: the first event about a trader's linked order ends the process; `test_oco_strategy.py:8` says "both legs are placed and linked correctly" with the logger replaced. |
| `MatchParent`, `OCOFilled` | An OTOCO parent that fills at once has its children appended twice (`otoco_strategy.py:93`), and the second fill of an OCO leg removes a counterparty that has left (`oco_strategy.py:59`): both raise. `LinkFailuresExplained` says that these are the only ways. |
| `OTOCOFilled` | A partial fill of a child withdraws the child itself with its counterparty (`otoco_strategy.py:137`). `PartialFillPersists` is stated for the other legs. |
| `PartialFillRaises` | The handler reads a field the event does not have: a partial fill never reaches the row (`order_event_handler.py:174`). `RowsConverge` accepts either status of a resting order. |
| `DatabaseRaises` | Both handlers log any exception and go on (`order_event_handler.py:144`): the event is not tried again. The properties of rows name the orders and users this happened to. |
| `FanoutFails` | The fanout prints an exception and returns; the docstring `services_runner.py:54` says "Relaunches the task on failure", the callback only logs. |
| `AskSettledRaises`, `Key` of `BalanceRows` | What was sold is never subtracted (`balance_event_handler.py:141`), and the second settlement of a user in one command is taken for a duplicate (`:75`): `BuyersCredited` says that a buyer's row has grown, not by how much. |
| `HandleOrderPlaced`, `HandleTrade` | The publisher does not recognise a message that is delivered twice and counts it twice (`orderbook_publisher/service.py:208`, `:239`). The properties of levels are about the ones none of whose orders had a message repeated. |
| `HandleTrade` | A trade read before the placement of its maker is ignored and the level stays too large (`orderbook_publisher/service.py:239`): `NoHiddenLiquidity` is one-sided. |
| `Restart` of the publisher | Rows are read first and the topics from the latest offset (`service.py:64`): an order in between is in neither. The properties of levels are stated up to the first restart. |
| `Fold` | A late trade moves the bar back to its period, which is stored twice, and a trade of the new period before the sleeper replaces the old bar, which is never stored (`ohlc_builder/service.py:108`). |
| `RequestRead`, `RequestSet` | The counter of sent codes is read and written at different awaits: overlapping requests send more mails than the limit, and one that reads between the two writes of another starts from 0 (`auth/router.py:127`, `:140`). No property claims the limit. |
| `VerifyRead`, `VerifyDelete` | Two verifications that read the code before either deletes it credit the user twice; `test_auth_router.py:361` asserts one call. `CreditsPerCode` bounds the credits by the requests served at the same time. |
| `ActionRead`, `ActionDelete` | No confirmed change is ever applied: the payloads of two changes are encoded twice (`auth/router.py:258`) and the key of the third is never read (`:328`). |
| `Cleanup`, `WsSendFails` | The worker removes whatever connection the user has, also the one that replaced the queued one (`ws/orders/connection_manager.py:219`), and a send that times out removes the connection of an open socket (`:209`). `OpenIsServed` is about orderly behaviours. |
| `MktSubscribeRaises` | A request whose lists are null or whose bars are no objects raises when the sets are changed and the subscription is not yet recorded (`routers/markets/connection_manager.py:71`), and the socket stays open. `ConnsMatchSubscriptions` is about the other sockets, and about this one from its next subscription on. |
| `MktInit` | The application starts one market manager (`api/app.py:39`) and the endpoint uses another (`routers/markets/router.py:31`). |
| `Commit`, `Apply` | A command read again after a crash changes the balances again; `src/README.md:292` says "Can safely retry operations without double-counting". `AtLeastOnce` and `CommittedNotRepeated` say what is left. |
| `StartFresh` | Without a snapshot the engine starts with the seeded book and at the committed offset; `src/README.md:381` says "Replay all events from logs". |
| `StartRestored` | `assign` on a subscribed consumer raises (`engine_orchestrator.py:62`); `src/README.md:282` says "engine loads latest snapshot". |
| `CheckSufficientBalance` | The shadow takes the event at the next index for the outcome of a balance check and can replay a rejected command as a filled one (`engine_shadow.py:184`). `ShadowFollows` compares commands, not outcomes. |
| `RefreshRaises` | The rows of a linked order are committed and its command is never made (`orders/service/service.py:170`). |
| `Crash`, `BatchExpires`, `BatchResent` | An order answered as accepted is lost when the process ends before the batch is sent or when the batch expires: nobody awaits the future of `send` (`api/utils.py:20`). A batch that is sent twice ends the engine if the order still rests, or lets a cancelled order rest until its cancellation is read again. `AcceptedIsDecided` and `LateCancelHolds` say what is left. |
| `CommitRows` | The row can be cancelled before the creation's command is put: the cancellation comes first in the partition and the engine ignores it (`service.py:94`). `LateCancelHolds` is about cancellations after the answer. |

### Bounds

Engine: two prices (a level can be swept, and a next level reached), quantities 1
and 2 (partial and full fills), balances that pay for some orders and not for
others, three orders with the system user and stop orders (a taker against two
makers on one level or two). `MaxOrders` counts the orders
ever submitted; cancellations and modifications are not bounded.

Heartbeat: one symbol, since the symbols share nothing but the event loop, and
two connections, which may overlap, enough for a late coroutine of the first to meet
the second and for each to outlive the other. `MaxConns` counts the connections ever
made.

`MCMultiLeg`: two single and one linked order at a time up to three linked orders, five
in all: an OTOCO with a taker that fills it in parts, or an OCO that meets the children
of another order. Read models: one or two users, one price, three orders of quantity 1
or 2 (a maker filled by two takers, a taker filled by two makers), each message
delivered up to twice, one order or user that loses events to the database (`MaxLost`).
Publisher: two orders, up to two copies of the messages of one order (`MaxRepeated`),
one order that loses events, and one restart of the services, since engine, fanout, rows
and publisher move together; the limit of twenty levels is out of reach. `OHLCBuilder`:
frames of one and two seconds, a clock from 0 to 3, three trades of two prices: a trade
and a sleeper can each be late by more than a period. `Auth`: two requests at a time,
three codes and three tokens, one attempt, so that the limits are reached.
`WsConnections`: three sockets of one user. `MarketConnections`: two sockets, two feeds;
`MaxQueue` bounds the cleanup queue. `EngineRecovery`: three commands, two crashes of
either process, a snapshot every two commands. `OrdersApi`: two requests, which may
overlap (`MaxRequests`), three orders: an OTOCO, a linked and a single order, two single
ones, or one with a change or cancellation of it.

### Fairness

`Heartbeat`: weak fairness of each coroutine, because the event loop runs every
coroutine that is ready and every wait of the server has a timeout. Nothing is
assumed of the clients.

`OrderBookPublisher`: the loops of the fanout, which may end it, and of the order event
handler, which may drop the event. Nothing is assumed of the engine.
`MarketConnections`: the cleanup worker, a task that waits for its queue.
`EngineRecovery`: the loops of the two processes while these live. `OrdersApi`: a
request that has begun (a coroutine that is ready), the producer's sender, which does
something with every batch, the engine while it runs and the handler, which comes to
every event that is not lost; no request has to come. All of it is weak fairness.

## Proofs

TLAPS proves, for all values of the constants (any users, prices, quantities,
number of orders; any symbols and connections):

- `SpotEngineProofs`: `TypeCorrect`, `BookAlwaysConsistent`, `EveryOrderHasOneFate`
  (`Spec => []TypeOK`, `[]BookConsistent`, `[]OneFate`),
  `BalancesAlwaysReconcile`, `EscrowNeverStranded`, `LimitBookAlwaysSound` and the
  action property `PriceTimePriorityHolds`;
- `MultiLegProofs`: `LinkedBookAlwaysConsistent` (`MSpec => []MInv`),
  `OneLegAlwaysTrades`, `ChildrenAlwaysFollow`, `LinkFailuresAlwaysExplained` and the
  action property `PartialFillsPersist`, for any mixture of single and linked orders;
- `OrderRowsProofs`: `RowsNeverClaimAhead` (`RowInv`), `RowsAgreeWhenDrained`
  (`RowsConverge`) and the refinement `RowsImplementLifecycle`, for any number of copies
  of a message and consumers any number of events behind; and of the publisher
  `LevelsAreActiveOrders` (`PubInv`) and
  `LevelsHideNothing` (`NoHiddenLiquidity`), for any number of orders, restarts and
  copies of a message;
- `BalanceRowsProofs`: `NeverCreditedTwice` (`BalInv`) and `BuyersCreditedWhenDrained`
  (`BuyersCredited`), for any number of users, orders and copies of a message;
- `AuthProofs`: `AuthTypes`, `CodesPayOncePerRequest`, `VerifiedIsCredited` and
  `ClaimsStayBehind`, for any number of overlapping requests;
- `EngineRecoveryProofs`: `RecoveryTypes`, `DeliveredAtLeastOnce`, the action
  property `CommittedStays`, `ShadowAlwaysFollows` and `SnapshotsAtOffset`, for any number
  of commands and crashes and any snapshot interval;
- `OrdersApiProofs`: `ApiTypes`, `RowsAlwaysPrecede` and `LateCancelAlwaysHolds`, for any
  number of requests and orders, with crashes of the process and batches that are lost
  or sent again;
- `StreamProofs`: `StoredBarsSound` (`OHLCInv`) and `RowsAlwaysMatch` (`RowsMatchTrades`),
  for any time frames and any number of trades and seconds; `WsTypes`,
  `WsEndedIsQueued`, `WsOpenIsServed`, `MktTypes` and `MktConnsMatch`, for any number of
  sockets and feeds; `RegistryAlwaysServed` (`Spec => [](TypeOK /\ RegistryServed)`) and
  `LoneClientStaysAlive`.

The assumptions are those named in the modules: positive bounds, non-negative
initial balances, quantities that are positive, order types among limit and stop, that
order events are among the ones followed (`RowsAssumption`), and balance events
(`BalanceRowsAssumption`), that the publisher follows both of its topics
(`PublisherAssumption`), finitely many requests at a time, time frames of at least a
second.

The engine's inductive invariant `IInv` is `TypeOK`, `BookConsistent`, `OneFate`
and `MatchState`. None of the three alone is inductive. That a fill keeps the book
consistent needs `OneFate`, which says that the maker at the head of the best
level has something left; that it keeps `OneFate` needs `BookConsistent`, which
says that the maker is stored and is not the taker; and both need `MatchState`,
which says that the taker is known exactly while the engine matches and that an
order not yet received has no history. The module begins with what the argument
needs of the book's operators: what is on a level after an append or a removal,
that neither makes a duplicate, and that the cached best price stays the extreme
price of the levels.

`PriorityInv` adds what orders of one side and one level have in common. Between
commands `LimitBookSound` compares two cached prices; while a taker is matched these
change with every maker that leaves, so the invariant compares all stored bids with
all stored asks. `PriceTimePriority` needs that every queue is in the order of arrival
and that the taker arrived last, so that it goes behind everybody when it is placed.

`ReconcileInv` adds `BalancesReconcile` to `IInv`, that an order without a fill has paid
nothing (`PaidInv`), and, as the strengthening `NoEscrowStranded` needs, the exact
escrow of a living engine (`EscrowReconciles`, a lemma of the proofs and no claim about
what escrow should be). `StrandInv` joins the two: in a living engine the exact escrow
is at most what the open orders need, and the one step that ends it adds nothing. All
are sums over a user's orders of one side, and `SumOver` is a fold, a function on the
subsets of a set. That the fold exists, and that it does not depend on the order in
which it takes the elements, is shown by least counterexample: of the subsets for which
it would fail one has the fewest elements (`SumUpTo`, `SumByElement`). From this follow
the two facts the engine needs: how a sum changes with one term (`LedgerChanges`) and
with one more order (`LedgerGrows`). A trade changes two orders, but one bid and one
ask, so each ledger of one side sees at most one of them, also when a user trades with
itself; what the four script calls of a trade move adds up to the two changes
(`TradeStepsMove`).

`MSound` is the invariant of linked orders. The properties say little about a running
match, but the handlers of one trade call each other (a fill activates a child, a
child's arrival quotes it, a withdrawn leg takes its counterparty along), and each of
these calls raises if the book is not as expected. So `LiveSound` says for every state
of a living engine which orders are quoted, stored and waiting: the levels hold the
active stored orders and the children a filled parent has just quoted (`JustQuoted`),
a child is stored and waits exactly as long as its parent is stored, and a pair is
quoted together until one leg trades. `LinksSound` is what the links of each kind
look like. The proof follows the record `Context` through the handlers: after each
call it is either as `LiveSound` describes (`Good`) or has raised for a reason
`LinkFailuresExplained` names (`Raised`).

`RowsSound` describes the events between the engine and its rows: each says what the
engine has done, the event that places an order is not behind one that ends it unless
it is a copy of one already handled, and none is missing. From the first follows
`RowInv`, from the second the refinement of `OrderLifecycle`, from the third
`RowsConverge`. None is missing but those of the orders in `lost`, which the database
refused.

The other two read models add up quantities, and what they have not read has to be
added up as well. A sum over a queue would need recursion and induction; instead a
climb (`Climb`, `Run` in `SpotEngineProofs`) says that there are heights along the
queue, from a to b, that rise at each event by at least its weight. A climb is lengthened
when an event is appended, and loses its first step when the event is read, and these
two facts, with the joining of two climbs, are all the proofs need.

`BalSound` has for every user a climb from the row through the events of the topic that
will not be taken for duplicates, and on through the stream, up to what the user had
and bought. It is a bound and not an equation because of the settlements that are
taken for duplicates (`BalanceRows`, `Key`); `CreditsComing` is the other half of
`BuyersCredited`: a buyer's row has grown, or a settlement is on its way, or the
database refused one (`lost`). A user without a row has the balance 0, so the rows that
are made on the way need no case of their own.

`PubSound` has two climbs for every order that is not in `repeated`. `PlacedOnce`: the
events that place it, read or not, are at most one, so that no level counts an order
twice. `FillsDue`: from what the publisher has seen executed, the trades it has not read
climb to at most what the engine has executed. So a trade never takes more than is left
of an active order, `_decrement_level` never cuts anything off and `LevelsMatchOrders`
is an equation, and an order leaves when the engine has filled it, not before.
`QuotesComing` says that an order that rests is active or its placement is on its way.
With trades read before the placement nothing is lost but precision: the climb is a
bound, and a level may stay too large, which is what `NoHiddenLiquidity` allows. An
order with a repeated message can disturb its own level only, so a level is exact as
long as none of its orders is one (`SentOnce`). All of it is stated until the first
restart; types and the soundness of events are kept by restarts too.

The heartbeat's `IInv` adds to `RegistryServed` that a connection not yet made has no
history, so that a coroutine that takes a step has a symbol. The one delicate step is
the end of a coroutine: it removes the entry of its symbol, its own or that of another
connection, and either way no entry is left but one of a coroutine that runs or could
not write ALIVE. `LoneSound` adds that the coroutine of a lone, timely client is not
about to leave and, unless its write of ALIVE failed, its thread not about to write
DEAD.

`AuthInv` adds `JobsSound` to `CreditedIfVerified` and `ClaimsNotAhead`: what a request
carries across an await is still true when it is used. The credit it made is there when
it commits, the row it saw verified stays verified. `CreditInv` is for `CreditsPerCode`:
a code never comes back once it was replaced or deleted (`CodesFresh`), and the credits
of a code with the requests that hold it between reading and crediting are at most the
requests there are. `RecoveryInv` adds `PositionSound`: the consumer's position is never
behind the committed offset, and everything between the start of the group and the
position was applied. The first half also gives `CommittedNotRepeated`, since only the
command at the position changes a balance. `ReplayInv` is about the queue between the
main process and its shadow: its head is what the shadow waits for, its last message
what the main process did last, neighbours belong together, and the number of finished
commands on it is what the shadow has yet to replay. `WsInv` needs no strengthening
beyond the types: each step that ends a coroutine queues its user. `OrderlySound` adds,
for `OpenIsServed`, that nothing an earlier socket left behind (a queued removal, a
coroutine in its `finally`) is still to come when the next one opens. `MktInv` adds that
a socket that is not connected has no subscriptions. `ApiInv` adds `TrailKnown`:
requests, batched commands and commands in the topic are about committed rows only.
`CancelInv` adds that no creation of an order is behind a late cancellation of it in the
producer's memory, and that in the partition, where a batch may come twice, every
creation is followed by a late cancellation: a batch is sent again as a whole and before
the next one.

`OHLCSound` says of the bars in memory and of the snapshots what `OHLCInv` says of
the rows, and that a bar ahead of the clock is not stored before its period begins.
`PunctualSound` is the exact state of a builder nobody is late for: the rows, the
snapshot being stored and the bar in memory are the periods since the first trade by
the trades handled so far, the ones not yet handled are of the current second, and a
sleeper is due before a trade of the new period is handled.

Model-checked only: liveness (`DeadDetected`, `FillRecorded`,
`EndedForgotten`, `DeathNoticed`, `AcceptedIsDecided`), which needs fairness and is out
of the prover's reach. Every invariant and every action property of a passing run is a
theorem.

## Plan

Done: book, balances, single-order engine, heartbeat; linked orders; events, fanout
and the three read models with the abstract life cycle; OHLC bars; recovery;
authentication; both connection managers; orders API; as a theorem, every safety
property of a passing run.

Left: the balances of Redis shared by the engines of several symbols, and the levels of
the publisher after a restart, of which the rows it starts from say little.

## Not modelled

- The objects a snapshot is turned into and rebuilt from (`to_dict`, `from_dict`):
  a restart from a snapshot raises before the engine uses them.
- Cash shared by the engines of several symbols and the defaults that the getters
  of the balance manager write: the model has one engine, and balances that exist.
- The loop that publishes the publisher's snapshots: it reads the levels and changes
  nothing.
- The end of `verify_action` (`auth/router.py:380-426`): the stored payloads of a
  username and of an e-mail change are encoded twice and the key of a password
  change is never found, so no stored value leads there.
- The rate limit: its middleware is not installed.
- Market, user and public endpoints: queries that change nothing.
- Migrations, e-mail, runners and the command line: wiring and I/O.
- Validation of request fields, floating-point rounding, wording and headers of
  events, the limit of twenty levels in a published book.
