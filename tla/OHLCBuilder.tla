----------------------------- MODULE OHLCBuilder -----------------------------
(***************************************************************************)
(* The OHLC builder (services/ohlc_builder) for one symbol: a consumer     *)
(* that folds every trade into one bar per time frame, and one sleeper per *)
(* time frame that stores the bar at every boundary and lets the next one  *)
(* begin.  The two are coroutines; each holds the symbol's lock while it   *)
(* changes a bar, and the row is inserted after the lock is released.      *)
(*                                                                         *)
(* A trade and its handling are apart by as long as Kafka takes, and a     *)
(* sleeper wakes up at its boundary or later.  In a punctual behaviour both *)
(* happen before the clock moves, a sleeper comes before the trades of the *)
(* period that begins, and nothing fails.                                  *)
(***************************************************************************)
EXTENDS Integers, Sequences, FiniteSetsExt, Functions

CONSTANTS Frames,       \* TimeFrame, by the seconds of a frame
          TradePrices,  \* the prices trades may have
          MaxTime,      \* bound: the last second
          MaxTrades     \* bound: the number of trades

ASSUME FramesAssumption ==
    /\ Frames \subseteq Nat \ {0}
    /\ TradePrices \subseteq Nat \ {0}
    /\ MaxTime \in Nat
    /\ MaxTrades \in Nat

VARIABLES
    punctual, \* whether nobody is late and nothing fails, in this behaviour
    now,      \* the clock in seconds
    trades,   \* the trades of the engine
    handled,  \* how many of them the builder has handled
    bar,      \* _bars of the symbol
    snap,     \* by frame: the snapshot that is being stored
    wake,     \* by frame: the boundary the sleeper waits for
    rows      \* by frame: the rows of the table ohlc

ohlcVars == <<punctual, now, trades, handled, bar, snap, wake, rows>>

Trades == [price : TradePrices, timestamp : Nat]

Bars == [open : TradePrices, high : TradePrices, low : TradePrices,
         close : TradePrices, timestamp : Nat]

\* No entry for the time frame.
NoBar == [timestamp |-> -1]

\* The sleeper is storing its snapshot.
Busy == -1

\* _get_bar_timestamp
BarTimestamp(t, f) == (t \div f) * f

\* _sleep_until_next_boundary
NextBoundary(t, f) == ((t \div f) + 1) * f

NewBar(t, f) ==
    [open |-> t.price, high |-> t.price, low |-> t.price, close |-> t.price,
     timestamp |-> BarTimestamp(t.timestamp, f)]

\* Variant of Update: the low never moves.
UpdateKeepsLow(b, price) ==
    [b EXCEPT !.high = IF price > @ THEN price ELSE @,
              !.close = price]

\* Bar.update
Update(b, price) ==
    [b EXCEPT !.high = IF price > @ THEN price ELSE @,
              !.low = IF price < @ THEN price ELSE @,
              !.close = price]

\* The bar of the next period opens at the close of the last one.
Advance(b, f) ==
    [b EXCEPT !.timestamp = @ + f,
              !.open = b.close, !.high = b.close, !.low = b.close]

Due(f) == wake[f] # Busy /\ wake[f] <= now

-----------------------------------------------------------------------------
Tick ==
    /\ now < MaxTime
    /\ punctual => handled = Len(trades) /\ \A f \in Frames : wake[f] > now
    /\ now' = now + 1
    /\ UNCHANGED <<punctual, trades, handled, bar, snap, wake, rows>>

\* The engine logs a trade, with the second at which it does so.
NewTrade(price) ==
    /\ Len(trades) < MaxTrades
    /\ trades' = Append(trades, [price |-> price, timestamp |-> now])
    /\ UNCHANGED <<punctual, now, handled, bar, snap, wake, rows>>

\* Variant of Fold: a trade of another period updates the bar in place.
FoldAnyPeriod(t, f) ==
    IF bar[f] = NoBar THEN NewBar(t, f) ELSE Update(bar[f], t.price)

\* What a trade makes of the bar of a frame: it begins one, replaces the one
\* of any other period, or updates it.
Fold(t, f) ==
    IF bar[f].timestamp # BarTimestamp(t.timestamp, f)
    THEN NewBar(t, f)
    ELSE Update(bar[f], t.price)

\* _consume_trades and _handle_trade_event.
HandleTradeEvent ==
    /\ handled < Len(trades)
    /\ punctual => \A f \in Frames : ~Due(f)
    /\ handled' = handled + 1
    /\ bar' = [f \in Frames |-> Fold(trades[handled'], f)]
    /\ UNCHANGED <<punctual, now, trades, snap, wake, rows>>

\* _persist_and_emit_bars up to the insert.
TakeSnapshot(f) ==
    /\ Due(f)
    /\ bar[f] # NoBar
    /\ snap' = [snap EXCEPT ![f] = bar[f]]
    /\ bar' = [bar EXCEPT ![f] = Advance(@, f)]
    /\ wake' = [wake EXCEPT ![f] = Busy]
    /\ UNCHANGED <<punctual, now, trades, handled, rows>>

NothingToStore(f) ==
    /\ Due(f)
    /\ bar[f] = NoBar
    /\ wake' = [wake EXCEPT ![f] = NextBoundary(now, f)]
    /\ UNCHANGED <<punctual, now, trades, handled, bar, snap, rows>>

\* The sleeper goes to sleep again, its snapshot stored or not.
SleepAgain(f) ==
    /\ snap[f] # NoBar
    /\ snap' = [snap EXCEPT ![f] = NoBar]
    /\ wake' = [wake EXCEPT ![f] = NextBoundary(now, f)]
    /\ UNCHANGED <<punctual, now, trades, handled, bar>>

\* _batch_insert_bars
InsertBar(f) ==
    /\ SleepAgain(f)
    /\ rows' = [rows EXCEPT ![f] = Append(@, snap[f])]

\* The insert raises: _sleeper_task logs the exception and goes on.
InsertFails(f) ==
    /\ ~punctual
    /\ SleepAgain(f)
    /\ UNCHANGED rows

\* The process ends and starts: the bars are in memory only.  The consumer goes
\* on from the offset it committed last, some time ago, or from the end of the
\* topic when it committed none.
Restart ==
    /\ ~punctual
    /\ handled' \in (0 .. handled) \cup {Len(trades)}
    /\ bar' = [f \in Frames |-> NoBar]
    /\ snap' = [f \in Frames |-> NoBar]
    /\ wake' = [f \in Frames |-> NextBoundary(now, f)]
    /\ UNCHANGED <<punctual, now, trades, rows>>

OhlcInit ==
    /\ punctual \in BOOLEAN
    /\ now = 0
    /\ trades = << >>
    /\ handled = 0
    /\ bar = [f \in Frames |-> NoBar]
    /\ snap = [f \in Frames |-> NoBar]
    /\ wake = [f \in Frames |-> NextBoundary(0, f)]
    /\ rows = [f \in Frames |-> << >>]

Sleeper(f) ==
    \/ TakeSnapshot(f)
    \/ NothingToStore(f)
    \/ InsertBar(f)
    \/ InsertFails(f)

OhlcNext ==
    \/ Tick
    \/ \E price \in TradePrices : NewTrade(price)
    \/ HandleTradeEvent
    \/ \E f \in Frames : Sleeper(f)
    \/ Restart

OhlcSpec == OhlcInit /\ [][OhlcNext]_ohlcVars

-----------------------------------------------------------------------------
(***************************************************************************)
(* Correctness.                                                            *)
(***************************************************************************)

\* Every variable has its type.
OhlcTypeOK ==
    /\ punctual \in BOOLEAN
    /\ now \in 0 .. MaxTime
    /\ trades \in Seq(Trades)
    /\ handled \in 0 .. Len(trades)
    /\ bar \in [Frames -> Bars \cup {NoBar}]
    /\ snap \in [Frames -> Bars \cup {NoBar}]
    /\ wake \in [Frames -> Nat \cup {Busy}]
    /\ rows \in [Frames -> Seq(Bars)]

\* The prices known by the end of the period of a bar.
PricesUntil(b, f) ==
    {t.price : t \in {u \in Range(trades) : BarTimestamp(u.timestamp, f) <= b.timestamp}}

\* A stored bar shows no price of a later period and its range holds its open
\* and its close, however late the trades, the sleepers and the inserts are.
NoLookAhead ==
    \A f \in Frames : \A b \in Range(rows[f]) :
        /\ {b.open, b.high, b.low, b.close} \subseteq PricesUntil(b, f)
        /\ {b.open, b.close} \subseteq b.low .. b.high

\* No bar is stored before its period has begun.
StoredAfterBegin ==
    \A f \in Frames : \A b \in Range(rows[f]) : b.timestamp <= now

\* The stored bars are sound whoever is late: types, no price of a later
\* period and no period that has not begun.
OHLCInv == OhlcTypeOK /\ NoLookAhead /\ StoredAfterBegin

PeriodPrices(ts, f) ==
    {t.price : t \in {u \in Range(trades) : BarTimestamp(u.timestamp, f) = ts}}

\* The close of a period: the last trade in it, or the open without any.
LastPrice(ts, f, open) ==
    LET in == {i \in DOMAIN trades : BarTimestamp(trades[i].timestamp, f) = ts}
    IN  IF in = {} THEN open ELSE trades[Max(in)].price

\* The bar of a period by its trades and the close of the period before.
ExpectedBar(ts, f, open) ==
    [open      |-> open,
     high      |-> Max(PeriodPrices(ts, f) \cup {open}),
     low       |-> Min(PeriodPrices(ts, f) \cup {open}),
     close     |-> LastPrice(ts, f, open),
     timestamp |-> ts]

\* When nobody is late the rows of a frame are the periods from the first
\* trade to the last boundary, each once, in order and with the values its
\* trades give it.
RowsMatchTrades ==
    punctual => \A f \in Frames :
        LET first == BarTimestamp(trades[1].timestamp, f) IN
        trades # << >> /\ wake[f] > now =>
            /\ Len(rows[f]) = (BarTimestamp(now, f) - first) \div f
            /\ \A i \in DOMAIN rows[f] :
                 rows[f][i] = ExpectedBar(first + (i - 1) * f, f,
                                          IF i = 1 THEN trades[1].price
                                                   ELSE rows[f][i - 1].close)

=============================================================================
