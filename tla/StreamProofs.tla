---------------------------- MODULE StreamProofs ----------------------------
(***************************************************************************)
(* What clients are shown as time goes by: the bars of the OHLC builder,   *)
(* for any time frames, prices and lengths of time, and the two connection *)
(* managers, for any number of sockets, clients, event types and feeds.    *)
(*                                                                         *)
(* Bars: the stored ones show no price of a later period and belong to     *)
(* periods that have begun.  A row is a copy of a snapshot, and that of a  *)
(* bar, so the invariant OHLCSound says the same of those.  A bar may be   *)
(* ahead of the clock, by one period, because a sleeper that is woken up   *)
(* late advances a bar of the current period; that it is not stored before *)
(* its period begins is due to the sleeper, who then waits until that      *)
(* begins: BarsInTime.  When nobody is late the rows are exactly the bars  *)
(* of the trades, which needs PunctualSound.                               *)
(*                                                                         *)
(* Orders: a connection whose coroutine has ended waits for the cleanup    *)
(* worker, with sockets that overlap and sends that fail; types and the    *)
(* queue together are inductive.  When sockets do not overlap an open one  *)
(* is served, which needs OrderlySound.                                    *)
(*                                                                         *)
(* Market data: the two directions of the subscriptions agree.  A socket   *)
(* that connects must not have a subscription already: that is what the    *)
(* invariant MktInv adds.                                                  *)
(*                                                                         *)
(* Instruments: the registry of the heartbeat server, for every set of     *)
(* symbols, every number of connections, and clients timely or not; and    *)
(* for timely clients that the only client of a symbol stays ALIVE, whose  *)
(* invariant is LoneSound.                                                 *)
(***************************************************************************)
EXTENDS OHLCBuilder, WsConnections, MarketConnections, Heartbeat, TLAPS

-----------------------------------------------------------------------------
(***************************************************************************)
(* The OHLC builder: the inductive invariant.                              *)
(***************************************************************************)

\* The prices of the trades of T that are known by the end of a period.
PricesIn(T, ts, f) == {t.price : t \in {u \in T : BarTimestamp(u.timestamp, f) <= ts}}

\* No price of the bar is of a later period, and its range holds its open and
\* its close.
BarSound(T, b, f) ==
    /\ {b.open, b.high, b.low, b.close} \subseteq PricesIn(T, b.timestamp, f)
    /\ b.low <= b.open /\ b.open <= b.high
    /\ b.low <= b.close /\ b.close <= b.high

\* A trade is logged with the time of the clock.
TradesInTime == \A t \in Range(trades) : t.timestamp <= now

\* The bars in memory and those being stored are sound.
BarsSound ==
    \A f \in Frames :
        /\ bar[f] # NoBar => BarSound(Range(trades), bar[f], f)
        /\ snap[f] # NoBar => BarSound(Range(trades), snap[f], f) /\ snap[f].timestamp <= now

RowsSound ==
    \A f \in Frames : \A b \in Range(rows[f]) :
        BarSound(Range(trades), b, f) /\ b.timestamp <= now

\* A bar starts on a boundary, of the next period at the latest, and a period
\* that has not begun begins no later than the sleeper wakes up.
BarsInTime ==
    \A f \in Frames : bar[f] # NoBar =>
        /\ \E k \in Nat : bar[f].timestamp = k * f /\ k <= (now \div f) + 1
        /\ wake[f] # Busy => bar[f].timestamp <= wake[f] \/ bar[f].timestamp <= now

OHLCSound == OhlcTypeOK /\ TradesInTime /\ BarsSound /\ RowsSound /\ BarsInTime

-----------------------------------------------------------------------------
(***************************************************************************)
(* The OHLC builder: periods.                                              *)
(***************************************************************************)

\* The period of a second: it has begun, and the next one has not.
LEMMA Periods ==
    ASSUME NEW f \in Nat \ {0}, NEW t \in Nat
    PROVE  /\ t \div f \in Nat
           /\ (t \div f) * f <= t
           /\ t < ((t \div f) + 1) * f
  OBVIOUS

\* Multiples of a frame are ordered as their factors.
LEMMA MultipleOrder ==
    ASSUME NEW f \in Nat \ {0}, NEW j \in Nat, NEW k \in Nat
    PROVE  /\ j <= k => j * f <= k * f
           /\ j * f < k * f => j < k
  OBVIOUS

\* A boundary that has been reached is not after the current period.
LEMMA ReachedBoundary ==
    ASSUME NEW f \in Nat \ {0}, NEW t \in Nat, NEW k \in Nat, k * f <= t
    PROVE  k <= t \div f
<1>1. /\ t \div f \in Nat
      /\ t < ((t \div f) + 1) * f
  BY Periods
<1>2. k * f < ((t \div f) + 1) * f
  BY <1>1
<1>3. k < (t \div f) + 1
  BY <1>1, <1>2, MultipleOrder
<1>. QED  BY <1>1, <1>3

-----------------------------------------------------------------------------
(***************************************************************************)
(* The OHLC builder: what is done to a bar.                                *)
(***************************************************************************)

\* The elements of a sequence.
LEMMA SeqRange ==
    ASSUME NEW S, NEW q \in Seq(S)
    PROVE  /\ Range(q) \subseteq S
           /\ \A e \in S : Range(Append(q, e)) = Range(q) \cup {e}
<1>1. DOMAIN q = 1 .. Len(q) /\ Len(q) \in Nat /\ \A i \in 1 .. Len(q) : q[i] \in S
  OBVIOUS
<1>2. Range(q) \subseteq S
  BY <1>1 DEF Range
<1>3. ASSUME NEW e \in S PROVE Range(Append(q, e)) = Range(q) \cup {e}
  <2>1. PICK a : a = Append(q, e)
    OBVIOUS
  <2>2. /\ DOMAIN a = 1 .. Len(q) + 1
        /\ a[Len(q) + 1] = e
        /\ \A i \in 1 .. Len(q) : a[i] = q[i]
    BY <2>1
  <2>3. Range(a) \subseteq Range(q) \cup {e}
    <3> SUFFICES ASSUME NEW i \in 1 .. Len(q) + 1, a[i] # e PROVE a[i] \in Range(q)
      BY <2>2 DEF Range
    <3>1. i \in 1 .. Len(q)
      BY <1>1, <2>2
    <3>. QED  BY <1>1, <2>2, <3>1 DEF Range
  <2>4. Range(q) \subseteq Range(a)
    <3> SUFFICES ASSUME NEW i \in 1 .. Len(q) PROVE q[i] \in Range(a)
      BY <1>1 DEF Range
    <3>1. i \in 1 .. Len(q) + 1
      BY <1>1
    <3>. QED  BY <2>2, <3>1 DEF Range
  <2>5. e \in Range(a)
    <3>1. Len(q) + 1 \in 1 .. Len(q) + 1
      BY <1>1
    <3>. QED  BY <2>2, <3>1 DEF Range
  <2>. QED  BY <2>1, <2>3, <2>4, <2>5
<1>. QED  BY <1>2, <1>3

\* Later trades leave a bar sound.
LEMMA SoundWithMore ==
    ASSUME NEW f, NEW b, NEW T, NEW U, T \subseteq U, BarSound(T, b, f)
    PROVE  BarSound(U, b, f)
  BY DEF BarSound, PricesIn

\* The bar that a trade begins.
LEMMA NewBarSound ==
    ASSUME NEW f \in Frames, NEW t \in Trades, NEW T, t \in T
    PROVE  /\ NewBar(t, f) \in Bars
           /\ BarSound(T, NewBar(t, f), f)
           /\ NewBar(t, f).timestamp = (t.timestamp \div f) * f
           /\ NewBar(t, f).timestamp <= t.timestamp
<1>1. f \in Nat \ {0} /\ t.timestamp \in Nat /\ t.price \in TradePrices /\ t.price \in Nat
  BY FramesAssumption DEF Trades
<1>2. t.timestamp \div f \in Nat /\ (t.timestamp \div f) * f <= t.timestamp
  BY <1>1, Periods
<1>3. PICK ts : ts = (t.timestamp \div f) * f
  OBVIOUS
<1>4. ts \in Nat /\ ts <= t.timestamp /\ ts = BarTimestamp(t.timestamp, f)
  BY <1>1, <1>2, <1>3 DEF BarTimestamp
<1>5. NewBar(t, f) = [open |-> t.price, high |-> t.price, low |-> t.price,
                      close |-> t.price, timestamp |-> ts]
  BY <1>4 DEF NewBar
<1>6. t.price \in PricesIn(T, ts, f)
  BY <1>4 DEF PricesIn
<1>. QED  BY <1>1, <1>3, <1>4, <1>5, <1>6 DEF BarSound, Bars

\* A bar that a trade of its period updates.
LEMMA UpdateSound ==
    ASSUME NEW f \in Frames, NEW t \in Trades, NEW T, t \in T,
           NEW b \in Bars, BarSound(T, b, f), b.timestamp = BarTimestamp(t.timestamp, f)
    PROVE  /\ Update(b, t.price) \in Bars
           /\ BarSound(T, Update(b, t.price), f)
           /\ Update(b, t.price).timestamp = b.timestamp
<1>1. /\ t.price \in TradePrices /\ t.price \in Nat
      /\ b.timestamp \in Nat
      /\ b.open \in TradePrices /\ b.high \in TradePrices
      /\ b.low \in TradePrices /\ b.close \in TradePrices
      /\ b.open \in Nat /\ b.high \in Nat /\ b.low \in Nat /\ b.close \in Nat
  BY FramesAssumption DEF Trades, Bars
<1>2. PICK u : u = Update(b, t.price)
  OBVIOUS
<1>3. /\ u \in Bars
      /\ u.timestamp = b.timestamp /\ u.open = b.open /\ u.close = t.price
      /\ u.high = IF t.price > b.high THEN t.price ELSE b.high
      /\ u.low = IF t.price < b.low THEN t.price ELSE b.low
  BY <1>1, <1>2 DEF Update, Bars
<1>4. t.price \in PricesIn(T, b.timestamp, f)
  <2>1. BarTimestamp(t.timestamp, f) <= b.timestamp
    BY <1>1
  <2>. QED  BY <2>1 DEF PricesIn
<1>5. BarSound(T, u, f)
  BY <1>1, <1>3, <1>4 DEF BarSound
<1>. QED  BY <1>2, <1>3, <1>5

\* The bar of the next period.
LEMMA AdvanceSound ==
    ASSUME NEW f \in Frames, NEW T \in SUBSET Trades, NEW b \in Bars, BarSound(T, b, f)
    PROVE  /\ Advance(b, f) \in Bars
           /\ BarSound(T, Advance(b, f), f)
           /\ Advance(b, f).timestamp = b.timestamp + f
<1>1. /\ f \in Nat /\ b.timestamp \in Nat
      /\ b.close \in TradePrices /\ b.close \in Nat
  BY FramesAssumption DEF Bars
<1>2. PICK a : a = Advance(b, f)
  OBVIOUS
<1>3. /\ a \in Bars
      /\ a.timestamp = b.timestamp + f
      /\ a.open = b.close /\ a.high = b.close /\ a.low = b.close /\ a.close = b.close
  <2>1. PICK n \in Nat : n = b.timestamp + f
    BY <1>1
  <2>2. a = [open |-> b.close, high |-> b.close, low |-> b.close, close |-> b.close,
             timestamp |-> n]
    BY <1>2, <2>1 DEF Advance, Bars
  <2>. QED  BY <1>1, <2>1, <2>2 DEF Bars
<1>4. b.close \in PricesIn(T, a.timestamp, f)
  <2>1. PICK t \in T : BarTimestamp(t.timestamp, f) <= b.timestamp /\ b.close = t.price
    BY DEF BarSound, PricesIn
  <2>2. BarTimestamp(t.timestamp, f) \in Nat
    <3>1. f \in Nat \ {0} /\ t.timestamp \in Nat
      BY FramesAssumption DEF Trades
    <3>. QED  BY <3>1, Periods DEF BarTimestamp
  <2>3. BarTimestamp(t.timestamp, f) <= a.timestamp
    BY <1>1, <1>3, <2>1, <2>2
  <2>. QED  BY <2>1, <2>3 DEF PricesIn
<1>. QED  BY <1>1, <1>2, <1>3, <1>4 DEF BarSound

-----------------------------------------------------------------------------
(***************************************************************************)
(* The OHLC builder: the steps.                                            *)
(***************************************************************************)

\* Before the first trade there are no bars.
LEMMA InitOHLCSound == OhlcInit => OHLCSound
<1> SUFFICES ASSUME OhlcInit PROVE OHLCSound
  OBVIOUS
<1>1. \A f \in Frames : NextBoundary(0, f) \in Nat
  <2> SUFFICES ASSUME NEW f \in Frames PROVE NextBoundary(0, f) \in Nat
    OBVIOUS
  <2>1. f \in Nat \ {0} /\ 0 \div f \in Nat
    BY FramesAssumption, Periods
  <2>. QED  BY <2>1 DEF NextBoundary
<1>2. OhlcTypeOK
  BY <1>1, FramesAssumption DEF OhlcInit, OhlcTypeOK
<1>. QED  BY <1>2 DEF OhlcInit, OHLCSound, TradesInTime, BarsSound, RowsSound, BarsInTime, Range

\* Time passes: no bar gets ahead of the clock by that.
LEMMA TickSound == OHLCSound /\ Tick => OHLCSound'
<1> SUFFICES ASSUME OHLCSound, Tick PROVE OHLCSound'
  OBVIOUS
<1>1. OhlcTypeOK /\ TradesInTime /\ BarsSound /\ RowsSound /\ BarsInTime
  BY DEF OHLCSound
<1>2. /\ now \in Nat /\ now' = now + 1 /\ now' \in 0 .. MaxTime
      /\ UNCHANGED <<punctual, trades, handled, bar, snap, wake, rows>>
  BY <1>1, FramesAssumption DEF Tick, OhlcTypeOK
<1>3. OhlcTypeOK'
  BY <1>1, <1>2 DEF OhlcTypeOK
<1>4. TradesInTime'
  <2>1. Range(trades) \subseteq Trades
    BY <1>1, SeqRange DEF OhlcTypeOK
  <2>2. \A t \in Range(trades) : t.timestamp \in Nat
    BY <2>1 DEF Trades
  <2>. QED  BY <1>1, <1>2, <2>2 DEF TradesInTime
<1>5. BarsSound'
  <2>1. \A f \in Frames : snap[f] # NoBar => snap[f].timestamp \in Nat
    BY <1>1 DEF OhlcTypeOK, Bars
  <2>. QED  BY <1>1, <1>2, <2>1 DEF BarsSound
<1>6. RowsSound'
  <2>1. \A f \in Frames : Range(rows[f]) \subseteq Bars
    BY <1>1, SeqRange DEF OhlcTypeOK
  <2>2. \A f \in Frames : \A b \in Range(rows[f]) : b.timestamp \in Nat
    BY <2>1 DEF Bars
  <2>. QED  BY <1>1, <1>2, <2>2 DEF RowsSound
<1>7. BarsInTime'
  <2> SUFFICES ASSUME NEW f \in Frames, bar[f] # NoBar
               PROVE  /\ \E k \in Nat : bar[f].timestamp = k * f /\ k <= (now' \div f) + 1
                      /\ wake[f] # Busy => bar[f].timestamp <= wake[f] \/ bar[f].timestamp <= now'
    BY <1>2 DEF BarsInTime
  <2>1. f \in Nat \ {0} /\ bar[f].timestamp \in Nat
    BY <1>1, FramesAssumption DEF OhlcTypeOK, Bars
  <2>2. PICK k \in Nat : bar[f].timestamp = k * f /\ k <= (now \div f) + 1
    BY <1>1 DEF BarsInTime
  <2>3. (now \div f) * f <= now /\ now \div f \in Nat
    BY <1>2, <2>1, Periods
  <2>4. (now \div f) * f <= now'
    BY <1>2, <2>1, <2>3
  <2>5. now \div f <= now' \div f /\ now' \div f \in Nat
    BY <1>2, <2>1, <2>3, <2>4, ReachedBoundary, Periods
  <2>6. k <= (now' \div f) + 1
    BY <2>2, <2>3, <2>5
  <2>7. wake[f] # Busy => bar[f].timestamp <= wake[f] \/ bar[f].timestamp <= now'
    BY <1>1, <1>2, <2>1 DEF BarsInTime
  <2>. QED  BY <2>2, <2>6, <2>7
<1>. QED  BY <1>3, <1>4, <1>5, <1>6, <1>7 DEF OHLCSound

\* A trade adds a price and changes no bar.
LEMMA NewTradeSound ==
    ASSUME OHLCSound, NEW price \in TradePrices, NewTrade(price)
    PROVE  OHLCSound'
<1>1. OhlcTypeOK /\ TradesInTime /\ BarsSound /\ RowsSound /\ BarsInTime
  BY DEF OHLCSound
<1>2. PICK t \in Trades : t.timestamp = now /\ trades' = Append(trades, t)
  <2>1. now \in Nat
    BY <1>1, FramesAssumption DEF OhlcTypeOK
  <2>. QED  BY <2>1 DEF NewTrade, Trades
<1>3. UNCHANGED <<punctual, now, handled, bar, snap, wake, rows>>
  BY DEF NewTrade
<1>4. /\ trades' \in Seq(Trades) /\ Len(trades') = Len(trades) + 1
      /\ Range(trades') = Range(trades) \cup {t}
  BY <1>1, <1>2, SeqRange DEF OhlcTypeOK
<1>5. OhlcTypeOK'
  BY <1>1, <1>3, <1>4 DEF OhlcTypeOK
<1>6. TradesInTime'
  <2>1. now <= now
    BY <1>1, FramesAssumption DEF OhlcTypeOK
  <2>. QED  BY <1>1, <1>2, <1>3, <1>4, <2>1 DEF TradesInTime
<1>7. BarsSound' /\ RowsSound'
  BY <1>1, <1>3, <1>4, SoundWithMore DEF BarsSound, RowsSound
<1>8. BarsInTime'
  BY <1>1, <1>3 DEF BarsInTime
<1>. QED  BY <1>5, <1>6, <1>7, <1>8 DEF OHLCSound

\* _handle_trade_event: what becomes of one bar.
LEMMA FoldSound ==
    ASSUME OHLCSound, NEW f \in Frames, NEW t \in Range(trades)
    PROVE  /\ Fold(t, f) \in Bars
           /\ BarSound(Range(trades), Fold(t, f), f)
           /\ \E k \in Nat : Fold(t, f).timestamp = k * f /\ k <= (now \div f) + 1
           /\ Fold(t, f).timestamp <= now
<1>1. OhlcTypeOK /\ TradesInTime /\ BarsSound /\ RowsSound /\ BarsInTime
  BY DEF OHLCSound
<1>2. /\ f \in Nat \ {0} /\ t \in Trades /\ t.timestamp \in Nat
      /\ now \in Nat /\ t.timestamp <= now
  <2>1. t \in Trades
    BY <1>1, SeqRange DEF OhlcTypeOK
  <2>. QED  BY <1>1, <2>1, FramesAssumption DEF OhlcTypeOK, TradesInTime, Trades
<1>3. PICK k \in Nat : k = t.timestamp \div f
  BY <1>2, Periods
<1>4. k * f <= t.timestamp
  BY <1>2, <1>3, Periods
<1>5. k * f <= now /\ k * f \in Nat
  BY <1>2, <1>4
<1>6. k <= (now \div f) + 1
  BY <1>2, <1>5, ReachedBoundary, Periods
<1>7. BarTimestamp(t.timestamp, f) = k * f
  BY <1>3 DEF BarTimestamp
<1>8. CASE bar[f].timestamp # BarTimestamp(t.timestamp, f)
  <2>1. Fold(t, f) = NewBar(t, f)
    BY <1>8 DEF Fold
  <2>2. /\ NewBar(t, f) \in Bars
        /\ BarSound(Range(trades), NewBar(t, f), f)
        /\ NewBar(t, f).timestamp = k * f
    BY <1>2, <1>3, NewBarSound
  <2>. QED  BY <1>5, <1>6, <2>1, <2>2
<1>9. CASE bar[f].timestamp = BarTimestamp(t.timestamp, f)
  <2>1. Fold(t, f) = Update(bar[f], t.price)
    BY <1>9 DEF Fold
  <2>2. bar[f] # NoBar
    BY <1>5, <1>7, <1>9 DEF NoBar
  <2>3. bar[f] \in Bars /\ BarSound(Range(trades), bar[f], f)
    BY <1>1, <2>2 DEF OhlcTypeOK, BarsSound
  <2>4. /\ Update(bar[f], t.price) \in Bars
        /\ BarSound(Range(trades), Update(bar[f], t.price), f)
        /\ Update(bar[f], t.price).timestamp = k * f
    BY <1>2, <1>7, <1>9, <2>3, UpdateSound
  <2>. QED  BY <1>5, <1>6, <2>1, <2>4
<1>. QED  BY <1>8, <1>9

\* A trade changes the bar of each frame, early or late.
LEMMA HandleSound == OHLCSound /\ HandleTradeEvent => OHLCSound'
<1> SUFFICES ASSUME OHLCSound, HandleTradeEvent PROVE OHLCSound'
  OBVIOUS
<1>1. OhlcTypeOK /\ TradesInTime /\ BarsSound /\ RowsSound /\ BarsInTime
  BY DEF OHLCSound
<1>2. /\ handled' \in 1 .. Len(trades)
      /\ bar' = [f \in Frames |-> Fold(trades[handled'], f)]
      /\ UNCHANGED <<punctual, now, trades, snap, wake, rows>>
  BY <1>1 DEF HandleTradeEvent, OhlcTypeOK
<1>3. PICK t \in Range(trades) : t = trades[handled']
  BY <1>1, <1>2 DEF OhlcTypeOK, Range
<1>4. \A f \in Frames :
        /\ bar'[f] = Fold(t, f) /\ bar'[f] \in Bars
        /\ BarSound(Range(trades), bar'[f], f)
        /\ \E k \in Nat : bar'[f].timestamp = k * f /\ k <= (now \div f) + 1
        /\ bar'[f].timestamp <= now
  BY <1>2, <1>3, FoldSound
<1>5. bar' \in [Frames -> Bars \cup {NoBar}]
  BY <1>2, <1>4
<1>6. OhlcTypeOK'
  BY <1>1, <1>2, <1>5 DEF OhlcTypeOK
<1>. QED  BY <1>1, <1>2, <1>4, <1>6 DEF OHLCSound, TradesInTime, BarsSound, RowsSound, BarsInTime

\* _persist_and_emit_bars: the snapshot is of a period that has begun, because
\* the sleeper has woken up; the next period is at most the one after now.
LEMMA SnapshotSound ==
    ASSUME OHLCSound, NEW f \in Frames, TakeSnapshot(f)
    PROVE  OHLCSound'
<1>1. OhlcTypeOK /\ TradesInTime /\ BarsSound /\ RowsSound /\ BarsInTime
  BY DEF OHLCSound
<1>2. /\ wake[f] # Busy /\ wake[f] <= now /\ bar[f] # NoBar
      /\ snap' = [snap EXCEPT ![f] = bar[f]]
      /\ bar' = [bar EXCEPT ![f] = Advance(bar[f], f)]
      /\ wake' = [wake EXCEPT ![f] = Busy]
      /\ UNCHANGED <<punctual, now, trades, handled, rows>>
  BY DEF TakeSnapshot, Due
<1>3. /\ f \in Nat \ {0} /\ now \in Nat /\ bar[f] \in Bars /\ bar[f].timestamp \in Nat
      /\ wake[f] \in Nat /\ Range(trades) \in SUBSET Trades
      /\ BarSound(Range(trades), bar[f], f)
  BY <1>1, <1>2, FramesAssumption DEF OhlcTypeOK, BarsSound, Bars, Range
<1>4. bar[f].timestamp <= now
  BY <1>1, <1>2, <1>3 DEF BarsInTime
<1>5. /\ Advance(bar[f], f) \in Bars
      /\ BarSound(Range(trades), Advance(bar[f], f), f)
      /\ Advance(bar[f], f).timestamp = bar[f].timestamp + f
  BY <1>3, AdvanceSound
<1>6. \E k \in Nat : Advance(bar[f], f).timestamp = k * f /\ k <= (now \div f) + 1
  <2>1. PICK k \in Nat : bar[f].timestamp = k * f
    BY <1>1, <1>2 DEF BarsInTime
  <2>2. k <= now \div f /\ now \div f \in Nat
    BY <1>3, <1>4, <2>1, ReachedBoundary, Periods
  <2>3. (k + 1) * f = k * f + f
    BY <1>3
  <2>4. k + 1 \in Nat /\ k + 1 <= (now \div f) + 1
    BY <2>2
  <2>. QED  BY <1>5, <2>1, <2>3, <2>4
<1>7. OhlcTypeOK'
  BY <1>1, <1>2, <1>3, <1>5 DEF OhlcTypeOK
<1>8. /\ \A g \in Frames : g # f => bar'[g] = bar[g] /\ snap'[g] = snap[g] /\ wake'[g] = wake[g]
      /\ bar'[f] = Advance(bar[f], f) /\ snap'[f] = bar[f] /\ wake'[f] = Busy
  BY <1>1, <1>2 DEF OhlcTypeOK
<1>9. BarsSound'
  <2> SUFFICES ASSUME NEW g \in Frames
               PROVE  /\ bar'[g] # NoBar => BarSound(Range(trades), bar'[g], g)
                      /\ snap'[g] # NoBar =>
                           BarSound(Range(trades), snap'[g], g) /\ snap'[g].timestamp <= now
    BY <1>2 DEF BarsSound
  <2>. QED  BY <1>1, <1>3, <1>4, <1>5, <1>8 DEF BarsSound
<1>10. BarsInTime'
  <2> SUFFICES ASSUME NEW g \in Frames, bar'[g] # NoBar
               PROVE  /\ \E k \in Nat : bar'[g].timestamp = k * g /\ k <= (now \div g) + 1
                      /\ wake'[g] # Busy => bar'[g].timestamp <= wake'[g] \/ bar'[g].timestamp <= now
    BY <1>2 DEF BarsInTime
  <2>. QED  BY <1>1, <1>6, <1>8 DEF BarsInTime
<1>. QED  BY <1>1, <1>2, <1>7, <1>9, <1>10 DEF OHLCSound, TradesInTime, RowsSound

\* The sleeper goes to sleep: the bar is of a period that has begun by the time
\* it wakes up.
LEMMA SleepSound ==
    ASSUME OHLCSound, NEW f \in Frames, wake' = [wake EXCEPT ![f] = NextBoundary(now, f)],
           UNCHANGED <<punctual, now, trades, handled, bar>>
    PROVE  wake' \in [Frames -> Nat \cup {Busy}] /\ TradesInTime' /\ BarsInTime'
<1>1. OhlcTypeOK /\ TradesInTime /\ BarsInTime
  BY DEF OHLCSound
<1>2. f \in Nat \ {0} /\ now \in Nat /\ now \div f \in Nat
  <2>1. f \in Nat \ {0} /\ now \in Nat
    BY <1>1, FramesAssumption DEF OhlcTypeOK
  <2>. QED  BY <2>1, Periods
<1>3. PICK n \in Nat : n = NextBoundary(now, f) /\ n = ((now \div f) + 1) * f
  BY <1>2 DEF NextBoundary
<1>4. /\ wake' \in [Frames -> Nat \cup {Busy}]
      /\ wake'[f] = n
      /\ \A g \in Frames : g # f => wake'[g] = wake[g]
  BY <1>1, <1>3 DEF OhlcTypeOK
<1>5. bar[f] # NoBar => bar[f].timestamp <= n
  <2> SUFFICES ASSUME bar[f] # NoBar PROVE bar[f].timestamp <= n
    OBVIOUS
  <2>1. PICK k \in Nat : bar[f].timestamp = k * f /\ k <= (now \div f) + 1
    BY <1>1 DEF BarsInTime
  <2>. QED  BY <1>2, <1>3, <2>1, MultipleOrder
<1>6. BarsInTime'
  <2> SUFFICES ASSUME NEW g \in Frames, bar[g] # NoBar
               PROVE  /\ \E k \in Nat : bar[g].timestamp = k * g /\ k <= (now \div g) + 1
                      /\ wake'[g] # Busy => bar[g].timestamp <= wake'[g] \/ bar[g].timestamp <= now
    BY DEF BarsInTime
  <2>. QED  BY <1>1, <1>4, <1>5 DEF BarsInTime
<1>. QED  BY <1>1, <1>4, <1>6 DEF TradesInTime

\* The sleeper has stored its snapshot, or failed to, and waits again.
LEMMA SleeperSound ==
    ASSUME OHLCSound, NEW f \in Frames, NothingToStore(f) \/ InsertBar(f) \/ InsertFails(f)
    PROVE  OHLCSound'
<1>1. OhlcTypeOK /\ TradesInTime /\ BarsSound /\ RowsSound /\ BarsInTime
  BY DEF OHLCSound
<1>2. /\ wake' = [wake EXCEPT ![f] = NextBoundary(now, f)]
      /\ UNCHANGED <<punctual, now, trades, handled, bar>>
      /\ snap' = snap \/ snap' = [snap EXCEPT ![f] = NoBar]
      /\ \/ rows' = rows
         \/ snap[f] # NoBar /\ rows' = [rows EXCEPT ![f] = Append(rows[f], snap[f])]
  BY DEF NothingToStore, InsertBar, InsertFails, SleepAgain
<1>3. wake' \in [Frames -> Nat \cup {Busy}] /\ TradesInTime' /\ BarsInTime'
  BY <1>2, SleepSound
<1>4. /\ snap' \in [Frames -> Bars \cup {NoBar}]
      /\ \A g \in Frames : snap'[g] # NoBar => snap'[g] = snap[g]
  BY <1>1, <1>2 DEF OhlcTypeOK
<1>5. BarsSound'
  BY <1>1, <1>2, <1>4 DEF BarsSound
<1>6. CASE rows' = rows
  <2>1. OhlcTypeOK'
    BY <1>1, <1>2, <1>3, <1>4, <1>6 DEF OhlcTypeOK
  <2>. QED  BY <1>1, <1>2, <1>3, <1>5, <1>6, <2>1 DEF OHLCSound, RowsSound
<1>7. CASE snap[f] # NoBar /\ rows' = [rows EXCEPT ![f] = Append(rows[f], snap[f])]
  <2>1. snap[f] \in Bars /\ rows[f] \in Seq(Bars)
    BY <1>1, <1>7 DEF OhlcTypeOK
  <2>2. /\ rows' \in [Frames -> Seq(Bars)]
        /\ rows'[f] = Append(rows[f], snap[f])
        /\ \A g \in Frames : g # f => rows'[g] = rows[g]
    BY <1>1, <1>7, <2>1 DEF OhlcTypeOK
  <2>3. Range(rows'[f]) = Range(rows[f]) \cup {snap[f]}
    BY <2>1, <2>2, SeqRange
  <2>4. OhlcTypeOK'
    BY <1>1, <1>2, <1>3, <1>4, <2>2 DEF OhlcTypeOK
  <2>5. RowsSound'
    <3> SUFFICES ASSUME NEW g \in Frames, NEW b \in Range(rows'[g])
                 PROVE  BarSound(Range(trades), b, g) /\ b.timestamp <= now
      BY <1>2 DEF RowsSound
    <3>1. CASE g = f
      BY <1>1, <1>7, <2>3, <3>1 DEF RowsSound, BarsSound
    <3>2. CASE g # f
      BY <1>1, <2>2, <3>2 DEF RowsSound
    <3>. QED  BY <3>1, <3>2
  <2>. QED  BY <1>3, <1>5, <2>4, <2>5 DEF OHLCSound
<1>. QED  BY <1>2, <1>6, <1>7

\* stop and start.
LEMMA RestartSound == OHLCSound /\ Restart => OHLCSound'
<1> SUFFICES ASSUME OHLCSound, Restart PROVE OHLCSound'
  OBVIOUS
<1>1. OhlcTypeOK /\ TradesInTime /\ BarsSound /\ RowsSound /\ BarsInTime
  BY DEF OHLCSound
<1>2. \A f \in Frames : NextBoundary(now, f) \in Nat
  <2> SUFFICES ASSUME NEW f \in Frames PROVE NextBoundary(now, f) \in Nat
    OBVIOUS
  <2>1. f \in Nat \ {0} /\ now \in Nat
    BY <1>1, FramesAssumption DEF OhlcTypeOK
  <2>2. now \div f \in Nat
    BY <2>1, Periods
  <2>. QED  BY <2>1, <2>2 DEF NextBoundary
<1>3. handled' \in 0 .. Len(trades')
  BY <1>1 DEF OhlcTypeOK, Restart
<1>4. OhlcTypeOK'
  BY <1>1, <1>2, <1>3 DEF OhlcTypeOK, Restart
<1>. QED  BY <1>1, <1>4 DEF OHLCSound, Restart, TradesInTime, BarsSound, RowsSound, BarsInTime

\* Every step keeps the invariant of the bars.
LEMMA NextOHLCSound == OHLCSound /\ [OhlcNext]_ohlcVars => OHLCSound'
<1> SUFFICES ASSUME OHLCSound, [OhlcNext]_ohlcVars PROVE OHLCSound'
  OBVIOUS
<1>1. CASE Tick
  BY <1>1, TickSound
<1>2. ASSUME NEW price \in TradePrices, NewTrade(price) PROVE OHLCSound'
  BY <1>2, NewTradeSound
<1>3. CASE HandleTradeEvent
  BY <1>3, HandleSound
<1>4. ASSUME NEW f \in Frames, Sleeper(f) PROVE OHLCSound'
  BY <1>4, SnapshotSound, SleeperSound DEF Sleeper
<1>5. CASE Restart
  BY <1>5, RestartSound
<1>6. CASE UNCHANGED ohlcVars
  BY <1>6 DEF ohlcVars, OHLCSound, OhlcTypeOK, TradesInTime, BarsSound, RowsSound, BarsInTime
<1>. QED  BY <1>1, <1>2, <1>3, <1>4, <1>5, <1>6 DEF OhlcNext

\* OHLCInv, from the part of OHLCSound that is about the rows.
LEMMA OHLCSoundSuffices == OHLCSound => OHLCInv
<1> SUFFICES ASSUME OHLCSound PROVE OHLCInv
  OBVIOUS
<1>1. OhlcTypeOK /\ RowsSound
  BY DEF OHLCSound
<1>2. ASSUME NEW f \in Frames, NEW b \in Range(rows[f])
      PROVE  /\ {b.open, b.high, b.low, b.close} \subseteq PricesUntil(b, f)
             /\ {b.open, b.close} \subseteq b.low .. b.high
             /\ b.timestamp <= now
  <2>1. b \in Bars
    BY <1>1, SeqRange DEF OhlcTypeOK
  <2>2. b.open \in Nat /\ b.high \in Nat /\ b.low \in Nat /\ b.close \in Nat
    BY <2>1, FramesAssumption DEF Bars
  <2>3. BarSound(Range(trades), b, f) /\ b.timestamp <= now
    BY <1>1 DEF RowsSound
  <2>. QED  BY <2>2, <2>3 DEF BarSound, PricesIn, PricesUntil
<1>. QED  BY <1>1, <1>2 DEF OHLCInv, NoLookAhead, StoredAfterBegin

-----------------------------------------------------------------------------
(***************************************************************************)
(* The OHLC builder: whoever is late.                                      *)
(***************************************************************************)

\* A stored bar shows no price of a later period, its range holds its open and
\* its close, and its period has begun, whatever is late, fails or restarts.
THEOREM StoredBarsSound == OhlcSpec => []OHLCInv
<1>1. OhlcSpec => []OHLCSound
  BY InitOHLCSound, NextOHLCSound, PTL DEF OhlcSpec
<1>. QED  BY <1>1, OHLCSoundSuffices, PTL

-----------------------------------------------------------------------------
(***************************************************************************)
(* The OHLC builder when nobody is late.  The bars that are stored or      *)
(* being stored, followed by the bar in memory, are the periods since the  *)
(* first trade, by the trades handled so far.  Trades that are not handled *)
(* yet are of the current second, so a bar that is stored is complete.     *)
(***************************************************************************)

\* The trades of a period among the first n.
InPeriod(T, n, ts, f) == {i \in 1 .. n : BarTimestamp(T[i].timestamp, f) = ts}

\* The bar is that of the period by the first n trades.
BarOf(b, T, n, ts, f, open) ==
    /\ b.timestamp = ts /\ b.open = open
    /\ b.low <= open /\ open <= b.high
    /\ \A i \in InPeriod(T, n, ts, f) : b.low <= T[i].price /\ T[i].price <= b.high
    /\ b.high = open \/ \E i \in InPeriod(T, n, ts, f) : b.high = T[i].price
    /\ b.low = open \/ \E i \in InPeriod(T, n, ts, f) : b.low = T[i].price
    /\ InPeriod(T, n, ts, f) = {} => b.close = open
    /\ InPeriod(T, n, ts, f) # {} =>
          \E i \in InPeriod(T, n, ts, f) :
              b.close = T[i].price /\ \A j \in InPeriod(T, n, ts, f) : j <= i

\* The bars of a frame that are stored or being stored.
Done(f) == IF snap[f] = NoBar THEN rows[f] ELSE Append(rows[f], snap[f])

FirstPeriod(f) == BarTimestamp(trades[1].timestamp, f)

\* The open of the i-th period.
OpenOf(q, i) == IF i = 1 THEN trades[1].price ELSE q[i - 1].close

\* The bars of a frame are those of the periods since the first trade.
ChainSound(f) ==
    IF handled = 0 THEN bar[f] = NoBar /\ Done(f) = << >>
    ELSE /\ bar[f] # NoBar
         /\ \A i \in 1 .. Len(Done(f)) :
               BarOf(Done(f)[i], trades, handled, FirstPeriod(f) + (i - 1) * f, f,
                     OpenOf(Done(f), i))
         /\ BarOf(bar[f], trades, handled, FirstPeriod(f) + Len(Done(f)) * f, f,
                  OpenOf(Done(f), Len(Done(f)) + 1))

\* The sleeper waits for the next boundary, is due now or is storing, and the
\* bar in memory is of the current period unless the sleeper is due, which is
\* before the trades of that period are handled.
ClockSound(f) ==
    /\ snap[f] # NoBar <=> wake[f] = Busy
    /\ \/ wake[f] = Busy
       \/ wake[f] = NextBoundary(now, f)
       \/ wake[f] = now /\ BarTimestamp(now, f) = now
    /\ wake[f] = now => \A i \in 1 .. handled : trades[i].timestamp < now
    /\ handled > 0 =>
         FirstPeriod(f) + Len(Done(f)) * f =
             IF wake[f] = now THEN BarTimestamp(now, f) - f ELSE BarTimestamp(now, f)

PunctualSound ==
    punctual =>
        /\ \A i \in handled + 1 .. Len(trades) : trades[i].timestamp = now
        /\ \A f \in Frames : ChainSound(f) /\ ClockSound(f)

\* The period of a second is the only one that holds it.
LEMMA PeriodUnique ==
    ASSUME NEW f \in Nat \ {0}, NEW t \in Nat, NEW k \in Nat, k * f <= t, t < (k + 1) * f
    PROVE  t \div f = k
<1>1. /\ t \div f \in Nat
      /\ (t \div f) * f <= t
  BY Periods
<1>2. k <= t \div f
  BY ReachedBoundary
<1>3. (t \div f) * f < (k + 1) * f
  BY <1>1
<1>4. t \div f < k + 1
  BY <1>1, <1>3, MultipleOrder
<1>. QED  BY <1>1, <1>2, <1>4

\* The next second is a boundary, or of the same period.
LEMMA NextSecond ==
    ASSUME NEW f \in Nat \ {0}, NEW t \in Nat
    PROVE  /\ BarTimestamp(t, f) \in Nat
           /\ BarTimestamp(t, f) <= t
           /\ NextBoundary(t, f) = BarTimestamp(t, f) + f
           /\ t < NextBoundary(t, f)
           /\ t + 1 = NextBoundary(t, f) => BarTimestamp(t + 1, f) = t + 1
           /\ t + 1 # NextBoundary(t, f) => BarTimestamp(t + 1, f) = BarTimestamp(t, f)
<1>1. PICK k \in Nat : k = t \div f
  BY Periods
<1>2. k * f <= t /\ t < (k + 1) * f /\ k * f \in Nat
  BY <1>1, Periods
<1>3. (k + 1) * f = k * f + f /\ (k + 2) * f = (k + 1) * f + f /\ (k + 1) * f \in Nat
  OBVIOUS
<1>4. BarTimestamp(t, f) = k * f /\ NextBoundary(t, f) = (k + 1) * f
  BY <1>1 DEF BarTimestamp, NextBoundary
<1>5. ASSUME t + 1 = (k + 1) * f PROVE BarTimestamp(t + 1, f) = t + 1
  <2>1. (k + 1) * f <= t + 1 /\ t + 1 < ((k + 1) + 1) * f
    BY <1>2, <1>3, <1>5
  <2>2. (t + 1) \div f = k + 1
    BY <2>1, PeriodUnique
  <2>. QED  BY <1>5, <2>2 DEF BarTimestamp
<1>6. ASSUME t + 1 # (k + 1) * f PROVE BarTimestamp(t + 1, f) = k * f
  <2>1. k * f <= t + 1 /\ t + 1 < (k + 1) * f
    BY <1>2, <1>3, <1>6
  <2>2. (t + 1) \div f = k
    BY <2>1, PeriodUnique
  <2>. QED  BY <2>2 DEF BarTimestamp
<1>. QED  BY <1>2, <1>3, <1>4, <1>5, <1>6

\* The number of whole frames in a multiple of the frame.
LEMMA WholeFrames ==
    ASSUME NEW f \in Nat \ {0}, NEW k \in Nat
    PROVE  (k * f) \div f = k
<1>1. k * f \in Nat /\ k * f <= k * f /\ k * f < (k + 1) * f
  <2>1. (k + 1) * f = k * f + f /\ k * f \in Nat
    OBVIOUS
  <2>. QED  BY <2>1
<1>. QED  BY <1>1, PeriodUnique

\* An earlier period of a frame begins earlier.
LEMMA EarlierMultiple ==
    ASSUME NEW f \in Nat \ {0}, NEW k \in Nat, NEW i \in 1 .. k
    PROVE  (i - 1) * f < k * f /\ (i - 1) * f \in Nat
<1>1. PICK j \in Nat : j = i - 1
  OBVIOUS
<1>2. j + 1 <= k /\ (j + 1) * f = j * f + f /\ j * f \in Nat /\ k * f \in Nat
  BY <1>1
<1>3. (j + 1) * f <= k * f
  BY <1>2, MultipleOrder
<1>. QED  BY <1>1, <1>2, <1>3

\* The first trade makes the first bar.
LEMMA BarOfFirst ==
    ASSUME NEW T, NEW f \in Nat \ {0}, T[1].price \in Nat
    PROVE  BarOf(NewBar(T[1], f), T, 1, BarTimestamp(T[1].timestamp, f), f, T[1].price)
<1>1. InPeriod(T, 1, BarTimestamp(T[1].timestamp, f), f) = {1}
  BY DEF InPeriod
<1>. QED  BY <1>1 DEF BarOf, NewBar

\* A trade of another period leaves the trades of this one.
LEMMA BarOfOther ==
    ASSUME NEW b, NEW T, NEW n \in Nat, NEW ts, NEW f, NEW open,
           BarOf(b, T, n, ts, f, open), BarTimestamp(T[n + 1].timestamp, f) # ts
    PROVE  BarOf(b, T, n + 1, ts, f, open)
<1>1. InPeriod(T, n + 1, ts, f) = InPeriod(T, n, ts, f)
  BY DEF InPeriod
<1>. QED  BY <1>1 DEF BarOf

\* A new trade that is not handled yet is none of the first n.
LEMMA BarOfAppend ==
    ASSUME NEW b, NEW T \in Seq(Trades), NEW t \in Trades, NEW n \in 0 .. Len(T), NEW ts,
           NEW f, NEW open, BarOf(b, T, n, ts, f, open)
    PROVE  BarOf(b, Append(T, t), n, ts, f, open)
<1>1. PICK U : U = Append(T, t)
  OBVIOUS
<1>2. \A i \in 1 .. n : U[i] = T[i]
  BY <1>1
<1>3. InPeriod(U, n, ts, f) = InPeriod(T, n, ts, f)
  BY <1>2 DEF InPeriod
<1>4. \A i \in InPeriod(T, n, ts, f) : U[i] = T[i]
  BY <1>2 DEF InPeriod
<1>5. BarOf(b, U, n, ts, f, open)
  BY <1>3, <1>4 DEF BarOf
<1>. QED  BY <1>1, <1>5

\* A trade of the period updates its bar.
LEMMA BarOfUpdate ==
    ASSUME NEW b \in Bars, NEW T, NEW n \in Nat, NEW ts, NEW f, NEW open \in Nat,
           BarOf(b, T, n, ts, f, open), BarTimestamp(T[n + 1].timestamp, f) = ts,
           \A i \in 1 .. n + 1 : T[i].price \in Nat
    PROVE  BarOf(Update(b, T[n + 1].price), T, n + 1, ts, f, open)
<1>1. PICK p \in Nat : p = T[n + 1].price
  OBVIOUS
<1>2. PICK I, J : I = InPeriod(T, n, ts, f) /\ J = InPeriod(T, n + 1, ts, f)
  OBVIOUS
<1>3. J = I \cup {n + 1} /\ I \subseteq 1 .. n
  BY <1>2 DEF InPeriod
<1>4. b.high \in Nat /\ b.low \in Nat /\ b.close \in Nat
  BY FramesAssumption DEF Bars
<1>5. PICK c : c = Update(b, p)
  OBVIOUS
<1>6. /\ c.timestamp = b.timestamp /\ c.open = b.open /\ c.close = p
      /\ c.high = IF p > b.high THEN p ELSE b.high
      /\ c.low = IF p < b.low THEN p ELSE b.low
  BY <1>5 DEF Update, Bars
<1>7. /\ b.timestamp = ts /\ b.open = open
      /\ b.low <= open /\ open <= b.high
      /\ \A i \in I : b.low <= T[i].price /\ T[i].price <= b.high
      /\ b.high = open \/ \E i \in I : b.high = T[i].price
      /\ b.low = open \/ \E i \in I : b.low = T[i].price
  BY <1>2 DEF BarOf
<1>8. c.high \in Nat /\ c.low \in Nat /\ b.high <= c.high /\ c.low <= b.low
      /\ p <= c.high /\ c.low <= p
  BY <1>4, <1>6
<1>9. c.low <= open /\ open <= c.high
  BY <1>4, <1>7, <1>8
<1>10. \A i \in J : c.low <= T[i].price /\ T[i].price <= c.high
  <2>1. ASSUME NEW i \in I PROVE c.low <= T[i].price /\ T[i].price <= c.high
    <3>1. T[i].price \in Nat
      BY <1>3
    <3>. QED  BY <1>4, <1>7, <1>8, <3>1
  <2>. QED  BY <1>1, <1>3, <1>8, <2>1
<1>11. c.high = open \/ \E i \in J : c.high = T[i].price
  BY <1>1, <1>3, <1>6, <1>7
<1>12. c.low = open \/ \E i \in J : c.low = T[i].price
  BY <1>1, <1>3, <1>6, <1>7
<1>13. \E i \in J : c.close = T[i].price /\ \A j \in J : j <= i
  BY <1>1, <1>3, <1>6
<1>14. BarOf(c, T, n + 1, ts, f, open)
  BY <1>2, <1>3, <1>6, <1>7, <1>9, <1>10, <1>11, <1>12, <1>13 DEF BarOf
<1>. QED  BY <1>1, <1>5, <1>14

\* Without a trade the next bar opens and closes at the last close.
LEMMA BarOfAdvance ==
    ASSUME NEW b \in Bars, NEW T, NEW n, NEW f \in Nat, b.timestamp + f \in Nat,
           InPeriod(T, n, b.timestamp + f, f) = {}
    PROVE  BarOf(Advance(b, f), T, n, b.timestamp + f, f, b.close)
<1>1. PICK c : c = Advance(b, f)
  OBVIOUS
<1>2. /\ c.timestamp = b.timestamp + f /\ c.open = b.close /\ c.close = b.close
      /\ c.high = b.close /\ c.low = b.close
  BY <1>1 DEF Advance, Bars
<1>3. b.close \in Nat
  BY FramesAssumption DEF Bars
<1>. QED  BY <1>1, <1>2, <1>3 DEF BarOf

\* A set of numbers has one largest and one smallest element at most.
LEMMA ExtremumUnique ==
    ASSUME NEW S \in SUBSET Nat, NEW m \in S
    PROVE  /\ (\A x \in S : x <= m) => Max(S) = m
           /\ (\A x \in S : m <= x) => Min(S) = m
<1>1. ASSUME \A x \in S : x <= m PROVE Max(S) = m
  <2>1. \E x \in S : \A y \in S : x >= y
    BY <1>1
  <2>2. PICK z : z = Max(S)
    OBVIOUS
  <2>3. z \in S /\ \A y \in S : z >= y
    BY <2>1, <2>2 DEF Max
  <2>4. z \in Nat /\ m \in Nat /\ z <= m /\ m <= z
    BY <1>1, <2>3
  <2>. QED  BY <2>2, <2>4
<1>2. ASSUME \A x \in S : m <= x PROVE Min(S) = m
  <2>1. \E x \in S : \A y \in S : x <= y
    BY <1>2
  <2>2. PICK z : z = Min(S)
    OBVIOUS
  <2>3. z \in S /\ \A y \in S : z <= y
    BY <2>1, <2>2 DEF Min
  <2>4. z \in Nat /\ m \in Nat /\ z <= m /\ m <= z
    BY <1>2, <2>3
  <2>. QED  BY <2>2, <2>4
<1>. QED  BY <1>1, <1>2

\* A bar of its period by all trades is the expected one.
LEMMA BarIsExpected ==
    ASSUME OhlcTypeOK, NEW b \in Bars, NEW ts, NEW f, NEW open \in Nat,
           BarOf(b, trades, Len(trades), ts, f, open)
    PROVE  b = ExpectedBar(ts, f, open)
<1>1. PICK I : I = InPeriod(trades, Len(trades), ts, f)
  OBVIOUS
<1>2. /\ trades \in Seq(Trades) /\ Len(trades) \in Nat
      /\ \A i \in 1 .. Len(trades) : trades[i].price \in Nat
  <2>1. trades \in Seq(Trades) /\ Len(trades) \in Nat
    BY DEF OhlcTypeOK
  <2>2. \A i \in 1 .. Len(trades) : trades[i] \in Trades
    BY <2>1
  <2>. QED  BY <2>1, <2>2, FramesAssumption DEF Trades
<1>3. I = {i \in DOMAIN trades : BarTimestamp(trades[i].timestamp, f) = ts}
  BY <1>1, <1>2 DEF InPeriod
<1>4. PeriodPrices(ts, f) = {trades[i].price : i \in I}
  BY <1>3 DEF PeriodPrices, Range
<1>5. PICK P : P = PeriodPrices(ts, f) \cup {open}
  OBVIOUS
<1>6. b.high \in P /\ \A x \in P : b.high >= x
  BY <1>1, <1>4, <1>5 DEF BarOf
<1>7. b.low \in P /\ \A x \in P : b.low <= x
  BY <1>1, <1>4, <1>5 DEF BarOf
<1>8. P \subseteq Nat
  BY <1>2, <1>3, <1>4, <1>5
<1>9. Max(P) = b.high
  BY <1>6, <1>8, ExtremumUnique
<1>10. Min(P) = b.low
  BY <1>7, <1>8, ExtremumUnique
<1>11. LastPrice(ts, f, open) = b.close
  <2>1. CASE I = {}
    BY <1>1, <1>3, <2>1 DEF LastPrice, BarOf
  <2>2. CASE I # {}
    <3>1. PICK i \in I : b.close = trades[i].price /\ \A j \in I : j <= i
      BY <1>1, <2>2 DEF BarOf
    <3>2. I \subseteq Nat
      BY <1>2, <1>3
    <3>3. Max(I) = i
      BY <3>1, <3>2, ExtremumUnique
    <3>. QED  BY <1>3, <2>2, <3>1, <3>3 DEF LastPrice
  <2>. QED  BY <2>1, <2>2
<1>12. b.timestamp = ts /\ b.open = open
  BY DEF BarOf
<1>. QED  BY <1>5, <1>9, <1>10, <1>11, <1>12 DEF ExpectedBar, Bars

\* The types of what the bars of a frame depend on.
LEMMA PunctualTypes ==
    ASSUME OHLCSound, NEW f \in Frames
    PROVE  /\ f \in Nat \ {0} /\ now \in Nat
           /\ Len(trades) \in Nat /\ handled \in 0 .. Len(trades) /\ trades \in Seq(Trades)
           /\ \A i \in 1 .. Len(trades) :
                 /\ trades[i] \in Trades /\ trades[i].price \in Nat
                 /\ trades[i].timestamp \in Nat /\ trades[i].timestamp <= now
           /\ Done(f) \in Seq(Bars) /\ Len(Done(f)) \in Nat
           /\ snap[f] \in Bars \cup {NoBar} /\ bar[f] \in Bars \cup {NoBar}
           /\ rows[f] \in Seq(Bars) /\ wake[f] \in Nat \cup {Busy}
<1>1. OhlcTypeOK /\ TradesInTime
  BY DEF OHLCSound
<1>2. /\ f \in Nat \ {0} /\ now \in Nat
      /\ Len(trades) \in Nat /\ handled \in 0 .. Len(trades) /\ trades \in Seq(Trades)
      /\ snap[f] \in Bars \cup {NoBar} /\ bar[f] \in Bars \cup {NoBar}
      /\ rows[f] \in Seq(Bars) /\ wake[f] \in Nat \cup {Busy}
  BY <1>1, FramesAssumption DEF OhlcTypeOK
<1>3. ASSUME NEW i \in 1 .. Len(trades)
      PROVE  /\ trades[i] \in Trades /\ trades[i].price \in Nat
             /\ trades[i].timestamp \in Nat /\ trades[i].timestamp <= now
  <2>1. trades[i] \in Trades
    BY <1>2
  <2>2. trades[i] \in Range(trades)
    BY <1>2 DEF Range
  <2>. QED  BY <1>1, <2>1, <2>2, FramesAssumption DEF TradesInTime, Trades
<1>4. Done(f) \in Seq(Bars)
  BY <1>2 DEF Done
<1>5. Len(Done(f)) \in Nat
  BY <1>4
<1>. QED  BY <1>2, <1>3, <1>4, <1>5

\* The period of the first trade.
LEMMA FirstPeriodType ==
    ASSUME OHLCSound, NEW f \in Frames, 0 < Len(trades)
    PROVE  FirstPeriod(f) \in Nat
<1>1. f \in Nat \ {0} /\ trades[1].timestamp \in Nat
  BY PunctualTypes
<1>2. PICK t \in Nat : t = trades[1].timestamp
  BY <1>1
<1>3. BarTimestamp(t, f) \in Nat
  BY <1>1, NextSecond
<1>. QED  BY <1>2, <1>3 DEF FirstPeriod

\* A step that leaves what belongs to the frame leaves it sound.
LEMMA FrameKept ==
    ASSUME NEW f, ChainSound(f), ClockSound(f), UNCHANGED <<now, trades, handled>>,
           bar'[f] = bar[f], snap'[f] = snap[f], rows'[f] = rows[f], wake'[f] = wake[f]
    PROVE  ChainSound(f)' /\ ClockSound(f)'
<1>1. Done(f)' = Done(f) /\ FirstPeriod(f)' = FirstPeriod(f)
  BY DEF Done, FirstPeriod
<1>2. \A q, i : OpenOf(q, i)' = OpenOf(q, i)
  BY DEF OpenOf
<1>3. ChainSound(f)'
  BY <1>1, <1>2 DEF ChainSound, BarOf, InPeriod
<1>4. ClockSound(f)'
  BY <1>1 DEF ClockSound, NextBoundary, BarTimestamp
<1>. QED  BY <1>3, <1>4

\* The builder starts without bars.
LEMMA InitPunctual == OhlcInit => PunctualSound
<1> SUFFICES ASSUME OhlcInit, NEW f \in Frames PROVE ChainSound(f) /\ ClockSound(f)
  BY DEF OhlcInit, PunctualSound
<1>1. /\ handled = 0 /\ bar[f] = NoBar /\ snap[f] = NoBar /\ rows[f] = << >> /\ now = 0
      /\ wake[f] = NextBoundary(now, f)
  BY DEF OhlcInit
<1>2. f \in Nat \ {0} /\ 0 \in Nat
  BY FramesAssumption
<1>3. 0 < wake[f] /\ wake[f] \in Nat
  <2>1. /\ BarTimestamp(0, f) \in Nat
        /\ NextBoundary(0, f) = BarTimestamp(0, f) + f
        /\ 0 < NextBoundary(0, f)
    BY <1>2, NextSecond
  <2>. QED  BY <1>1, <1>2, <2>1
<1>4. Done(f) = << >>
  BY <1>1 DEF Done
<1>. QED  BY <1>1, <1>3, <1>4 DEF ChainSound, ClockSound, Busy

\* The clock moves when no sleeper is due and no trade waits.
LEMMA TickPunctual ==
    ASSUME OHLCSound, PunctualSound, punctual, Tick
    PROVE  PunctualSound'
<1>1. /\ handled = Len(trades) /\ now' = now + 1
      /\ UNCHANGED <<punctual, trades, handled, bar, snap, wake, rows>>
      /\ \A f \in Frames : wake[f] > now
  BY DEF Tick
<1>2. ASSUME NEW f \in Frames PROVE ChainSound(f)' /\ ClockSound(f)'
  <2>1. ChainSound(f) /\ ClockSound(f)
    BY DEF PunctualSound
  <2>2. /\ f \in Nat \ {0} /\ now \in Nat
        /\ \A i \in 1 .. Len(trades) :
              trades[i].timestamp \in Nat /\ trades[i].timestamp <= now
    BY PunctualTypes
  <2>3. Done(f)' = Done(f) /\ FirstPeriod(f)' = FirstPeriod(f)
    BY <1>1 DEF Done, FirstPeriod
  <2>4. \A q, i : OpenOf(q, i)' = OpenOf(q, i)
    BY <1>1 DEF OpenOf
  <2>5. ChainSound(f)'
    BY <1>1, <2>1, <2>3, <2>4 DEF ChainSound
  <2>6. wake[f] = NextBoundary(now, f) /\ snap[f] = NoBar
    BY <1>1, <2>1, <2>2 DEF ClockSound, Busy
  <2>7. /\ BarTimestamp(now, f) \in Nat
        /\ NextBoundary(now, f) = BarTimestamp(now, f) + f
        /\ NextBoundary(now + 1, f) = BarTimestamp(now + 1, f) + f
        /\ now + 1 = wake[f] => BarTimestamp(now + 1, f) = now + 1
        /\ now + 1 # wake[f] => BarTimestamp(now + 1, f) = BarTimestamp(now, f)
    <3>1. /\ BarTimestamp(now, f) \in Nat
          /\ NextBoundary(now, f) = BarTimestamp(now, f) + f
          /\ now + 1 = NextBoundary(now, f) => BarTimestamp(now + 1, f) = now + 1
          /\ now + 1 # NextBoundary(now, f) =>
                BarTimestamp(now + 1, f) = BarTimestamp(now, f)
      BY <2>2, NextSecond
    <3>2. PICK t \in Nat : t = now + 1
      BY <2>2
    <3>3. NextBoundary(t, f) = BarTimestamp(t, f) + f
      BY <2>2, NextSecond
    <3>. QED  BY <2>6, <3>1, <3>2, <3>3
  <2>8. wake[f] # Busy
    BY <2>2, <2>6, <2>7 DEF Busy
  <2>9. ASSUME handled > 0
        PROVE  FirstPeriod(f) + Len(Done(f)) * f =
                   IF wake[f] = now + 1 THEN BarTimestamp(now + 1, f) - f
                                        ELSE BarTimestamp(now + 1, f)
    <3>1. FirstPeriod(f) + Len(Done(f)) * f = BarTimestamp(now, f)
      BY <1>1, <2>1, <2>2, <2>9 DEF ClockSound
    <3>. QED  BY <2>2, <2>6, <2>7, <3>1
  <2>10. \A i \in 1 .. handled : trades[i].timestamp < now + 1
    BY <1>1, <2>2
  <2>11. \/ wake[f] = NextBoundary(now + 1, f)
         \/ wake[f] = now + 1 /\ BarTimestamp(now + 1, f) = now + 1
    BY <2>6, <2>7
  <2>12. ClockSound(f)'
    BY <1>1, <2>3, <2>6, <2>8, <2>9, <2>10, <2>11 DEF ClockSound
  <2>. QED  BY <2>5, <2>12
<1>3. Len(trades) \in Nat /\ handled' + 1 .. Len(trades') = {}
  BY <1>1 DEF OHLCSound, OhlcTypeOK
<1>. QED  BY <1>2, <1>3 DEF PunctualSound

\* A new trade is of the current second.
LEMMA NewTradePunctual ==
    ASSUME OHLCSound, PunctualSound, punctual, NEW price \in TradePrices, NewTrade(price)
    PROVE  PunctualSound'
<1>1. PICK t : t = [price |-> price, timestamp |-> now]
  OBVIOUS
<1>2. /\ trades' = Append(trades, t)
      /\ UNCHANGED <<punctual, now, handled, bar, snap, wake, rows>>
  BY <1>1 DEF NewTrade
<1>3. /\ now \in Nat /\ Len(trades) \in Nat /\ handled \in 0 .. Len(trades)
      /\ trades \in Seq(Trades)
  BY FramesAssumption DEF OHLCSound, OhlcTypeOK
<1>4. t \in Trades /\ t.timestamp = now
  BY <1>1, <1>3 DEF Trades
<1>5. /\ Len(trades') = Len(trades) + 1
      /\ trades'[Len(trades) + 1] = t
      /\ \A i \in 1 .. Len(trades) : trades'[i] = trades[i]
  BY <1>2, <1>3
<1>6. \A i \in handled' + 1 .. Len(trades') : trades'[i].timestamp = now'
  <2> SUFFICES ASSUME NEW i \in handled + 1 .. Len(trades) + 1 PROVE trades'[i].timestamp = now
    BY <1>2, <1>5
  <2>1. CASE i = Len(trades) + 1
    BY <1>4, <1>5, <2>1
  <2>2. CASE i # Len(trades) + 1
    <3>1. i \in handled + 1 .. Len(trades) /\ i \in 1 .. Len(trades)
      BY <1>3, <2>2
    <3>. QED  BY <1>5, <3>1 DEF PunctualSound
  <2>. QED  BY <2>1, <2>2
<1>7. ASSUME NEW f \in Frames PROVE ChainSound(f)' /\ ClockSound(f)'
  <2>1. ChainSound(f) /\ ClockSound(f)
    BY DEF PunctualSound
  <2>2. Done(f)' = Done(f)
    BY <1>2 DEF Done
  <2>3. CASE handled = 0
    BY <1>2, <2>1, <2>2, <2>3 DEF ChainSound, ClockSound
  <2>4. CASE handled > 0
    <3>1. trades'[1] = trades[1] /\ FirstPeriod(f)' = FirstPeriod(f)
      BY <1>3, <1>5, <2>4 DEF FirstPeriod
    <3>2. \A q, i : OpenOf(q, i)' = OpenOf(q, i)
      BY <3>1 DEF OpenOf
    <3>3. \A b, ts, open : BarOf(b, trades, handled, ts, f, open)
                              => BarOf(b, trades', handled, ts, f, open)
      BY <1>2, <1>3, <1>4, BarOfAppend
    <3>4. ChainSound(f)'
      BY <1>2, <1>3, <2>1, <2>2, <2>4, <3>1, <3>2, <3>3 DEF ChainSound
    <3>5. \A i \in 1 .. handled : trades'[i] = trades[i]
      BY <1>3, <1>5
    <3>6. ClockSound(f)'
      BY <1>2, <2>1, <2>2, <3>1, <3>5 DEF ClockSound
    <3>. QED  BY <3>4, <3>6
  <2>. QED  BY <1>3, <2>3, <2>4
<1>. QED  BY <1>6, <1>7 DEF PunctualSound

\* A trade is handled when no sleeper is due: it begins the first bar or
\* updates that of the current period.
LEMMA HandlePunctual ==
    ASSUME OHLCSound, PunctualSound, punctual, HandleTradeEvent
    PROVE  PunctualSound'
<1>1. PICK n : n = handled + 1
  OBVIOUS
<1>2. /\ handled < Len(trades) /\ handled' = n
      /\ bar' = [f \in Frames |-> Fold(trades[n], f)]
      /\ UNCHANGED <<punctual, now, trades, snap, wake, rows>>
      /\ \A f \in Frames : ~Due(f)
  BY <1>1 DEF HandleTradeEvent
<1>3. now \in Nat /\ Len(trades) \in Nat /\ handled \in Nat /\ n \in 1 .. Len(trades)
  BY <1>1, <1>2, FramesAssumption DEF OHLCSound, OhlcTypeOK
<1>4. trades[n].timestamp = now
  BY <1>1, <1>2, <1>3 DEF PunctualSound
<1>5. \A i \in n + 1 .. Len(trades) : trades[i].timestamp = now
  BY <1>1, <1>3 DEF PunctualSound
<1>6. ASSUME NEW f \in Frames PROVE ChainSound(f)' /\ ClockSound(f)'
  <2>1. ChainSound(f) /\ ClockSound(f)
    BY DEF PunctualSound
  <2>2. /\ f \in Nat \ {0} /\ wake[f] \in Nat \cup {Busy} /\ bar[f] \in Bars \cup {NoBar}
        /\ Done(f) \in Seq(Bars) /\ Len(Done(f)) \in Nat
        /\ \A i \in 1 .. Len(trades) :
              trades[i].price \in Nat /\ trades[i].timestamp \in Nat
    BY PunctualTypes
  <2>3. wake[f] # now
    <3>1. now # Busy /\ now <= now
      BY <1>3 DEF Busy
    <3>. QED  BY <1>2, <3>1 DEF Due
  <2>4. Done(f)' = Done(f) /\ FirstPeriod(f)' = FirstPeriod(f)
    BY <1>2 DEF Done, FirstPeriod
  <2>5. \A q, i : OpenOf(q, i)' = OpenOf(q, i)
    BY <1>2 DEF OpenOf
  <2>6. PICK ts \in Nat : ts = BarTimestamp(now, f)
    BY <1>3, <2>2, NextSecond
  <2>7. bar'[f] = Fold(trades[n], f) /\ n # 0
    BY <1>2, <1>3
  <2>8. CASE handled = 0
    <3>1. n = 1 /\ bar[f] = NoBar /\ Done(f) = << >>
      BY <1>1, <2>1, <2>8 DEF ChainSound
    <3>2. Len(Done(f)) = 0
      BY <3>1
    <3>3. FirstPeriod(f) = ts /\ trades[1].price \in Nat
      BY <1>3, <1>4, <2>2, <2>6, <3>1 DEF FirstPeriod
    <3>4. FirstPeriod(f) + Len(Done(f)) * f = ts
      BY <2>2, <3>2, <3>3
    <3>5. bar'[f] = NewBar(trades[1], f)
      BY <1>4, <2>6, <2>7, <3>1 DEF Fold, NoBar
    <3>6. bar'[f] # NoBar
      <4>1. bar'[f].timestamp = ts
        BY <1>4, <2>6, <3>1, <3>5 DEF NewBar
      <4>. QED  BY <2>6, <4>1 DEF NoBar
    <3>7. BarOf(bar'[f], trades, 1, FirstPeriod(f), f, trades[1].price)
      BY <2>2, <3>3, <3>5, BarOfFirst DEF FirstPeriod
    <3>8. OpenOf(Done(f), Len(Done(f)) + 1) = trades[1].price
      BY <3>2 DEF OpenOf
    <3>9. ChainSound(f)'
      BY <1>2, <2>4, <2>5, <2>7, <3>1, <3>2, <3>3, <3>4, <3>6, <3>7, <3>8 DEF ChainSound
    <3>10. ClockSound(f)'
      BY <1>2, <2>1, <2>3, <2>4, <2>6, <3>4 DEF ClockSound
    <3>. QED  BY <3>9, <3>10
  <2>9. CASE handled # 0
    <3>1. handled > 0
      BY <1>3, <2>9
    <3>2. FirstPeriod(f) + Len(Done(f)) * f = ts
      BY <2>1, <2>3, <2>6, <3>1 DEF ClockSound
    <3>3. PICK open : open = OpenOf(Done(f), Len(Done(f)) + 1)
      OBVIOUS
    <3>4. bar[f] \in Bars /\ BarOf(bar[f], trades, handled, ts, f, open)
      BY <2>1, <2>2, <2>9, <3>2, <3>3 DEF ChainSound
    <3>5. bar[f].timestamp = ts /\ bar[f].open = open
      BY <3>4 DEF BarOf
    <3>6. open \in Nat
      BY <3>4, <3>5, FramesAssumption DEF Bars
    <3>7. bar'[f] = Update(bar[f], trades[n].price)
      BY <1>4, <2>6, <2>7, <3>5 DEF Fold
    <3>8. BarOf(bar'[f], trades, n, ts, f, open)
      <4>1. \A i \in 1 .. handled + 1 : trades[i].price \in Nat
        BY <1>1, <1>3, <2>2
      <4>2. BarTimestamp(trades[handled + 1].timestamp, f) = ts
        BY <1>1, <1>4, <2>6
      <4>3. BarOf(Update(bar[f], trades[handled + 1].price), trades, handled + 1, ts, f, open)
        BY <1>3, <3>4, <3>6, <4>1, <4>2, BarOfUpdate
      <4>. QED  BY <1>1, <3>7, <4>3
    <3>9. bar'[f] # NoBar
      <4>1. bar'[f].timestamp = ts
        BY <3>8 DEF BarOf
      <4>. QED  BY <2>6, <4>1 DEF NoBar
    <3>10. ASSUME NEW i \in 1 .. Len(Done(f))
           PROVE  BarOf(Done(f)[i], trades, n, FirstPeriod(f) + (i - 1) * f, f,
                        OpenOf(Done(f), i))
      <4>1. BarOf(Done(f)[i], trades, handled, FirstPeriod(f) + (i - 1) * f, f,
                  OpenOf(Done(f), i))
        BY <2>1, <2>9 DEF ChainSound
      <4>2. FirstPeriod(f) + (i - 1) * f # ts
        <5>1. PICK x \in Nat : x = FirstPeriod(f)
          BY <1>3, FirstPeriodType
        <5>2. PICK j, k : j = (i - 1) * f /\ k = Len(Done(f)) * f
          OBVIOUS
        <5>3. j < k /\ j \in Nat /\ k \in Nat
          BY <2>2, <5>2, EarlierMultiple
        <5>4. x + k = ts
          BY <3>2, <5>1, <5>2
        <5>5. x + j # ts
          BY <5>3, <5>4
        <5>. QED  BY <5>1, <5>2, <5>5
      <4>. QED  BY <1>1, <1>3, <1>4, <2>6, <4>1, <4>2, BarOfOther
    <3>11. ChainSound(f)'
      BY <1>2, <2>4, <2>5, <2>7, <3>2, <3>3, <3>8, <3>9, <3>10 DEF ChainSound
    <3>12. ClockSound(f)'
      BY <1>2, <2>1, <2>3, <2>4, <2>6, <3>2 DEF ClockSound
    <3>. QED  BY <3>11, <3>12
  <2>. QED  BY <2>8, <2>9
<1>. QED  BY <1>2, <1>5, <1>6 DEF PunctualSound

\* The sleeper stores the bar of the period that has ended and lets the next
\* one begin before a trade of it is handled.
LEMMA SnapshotPunctual ==
    ASSUME OHLCSound, PunctualSound, punctual, NEW g \in Frames, TakeSnapshot(g)
    PROVE  PunctualSound'
<1>1. /\ Due(g) /\ bar[g] # NoBar
      /\ snap' = [snap EXCEPT ![g] = bar[g]]
      /\ bar' = [bar EXCEPT ![g] = Advance(bar[g], g)]
      /\ wake' = [wake EXCEPT ![g] = Busy]
      /\ UNCHANGED <<punctual, now, trades, handled, rows>>
  BY DEF TakeSnapshot
<1>2. ASSUME NEW f \in Frames, f # g PROVE ChainSound(f)' /\ ClockSound(f)'
  <2>1. /\ bar'[f] = bar[f] /\ snap'[f] = snap[f] /\ rows'[f] = rows[f] /\ wake'[f] = wake[f]
        /\ UNCHANGED <<now, trades, handled>>
    BY <1>1, <1>2 DEF OHLCSound, OhlcTypeOK
  <2>. QED  BY <1>2, <2>1, FrameKept DEF PunctualSound
<1>3. ChainSound(g)' /\ ClockSound(g)'
  <2>1. ChainSound(g) /\ ClockSound(g)
    BY DEF PunctualSound
  <2>2. /\ g \in Nat \ {0} /\ wake[g] \in Nat \cup {Busy} /\ bar[g] \in Bars /\ now \in Nat
        /\ Done(g) \in Seq(Bars) /\ Len(Done(g)) \in Nat
        /\ handled \in Nat /\ handled <= Len(trades) /\ Len(trades) \in Nat
        /\ \A i \in 1 .. Len(trades) :
              trades[i].price \in Nat /\ trades[i].timestamp \in Nat
    BY <1>1, PunctualTypes
  <2>3. /\ BarTimestamp(now, g) \in Nat
        /\ NextBoundary(now, g) = BarTimestamp(now, g) + g
        /\ now < NextBoundary(now, g)
    BY <2>2, NextSecond
  <2>4. wake[g] = now /\ BarTimestamp(now, g) = now /\ snap[g] = NoBar
    BY <1>1, <2>1, <2>2, <2>3 DEF ClockSound, Due, Busy
  <2>5. handled > 0 /\ handled # 0
    BY <1>1, <2>1, <2>2 DEF ChainSound
  <2>6. PICK L, q, b : L = Len(Done(g)) /\ q = Done(g) /\ b = bar[g]
    OBVIOUS
  <2>7. PICK open : open = OpenOf(q, L + 1)
    OBVIOUS
  <2>8. FirstPeriod(g) + L * g = now - g
    BY <2>1, <2>4, <2>5, <2>6 DEF ClockSound
  <2>9. BarOf(b, trades, handled, now - g, g, open)
    BY <2>1, <2>5, <2>6, <2>7, <2>8 DEF ChainSound
  <2>10. b.timestamp = now - g /\ b.timestamp + g = now /\ b \in Bars
    BY <2>2, <2>6, <2>9 DEF BarOf
  <2>11. InPeriod(trades, handled, now, g) = {}
    <3> SUFFICES ASSUME NEW i \in 1 .. handled PROVE BarTimestamp(trades[i].timestamp, g) # now
      BY DEF InPeriod
    <3>1. trades[i].timestamp < now /\ trades[i].timestamp \in Nat
      BY <2>1, <2>2, <2>4 DEF ClockSound
    <3>2. PICK x \in Nat : x = trades[i].timestamp
      BY <3>1
    <3>3. BarTimestamp(x, g) \in Nat /\ BarTimestamp(x, g) <= x
      BY <2>2, NextSecond
    <3>. QED  BY <2>2, <3>1, <3>2, <3>3
  <2>12. BarOf(Advance(b, g), trades, handled, now, g, b.close)
    BY <2>2, <2>10, <2>11, BarOfAdvance
  <2>13. snap'[g] = b /\ bar'[g] = Advance(b, g) /\ wake'[g] = Busy
    BY <1>1, <2>6 DEF OHLCSound, OhlcTypeOK
  <2>14. b # NoBar /\ bar'[g] # NoBar
    <3>1. bar'[g].timestamp = now
      BY <2>12, <2>13 DEF BarOf
    <3>. QED  BY <1>1, <2>2, <2>6, <3>1 DEF NoBar
  <2>15. Done(g)' = Append(q, b) /\ q \in Seq(Bars) /\ L = Len(q) /\ L \in Nat
    BY <1>1, <2>2, <2>4, <2>6, <2>13, <2>14 DEF Done
  <2>16. /\ Len(Append(q, b)) = L + 1
         /\ Append(q, b)[L + 1] = b
         /\ \A i \in 1 .. L : Append(q, b)[i] = q[i]
    BY <2>10, <2>15
  <2>17. PICK d : d = Append(q, b)
    OBVIOUS
  <2>18. \A i \in 1 .. L + 1 : OpenOf(d, i) = OpenOf(q, i)
    BY <2>15, <2>16, <2>17 DEF OpenOf
  <2>19. OpenOf(d, (L + 1) + 1) = b.close
    BY <2>15, <2>16, <2>17 DEF OpenOf
  <2>20. ASSUME NEW i \in 1 .. L + 1
         PROVE  BarOf(d[i], trades, handled, FirstPeriod(g) + (i - 1) * g, g, OpenOf(d, i))
    <3>1. CASE i = L + 1
      <4>1. (i - 1) * g = L * g
        BY <2>15, <3>1
      <4>. QED  BY <2>7, <2>8, <2>9, <2>15, <2>16, <2>17, <2>18, <3>1, <4>1
    <3>2. CASE i # L + 1
      <4>1. i \in 1 .. L
        BY <2>15, <3>2
      <4>2. BarOf(q[i], trades, handled, FirstPeriod(g) + (i - 1) * g, g, OpenOf(q, i))
        BY <2>1, <2>5, <2>6, <4>1 DEF ChainSound
      <4>. QED  BY <2>16, <2>17, <2>18, <4>1, <4>2
    <3>. QED  BY <3>1, <3>2
  <2>21. FirstPeriod(g) + (L + 1) * g = now
    <3>1. PICK x \in Nat : x = FirstPeriod(g)
      BY <2>2, <2>5, FirstPeriodType
    <3>2. PICK k \in Nat : k = L * g
      BY <2>2, <2>15
    <3>3. (L + 1) * g = k + g
      BY <2>2, <2>15, <3>2
    <3>4. x + k = now - g
      BY <2>8, <3>1, <3>2
    <3>5. x + (k + g) = now
      BY <2>2, <3>4
    <3>. QED  BY <3>1, <3>3, <3>5
  <2>22. FirstPeriod(g)' = FirstPeriod(g) /\ \A r, i : OpenOf(r, i)' = OpenOf(r, i)
    BY <1>1 DEF FirstPeriod, OpenOf
  <2>23. ChainSound(g)'
    BY <1>1, <2>5, <2>12, <2>13, <2>14, <2>15, <2>16, <2>17, <2>19, <2>20, <2>21, <2>22
       DEF ChainSound
  <2>24. ClockSound(g)'
    <3>1. Busy # now
      BY <2>2 DEF Busy
    <3>. QED  BY <1>1, <2>4, <2>13, <2>14, <2>15, <2>16, <2>21, <2>22, <3>1 DEF ClockSound
  <2>. QED  BY <2>23, <2>24
<1>4. \A i \in handled' + 1 .. Len(trades') : trades'[i].timestamp = now'
  BY <1>1 DEF PunctualSound
<1>. QED  BY <1>2, <1>3, <1>4 DEF PunctualSound

\* A sleeper that finds no bar, or has stored it, waits for the next boundary.
LEMMA SleepPunctual ==
    ASSUME OHLCSound, PunctualSound, punctual, NEW g \in Frames,
           NothingToStore(g) \/ InsertBar(g)
    PROVE  PunctualSound'
<1>1. /\ UNCHANGED <<punctual, now, trades, handled, bar>>
      /\ wake' = [wake EXCEPT ![g] = NextBoundary(now, g)]
      /\ \/ Due(g) /\ bar[g] = NoBar /\ UNCHANGED <<snap, rows>>
         \/ /\ snap[g] # NoBar
            /\ snap' = [snap EXCEPT ![g] = NoBar]
            /\ rows' = [rows EXCEPT ![g] = Append(@, snap[g])]
  BY DEF NothingToStore, InsertBar, SleepAgain
<1>2. ASSUME NEW f \in Frames, f # g PROVE ChainSound(f)' /\ ClockSound(f)'
  <2>1. /\ bar'[f] = bar[f] /\ snap'[f] = snap[f] /\ rows'[f] = rows[f] /\ wake'[f] = wake[f]
        /\ UNCHANGED <<now, trades, handled>>
    BY <1>1, <1>2 DEF OHLCSound, OhlcTypeOK
  <2>. QED  BY <1>2, <2>1, FrameKept DEF PunctualSound
<1>3. ChainSound(g)' /\ ClockSound(g)'
  <2>1. ChainSound(g) /\ ClockSound(g)
    BY DEF PunctualSound
  <2>2. /\ g \in Nat \ {0} /\ wake[g] \in Nat \cup {Busy} /\ now \in Nat
        /\ handled \in Nat
    BY PunctualTypes
  <2>3. PICK x \in Nat : x = NextBoundary(now, g) /\ now < x
    <3>1. /\ BarTimestamp(now, g) \in Nat
          /\ NextBoundary(now, g) = BarTimestamp(now, g) + g
          /\ now < NextBoundary(now, g)
      BY <2>2, NextSecond
    <3>. QED  BY <2>2, <3>1
  <2>4. /\ wake'[g] = x /\ x # Busy /\ x # now
        /\ snap'[g] = NoBar
        /\ Done(g)' = Done(g)
    <3>1. wake'[g] = x /\ x # Busy /\ x # now
      BY <1>1, <2>2, <2>3 DEF OHLCSound, OhlcTypeOK, Busy
    <3>2. CASE Due(g) /\ UNCHANGED <<snap, rows>>
      BY <2>1, <3>1, <3>2 DEF Due, ClockSound, Done
    <3>3. CASE /\ snap[g] # NoBar
               /\ snap' = [snap EXCEPT ![g] = NoBar]
               /\ rows' = [rows EXCEPT ![g] = Append(@, snap[g])]
      <4>1. snap'[g] = NoBar /\ rows'[g] = Append(rows[g], snap[g])
        BY <3>3 DEF OHLCSound, OhlcTypeOK
      <4>. QED  BY <3>1, <3>3, <4>1 DEF Done
    <3>. QED  BY <1>1, <3>2, <3>3
  <2>5. FirstPeriod(g)' = FirstPeriod(g) /\ \A r, i : OpenOf(r, i)' = OpenOf(r, i)
    BY <1>1 DEF FirstPeriod, OpenOf
  <2>6. ChainSound(g)'
    BY <1>1, <2>1, <2>4, <2>5 DEF ChainSound
  <2>7. ASSUME handled > 0 PROVE wake[g] # now
    <3>1. bar[g] # NoBar
      BY <2>1, <2>2, <2>7 DEF ChainSound
    <3>2. wake[g] = Busy
      BY <1>1, <2>1, <3>1 DEF ClockSound
    <3>. QED  BY <2>2, <3>2 DEF Busy
  <2>8. ClockSound(g)'
    BY <1>1, <2>1, <2>3, <2>4, <2>5, <2>7 DEF ClockSound
  <2>. QED  BY <2>6, <2>8
<1>4. \A i \in handled' + 1 .. Len(trades') : trades'[i].timestamp = now'
  BY <1>1 DEF PunctualSound
<1>. QED  BY <1>2, <1>3, <1>4 DEF PunctualSound

\* Every step of a builder nobody is late for keeps its exact state.
LEMMA NextPunctual == OHLCSound /\ PunctualSound /\ [OhlcNext]_ohlcVars => PunctualSound'
<1> SUFFICES ASSUME OHLCSound, PunctualSound, [OhlcNext]_ohlcVars PROVE PunctualSound'
  OBVIOUS
<1>1. punctual' = punctual
  BY DEF OhlcNext, ohlcVars, Tick, NewTrade, HandleTradeEvent, Sleeper, TakeSnapshot,
     NothingToStore, InsertBar, InsertFails, SleepAgain, Restart
<1>2. CASE ~punctual
  BY <1>1, <1>2 DEF PunctualSound
<1>3. CASE punctual
  <2>1. CASE Tick
    BY <1>3, <2>1, TickPunctual
  <2>2. CASE \E price \in TradePrices : NewTrade(price)
    BY <1>3, <2>2, NewTradePunctual
  <2>3. CASE HandleTradeEvent
    BY <1>3, <2>3, HandlePunctual
  <2>4. CASE \E f \in Frames : Sleeper(f)
    <3>1. PICK f \in Frames : TakeSnapshot(f) \/ NothingToStore(f) \/ InsertBar(f)
      BY <1>3, <2>4 DEF Sleeper, InsertFails
    <3>. QED  BY <1>3, <3>1, SnapshotPunctual, SleepPunctual
  <2>5. CASE UNCHANGED ohlcVars
    <3>1. UNCHANGED <<now, trades, handled, bar, snap, wake, rows>>
      BY <2>5 DEF ohlcVars
    <3>2. \A f \in Frames : ChainSound(f)' /\ ClockSound(f)'
      BY <1>3, <3>1, FrameKept DEF PunctualSound
    <3>. QED  BY <1>3, <3>1, <3>2 DEF PunctualSound
  <2>. QED  BY <1>3, <2>1, <2>2, <2>3, <2>4, <2>5 DEF OhlcNext, Restart
<1>. QED  BY <1>2, <1>3

\* Nothing of a stored period is left to handle.
LEMMA PunctualSuffices == OHLCSound /\ PunctualSound => RowsMatchTrades
<1> SUFFICES ASSUME OHLCSound, PunctualSound, punctual, NEW f \in Frames, trades # << >>,
                    wake[f] > now
             PROVE  /\ Len(rows[f]) = (BarTimestamp(now, f) - FirstPeriod(f)) \div f
                    /\ \A i \in DOMAIN rows[f] :
                          rows[f][i] = ExpectedBar(FirstPeriod(f) + (i - 1) * f, f,
                                                   IF i = 1 THEN trades[1].price
                                                            ELSE rows[f][i - 1].close)
  BY DEF RowsMatchTrades, FirstPeriod
<1>1. ChainSound(f) /\ ClockSound(f)
  BY DEF PunctualSound
<1>2. /\ f \in Nat \ {0} /\ now \in Nat /\ wake[f] \in Nat \cup {Busy}
      /\ Len(trades) \in Nat /\ handled \in 0 .. Len(trades) /\ trades \in Seq(Trades)
      /\ \A i \in 1 .. Len(trades) : trades[i].price \in Nat /\ trades[i].timestamp \in Nat
      /\ rows[f] \in Seq(Bars)
  BY PunctualTypes
<1>3. 0 < Len(trades) /\ wake[f] # Busy /\ wake[f] # now
  BY <1>2 DEF Busy
<1>4. Done(f) = rows[f]
  BY <1>1, <1>3 DEF ClockSound, Done
<1>5. PICK x \in Nat : x = FirstPeriod(f)
  BY <1>3, FirstPeriodType
<1>6. CASE handled = 0
  <2>1. rows[f] = << >> /\ trades[1].timestamp = now
    BY <1>1, <1>2, <1>3, <1>4, <1>6 DEF ChainSound, PunctualSound
  <2>2. BarTimestamp(now, f) - FirstPeriod(f) = 0 /\ 0 * f = 0
    BY <1>2, <1>5, <2>1 DEF FirstPeriod
  <2>3. 0 \div f = 0
    BY <1>2, <2>2, WholeFrames
  <2>. QED  BY <2>1, <2>2, <2>3
<1>7. CASE handled # 0
  <2>1. handled > 0
    BY <1>2, <1>7
  <2>2. PICK L \in Nat : L = Len(rows[f])
    BY <1>2
  <2>3. PICK k \in Nat : k = L * f
    BY <1>2
  <2>4. x + k = BarTimestamp(now, f)
    BY <1>1, <1>3, <1>4, <1>5, <2>1, <2>2, <2>3 DEF ClockSound
  <2>5. BarTimestamp(now, f) - x = k
    BY <2>4
  <2>6. (BarTimestamp(now, f) - FirstPeriod(f)) \div f = L
    BY <1>2, <1>5, <2>3, <2>5, WholeFrames
  <2>7. ASSUME NEW i \in 1 .. L
        PROVE  rows[f][i] = ExpectedBar(FirstPeriod(f) + (i - 1) * f, f, OpenOf(rows[f], i))
    <3>1. PICK b, ts, open : /\ b = rows[f][i] /\ ts = FirstPeriod(f) + (i - 1) * f
                             /\ open = OpenOf(rows[f], i)
      OBVIOUS
    <3>2. b \in Bars /\ BarOf(b, trades, handled, ts, f, open)
      <4>1. b \in Bars
        <5>1. rows[f] \in Seq(Bars) /\ i \in 1 .. Len(rows[f])
          BY <1>2, <2>2, <2>7
        <5>2. rows[f][i] \in Bars
          BY <5>1
        <5>. QED  BY <3>1, <5>2
      <4>2. BarOf(rows[f][i], trades, handled, FirstPeriod(f) + (i - 1) * f, f,
                  OpenOf(rows[f], i))
        BY <1>1, <1>4, <1>7, <2>2 DEF ChainSound
      <4>. QED  BY <3>1, <4>1, <4>2
    <3>3. open \in Nat
      BY <3>2, FramesAssumption DEF Bars, BarOf
    <3>4. ts < BarTimestamp(now, f)
      <4>1. PICK j : j = (i - 1) * f
        OBVIOUS
      <4>2. j < k /\ j \in Nat
        BY <1>2, <2>3, <4>1, EarlierMultiple
      <4>3. x + j < x + k
        BY <4>2
      <4>. QED  BY <1>5, <2>4, <3>1, <4>1, <4>3
    <3>5. \A n \in handled + 1 .. Len(trades) :
              BarTimestamp(trades[n].timestamp, f) = BarTimestamp(now, f)
      BY DEF PunctualSound
    <3>6. ts # BarTimestamp(now, f)
      <4>1. PICK y \in Nat : y = BarTimestamp(now, f)
        BY <1>2, NextSecond
      <4>. QED  BY <3>4, <4>1
    <3>7. InPeriod(trades, Len(trades), ts, f) = InPeriod(trades, handled, ts, f)
      BY <1>2, <3>5, <3>6 DEF InPeriod
    <3>8. BarOf(b, trades, Len(trades), ts, f, open)
      BY <3>2, <3>7 DEF BarOf
    <3>9. b = ExpectedBar(ts, f, open)
      BY <3>2, <3>3, <3>8, BarIsExpected DEF OHLCSound
    <3>. QED  BY <3>1, <3>9
  <2>8. DOMAIN rows[f] = 1 .. L
    BY <1>2, <2>2
  <2>. QED  BY <2>2, <2>6, <2>7, <2>8 DEF OpenOf
<1>. QED  BY <1>6, <1>7

\* When nobody is late the rows are the bars of the trades: one for every
\* period since the first trade, in order, complete and none twice.
THEOREM RowsAlwaysMatch == OhlcSpec => []RowsMatchTrades
<1>1. OhlcSpec => []OHLCSound
  BY InitOHLCSound, NextOHLCSound, PTL DEF OhlcSpec
<1>2. OhlcSpec => []PunctualSound
  BY <1>1, InitPunctual, NextPunctual, PTL DEF OhlcSpec
<1>. QED  BY <1>1, <1>2, PunctualSuffices, PTL

-----------------------------------------------------------------------------
(***************************************************************************)
(* Orders: the queue.                                                      *)
(***************************************************************************)

WsInv == WsTypeOK /\ EndedIsQueued

\* ConnectionManager.__init__
LEMMA WsInitInv == WsInit => WsInv
  BY DEF WsInit, WsInv, WsTypeOK, EndedIsQueued, States

\* A socket that becomes the connection is open.
LEMMA WsConnectInv ==
    ASSUME WsInv, NEW s \in Sockets, WsConnect(s) \/ ConnectAgain(s) \/ OldSocketClosed(s)
    PROVE  WsInv'
<1>1. WsTypeOK /\ EndedIsQueued
  BY DEF WsInv
<1>2. CASE WsConnect(s)
  BY <1>1, <1>2 DEF WsInv, WsTypeOK, EndedIsQueued, WsConnect, Install, States
<1>3. CASE OldSocketClosed(s)
  BY <1>1, <1>3 DEF WsInv, WsTypeOK, EndedIsQueued, OldSocketClosed, Install, States
<1>4. CASE ConnectAgain(s)
  <2>1. /\ conn \in Sockets /\ ws[s] = "new"
        /\ ws' = [ws EXCEPT ![s] = "closing",
                            ![conn] = IF @ = "open" THEN "gone" ELSE @]
        /\ UNCHANGED <<orderly, conn, subs, active, closed, sending>>
    BY <1>1, <1>4 DEF ConnectAgain, WsTypeOK
  <2>2. ws' \in [Sockets -> States]
    BY <1>1, <2>1 DEF WsTypeOK, States
  <2>3. ws'[conn] = "ended" => ws[conn] = "ended"
    BY <1>1, <2>1 DEF WsTypeOK, States
  <2>4. QED
    BY <1>1, <2>1, <2>2, <2>3 DEF WsInv, WsTypeOK, EndedIsQueued
<1>5. QED
  BY <1>2, <1>3, <1>4

\* Subscriptions and the end of a coroutine.
LEMMA WsServeInv ==
    ASSUME WsInv, NEW s \in Sockets,
           \/ \E type \in EventTypes : Subscribe(s, type) \/ Unsubscribe(s, type)
           \/ ClientLeaves(s) \/ Finish(s) \/ FinishRaises(s)
    PROVE  WsInv'
<1>1. WsTypeOK /\ EndedIsQueued
  BY DEF WsInv
<1>2. ASSUME NEW type \in EventTypes, Subscribe(s, type) \/ Unsubscribe(s, type)
      PROVE  WsInv'
  BY <1>1, <1>2 DEF WsInv, WsTypeOK, EndedIsQueued, Subscribe, Unsubscribe
<1>3. CASE ClientLeaves(s)
  BY <1>1, <1>3 DEF WsInv, WsTypeOK, EndedIsQueued, ClientLeaves, States
<1>4. CASE Finish(s)
  <2>1. closed' \in Nat /\ closed' > 0
    BY <1>1, <1>4 DEF WsTypeOK, Finish
  <2>2. WsTypeOK'
    BY <1>1, <1>4, <2>1 DEF WsTypeOK, Finish, States
  <2>3. QED
    BY <2>1, <2>2 DEF WsInv, EndedIsQueued
<1>5. CASE FinishRaises(s)
  BY <1>1, <1>5 DEF WsInv, WsTypeOK, EndedIsQueued, FinishRaises, States
<1>6. QED
  BY <1>2, <1>3, <1>4, <1>5

\* The listener only adds to the queue, and the worker takes the connection away.
LEMMA WsListenInv == ASSUME WsInv, Listener \/ Cleanup PROVE WsInv'
<1>1. WsTypeOK /\ EndedIsQueued
  BY DEF WsInv
<1>2. CASE Cleanup
  BY <1>1, <1>2 DEF WsInv, WsTypeOK, EndedIsQueued, Cleanup
<1>3. ASSUME NEW type \in EventTypes, BeginSend(type)
      PROVE  WsInv'
  BY <1>1, <1>3 DEF WsInv, WsTypeOK, EndedIsQueued, BeginSend
<1>4. CASE SendOk \/ WsSendFails
  BY <1>1, <1>4 DEF WsInv, WsTypeOK, EndedIsQueued, SendOk, WsSendFails
<1>5. QED
  BY <1>2, <1>3, <1>4 DEF Listener

\* Every step keeps the invariant.
LEMMA WsNextInv == WsInv /\ [WsNext]_wsVars => WsInv'
<1> SUFFICES ASSUME WsInv, [WsNext]_wsVars PROVE WsInv'
  OBVIOUS
<1>1. ASSUME NEW s \in Sockets, Coroutine(s)
      PROVE  WsInv'
  BY <1>1, WsConnectInv, WsServeInv DEF Coroutine
<1>2. CASE UNCHANGED wsVars
  BY <1>2 DEF wsVars, WsInv, WsTypeOK, EndedIsQueued
<1>3. QED
  BY <1>1, <1>2, WsListenInv DEF WsNext

\* The registry of connections, the subscriptions and the queue keep their types.
THEOREM WsTypes == WsSpec => []WsTypeOK
<1>1. WsInv => WsTypeOK
  BY DEF WsInv
<1>2. QED
  BY <1>1, WsInitInv, WsNextInv, PTL DEF WsSpec

\* _cleanup_closed_connections: a connection that is kept although its coroutine
\* has ended is in the queue of the worker.
THEOREM WsEndedIsQueued == WsSpec => []EndedIsQueued
<1>1. WsInv => EndedIsQueued
  BY DEF WsInv
<1>2. QED
  BY <1>1, WsInitInv, WsNextInv, PTL DEF WsSpec

-----------------------------------------------------------------------------
(***************************************************************************)
(* Orderly behaviours.  OpenIsServed is not inductive: the finally block   *)
(* of an old socket acts on the connection the user has by then, and so    *)
(* does the cleanup worker.  What keeps both away from an open socket is   *)
(* that a socket in use is the only one and that nothing is queued.        *)
(***************************************************************************)

\* In an orderly behaviour a socket in use is the connection, has its own
\* subscriptions and an empty queue; a new one has no subscriptions yet.
OrderlySound ==
    orderly =>
      /\ \A s \in Sockets : ws[s] = "new" => subs[s] = {} /\ active[s] = {}
      /\ conn # NoSocket => ws[conn] # "new"
      /\ \A s \in Sockets : ws[s] # "closing"
      /\ \A s \in Sockets : ws[s] \in {"open", "gone"} =>
             conn = s /\ closed = 0 /\ subs[s] = active[s]

\* Nothing is open when the process starts.
LEMMA OrderlyInit == WsInit => OrderlySound
  BY DEF WsInit, OrderlySound

\* connect: the user has no connection, nobody is in use and nothing is queued.
LEMMA OrderlyConnect ==
    ASSUME WsTypeOK, OrderlySound, NEW s \in Sockets,
           WsConnect(s) \/ ConnectAgain(s) \/ OldSocketClosed(s)
    PROVE  OrderlySound'
<1> SUFFICES ASSUME orderly PROVE OrderlySound'
  BY DEF OrderlySound, WsConnect, ConnectAgain, OldSocketClosed, Install
<1>1. CASE WsConnect(s)
  <2>1. /\ \A t \in Sockets : ws[t] \in {"new", "ended"}
        /\ closed = 0 /\ ws[s] = "new" /\ subs[s] = {} /\ active[s] = {}
    BY <1>1 DEF WsConnect, MayConnect, OrderlySound
  <2>2. /\ ws' = [ws EXCEPT ![s] = "open"] /\ conn' = s
        /\ UNCHANGED <<orderly, subs, active, closed>>
    BY <1>1 DEF WsConnect, Install
  <2>3. \A t \in Sockets : ws'[t] = IF t = s THEN "open" ELSE ws[t]
    BY <2>2 DEF WsTypeOK
  <2>4. QED
    BY <2>1, <2>2, <2>3 DEF OrderlySound
<1>2. ~ConnectAgain(s) /\ ~OldSocketClosed(s)
  BY DEF ConnectAgain, OldSocketClosed, MayConnect, OrderlySound
<1>3. QED
  BY <1>1, <1>2

\* orders_websocket: every call of the coroutine finds its own connection.
LEMMA OrderlyServe ==
    ASSUME WsTypeOK, OrderlySound, NEW s \in Sockets,
           \/ \E type \in EventTypes : Subscribe(s, type) \/ Unsubscribe(s, type)
           \/ ClientLeaves(s) \/ Finish(s) \/ FinishRaises(s)
    PROVE  OrderlySound'
<1>1. orderly' = orderly
  BY DEF Subscribe, Unsubscribe, ClientLeaves, Finish, FinishRaises
<1> SUFFICES ASSUME orderly PROVE OrderlySound'
  BY <1>1 DEF OrderlySound
<1>2. /\ ws[s] \in {"open", "gone"}
      /\ conn = s /\ closed = 0 /\ subs[s] = active[s] /\ conn # NoSocket
      /\ \A t \in Sockets \ {s} : ws[t] \notin {"open", "gone", "closing"}
  BY SocketsAssumption
  DEF OrderlySound, Subscribe, Unsubscribe, ClientLeaves, Finish, FinishRaises
<1>3. ASSUME NEW type \in EventTypes, Subscribe(s, type) \/ Unsubscribe(s, type)
      PROVE  OrderlySound'
  <2>1. UNCHANGED <<orderly, ws, conn, closed>>
    BY <1>3 DEF Subscribe, Unsubscribe
  <2>2. \A t \in Sockets \ {s} : subs'[t] = subs[t] /\ active'[t] = active[t]
    BY <1>2, <1>3 DEF Subscribe, Unsubscribe, WsTypeOK
  <2>3. subs'[s] = active'[s]
    <3>1. CASE Subscribe(s, type)
      BY <1>2, <3>1 DEF Subscribe, WsTypeOK
    <3>2. CASE Unsubscribe(s, type)
      BY <1>2, <3>2 DEF Unsubscribe, WsTypeOK
    <3>3. QED
      BY <1>3, <3>1, <3>2
  <2>4. QED
    BY <1>2, <2>1, <2>2, <2>3 DEF OrderlySound
<1>4. CASE ClientLeaves(s)
  BY <1>2, <1>4 DEF OrderlySound, ClientLeaves, WsTypeOK
<1>5. CASE Finish(s)
  BY <1>2, <1>5 DEF OrderlySound, Finish, WsTypeOK
<1>6. ~FinishRaises(s)
  BY <1>2 DEF FinishRaises
<1>7. QED
  BY <1>3, <1>4, <1>5, <1>6

\* The listener queues only a connection that has ended, and the worker runs
\* only when something is queued: neither meets a socket in use.
LEMMA OrderlyListen ==
    ASSUME WsTypeOK, OrderlySound, Listener \/ Cleanup
    PROVE  OrderlySound'
<1>1. orderly' = orderly /\ UNCHANGED <<ws, subs, active>>
  BY DEF Listener, BeginSend, SendOk, WsSendFails, Cleanup
<1> SUFFICES ASSUME orderly PROVE OrderlySound'
  BY <1>1 DEF OrderlySound
<1>2. ASSUME NEW type \in EventTypes, BeginSend(type)
      PROVE  OrderlySound'
  BY <1>1, <1>2 DEF OrderlySound, BeginSend
<1>3. CASE SendOk \/ WsSendFails
  BY <1>1, <1>3 DEF OrderlySound, SendOk, WsSendFails
<1>4. CASE Cleanup
  BY <1>1, <1>4, SocketsAssumption DEF OrderlySound, Cleanup
<1>5. QED
  BY <1>2, <1>3, <1>4 DEF Listener

\* orders_websocket and its ConnectionManager: when the sockets of a user do
\* not overlap and no send fails, an open socket is the connection and receives
\* exactly what its client subscribed to, for any number of sockets in turn.
THEOREM WsOpenIsServed == WsSpec => []OpenIsServed
<1>1. WsTypeOK /\ OrderlySound /\ [WsNext]_wsVars => OrderlySound'
  <2> SUFFICES ASSUME WsTypeOK, OrderlySound, [WsNext]_wsVars PROVE OrderlySound'
    OBVIOUS
  <2>1. ASSUME NEW s \in Sockets, Coroutine(s)
        PROVE  OrderlySound'
    BY <2>1, OrderlyConnect, OrderlyServe DEF Coroutine
  <2>2. CASE UNCHANGED wsVars
    BY <2>2 DEF wsVars, OrderlySound
  <2>3. QED
    BY <2>1, <2>2, OrderlyListen DEF WsNext
<1>2. OrderlySound => OpenIsServed
  BY DEF OrderlySound, OpenIsServed
<1>3. QED
  BY <1>1, <1>2, OrderlyInit, WsTypes, PTL DEF WsSpec

-----------------------------------------------------------------------------
(***************************************************************************)
(* Market data.                                                            *)
(***************************************************************************)

\* A socket that has not connected has no subscription.
NewWantsNothing == \A s \in Clients : socket[s] = "new" => wants[s] = {}

MktInv == MktTypeOK /\ ConnsMatchSubscriptions /\ NewWantsNothing

\* ConnectionManager.__init__
LEMMA MktInitInv == MktInit => MktInv
  BY DEF MktInit, MktInv, MktTypeOK, ConnsMatchSubscriptions, NewWantsNothing

\* connect lists a socket without a subscription.
LEMMA MktConnectInv ==
    ASSUME MktInv, NEW s \in Clients, MktConnect(s)
    PROVE  MktInv'
<1>1. MktTypeOK'
  BY DEF MktInv, MktTypeOK, MktConnect
<1>2. ConnsMatchSubscriptions'
  BY DEF MktInv, MktTypeOK, MktConnect, ConnsMatchSubscriptions, NewWantsNothing
<1>3. NewWantsNothing'
  BY DEF MktInv, MktTypeOK, MktConnect, NewWantsNothing
<1>4. QED
  BY <1>1, <1>2, <1>3 DEF MktInv

\* subscribe replaces a socket's feeds in both directions; when it raises, only
\* that socket is not as it wants.
LEMMA MktSubscribeInv ==
    ASSUME MktInv, NEW s \in Clients, NEW feeds \in SUBSET Feeds,
           MktSubscribe(s, feeds) \/ MktSubscribeRaises(s, feeds)
    PROVE  MktInv'
<1>1. /\ socket[s] = "open"
      /\ conns' = [f \in Feeds |-> IF f \in feeds THEN conns[f] \cup {s} ELSE conns[f] \ {s}]
      /\ \/ /\ listed' = listed \cup {s}
            /\ wants' = [wants EXCEPT ![s] = feeds]
            /\ torn' = torn \ {s}
         \/ /\ torn' = torn \cup {s}
            /\ UNCHANGED <<listed, wants>>
      /\ UNCHANGED <<started, socket, closedConns, receivers>>
  BY DEF MktSubscribe, MktSubscribeRaises, UnsubscribeAll
<1>2. MktTypeOK'
  BY <1>1 DEF MktInv, MktTypeOK
<1>3. ConnsMatchSubscriptions'
  <2> SUFFICES ASSUME NEW f \in Feeds, NEW t \in Clients \ torn'
               PROVE  t \in conns'[f] <=> t \in listed' /\ f \in wants'[t]
    BY DEF ConnsMatchSubscriptions
  <2>1. conns'[f] = IF f \in feeds THEN conns[f] \cup {s} ELSE conns[f] \ {s}
    BY <1>1
  <2>2. CASE t = s
    BY <1>1, <2>1, <2>2 DEF MktInv, MktTypeOK
  <2>3. CASE t # s
    <3>1. t \in conns[f] <=> t \in listed /\ f \in wants[t]
      BY <1>1, <2>3 DEF MktInv, ConnsMatchSubscriptions
    <3>2. wants'[t] = wants[t] /\ (t \in listed' <=> t \in listed)
      BY <1>1, <2>3 DEF MktInv, MktTypeOK
    <3>3. QED
      BY <2>1, <2>3, <3>1, <3>2
  <2>4. QED
    BY <2>2, <2>3
<1>4. NewWantsNothing'
  BY <1>1 DEF MktInv, MktTypeOK, NewWantsNothing
<1>5. QED
  BY <1>2, <1>3, <1>4 DEF MktInv

\* The worker removes a socket in both directions.
LEMMA MktCleanupInv == ASSUME MktInv, CleanupWorker PROVE MktInv'
<1> DEFINE h == Head(closedConns)
<1>1. h \in Clients /\ Tail(closedConns) \in Seq(Clients)
  BY DEF MktInv, MktTypeOK, CleanupWorker
<1>2. /\ conns' = [f \in Feeds |-> conns[f] \ {h}]
      /\ closedConns' = Tail(closedConns)
      /\ listed' = listed \ {h}
      /\ wants' = [wants EXCEPT ![h] = {}]
      /\ torn' = torn \ {h}
      /\ UNCHANGED <<started, socket, receivers>>
  BY DEF CleanupWorker, UnsubscribeAll
<1> HIDE DEF h
<1>3. MktTypeOK'
  BY <1>1, <1>2 DEF MktInv, MktTypeOK
<1>4. ConnsMatchSubscriptions'
  BY <1>1, <1>2 DEF MktInv, MktTypeOK, ConnsMatchSubscriptions
<1>5. NewWantsNothing'
  BY <1>1, <1>2 DEF MktInv, MktTypeOK, NewWantsNothing
<1>6. QED
  BY <1>3, <1>4, <1>5 DEF MktInv

\* The other steps leave the subscriptions alone.
LEMMA MktOtherInv ==
    ASSUME MktInv, UNCHANGED <<started, listed, wants, conns, torn>>,
           socket' \in [Clients -> {"new", "open", "gone", "ended"}],
           \A s \in Clients : socket'[s] = "new" => socket[s] = "new",
           closedConns' \in Seq(Clients), receivers' \subseteq Clients
    PROVE  MktInv'
  BY DEF MktInv, MktTypeOK, ConnsMatchSubscriptions, NewWantsNothing

\* Leaving, disconnecting and the broadcast.
LEMMA MktQuietInv ==
    ASSUME MktInv,
           \/ \E s \in Clients : MktClientLeaves(s) \/ Disconnect(s) \/ MktSendOk(s) \/ MktSendFails(s)
           \/ \E f \in Feeds : Broadcast(f)
    PROVE  MktInv'
<1>1. MktTypeOK
  BY DEF MktInv
<1>2. ASSUME NEW s \in Clients, MktClientLeaves(s) \/ Disconnect(s)
      PROVE  MktInv'
  <2>1. socket' \in [Clients -> {"new", "open", "gone", "ended"}]
        /\ \A t \in Clients : socket'[t] = "new" => socket[t] = "new"
    BY <1>1, <1>2 DEF MktTypeOK, MktClientLeaves, Disconnect
  <2>2. closedConns' \in Seq(Clients)
    BY <1>1, <1>2 DEF MktTypeOK, MktClientLeaves, Disconnect, Enqueue
  <2>3. QED
    BY <1>1, <1>2, <2>1, <2>2, MktOtherInv DEF MktTypeOK, MktClientLeaves, Disconnect
<1>3. ASSUME NEW s \in Clients, MktSendOk(s) \/ MktSendFails(s)
      PROVE  MktInv'
  <2>1. closedConns' \in Seq(Clients) /\ receivers' \subseteq Clients
    BY <1>1, <1>3 DEF MktTypeOK, MktSendOk, MktSendFails, Enqueue
  <2>2. QED
    BY <1>1, <1>3, <2>1, MktOtherInv DEF MktTypeOK, MktSendOk, MktSendFails
<1>4. ASSUME NEW f \in Feeds, Broadcast(f)
      PROVE  MktInv'
  <2>1. receivers' \subseteq Clients
    BY <1>1, <1>4 DEF MktTypeOK, Broadcast
  <2>2. QED
    BY <1>1, <1>4, <2>1, MktOtherInv DEF MktTypeOK, Broadcast
<1>5. QED
  BY <1>2, <1>3, <1>4

\* Every step keeps the invariant.
LEMMA MktNextInv == MktInv /\ [MktNext]_mktVars => MktInv'
<1> SUFFICES ASSUME MktInv, [MktNext]_mktVars PROVE MktInv'
  OBVIOUS
<1>1. ASSUME NEW s \in Clients, Client(s)
      PROVE  MktInv'
  BY <1>1, MktConnectInv, MktSubscribeInv, MktQuietInv DEF Client
<1>2. CASE \E f \in Feeds : Broadcast(f)
  BY <1>2, MktQuietInv
<1>3. CASE UNCHANGED mktVars
  BY <1>3 DEF mktVars, MktInv, MktTypeOK, ConnsMatchSubscriptions, NewWantsNothing
<1>4. QED
  BY <1>1, <1>2, <1>3, MktCleanupInv DEF MktNext

\* The sockets, the sets of subscribers and the queue keep their types.
THEOREM MktTypes == MktSpec => []MktTypeOK
<1>1. MktInv => MktTypeOK
  BY DEF MktInv
<1>2. QED
  BY <1>1, MktInitInv, MktNextInv, PTL DEF MktSpec

\* subscribe, connect and _cleanup_worker: a socket whose last subscription did
\* not raise is among the sockets of exactly the feeds it subscribed to.
THEOREM MktConnsMatch == MktSpec => []ConnsMatchSubscriptions
<1>1. MktInv => ConnsMatchSubscriptions
  BY DEF MktInv
<1>2. QED
  BY <1>1, MktInitInv, MktNextInv, PTL DEF MktSpec

-----------------------------------------------------------------------------
(***************************************************************************)
(* The heartbeat server.                                                   *)
(***************************************************************************)


\* Made, as an equivalence: what the provers need of its definition.
LEMMA MadeElements ==
    ASSUME NEW s, NEW c
    PROVE  c \in Made(s) <=> c \in DOMAIN symbolOf /\ symbolOf[c] = s
BY DEF Made

\* The connections made are the first ones.
LEMMA MadeAreConns ==
    ASSUME TypeOK
    PROVE  /\ DOMAIN symbolOf = 1 .. Len(symbolOf)
           /\ DOMAIN symbolOf \subseteq Conns
           /\ \A c \in DOMAIN symbolOf : symbolOf[c] \in Symbols
BY HeartbeatAssumption DEF TypeOK, Conns

\* HeartbeatServer.__init__ and the database before any client.
LEMMA InitIInv == Init => IInv
BY HeartbeatAssumption
   DEF Init, IInv, TypeOK, Unmade, RegistryServed, Conns, NoConn,
       ClientStates, ThreadStates, HandlerStates, Made

\* A new connection disturbs no entry of the registry.
LEMMA ConnectIInv ==
    ASSUME IInv, NEW s \in Symbols, Connect(s)
    PROVE  IInv'
<1> DEFINE c == Len(symbolOf) + 1
<1>1. TypeOK /\ Unmade /\ RegistryServed
  BY DEF IInv
<1>2. /\ c \in Conns
      /\ symbolOf' = Append(symbolOf, s)
      /\ client' = [client EXCEPT ![c] = "connecting"]
      /\ handler' = [handler EXCEPT ![c] = "accepted"]
      /\ UNCHANGED <<thread, inbox, symbols, status>>
  BY DEF Connect
<1>3. /\ symbolOf' \in Seq(Symbols)
      /\ Len(symbolOf') = c
      /\ DOMAIN symbolOf' = 1 .. c
      /\ \A d \in DOMAIN symbolOf : symbolOf'[d] = symbolOf[d]
      /\ symbolOf'[c] = s
  BY <1>1, <1>2 DEF TypeOK
<1>4. DOMAIN symbolOf = 1 .. Len(symbolOf) /\ DOMAIN symbolOf \subseteq DOMAIN symbolOf'
  BY <1>1, <1>3, MadeAreConns DEF TypeOK
<1>5. c \notin DOMAIN symbolOf
  BY <1>1, <1>4 DEF TypeOK
<1>6. TypeOK'
  <2>1. Len(symbolOf') <= MaxConns
    BY <1>2, <1>3, HeartbeatAssumption DEF Conns
  <2> QED
    BY <1>1, <1>2, <1>3, <2>1 DEF TypeOK, ClientStates, HandlerStates
<1>7. Unmade'
  BY <1>1, <1>2, <1>3, <1>4 DEF Unmade, TypeOK
<1>8. RegistryServed'
  <2> SUFFICES ASSUME NEW t \in Symbols, symbols[t] # NoConn
               PROVE  /\ symbols[t] \in Made(t)'
                      /\ handler'[symbols[t]] \in {"registered", "serving", "stranded"}
    BY <1>2 DEF RegistryServed
  <2>1. symbols[t] \in Made(t) /\ handler[symbols[t]] \in {"registered", "serving", "stranded"}
    BY <1>1 DEF RegistryServed
  <2>2. symbols[t] \in DOMAIN symbolOf /\ symbolOf[symbols[t]] = t
    BY <2>1, MadeElements
  <2>3. symbols[t] \in DOMAIN symbolOf' /\ symbolOf'[symbols[t]] = t
    BY <2>2, <1>3, <1>4
  <2>4. symbols[t] \in Made(t)'
    BY <2>3 DEF Made
  <2>5. handler'[symbols[t]] = handler[symbols[t]]
    BY <1>1, <1>2, <1>5, <2>2, MadeAreConns DEF TypeOK
  <2> QED
    BY <2>1, <2>4, <2>5
<1> QED
  BY <1>6, <1>7, <1>8 DEF IInv

\* Whatever a client does, the registry and the coroutines are not touched.
LEMMA ClientIInv ==
    ASSUME IInv, NEW c \in Conns, ClientStep(c)
    PROVE  IInv'
<1>1. TypeOK /\ Unmade /\ RegistryServed
  BY DEF IInv
<1>2. UNCHANGED <<symbolOf, handler, symbols>>
  BY DEF ClientStep, SendRegister, ShadowAlive, SendHeartbeat, SendFails,
         SendTimesOut, OnClose, Close, CloseSocket, Crash, Vanish
<1>3. client[c] # "none" \/ thread[c] # "none"
  BY DEF ClientStep, SendRegister, ShadowAlive, SendHeartbeat, SendFails,
         SendTimesOut, OnClose, Close, CloseSocket, Crash, Vanish, Running
<1>4. c \in DOMAIN symbolOf /\ symbolOf[c] \in Symbols
  BY <1>1, <1>3, MadeAreConns DEF Unmade
<1>5. /\ client' \in [Conns -> ClientStates]
      /\ thread' \in [Conns -> ThreadStates]
      /\ inbox' \in [Conns -> BOOLEAN]
      /\ status' \in [Symbols -> {"ALIVE", "DEAD"}]
      /\ \A d \in Conns \ {c} : client'[d] = client[d] /\ thread'[d] = thread[d]
  <2>1. CASE SendRegister(c)
    BY <1>1, <2>1 DEF SendRegister, TypeOK, ClientStates, ThreadStates
  <2>2. CASE ShadowAlive(c)
    BY <1>1, <1>4, <2>2 DEF ShadowAlive, TypeOK, ClientStates
  <2>3. CASE SendHeartbeat(c)
    BY <1>1, <2>3 DEF SendHeartbeat, TypeOK, ThreadStates
  <2>4. CASE SendFails(c) \/ SendTimesOut(c)
    BY <1>1, <2>4 DEF SendFails, SendTimesOut, TypeOK, ThreadStates
  <2>5. CASE OnClose(c)
    BY <1>1, <1>4, <2>5 DEF OnClose, TypeOK, ThreadStates
  <2>6. CASE Close(c)
    BY <1>1, <2>6 DEF Close, TypeOK, ClientStates
  <2>7. CASE CloseSocket(c) \/ Crash(c) \/ Vanish(c)
    BY <1>1, <2>7 DEF CloseSocket, Crash, Vanish, TypeOK, ClientStates, ThreadStates
  <2> QED
    BY <2>1, <2>2, <2>3, <2>4, <2>5, <2>6, <2>7 DEF ClientStep
<1>6. TypeOK'
  BY <1>1, <1>2, <1>5 DEF TypeOK
<1>7. Unmade'
  BY <1>1, <1>2, <1>4, <1>5 DEF Unmade
<1>8. RegistryServed'
  BY <1>1, <1>2 DEF RegistryServed, Made
<1> QED
  BY <1>6, <1>7, <1>8 DEF IInv

\* A step of a coroutine keeps the types and touches only its connection.
LEMMA HandlerTypes ==
    ASSUME TypeOK, Unmade, NEW c \in Conns, HandlerStep(c)
    PROVE  /\ TypeOK'
           /\ Unmade'
           /\ c \in DOMAIN symbolOf
           /\ UNCHANGED <<symbolOf, client, thread>>
           /\ \A d \in Conns \ {c} : handler'[d] = handler[d]
<1>1. handler[c] # "none"
  BY DEF HandlerStep, Register, RegisterFails, WriteAlive, WriteAliveFails, ReadHeartbeat,
         Timeout, Eof, WriteDead, WriteDeadFails
<1>2. c \in DOMAIN symbolOf /\ symbolOf[c] \in Symbols
  BY <1>1, MadeAreConns DEF Unmade
<1>3. UNCHANGED <<symbolOf, client, thread>>
  BY DEF HandlerStep, Register, RegisterFails, WriteAlive, WriteAliveFails, ReadHeartbeat,
         Timeout, Eof, WriteDead, WriteDeadFails
<1>4. /\ handler' \in [Conns -> HandlerStates]
      /\ inbox' \in [Conns -> BOOLEAN]
      /\ symbols' \in [Symbols -> Conns \cup {NoConn}]
      /\ status' \in [Symbols -> {"ALIVE", "DEAD"}]
      /\ \A d \in Conns \ {c} : handler'[d] = handler[d]
  <2>1. CASE Register(c)
    BY <1>2, <2>1 DEF Register, TypeOK, HandlerStates
  <2>2. CASE RegisterFails(c)
    BY <2>2 DEF RegisterFails, TypeOK, HandlerStates
  <2>3. CASE WriteAlive(c)
    BY <1>2, <2>3 DEF WriteAlive, TypeOK, HandlerStates
  <2>7. CASE WriteAliveFails(c) \/ WriteDeadFails(c)
    BY <2>7 DEF WriteAliveFails, WriteDeadFails, TypeOK, HandlerStates
  <2>4. CASE ReadHeartbeat(c)
    BY <2>4 DEF ReadHeartbeat, TypeOK
  <2>5. CASE Timeout(c) \/ Eof(c)
    BY <1>2, <2>5 DEF Timeout, Eof, TypeOK, HandlerStates
  <2>6. CASE WriteDead(c)
    BY <1>2, <2>6 DEF WriteDead, TypeOK, HandlerStates
  <2> QED
    BY <2>1, <2>2, <2>3, <2>4, <2>5, <2>6, <2>7 DEF HandlerStep
<1>5. TypeOK'
  BY <1>3, <1>4 DEF TypeOK
<1>6. Unmade'
  BY <1>2, <1>3, <1>4 DEF Unmade
<1> QED
  BY <1>2, <1>3, <1>4, <1>5, <1>6

\* What a coroutine does to the registry: it enters itself as it starts,
\* and removes the entry of its symbol before it stops, unless its write of
\* ALIVE raises.
LEMMA HandlerRegistry ==
    ASSUME TypeOK, RegistryServed, NEW c \in Conns, HandlerStep(c),
           c \in DOMAIN symbolOf, symbolOf[c] \in Symbols
    PROVE  /\ \A s \in Symbols \ {symbolOf[c]} : symbols'[s] = symbols[s]
           /\ \/ symbols'[symbolOf[c]] = NoConn
              \/ symbols'[symbolOf[c]] = c /\ handler'[c] = "registered"
              \/ /\ symbols' = symbols
                 /\ handler[c] = handler'[c] \/ handler'[c] \in {"serving", "stranded"}
              \/ symbols' = symbols /\ handler[c] \in {"accepted", "cleanup"}
<1>1. CASE Register(c)
  BY <1>1 DEF Register, TypeOK
<1>2. CASE RegisterFails(c) \/ WriteDead(c) \/ WriteDeadFails(c)
  BY <1>2 DEF RegisterFails, WriteDead, WriteDeadFails
<1>3. CASE WriteAlive(c) \/ WriteAliveFails(c) \/ ReadHeartbeat(c)
  BY <1>3 DEF WriteAlive, WriteAliveFails, ReadHeartbeat, TypeOK
<1>4. CASE Timeout(c) \/ Eof(c)
  BY <1>4 DEF Timeout, Eof, TypeOK
<1> QED
  BY <1>1, <1>2, <1>3, <1>4 DEF HandlerStep

\* The coroutines of one symbol may come and go in any order: the one that
\* leaves takes the entry of its symbol with it, its own or another's.
LEMMA HandlerIInv ==
    ASSUME IInv, NEW c \in Conns, HandlerStep(c)
    PROVE  IInv'
<1>1. TypeOK /\ Unmade /\ RegistryServed
  BY DEF IInv
<1>2. /\ TypeOK' /\ Unmade'
      /\ c \in DOMAIN symbolOf
      /\ UNCHANGED <<symbolOf, client, thread>>
      /\ \A d \in Conns \ {c} : handler'[d] = handler[d]
  BY <1>1, HandlerTypes
<1>3. symbolOf[c] \in Symbols
  BY <1>1, <1>2, MadeAreConns
<1>4. /\ \A s \in Symbols \ {symbolOf[c]} : symbols'[s] = symbols[s]
      /\ \/ symbols'[symbolOf[c]] = NoConn
         \/ symbols'[symbolOf[c]] = c /\ handler'[c] = "registered"
         \/ /\ symbols' = symbols
            /\ handler[c] = handler'[c] \/ handler'[c] \in {"serving", "stranded"}
         \/ symbols' = symbols /\ handler[c] \in {"accepted", "cleanup"}
  BY <1>1, <1>2, <1>3, HandlerRegistry
<1>5. RegistryServed'
  <2> SUFFICES ASSUME NEW s \in Symbols, symbols'[s] # NoConn
               PROVE  /\ symbols'[s] \in DOMAIN symbolOf
                      /\ symbolOf[symbols'[s]] = s
                      /\ handler'[symbols'[s]] \in {"registered", "serving", "stranded"}
    BY <1>2 DEF RegistryServed, Made
  <2>1. symbols[s] # NoConn =>
            /\ symbols[s] \in DOMAIN symbolOf
            /\ symbolOf[symbols[s]] = s
            /\ handler[symbols[s]] \in {"registered", "serving", "stranded"}
    BY <1>1, MadeElements DEF RegistryServed
  <2>2. symbols[s] # NoConn => symbols[s] \in Conns
    BY <1>1 DEF TypeOK
  <2>3. CASE s # symbolOf[c]
    BY <1>2, <1>4, <2>1, <2>2, <2>3
  <2>4. CASE s = symbolOf[c]
    BY <1>2, <1>4, <2>1, <2>2, <2>4
  <2> QED
    BY <2>3, <2>4
<1> QED
  BY <1>2, <1>5 DEF IInv

\* Every reachable state satisfies the inductive invariant.
THEOREM SpecIInv == Spec => []IInv
<1>1. IInv /\ [Next]_vars => IInv'
  <2> SUFFICES ASSUME IInv, [Next]_vars
               PROVE  IInv'
    OBVIOUS
  <2>1. CASE \E s \in Symbols : Connect(s)
    BY <2>1, ConnectIInv
  <2>2. CASE \E c \in Conns : ClientStep(c)
    BY <2>2, ClientIInv
  <2>3. CASE \E c \in Conns : HandlerStep(c)
    BY <2>3, HandlerIInv
  <2>4. CASE UNCHANGED vars
    BY <2>4 DEF vars, IInv, TypeOK, Unmade, RegistryServed, Made
  <2> QED
    BY <2>1, <2>2, <2>3, <2>4 DEF Next
<1> QED
  BY InitIInv, <1>1, PTL DEF Spec

\* For every number of symbols and connections, the registry of the server
\* holds only connections of the right symbol whose coroutine still runs or was
\* ended by an error in its write of ALIVE.
THEOREM RegistryAlwaysServed == Spec => [](TypeOK /\ RegistryServed)
<1>1. IInv => TypeOK /\ RegistryServed
  BY DEF IInv
<1> QED
  BY <1>1, SpecIInv, PTL

-----------------------------------------------------------------------------
(***************************************************************************)
(* The only client of a symbol.  LoneClientAlive speaks of a client that   *)
(* runs and is served; what is inductive also says that its coroutine is   *)
(* not about to leave and its thread not about to write DEAD.              *)
(***************************************************************************)

\* When running clients are timely, the only client of a symbol has a
\* coroutine on its way to serving it, its entry from the registration on,
\* and its status from its own write of ALIVE on, or a coroutine that could not
\* write ALIVE.
LoneSound ==
    Timely =>
      \A c \in DOMAIN symbolOf : Made(symbolOf[c]) = {c} /\ Running(c) =>
        /\ handler[c] # "stranded" => thread[c] \in {"none", "beating"}
        /\ handler[c] \in {"accepted", "registered", "serving", "stranded"}
        /\ handler[c] # "accepted" => symbols[symbolOf[c]] = c
        /\ handler[c] # "stranded" /\ client[c] = "running" => status[symbolOf[c]] = "ALIVE"

\* The only connection of a symbol does not share its symbol.
LEMMA LoneAlone ==
    ASSUME NEW c \in DOMAIN symbolOf, Made(symbolOf[c]) = {c},
           NEW d \in DOMAIN symbolOf, symbolOf[d] = symbolOf[c]
    PROVE  d = c
BY MadeElements

\* A new connection makes no client lone but itself.
LEMMA ConnectLone ==
    ASSUME IInv, LoneSound, NEW s \in Symbols, Connect(s)
    PROVE  LoneSound'
<1> DEFINE n == Len(symbolOf) + 1
<1>1. TypeOK /\ Unmade
  BY DEF IInv
<1>2. /\ n \in Conns
      /\ symbolOf' = Append(symbolOf, s)
      /\ client' = [client EXCEPT ![n] = "connecting"]
      /\ handler' = [handler EXCEPT ![n] = "accepted"]
      /\ UNCHANGED <<thread, inbox, symbols, status>>
  BY DEF Connect
<1>3. /\ DOMAIN symbolOf = 1 .. Len(symbolOf) /\ n \notin DOMAIN symbolOf
      /\ DOMAIN symbolOf' = DOMAIN symbolOf \cup {n}
      /\ symbolOf'[n] = s
      /\ \A d \in DOMAIN symbolOf : symbolOf'[d] = symbolOf[d] /\ d \in Conns /\ d # n
  BY <1>1, <1>2, MadeAreConns DEF TypeOK
<1> HIDE DEF n
<1>4. thread[n] = "none"
  BY <1>1, <1>2, <1>3 DEF Unmade
<1> SUFFICES ASSUME Timely, NEW c \in DOMAIN symbolOf', (Made(symbolOf[c]) = {c})', Running(c)'
             PROVE  /\ handler'[c] # "stranded" => thread'[c] \in {"none", "beating"}
                    /\ handler'[c] \in {"accepted", "registered", "serving", "stranded"}
                    /\ handler'[c] # "accepted" => symbols'[symbolOf'[c]] = c
                    /\ handler'[c] # "stranded" /\ client'[c] = "running" => status'[symbolOf'[c]] = "ALIVE"
  BY DEF LoneSound
<1>5. CASE c = n
  BY <1>1, <1>2, <1>4, <1>5 DEF TypeOK
<1>6. CASE c \in DOMAIN symbolOf
  <2>1. client'[c] = client[c] /\ handler'[c] = handler[c] /\ Running(c)
    BY <1>1, <1>2, <1>3, <1>6 DEF TypeOK, Running
  <2>2. Made(symbolOf[c]) = {c}
    <3>1. \A d \in DOMAIN symbolOf : symbolOf[d] = symbolOf[c] => d = c
      BY <1>3, <1>6 DEF Made
    <3> QED
      BY <1>6, <3>1 DEF Made
  <2> QED
    BY <1>2, <1>3, <1>6, <2>1, <2>2 DEF LoneSound
<1> QED
  BY <1>3, <1>5, <1>6

\* The client's two threads: neither writes DEAD while the client runs.
LEMMA ClientLone ==
    ASSUME IInv, LoneSound, NEW d \in Conns, ClientStep(d)
    PROVE  LoneSound'
<1>1. TypeOK /\ Unmade
  BY DEF IInv
<1>2. UNCHANGED <<symbolOf, handler, symbols>>
  BY DEF ClientStep, SendRegister, ShadowAlive, SendHeartbeat, SendFails,
         SendTimesOut, OnClose, Close, CloseSocket, Crash, Vanish
<1>3. client[d] # "none" \/ thread[d] # "none"
  BY DEF ClientStep, SendRegister, ShadowAlive, SendHeartbeat, SendFails,
         SendTimesOut, OnClose, Close, CloseSocket, Crash, Vanish, Running
<1>4. d \in DOMAIN symbolOf /\ symbolOf[d] \in Symbols
  BY <1>1, <1>3, MadeAreConns DEF Unmade
<1> SUFFICES ASSUME Timely, NEW c \in DOMAIN symbolOf, Made(symbolOf[c]) = {c}, Running(c)'
             PROVE  /\ handler[c] # "stranded" => thread'[c] \in {"none", "beating"}
                    /\ handler[c] \in {"accepted", "registered", "serving", "stranded"}
                    /\ handler[c] # "accepted" => symbols[symbolOf[c]] = c
                    /\ handler[c] # "stranded" /\ client'[c] = "running" => status'[symbolOf[c]] = "ALIVE"
  BY <1>2 DEF LoneSound, Made
<1>5. c \in Conns /\ symbolOf[c] \in Symbols
  BY <1>1, MadeAreConns
<1>6. Running(c) =>
        /\ handler[c] # "stranded" => thread[c] \in {"none", "beating"}
        /\ handler[c] \in {"accepted", "registered", "serving", "stranded"}
        /\ handler[c] # "accepted" => symbols[symbolOf[c]] = c
        /\ handler[c] # "stranded" /\ client[c] = "running" => status[symbolOf[c]] = "ALIVE"
  BY DEF LoneSound
<1>7. CASE c # d
  <2>1. symbolOf[c] # symbolOf[d]
    BY <1>4, <1>7, LoneAlone
  <2>2. client'[c] = client[c] /\ thread'[c] = thread[c]
    BY <1>1, <1>5, <1>7 DEF TypeOK, ClientStep, SendRegister, ShadowAlive, SendHeartbeat,
         SendFails, SendTimesOut, OnClose, Close, CloseSocket, Crash, Vanish
  <2>3. status'[symbolOf[c]] = status[symbolOf[c]]
    BY <1>1, <1>4, <1>5, <2>1 DEF TypeOK, ClientStep, SendRegister, ShadowAlive, SendHeartbeat,
         SendFails, SendTimesOut, OnClose, Close, CloseSocket, Crash, Vanish
  <2> QED
    BY <1>6, <2>2, <2>3 DEF Running
<1>8. CASE c = d
  <2>1. CASE SendRegister(d)
    BY <1>1, <1>5, <1>6, <1>8, <2>1 DEF TypeOK, SendRegister, Running
  <2>2. CASE ShadowAlive(d)
    BY <1>1, <1>5, <1>6, <1>8, <2>2 DEF TypeOK, ShadowAlive, Running
  <2>3. CASE SendHeartbeat(d)
    BY <1>1, <1>5, <1>6, <1>8, <2>3 DEF TypeOK, SendHeartbeat, Running
  <2>4. CASE SendFails(d) \/ SendTimesOut(d) \/ OnClose(d)
    <3>1. Running(c)
      BY <2>4 DEF SendFails, SendTimesOut, OnClose, Running
    <3>2. handler[c] = "stranded"
      BY <1>6, <1>8, <2>4, <3>1 DEF SendFails, SendTimesOut, OnClose, Deaf
    <3> QED
      BY <1>6, <3>1, <3>2
  <2>5. CASE Close(d) \/ CloseSocket(d) \/ Crash(d) \/ Vanish(d)
    BY <1>1, <1>5, <1>8, <2>5 DEF TypeOK, Close, CloseSocket, Crash, Vanish, Running
  <2> QED
    BY <2>1, <2>2, <2>3, <2>4, <2>5 DEF ClientStep
<1> QED
  BY <1>7, <1>8

\* The coroutines: the one of a timely running client does not leave, and
\* those of other symbols touch neither its entry nor its status.
LEMMA HandlerLone ==
    ASSUME IInv, LoneSound, NEW d \in Conns, HandlerStep(d)
    PROVE  LoneSound'
<1>1. TypeOK /\ Unmade
  BY DEF IInv
<1>2. /\ d \in DOMAIN symbolOf /\ UNCHANGED <<symbolOf, client, thread>>
      /\ \A e \in Conns \ {d} : handler'[e] = handler[e]
  BY <1>1, HandlerTypes
<1>3. symbolOf[d] \in Symbols
  BY <1>1, <1>2, MadeAreConns
<1> SUFFICES ASSUME Timely, NEW c \in DOMAIN symbolOf, Made(symbolOf[c]) = {c}, Running(c)
             PROVE  /\ handler'[c] # "stranded" => thread[c] \in {"none", "beating"}
                    /\ handler'[c] \in {"accepted", "registered", "serving", "stranded"}
                    /\ handler'[c] # "accepted" => symbols'[symbolOf[c]] = c
                    /\ handler'[c] # "stranded" /\ client[c] = "running" => status'[symbolOf[c]] = "ALIVE"
  BY <1>2 DEF LoneSound, Made, Running
<1>4. c \in Conns /\ symbolOf[c] \in Symbols
  BY <1>1, MadeAreConns
<1>5. /\ handler[c] # "stranded" => thread[c] \in {"none", "beating"}
      /\ handler[c] \in {"accepted", "registered", "serving", "stranded"}
      /\ handler[c] # "accepted" => symbols[symbolOf[c]] = c
      /\ handler[c] # "stranded" /\ client[c] = "running" => status[symbolOf[c]] = "ALIVE"
  BY DEF LoneSound
<1>6. CASE c # d
  <2>1. symbolOf[c] # symbolOf[d]
    BY <1>2, <1>6, LoneAlone
  <2>2. /\ symbols'[symbolOf[c]] = symbols[symbolOf[c]]
        /\ status'[symbolOf[c]] = status[symbolOf[c]]
    BY <1>1, <1>3, <1>4, <2>1 DEF TypeOK, HandlerStep, Register, RegisterFails, WriteAlive,
         WriteAliveFails, ReadHeartbeat, Timeout, Eof, WriteDead, WriteDeadFails
  <2> QED
    BY <1>2, <1>4, <1>5, <1>6, <2>2
<1>7. CASE c = d
  <2>1. ~RegisterFails(d) /\ ~Timeout(d) /\ ~Eof(d) /\ ~WriteDead(d) /\ ~WriteDeadFails(d)
    BY <1>5, <1>7
    DEF RegisterFails, Timeout, Eof, WriteDead, WriteDeadFails, Late, AtEof, Running
  <2>2. CASE Register(d)
    BY <1>1, <1>4, <1>5, <1>7, <2>2 DEF TypeOK, Register
  <2>3. CASE WriteAlive(d)
    BY <1>1, <1>4, <1>5, <1>7, <2>3 DEF TypeOK, WriteAlive
  <2>4. CASE WriteAliveFails(d)
    BY <1>1, <1>4, <1>5, <1>7, <2>4 DEF TypeOK, WriteAliveFails
  <2>5. CASE ReadHeartbeat(d)
    BY <1>5, <1>7, <2>5 DEF ReadHeartbeat
  <2> QED
    BY <2>1, <2>2, <2>3, <2>4, <2>5 DEF HandlerStep
<1> QED
  BY <1>6, <1>7

\* The server and its clients: the only client a symbol ever had is registered
\* and ALIVE for as long as it runs, once its coroutine has read the
\* registration, whatever the other connections do, unless the server could not
\* write ALIVE.
THEOREM LoneClientStaysAlive == Spec => []LoneClientAlive
<1>1. Init => LoneSound
  BY DEF Init, LoneSound
<1>2. IInv /\ LoneSound /\ [Next]_vars => LoneSound'
  <2> SUFFICES ASSUME IInv, LoneSound, [Next]_vars
               PROVE  LoneSound'
    OBVIOUS
  <2>1. CASE \E s \in Symbols : Connect(s)
    BY <2>1, ConnectLone
  <2>2. CASE \E c \in Conns : ClientStep(c)
    BY <2>2, ClientLone
  <2>3. CASE \E c \in Conns : HandlerStep(c)
    BY <2>3, HandlerLone
  <2>4. CASE UNCHANGED vars
    BY <2>4 DEF vars, LoneSound, Made, Running
  <2> QED
    BY <2>1, <2>2, <2>3, <2>4 DEF Next
<1>3. LoneSound => LoneClientAlive
  <2> SUFFICES ASSUME LoneSound, Timely, NEW c \in DOMAIN symbolOf, Made(symbolOf[c]) = {c},
                      client[c] = "running", handler[c] \notin {"accepted", "registered"}
               PROVE  /\ handler[c] \in {"serving", "stranded"} /\ symbols[symbolOf[c]] = c
                      /\ handler[c] = "serving" => status[symbolOf[c]] = "ALIVE"
    BY DEF LoneClientAlive
  <2> QED
    BY DEF LoneSound, Running
<1> QED
  BY <1>1, <1>2, <1>3, SpecIInv, PTL DEF Spec

=============================================================================
