-------------------------- MODULE BalanceRowsProofs --------------------------
(***************************************************************************)
(* The rows of balances, for any users, prices, initial balances and       *)
(* numbers of orders, of messages, of their copies and of database errors: *)
(* no row ever shows more than its user had and bought, and when every     *)
(* event has been read the row of a user who only bought has grown, unless *)
(* an event of the user met a database error.                              *)
(*                                                                         *)
(* A credit is lost when one command settles the same user twice or the    *)
(* database refuses it, so that a row and the events on their way do not   *)
(* add up to what was bought: they are bounded by it.  The bound is a      *)
(* climb, from the row through the events the fanout has routed, each one  *)
(* once, without those the handler knows as duplicates, and on through the *)
(* events it has not routed.                                               *)
(***************************************************************************)
EXTENDS BalanceRows, SpotEngineProofs

-----------------------------------------------------------------------------
(***************************************************************************)
(* The invariant.                                                          *)
(***************************************************************************)

\* The events the handler has not read.
Pending == In(stream) \cup In(topic["balance"])

IsBid(e, u) == e.type = "bid_settled" /\ e.user = u

\* What an event credits to the user u.
Bids(u) == [e \in Events |-> IF IsBid(e, u) THEN e.qty ELSE 0]

\* What it credits unless the handler takes it for a duplicate.
Unseen(keys, u) == [e \in Events |-> IF Key(e) \in keys THEN 0 ELSE Bids(u)[e]]

Total(u) == InitAsset[u] + Bought(u)

\* The row of u and what the routed events may add to it, up to the level b, and
\* what the fanout has not sent yet and is to be added then.
CreditsOf(routed, u, b) ==
    /\ Run(routed, Unseen(seen, u), asset[u], b)
    /\ Run(stream, Bids(u), b, Total(u))

Accounts(routed) ==
    /\ In(topic["balance"]) \subseteq In(routed)
    /\ \A u \in Users : \E b \in Nat : CreditsOf(routed, u, b)

\* No row will ever show more than its user had and bought.
CreditsBounded == \E routed \in Seq(Events) : Accounts(routed)

\* The settlement of a bid is a balance event and of a quantity.
SettlementSound(e) == e.type = "bid_settled" => e.cat = "balance" /\ e.qty > 0

SettlementsSound == \A e \in Pending : SettlementSound(e)

\* What u bought is in the row or on its way.
CreditComes(u) == asset[u] > InitAsset[u] \/ \E e \in Pending : IsBid(e, u)

CreditsComing ==
    \A u \in Users :
        /\ asset[u] >= InitAsset[u]
        /\ u # System /\ u \notin lost /\ Bought(u) > 0 => CreditComes(u)

\* A settlement that was handled has been credited.
CreditsRecorded ==
    \A c \in Nat, u \in Users :
        <<c, u, "bid_settled">> \in seen => asset[u] > InitAsset[u]

BalSound ==
    /\ IInv
    /\ BalTypeOK
    /\ CreditsBounded
    /\ SettlementsSound
    /\ CreditsComing
    /\ CreditsRecorded

-----------------------------------------------------------------------------
(***************************************************************************)
(* What a user bought.                                                     *)
(***************************************************************************)

\* It is a ledger of the engine's proofs.
LEMMA BoughtIsLedger == \A u : Bought(u) = Ledger(order, u, "bid", exec)
<1>1. \A u : OrdersOf(u, "bid") = OrdersFor(order, u, "bid")
  BY Zenon DEF OrdersOf, OrdersFor, Known
<1>. QED  BY <1>1, Zenon DEF Bought, Ledger

\* In the state after a step as well.
LEMMA BoughtIsLedgerAfter == \A u : Bought(u)' = Ledger(order', u, "bid", exec')
<1>1. (\A u : Bought(u) = Ledger(order, u, "bid", exec))'
  BY BoughtIsLedger, PTL
<1>. QED  BY <1>1

\* A weight of events is a natural number.
LEMMA BidsWeigh ==
    /\ \A u : Bids(u) \in [Events -> Nat]
    /\ \A u : \A e \in Events : Bids(u)[e] = IF IsBid(e, u) THEN e.qty ELSE 0
    /\ \A e \in Events : e.qty \in Nat /\ e.user \in Users /\ e.cmd \in Nat
  BY DEF Bids, Events

\* What was bought is a quantity.
LEMMA TotalNat ==
    ASSUME IInv
    PROVE  \A u \in Users : Bought(u) \in Nat /\ InitAsset[u] \in Nat /\ Total(u) \in Nat
<1> SUFFICES ASSUME NEW u \in Users
             PROVE  Bought(u) \in Nat /\ InitAsset[u] \in Nat /\ Total(u) \in Nat
  OBVIOUS
<1>1. order \in Seq(Requests) /\ \A o \in DOMAIN order : exec[o] \in Nat
  BY TermsInt DEF TermsOK
<1>2. Ledger(order, u, "bid", exec) \in Nat
  BY <1>1, LedgerNat
<1>3. Bought(u) \in Nat
  BY <1>2, BoughtIsLedger
<1>4. InitAsset[u] \in Nat
  BY UsersAssumption
<1>. QED  BY <1>3, <1>4 DEF Total

\* An order that is received has bought nothing.
LEMMA ReceiveBuysNothing ==
    ASSUME IInv, IInv', NEW r \in Requests, Receive(r), exec' = exec, NEW u
    PROVE  Bought(u)' = Bought(u)
<1>1. PICK n : n = Len(order) + 1
  OBVIOUS
<1>2. /\ TermsOK /\ TypeOK /\ Longer(order, order', r, n) /\ exec[n] = 0
      /\ exec \in [OrderIds -> Nat] /\ n \in OrderIds
  BY <1>1, TermsInt, ReceiveState, ReceiveAdds DEF IInv, TypeOK, Receive, Longer
<1>3. order \in Seq(Requests) /\ Continues(order, n, exec, exec)
  BY <1>2 DEF TermsOK, Continues
<1>4. Ledger(order', u, "bid", exec) = Ledger(order, u, "bid", exec) + Share(r, u, "bid", exec[n])
  BY <1>2, <1>3, LedgerGrows
<1>5. Share(r, u, "bid", exec[n]) = 0
  BY <1>2 DEF Share
<1>6. Ledger(order, u, "bid", exec) \in Int
  BY <1>3, LedgerInt DEF Continues
<1>. QED  BY <1>4, <1>5, <1>6, BoughtIsLedger, BoughtIsLedgerAfter

\* Neither does a step that fills nothing.
LEMMA NoFillBuysNothing ==
    ASSUME order' = order, exec' = exec, NEW u
    PROVE  Bought(u)' = Bought(u)
  BY BoughtIsLedger, BoughtIsLedgerAfter

\* The bid and the ask of a trade.
LEMMA TradeSides ==
    ASSUME IInv, Trade
    PROVE  \E b, a \in {taker, Maker} :
              /\ b \in DOMAIN order /\ a \in DOMAIN order /\ b # a
              /\ order[b].side = "bid" /\ order[a].side = "ask"
              /\ order' = order /\ order[b] \in Requests /\ order[a] \in Requests
              /\ TradeQuantity \in Nat /\ TradeQuantity > 0
              /\ DifferAt(order, "bid", b, exec, exec')
              /\ exec'[b] - exec[b] = TradeQuantity
<1>1. PICK t, m, q : t = taker /\ m = Maker /\ q = TradeQuantity
  OBVIOUS
<1>2. /\ Matching /\ order' = order /\ exec' = [exec EXCEPT ![t] = @ + q, ![m] = @ + q]
  BY <1>1 DEF Trade
<1>3. /\ t \in Known /\ t \in OrderIds /\ order[t] \in Requests /\ order[t].side \in Sides
      /\ MakerSide \in Sides /\ MakerSide # order[t].side
  BY <1>1, <1>2, TakerFacts DEF Matching
<1>4. /\ m \in Known /\ m \in OrderIds /\ m # t /\ order[m] \in Requests
      /\ order[m].side = MakerSide /\ q \in Nat /\ q > 0
  BY <1>1, <1>2, MakerFacts
<1>5. exec \in [OrderIds -> Nat] /\ Known \subseteq OrderIds
  BY KnownOrders DEF IInv, TypeOK
<1>6. /\ \A o \in OrderIds : o # t /\ o # m => exec'[o] = exec[o]
      /\ exec'[t] = exec[t] + q /\ exec'[m] = exec[m] + q
      /\ exec' \in [OrderIds -> Nat]
  BY <1>2, <1>3, <1>4, <1>5
<1>7. ASSUME NEW b \in {t, m}, NEW a \in {t, m}, b # a, order[b].side = "bid", order[a].side = "ask"
      PROVE  DifferAt(order, "bid", b, exec, exec') /\ exec'[b] - exec[b] = q
  <2>1. \A o \in DOMAIN order : exec[o] \in Int /\ exec'[o] \in Int
    BY <1>5, <1>6 DEF Known
  <2>2. \A y \in DOMAIN order : y # b /\ order[y].side = "bid" => exec'[y] = exec[y]
    BY <1>5, <1>6, <1>7 DEF Known
  <2>3. exec'[b] - exec[b] = q
    BY <1>3, <1>4, <1>5, <1>6, <1>7
  <2>. QED  BY <2>1, <2>2, <2>3 DEF DifferAt
<1>8. CASE order[t].side = "bid"
  BY <1>1, <1>2, <1>3, <1>4, <1>7, <1>8 DEF Known, Sides
<1>9. CASE order[t].side = "ask"
  BY <1>1, <1>2, <1>3, <1>4, <1>7, <1>9 DEF Known, Sides
<1>. QED  BY <1>3, <1>8, <1>9 DEF Sides

\* A trade adds its quantity to what the user of the bid bought.
LEMMA TradeBuys ==
    ASSUME IInv, Trade, NEW b \in DOMAIN order, order[b].side = "bid", order' = order,
           NEW q, exec'[b] - exec[b] = q, DifferAt(order, "bid", b, exec, exec'), NEW u
    PROVE  Bought(u)' = Bought(u) + IF order[b].user = u THEN q ELSE 0
<1>1. order \in Seq(Requests)
  BY TermsInt DEF TermsOK
<1>2. Ledger(order, u, "bid", exec') =
          Ledger(order, u, "bid", exec) + Share(order[b], u, "bid", exec'[b] - exec[b])
  BY <1>1, LedgerChanges
<1>. QED  BY <1>2, BoughtIsLedger, BoughtIsLedgerAfter DEF Share

-----------------------------------------------------------------------------
(***************************************************************************)
(* What a step of the engine logs.                                         *)
(***************************************************************************)

\* No purchase is among the events.
NoBids(s) == s \in Seq(Events) /\ \A e \in In(s) : e.type # "bid_settled"

\* One event of a type and a user, or nothing.
Tells(s, cat, type, u, q) ==
    \/ s = << >>
    \/ \E e \in Events : /\ s = <<e>> /\ e.cat = cat /\ e.type = type
                         /\ e.user = u /\ e.qty = q

\* EngineLogger.log_event: the event, or nothing for the system user.
LEMMA LogTells ==
    ASSUME IInv', cmd' \in Nat, NEW cat \in Categories, NEW type \in EventTypes,
           NEW o \in Known', NEW q \in Nat
    PROVE  /\ Tells(Log(cat, type, o, q), cat, type, order'[o].user, q)
           /\ order'[o].user # System /\ cat \in Followed => Log(cat, type, o, q) # << >>
<1>1. o \in OrderIds /\ order'[o] \in Requests
  <2>1. order' \in Seq(Requests) /\ Len(order') \in Nat /\ Len(order') <= MaxOrders
    BY DEF IInv, TypeOK
  <2>2. o \in 1 .. Len(order')
    BY <2>1 DEF Known
  <2>. QED  BY <2>1, <2>2, MaxOrdersAssumption DEF OrderIds
<1>2. order'[o].user \in Users
  BY <1>1 DEF Requests
<1> DEFINE e == [cat |-> cat, type |-> type, cmd |-> cmd', user |-> order'[o].user,
                 order |-> o, qty |-> q]
<1>3. e \in Events
  BY <1>1, <1>2 DEF Events, Categories, EventTypes
<1>4. e.cat = cat /\ e.type = type /\ e.user = order'[o].user /\ e.qty = q
  OBVIOUS
<1>5. Log(cat, type, o, q) =
        IF order'[o].user # System /\ cat \in Followed THEN <<e>> ELSE << >>
  BY DEF Log
<1> HIDE DEF e
<1>6. <<e>> # << >>
  OBVIOUS
<1>. QED  BY <1>3, <1>4, <1>5, <1>6 DEF Tells

\* What such a sequence holds.
LEMMA TellsParts ==
    ASSUME NEW s, NEW cat, NEW type, NEW u, NEW q, Tells(s, cat, type, u, q)
    PROVE  /\ s \in Seq(Events)
           /\ \A e \in In(s) : e.cat = cat /\ e.type = type /\ e.user = u /\ e.qty = q
           /\ s # << >> => \E e \in In(s) : e.type = type /\ e.user = u
<1>1. CASE s = << >>
  BY <1>1 DEF In
<1>2. ASSUME NEW e \in Events, s = <<e>>, e.cat = cat, e.type = type, e.user = u, e.qty = q
      PROVE  /\ s \in Seq(Events) /\ In(s) = {e}
  BY <1>2 DEF In
<1>. QED  BY <1>1, <1>2 DEF Tells

\* Nothing, and one after the other.
LEMMA NoBidsConcat ==
    /\ NoBids(<< >>)
    /\ \A s, t : NoBids(s) /\ NoBids(t) => NoBids(s \o t)
<1>1. NoBids(<< >>)
  BY DEF NoBids, In
<1>2. ASSUME NEW s, NEW t, NoBids(s), NoBids(t) PROVE NoBids(s \o t)
  <2>1. s \in Seq(Events) /\ t \in Seq(Events)
    BY <1>2 DEF NoBids
  <2>2. s \o t \in Seq(Events) /\ In(s \o t) = In(s) \cup In(t)
    BY <2>1, InConcat
  <2>. QED  BY <1>2, <2>2 DEF NoBids
<1>. QED  BY <1>1, <1>2

\* Every log call but the one for the settlement of a bid.
LEMMA OtherLogs ==
    ASSUME IInv', cmd' \in Nat, NEW o \in Known', NEW q \in Nat
    PROVE  \A cat \in Categories, type \in EventTypes \ {"bid_settled"} : NoBids(Log(cat, type, o, q))
<1> SUFFICES ASSUME NEW cat \in Categories, NEW type \in EventTypes \ {"bid_settled"}
             PROVE  NoBids(Log(cat, type, o, q))
  OBVIOUS
<1>1. Tells(Log(cat, type, o, q), cat, type, order'[o].user, q)
  BY LogTells
<1>. QED  BY <1>1, TellsParts DEF NoBids

\* The orders, trades and holds that a step logs.
LEMMA EngineLogs ==
    ASSUME IInv', cmd' \in Nat, NEW o \in Known'
    PROVE  /\ \A type \in {"placed", "filled", "partially_filled", "cancelled"} :
                 NoBids(OrderEvent(type, o))
           /\ NoBids(FillEvent(o))
           /\ \A q \in Nat : NoBids(TradeEvent("taker", o, q)) /\ NoBids(TradeEvent("maker", o, q))
           /\ \A q \in Nat : /\ NoBids(EscrowEvent("asset_escrow_increased", o, q))
                             /\ NoBids(EscrowEvent("asset_escrow_decreased", o, q))
           /\ order[o].qty \in Nat => NoBids(HoldEvent(o))
           /\ order'[o].qty - exec[o] \in Nat => NoBids(CancelEvents(o))
<1>1. exec'[o] \in Nat
  <2>1. TypeOK' /\ exec' \in [OrderIds -> Nat]
    BY DEF IInv, TypeOK
  <2>2. /\ order' \in Seq(Requests) /\ Len(order') \in Nat /\ Len(order') <= MaxOrders
    BY <2>1 DEF TypeOK
  <2>3. o \in OrderIds
    BY <2>2, MaxOrdersAssumption DEF Known, OrderIds
  <2>. QED  BY <2>1, <2>3
<1>2. ASSUME NEW type \in {"placed", "filled", "partially_filled", "cancelled"}
      PROVE  NoBids(OrderEvent(type, o))
  BY <1>1, OtherLogs DEF OrderEvent, Categories, EventTypes
<1>3. NoBids(FillEvent(o))
  BY <1>2 DEF FillEvent
<1>4. ASSUME NEW q \in Nat
      PROVE  NoBids(TradeEvent("taker", o, q)) /\ NoBids(TradeEvent("maker", o, q))
  BY OtherLogs DEF TradeEvent, Categories, EventTypes
<1>5. ASSUME NEW q \in Nat
      PROVE  /\ NoBids(EscrowEvent("asset_escrow_increased", o, q))
             /\ NoBids(EscrowEvent("asset_escrow_decreased", o, q))
  BY OtherLogs, NoBidsConcat DEF EscrowEvent, Categories, EventTypes
<1>6. ASSUME order[o].qty \in Nat PROVE NoBids(HoldEvent(o))
  BY <1>5, <1>6, NoBidsConcat DEF HoldEvent
<1>7. ASSUME order'[o].qty - exec[o] \in Nat PROVE NoBids(CancelEvents(o))
  <2>1. PICK s, t : s = OrderEvent("cancelled", o)
                    /\ t = EscrowEvent("asset_escrow_decreased", o, order'[o].qty - exec[o])
    OBVIOUS
  <2>2. NoBids(s) /\ NoBids(t)
    BY <1>2, <1>5, <1>7, <2>1
  <2>3. CancelEvents(o) = s \o t
    BY <2>1 DEF CancelEvents
  <2>. QED  BY <2>2, <2>3, NoBidsConcat
<1>. QED  BY <1>2, <1>3, <1>4, <1>5, <1>6, <1>7

\* What the settlement of an order adds to the purchases of u.
LEMMA SettledRun ==
    ASSUME IInv', cmd' \in Nat, order' = order, NEW o \in Known', order[o] \in Requests,
           NEW q \in Nat, q > 0, NEW s, s = SettledEvent(o, q)
    PROVE  /\ s \in Seq(Events) /\ \A e \in In(s) : SettlementSound(e)
           /\ \A u \in Users, a \in Nat :
                 /\ a + Share(order[o], u, "bid", q) \in Nat
                 /\ Run(s, Bids(u), a, a + Share(order[o], u, "bid", q))
           /\ order[o].side = "bid" /\ order[o].user # System =>
                 \E e \in In(s) : IsBid(e, order[o].user)
<1>1. order[o].side \in Sides
  BY DEF Requests
<1>2. CASE order[o].side = "ask"
  <2>1. s = Log("balance", "ask_settled", o, q)
    BY <1>2 DEF SettledEvent
  <2>2. NoBids(s)
    BY <2>1, OtherLogs DEF Categories, EventTypes
  <2>3. \A u \in Users : Share(order[o], u, "bid", q) = 0
    BY <1>2 DEF Share
  <2>4. ASSUME NEW u \in Users, NEW a \in Nat PROVE Run(s, Bids(u), a, a)
    <3>1. \A e \in In(s) : Bids(u)[e] = 0
      <4>1. In(s) \subseteq Events
        BY <2>2 DEF NoBids, In
      <4>. QED  BY <2>2, <4>1, BidsWeigh DEF NoBids, IsBid
    <3>. QED  BY <2>2, <3>1, BidsWeigh, RunSilent DEF NoBids
  <2>. QED  BY <1>2, <2>2, <2>3, <2>4 DEF NoBids, SettlementSound
<1>3. CASE order[o].side = "bid"
  <2>1. PICK v : v = order[o].user
    OBVIOUS
  <2>2. s = Log("balance", "bid_settled", o, q)
    BY <1>3 DEF SettledEvent
  <2>3. /\ Tells(s, "balance", "bid_settled", v, q)
        /\ v # System => s # << >>
    BY <2>1, <2>2, LogTells, BalanceRowsAssumption DEF Categories, EventTypes
  <2>4. /\ s \in Seq(Events)
        /\ \A e \in In(s) : SettlementSound(e)
        /\ v # System => \E e \in In(s) : IsBid(e, v)
    BY <2>3, TellsParts DEF SettlementSound, IsBid
  <2>5. ASSUME NEW u \in Users, NEW a \in Nat
        PROVE  /\ a + Share(order[o], u, "bid", q) \in Nat
               /\ Run(s, Bids(u), a, a + Share(order[o], u, "bid", q))
    <3>1. Share(order[o], u, "bid", q) = IF v = u THEN q ELSE 0
      BY <1>3, <2>1 DEF Share
    <3>2. PICK b \in Nat : b = a + Share(order[o], u, "bid", q) /\ a <= b /\ b = a + (IF v = u THEN q ELSE 0)
      BY <3>1
    <3>3. CASE s = << >>
      <4>1. In(s) = {}
        BY <3>3 DEF In
      <4>. QED  BY <2>4, <3>2, <4>1, BidsWeigh, RunSilent
    <3>4. ASSUME NEW e \in Events, s = <<e>>, e.type = "bid_settled", e.user = v, e.qty = q
          PROVE  Run(s, Bids(u), a, b)
      <4>1. Bids(u)[e] = IF v = u THEN q ELSE 0
        BY <3>4, BidsWeigh DEF IsBid
      <4>2. a + Bids(u)[e] <= b
        BY <3>2, <4>1
      <4>. QED  BY <3>2, <3>4, <4>2, BidsWeigh, RunOne
    <3>. QED  BY <2>3, <3>2, <3>3, <3>4 DEF Tells
  <2>. QED  BY <2>1, <2>4, <2>5
<1>. QED  BY <1>1, <1>2, <1>3 DEF Sides

-----------------------------------------------------------------------------
(***************************************************************************)
(* The actions of the engine.                                              *)
(***************************************************************************)

\* The events `new` tell what the step lets the users buy.
Settles(new) ==
    /\ new \in Seq(Events)
    /\ \A e \in In(new) : SettlementSound(e)
    /\ \A u \in Users :
          /\ Run(new, Bids(u), Total(u), Total(u)')
          /\ Bought(u)' = Bought(u) \/ u = System \/ \E e \in In(new) : IsBid(e, u)

\* A step that lets nobody buy anything.
LEMMA QuietSettles ==
    ASSUME IInv, NEW new, NoBids(new), \A u \in Users : Bought(u)' = Bought(u)
    PROVE  Settles(new)
<1>1. ASSUME NEW u \in Users PROVE Run(new, Bids(u), Total(u), Total(u)')
  <2>1. Total(u)' = Total(u) /\ Total(u) \in Nat
    BY TotalNat DEF Total
  <2>2. \A e \in In(new) : Bids(u)[e] = 0
    <3>1. In(new) \subseteq Events
      BY DEF NoBids, In
    <3>. QED  BY <3>1, BidsWeigh DEF NoBids, IsBid
  <2>. QED  BY <2>1, <2>2, BidsWeigh, RunSilent DEF NoBids
<1>. QED  BY <1>1 DEF Settles, NoBids, SettlementSound

\* _process_trade: the last two events settle the taker and the maker.
LEMMA TradeEventsParts ==
    ASSUME IInv, IInv', cmd' \in Nat, order' = order, Matching
    PROVE  \E c : /\ NoBids(c)
                  /\ TradeEvents = (c \o SettledEvent(taker, TradeQuantity))
                                      \o SettledEvent(Maker, TradeQuantity)
<1>1. PICK t, m, q : t = taker /\ m = Maker /\ q = TradeQuantity
  OBVIOUS
<1>2. t \in Known /\ m \in Known /\ q \in Nat /\ order[t].qty \in Nat /\ order[m].qty \in Nat
  BY <1>1, TakerFacts, MakerFacts DEF Matching
<1>3. t \in Known' /\ m \in Known'
  BY <1>2 DEF Known
<1>4. PICK a1, a2, f1, f2, h1, h2, s1, s2 :
        /\ a1 = TradeEvent("taker", t, q) /\ a2 = TradeEvent("maker", m, q)
        /\ f1 = FillEvent(t) /\ f2 = FillEvent(m)
        /\ h1 = HoldEvent(m) /\ h2 = HoldEvent(t)
        /\ s1 = SettledEvent(t, q) /\ s2 = SettledEvent(m, q)
  OBVIOUS
<1>5. TradeEvents = a1 \o a2 \o f1 \o f2 \o h1 \o h2 \o s1 \o s2
  BY <1>1, <1>4, Zenon DEF TradeEvents
<1>6. NoBids(a1) /\ NoBids(a2) /\ NoBids(f1) /\ NoBids(f2) /\ NoBids(h1) /\ NoBids(h2)
  BY <1>2, <1>3, <1>4, EngineLogs
<1>7. PICK c : c = a1 \o a2 \o f1 \o f2 \o h1 \o h2
  OBVIOUS
<1>8. NoBids(c)
  <2>1. NoBids(a1 \o a2)
    BY <1>6, NoBidsConcat
  <2>2. NoBids(a1 \o a2 \o f1)
    BY <1>6, <2>1, NoBidsConcat
  <2>3. NoBids(a1 \o a2 \o f1 \o f2)
    BY <1>6, <2>2, NoBidsConcat
  <2>4. NoBids(a1 \o a2 \o f1 \o f2 \o h1)
    BY <1>6, <2>3, NoBidsConcat
  <2>. QED  BY <1>6, <1>7, <2>4, NoBidsConcat
<1>9. TradeEvents = (c \o s1) \o s2
  BY <1>5, <1>7, Zenon
<1>. QED  BY <1>1, <1>4, <1>8, <1>9, Zenon

\* A trade: what its bid bought is told by one event, unless the system user
\* bought it.
LEMMA TradeSettles ==
    ASSUME IInv, IInv', cmd' \in Nat, Trade
    PROVE  Settles(TradeEvents)
<1>1. PICK t, m, q : t = taker /\ m = Maker /\ q = TradeQuantity
  OBVIOUS
<1>2. PICK b, a \in {t, m} :
          /\ b \in DOMAIN order /\ a \in DOMAIN order /\ b # a
          /\ order[b].side = "bid" /\ order[a].side = "ask"
          /\ order' = order /\ order[b] \in Requests /\ order[a] \in Requests
          /\ q \in Nat /\ q > 0
          /\ DifferAt(order, "bid", b, exec, exec')
          /\ exec'[b] - exec[b] = q
  BY <1>1, TradeSides
<1>3. Matching
  BY DEF Trade
<1>4. PICK c, s1, s2 : /\ NoBids(c) /\ TradeEvents = (c \o s1) \o s2
                       /\ s1 = SettledEvent(t, q) /\ s2 = SettledEvent(m, q)
  BY <1>1, <1>2, <1>3, TradeEventsParts
<1>5. t \in Known' /\ m \in Known' /\ order[t] \in Requests /\ order[m] \in Requests
  BY <1>1, <1>2, <1>3, TakerFacts, MakerFacts DEF Known, Matching
<1>6. /\ s1 \in Seq(Events) /\ \A e \in In(s1) : SettlementSound(e)
      /\ \A u \in Users, x \in Nat :
            /\ x + Share(order[t], u, "bid", q) \in Nat
            /\ Run(s1, Bids(u), x, x + Share(order[t], u, "bid", q))
      /\ order[t].side = "bid" /\ order[t].user # System =>
            \E e \in In(s1) : IsBid(e, order[t].user)
  BY <1>2, <1>4, <1>5, SettledRun
<1>7. /\ s2 \in Seq(Events) /\ \A e \in In(s2) : SettlementSound(e)
      /\ \A u \in Users, x \in Nat :
            /\ x + Share(order[m], u, "bid", q) \in Nat
            /\ Run(s2, Bids(u), x, x + Share(order[m], u, "bid", q))
      /\ order[m].side = "bid" /\ order[m].user # System =>
            \E e \in In(s2) : IsBid(e, order[m].user)
  BY <1>2, <1>4, <1>5, SettledRun
<1>8. c \in Seq(Events) /\ \A e \in In(c) : e.type # "bid_settled"
  BY <1>4 DEF NoBids
<1>9. c \o s1 \in Seq(Events) /\ In(c \o s1) = In(c) \cup In(s1)
  BY <1>6, <1>8, InConcat
<1>10. PICK d, new : d = c \o s1 /\ new = d \o s2
  OBVIOUS
<1>11. new \in Seq(Events) /\ In(new) = (In(c) \cup In(s1)) \cup In(s2)
  <2>1. d \in Seq(Events) /\ In(d) = In(c) \cup In(s1)
    BY <1>9, <1>10
  <2>2. d \o s2 \in Seq(Events) /\ In(d \o s2) = In(d) \cup In(s2)
    BY <1>7, <2>1, InConcat
  <2>. QED  BY <1>10, <2>1, <2>2
<1>12. \A e \in In(new) : SettlementSound(e)
  BY <1>6, <1>7, <1>8, <1>11 DEF SettlementSound
<1>13. order[b].user # System => \E e \in In(new) : IsBid(e, order[b].user)
  BY <1>2, <1>6, <1>7, <1>11
<1>14. ASSUME NEW u \in Users
       PROVE  /\ Run(new, Bids(u), Total(u), Total(u)')
              /\ Bought(u)' = Bought(u) \/ u = System \/ \E e \in In(new) : IsBid(e, u)
  <2>1. PICK x \in Nat : x = Total(u)
    BY TotalNat
  <2>2. Bought(u) \in Nat /\ InitAsset[u] \in Nat
    BY TotalNat
  <2>3. Bought(u)' = Bought(u) + IF order[b].user = u THEN q ELSE 0
    BY <1>2, TradeBuys
  <2>4. Share(order[t], u, "bid", q) + Share(order[m], u, "bid", q)
            = IF order[b].user = u THEN q ELSE 0
    BY <1>2 DEF Share
  <2>5. PICK y, z \in Nat : y = x + Share(order[t], u, "bid", q)
                            /\ z = y + Share(order[m], u, "bid", q)
    BY <1>6, <1>7
  <2>6. Total(u)' = z
    <3>1. PICK g, h \in Int : g = Share(order[t], u, "bid", q) /\ h = Share(order[m], u, "bid", q)
      BY <1>2 DEF Share
    <3>2. z = x + (g + h)
      BY <2>1, <2>5, <3>1
    <3>3. z = (InitAsset[u] + Bought(u)) + IF order[b].user = u THEN q ELSE 0
      BY <2>1, <2>4, <3>1, <3>2 DEF Total
    <3>. QED  BY <1>2, <2>2, <2>3, <3>3 DEF Total
  <2>7. Run(c, Bids(u), x, x)
    <3>1. \A e \in In(c) : Bids(u)[e] = 0
      <4>1. In(c) \subseteq Events
        BY <1>8 DEF In
      <4>. QED  BY <1>8, <4>1, BidsWeigh DEF IsBid
    <3>. QED  BY <1>8, <3>1, BidsWeigh, RunSilent
  <2>8. Run(s1, Bids(u), x, y) /\ Run(s2, Bids(u), y, z)
    BY <1>6, <1>7, <2>5
  <2>9. Run(c \o s1, Bids(u), x, y)
    BY <1>6, <1>8, <2>7, <2>8, BidsWeigh, RunConcat
  <2>10. Run(new, Bids(u), x, z)
    BY <1>7, <1>9, <1>10, <2>8, <2>9, BidsWeigh, RunConcat
  <2>. QED  BY <1>13, <2>1, <2>2, <2>3, <2>6, <2>10
<1>15. TradeEvents = new
  BY <1>4, <1>10
<1>. QED  BY <1>11, <1>12, <1>14, <1>15 DEF Settles

\* Every step of the engine logs the purchases of its users.
LEMMA EngineSettles ==
    ASSUME IInv, cmd \in Nat, EngineStep
    PROVE  /\ IInv' /\ cmd' \in Nat /\ UNCHANGED <<topic, fanout>>
           /\ \E new : stream' = stream \o new /\ Settles(new)
<1>1. /\ cmd' \in Nat /\ UNCHANGED <<topic, fanout>>
      /\ Next
  BY DEF EngineStep, NewOrder, OldOrder, MatchingStep, NextCommand, SameCommand,
         Next, Command, MatchStep
<1>2. IInv'
  BY <1>1, NextIInv
<1>3. ASSUME NEW r \in Requests, NewOrder(r)
      PROVE  \E new : stream' = stream \o new /\ Settles(new)
  <2>1. PICK n : n = Len(order) + 1
    OBVIOUS
  <2>2. Receive(r) /\ exec' = exec
    BY <1>3 DEF NewOrder, PlaceOrder, RejectOrder, RejectOrderRaises, BeginMatch
  <2>3. \A u \in Users : Bought(u)' = Bought(u)
    BY <1>2, <2>2, ReceiveBuysNothing
  <2>4. /\ n \in Known' /\ order'[n] = r /\ exec[n] = 0 /\ r.qty \in Nat
    BY <2>1, <2>2, ReceiveAdds, ReceiveState DEF IInv
  <2>5. order'[n].qty - exec[n] \in Nat
    BY <2>4
  <2>6. /\ NoBids(OrderEvent("placed", n)) /\ NoBids(OrderEvent("cancelled", n))
        /\ NoBids(CancelEvents(n)) /\ NoBids(<< >>)
    BY <1>1, <1>2, <2>4, <2>5, EngineLogs, NoBidsConcat
  <2>7. NoBids(CancelEvents(n) \o CancelEvents(n))
    BY <2>6, NoBidsConcat
  <2>8. \E new : stream' = stream \o new /\ NoBids(new)
    BY <1>3, <2>1, <2>6, <2>7 DEF NewOrder, NextCommand, Publish
  <2>. QED  BY <2>3, <2>8, QuietSettles
<1>4. ASSUME order' = order, exec' = exec, NEW new, NoBids(new) PROVE Settles(new)
  BY <1>4, NoFillBuysNothing, QuietSettles
<1>5. ASSUME NEW o \in store, order' = order PROVE NoBids(CancelEvents(o))
  <2>1. /\ o \in Known' /\ o \in Known /\ exec[o] <= order[o].qty
    BY <1>5 DEF IInv, BookConsistent, BookMatchesStore, Known, OneFate
  <2>2. exec[o] \in Nat /\ order[o].qty \in Nat
    BY <2>1, KnownOrders DEF IInv
  <2>3. order'[o].qty - exec[o] \in Nat
    BY <1>5, <2>1, <2>2
  <2>. QED  BY <1>1, <1>2, <2>1, <2>3, EngineLogs
<1>6. ASSUME NEW o \in OrderIds, OldOrder(o)
      PROVE  \E new : stream' = stream \o new /\ Settles(new)
  <2>1. CASE CancelOrder(o) /\ NextCommand(CancelEvents(o))
    <3>1. o \in store /\ order' = order /\ exec' = exec /\ stream' = stream \o CancelEvents(o)
      BY <2>1 DEF CancelOrder, NextCommand, Publish
    <3>. QED  BY <1>4, <1>5, <3>1
  <2>2. CASE ModifyRaises(o) /\ NextCommand(<< >>)
    <3>1. order' = order /\ exec' = exec /\ stream' = stream \o << >>
      BY <2>2 DEF ModifyRaises, NextCommand, Publish
    <3>. QED  BY <1>4, <3>1, NoBidsConcat
  <2>. QED  BY <1>6, <2>1, <2>2 DEF OldOrder
<1>7. ASSUME MatchingStep
      PROVE  \E new : stream' = stream \o new /\ Settles(new)
  <2>1. CASE Trade /\ SameCommand(TradeEvents)
    BY <1>1, <1>2, <2>1, TradeSettles DEF SameCommand, Publish
  <2>2. CASE CancelMaker /\ SameCommand(CancelEvents(Maker))
    <3>1. PICK m : m = Maker
      OBVIOUS
    <3>2. m \in store /\ order' = order /\ exec' = exec /\ stream' = stream \o CancelEvents(m)
      BY <2>2, <3>1, MakerFacts DEF CancelMaker, SameCommand, Publish
    <3>. QED  BY <1>4, <1>5, <3>2
  <2>3. CASE TakerFilled /\ SameCommand(<< >>)
    <3>1. order' = order /\ exec' = exec /\ stream' = stream \o << >>
      BY <2>3 DEF TakerFilled, SameCommand, Publish
    <3>. QED  BY <1>4, <3>1, NoBidsConcat
  <2>4. CASE PlaceRemainder /\ SameCommand(OrderEvent("placed", taker))
    <3>1. PICK t : t = taker
      OBVIOUS
    <3>2. pc = "matching" /\ order' = order /\ exec' = exec /\ stream' = stream \o OrderEvent("placed", t)
      BY <2>4, <3>1 DEF PlaceRemainder, SameCommand, Publish
    <3>3. t \in Known'
      BY <3>1, <3>2, TakerFacts DEF Known
    <3>4. NoBids(OrderEvent("placed", t))
      BY <1>1, <1>2, <3>3, EngineLogs
    <3>. QED  BY <1>4, <3>2, <3>4
  <2>. QED  BY <1>7, <2>1, <2>2, <2>3, <2>4 DEF MatchingStep
<1>. QED  BY <1>1, <1>2, <1>3, <1>6, <1>7 DEF EngineStep

-----------------------------------------------------------------------------
(***************************************************************************)
(* The topic of the balance events.                                        *)
(***************************************************************************)

\* What an event may still credit.
LEMMA UnseenWeigh ==
    ASSUME NEW keys, NEW u
    PROVE  /\ Unseen(keys, u) \in [Events -> Nat]
           /\ \A e \in Events : /\ Unseen(keys, u)[e] <= Bids(u)[e]
                                /\ Unseen(keys, u)[e] =
                                      IF Key(e) \in keys THEN 0 ELSE Bids(u)[e]
<1>1. \A e \in Events : Bids(u)[e] \in Nat
  BY BidsWeigh
<1>. QED  BY <1>1 DEF Unseen

\* A step that begins and ends higher.
LEMMA StepRaised ==
    ASSUME NEW x \in Nat, NEW y \in Nat, NEW k \in Nat, NEW m \in Nat, NEW q \in Nat,
           k <= m, x + m <= y
    PROVE  (x + q) + k <= y + q
  OBVIOUS

\* One step of a climb is taken before the others.
LEMMA ClimbTaken ==
    ASSUME NEW n, NEW w, NEW v, NEW a, NEW b, Climb(n, w, a, b), NEW j \in 1 .. n,
           \A i \in 1 .. n : v[i] \in Nat /\ v[i] <= w[i], v[j] = 0
    PROVE  a + w[j] \in Nat /\ Climb(n, v, a + w[j], b)
<1>1. PICK c \in [0 .. n -> Nat] : IsClimb(c, n, w, a, b)
  BY DEF Climb
<1>2. /\ n \in Nat /\ a \in Nat /\ b \in Nat /\ \A i \in 1 .. n : w[i] \in Nat
      /\ c[0] = a /\ c[n] <= b /\ \A i \in 0 .. n : c[i] \in Nat
      /\ \A i \in 1 .. n : c[i - 1] + w[i] <= c[i]
  BY <1>1 DEF Climb, IsClimb
<1>3. PICK q \in Nat : q = w[j]
  BY <1>2
<1>4. PICK d : d = [i \in 0 .. n |-> IF i < j THEN c[i] + q ELSE c[i]]
  OBVIOUS
<1>5. /\ d \in [0 .. n -> Nat]
      /\ \A i \in 0 .. n : i < j => d[i] = c[i] + q
      /\ \A i \in 0 .. n : ~(i < j) => d[i] = c[i]
  <2>1. \A i \in 0 .. n : c[i] \in Nat /\ c[i] + q \in Nat
    BY <1>2, <1>3
  <2>2. \A i \in 0 .. n : (IF i < j THEN c[i] + q ELSE c[i]) \in Nat
    BY <2>1
  <2>3. d \in [0 .. n -> Nat]
    BY <1>4, <2>2
  <2>4. \A i \in 0 .. n : d[i] = IF i < j THEN c[i] + q ELSE c[i]
    BY <1>4
  <2>. QED  BY <2>3, <2>4
<1>6. d[0] = a + q /\ d[n] <= b
  <2>1. 0 \in 0 .. n /\ n \in 0 .. n /\ 0 < j /\ ~(n < j)
    BY <1>2
  <2>. QED  BY <1>2, <1>5, <2>1
<1>7. ASSUME NEW i \in 1 .. n PROVE d[i - 1] + v[i] <= d[i]
  <2>1. /\ i \in 0 .. n /\ i - 1 \in 0 .. n /\ c[i - 1] \in Nat /\ c[i] \in Nat
        /\ v[i] \in Nat /\ w[i] \in Nat /\ v[i] <= w[i] /\ c[i - 1] + w[i] <= c[i]
    BY <1>2
  <2>2. CASE i < j
    <3>1. i - 1 < j
      BY <2>2
    <3>2. d[i - 1] = c[i - 1] + q /\ d[i] = c[i] + q
      BY <1>5, <2>1, <2>2, <3>1
    <3>3. PICK x, y \in Nat : x = c[i - 1] /\ y = c[i]
      BY <2>1
    <3>4. PICK k, m \in Nat : k = v[i] /\ m = w[i]
      BY <2>1
    <3>5. k <= m /\ x + m <= y
      BY <2>1, <3>3, <3>4
    <3>6. (x + q) + k <= y + q
      BY <3>5, StepRaised
    <3>. QED  BY <3>2, <3>3, <3>4, <3>6
  <2>3. CASE i = j
    <3>1. i - 1 < j /\ ~(i < j)
      BY <2>3
    <3>2. d[i - 1] = c[i - 1] + q /\ d[i] = c[i] /\ v[i] = 0 /\ w[i] = q
      BY <1>3, <1>5, <2>1, <2>3, <3>1
    <3>. QED  BY <1>3, <2>1, <3>2
  <2>4. CASE i > j
    <3>1. d[i - 1] = c[i - 1] /\ d[i] = c[i]
      BY <1>5, <2>1, <2>4
    <3>. QED  BY <2>1, <3>1
  <2>. QED  BY <2>1, <2>2, <2>3, <2>4
<1>8. a + q \in Nat
  BY <1>2, <1>3
<1>. QED  BY <1>2, <1>3, <1>5, <1>6, <1>7, <1>8 DEF Climb, IsClimb

\* An event that was routed is credited, and known as a duplicate afterwards.
LEMMA RunTaken ==
    ASSUME NEW s \in Seq(Events), NEW e \in In(s), NEW keys, NEW later, keys \subseteq later,
           Key(e) \in later, Key(e) \notin keys, NEW u, NEW a, NEW b,
           Run(s, Unseen(keys, u), a, b)
    PROVE  Run(s, Unseen(later, u), a + Bids(u)[e], b)
<1>1. PICK n, w, v : n = Len(s) /\ w = WeightsIn(s, Unseen(keys, u))
                     /\ v = WeightsIn(s, Unseen(later, u))
  OBVIOUS
<1>2. \A i \in 1 .. n : /\ s[i] \in Events /\ w[i] = Unseen(keys, u)[s[i]]
                        /\ v[i] = Unseen(later, u)[s[i]] /\ v[i] \in Nat
  BY <1>1, UnseenWeigh, SeqParts
<1>3. PICK j \in 1 .. n : s[j] = e
  BY <1>1 DEF In
<1>4. \A i \in 1 .. n : v[i] \in Nat /\ v[i] <= w[i]
  <2> SUFFICES ASSUME NEW i \in 1 .. n PROVE v[i] \in Nat /\ v[i] <= w[i]
    OBVIOUS
  <2>1. PICK x \in Events : x = s[i]
    BY <1>2
  <2>2. v[i] = Unseen(later, u)[x] /\ w[i] = Unseen(keys, u)[x] /\ v[i] \in Nat
    BY <1>2, <2>1
  <2>3. /\ Unseen(later, u)[x] = IF Key(x) \in later THEN 0 ELSE Bids(u)[x]
        /\ Unseen(keys, u)[x] = IF Key(x) \in keys THEN 0 ELSE Bids(u)[x]
    BY UnseenWeigh
  <2>4. Bids(u)[x] \in Nat
    BY BidsWeigh
  <2>5. Key(x) \in keys => Key(x) \in later
    OBVIOUS
  <2>. QED  BY <2>2, <2>3, <2>4, <2>5
<1>5. v[j] = 0 /\ w[j] = Bids(u)[e]
  BY <1>2, <1>3, UnseenWeigh
<1>6. Climb(n, w, a, b)
  BY <1>1 DEF Run
<1>7. Climb(n, v, a + w[j], b)
  BY <1>3, <1>4, <1>5, <1>6, ClimbTaken
<1>. QED  BY <1>1, <1>5, <1>7 DEF Run

-----------------------------------------------------------------------------
(***************************************************************************)
(* The invariant is inductive.                                             *)
(***************************************************************************)

\* Initially nobody has bought anything and nothing is to be read.
LEMMA InitBalSound == BalInit => BalSound
<1> SUFFICES ASSUME BalInit PROVE BalSound
  OBVIOUS
<1>1. /\ Init /\ cmd = 0 /\ stream = << >> /\ topic = [c \in Followed |-> << >>]
      /\ fanout = "running" /\ asset = InitAsset /\ escrow = [u \in Users |-> 0] /\ seen = {}
      /\ lost = {} /\ rows \subseteq Users /\ \A u \in Users : InitAsset[u] > 0 => u \in rows
  BY DEF BalInit, StreamInit
<1>2. IInv
  BY <1>1, InitIInv
<1>3. topic["balance"] = << >>
  BY <1>1, BalanceRowsAssumption
<1>4. BalTypeOK
  <2>1. \A u \in Users \ rows : asset[u] = 0 /\ escrow[u] = 0
    BY <1>1, UsersAssumption
  <2>. QED  BY <1>1, <2>1, UsersAssumption DEF BalTypeOK, StreamTypeOK
<1>5. \A u : Bought(u) = 0
  <2>1. \A u : OrdersOf(u, "bid") = {}
    BY <1>1 DEF Init, OrdersOf, Known
  <2>2. Summand({}, exec)
    BY FS_EmptySet DEF Summand
  <2>3. SumOver({}, exec) = 0
    BY <2>2, SumUnfolds
  <2>. QED  BY <2>1, <2>3 DEF Bought
<1>6. Pending = {}
  BY <1>1, <1>3 DEF Pending, In
<1>7. ASSUME NEW u \in Users PROVE CreditsOf(<< >>, u, Total(u))
  <2>1. PICK a \in Nat : a = Total(u)
    BY <1>2, TotalNat
  <2>2. a = InitAsset[u] /\ asset[u] = a /\ a <= a
    BY <1>1, <1>5, <2>1, UsersAssumption DEF Total
  <2>3. << >> \in Seq(Events) /\ In(<< >>) = {}
    BY DEF In
  <2>4. Run(<< >>, Unseen(seen, u), a, a)
    BY <2>1, <2>2, <2>3, UnseenWeigh, RunSilent
  <2>5. Run(stream, Bids(u), a, a)
    <3>1. stream \in Seq(Events) /\ In(stream) = {}
      BY <1>1 DEF In
    <3>. QED  BY <2>1, <2>2, <3>1, BidsWeigh, RunSilent
  <2>. QED  BY <2>1, <2>2, <2>4, <2>5 DEF CreditsOf
<1>8. CreditsBounded
  <2>1. Accounts(<< >>)
    BY <1>2, <1>3, <1>7, TotalNat DEF Accounts
  <2>2. << >> \in Seq(Events)
    OBVIOUS
  <2>. QED  BY <2>1, <2>2, Zenon DEF CreditsBounded
<1>9. CreditsComing
  BY <1>1, <1>5, UsersAssumption DEF CreditsComing
<1>. QED  BY <1>1, <1>2, <1>4, <1>6, <1>8, <1>9 DEF BalSound, SettlementsSound, CreditsRecorded

\* The parts of the types.
LEMMA BalTypes ==
    ASSUME BalSound
    PROVE  /\ IInv /\ cmd \in Nat /\ stream \in Seq(Events)
           /\ topic \in [Followed -> Seq(Events)] /\ topic["balance"] \in Seq(Events)
           /\ fanout \in {"running", "failed"} /\ asset \in [Users -> Nat]
           /\ escrow \in [Users -> Int] /\ seen \subseteq Nat \X Users \X EventTypes
           /\ rows \subseteq Users /\ lost \subseteq Users
           /\ \A u \in Users \ rows : asset[u] = 0 /\ escrow[u] = 0
  BY BalanceRowsAssumption DEF BalSound, BalTypeOK, StreamTypeOK

\* The engine appends what its step settles to the stream.
LEMMA EngineKeepsBal ==
    ASSUME BalSound, EngineStep, UNCHANGED hvars
    PROVE  BalSound'
<1>1. /\ IInv /\ cmd \in Nat /\ stream \in Seq(Events)
      /\ topic \in [Followed -> Seq(Events)] /\ topic["balance"] \in Seq(Events)
      /\ fanout \in {"running", "failed"} /\ asset \in [Users -> Nat]
      /\ UNCHANGED <<rows, asset, escrow, seen, lost>>
  BY BalTypes DEF hvars
<1>2. PICK new : stream' = stream \o new /\ Settles(new)
  BY <1>1, EngineSettles
<1>3. IInv' /\ cmd' \in Nat /\ topic' = topic /\ fanout' = fanout
  BY <1>1, EngineSettles
<1>4. /\ new \in Seq(Events) /\ \A e \in In(new) : SettlementSound(e)
      /\ \A u \in Users : /\ Run(new, Bids(u), Total(u), Total(u)')
                          /\ Bought(u)' = Bought(u) \/ u = System \/ \E e \in In(new) : IsBid(e, u)
  BY <1>2 DEF Settles
<1>5. stream' \in Seq(Events) /\ In(stream') = In(stream) \cup In(new)
  BY <1>1, <1>2, <1>4, InConcat
<1>6. Pending' = Pending \cup In(new)
  BY <1>3, <1>5 DEF Pending
<1>7. BalTypeOK'
  BY <1>1, <1>3, <1>5 DEF BalSound, BalTypeOK, StreamTypeOK
<1>8. CreditsBounded'
  <2>1. PICK routed \in Seq(Events) : Accounts(routed)
    BY DEF BalSound, CreditsBounded
  <2>2. ASSUME NEW u \in Users PROVE \E b \in Nat : CreditsOf(routed, u, b)'
    <3>1. PICK b \in Nat : CreditsOf(routed, u, b)
      BY <2>1 DEF Accounts
    <3>2. Run(stream, Bids(u), b, Total(u)) /\ Run(new, Bids(u), Total(u), Total(u)')
      BY <1>4, <3>1 DEF CreditsOf
    <3>3. Run(stream \o new, Bids(u), b, Total(u)')
      BY <1>1, <1>4, <3>2, BidsWeigh, RunConcat
    <3>. QED  BY <1>1, <1>2, <3>1, <3>3 DEF CreditsOf
  <2>3. Accounts(routed)'
    BY <1>3, <2>1, <2>2 DEF Accounts
  <2>. QED  BY <2>1, <2>3 DEF CreditsBounded
<1>9. SettlementsSound'
  BY <1>4, <1>6 DEF BalSound, SettlementsSound, SettlementSound
<1>10. CreditsComing'
  <2> SUFFICES ASSUME NEW u \in Users
               PROVE  /\ asset[u] >= InitAsset[u]
                      /\ u # System /\ u \notin lost /\ Bought(u)' > 0 => CreditComes(u)'
    BY <1>1 DEF CreditsComing
  <2>1. /\ asset[u] >= InitAsset[u]
        /\ u # System /\ u \notin lost /\ Bought(u) > 0 => CreditComes(u)
    BY DEF BalSound, CreditsComing
  <2>2. CreditComes(u) => CreditComes(u)'
    BY <1>1, <1>6 DEF CreditComes
  <2>3. (\E e \in In(new) : IsBid(e, u)) => CreditComes(u)'
    BY <1>6 DEF CreditComes, IsBid
  <2>. QED  BY <1>4, <2>1, <2>2, <2>3
<1>11. CreditsRecorded'
  BY <1>1 DEF BalSound, CreditsRecorded
<1>. QED  BY <1>3, <1>7, <1>8, <1>9, <1>10, <1>11 DEF BalSound

\* What a user bought does not depend on the topics.
LEMMA UnchangedBought ==
    ASSUME UNCHANGED vars
    PROVE  \A u : Bought(u)' = Bought(u) /\ Total(u)' = Total(u)
  BY NoFillBuysNothing DEF vars, Total

\* The fanout moves an event, once or several times, and keeps the others.
LEMMA RouteKeepsBal ==
    ASSUME BalSound, NEW copies \in 1 .. MaxCopies, Route(copies),
           UNCHANGED <<vars, hvars>>
    PROVE  BalSound'
<1>1. /\ IInv /\ cmd \in Nat /\ stream \in Seq(Events)
      /\ topic \in [Followed -> Seq(Events)] /\ topic["balance"] \in Seq(Events)
      /\ fanout \in {"running", "failed"} /\ asset \in [Users -> Nat]
      /\ copies \in Nat /\ copies > 0
      /\ UNCHANGED <<rows, asset, escrow, seen, lost>>
  BY BalTypes, StreamAssumption DEF hvars
<1>2. PICK h, t, c : h = Head(stream) /\ t = topic["balance"] /\ c = [j \in 1 .. copies |-> h]
  OBVIOUS
<1>3. /\ stream # << >> /\ stream' = Tail(stream) /\ topic' = [topic EXCEPT ![h.cat] = @ \o c]
      /\ cmd' = cmd /\ fanout' = fanout
  BY <1>2 DEF Route
<1>4. h \in Events /\ stream' \in Seq(Events) /\ In(stream) = {h} \cup In(stream')
  BY <1>1, <1>2, <1>3, InTail
<1>5. /\ c \in Seq(Events) /\ In(c) = {h}
  <2>1. Len(c) = copies /\ DOMAIN c = 1 .. copies /\ \A i \in 1 .. copies : c[i] = h
    BY <1>1, <1>2
  <2>2. 1 \in 1 .. copies
    BY <1>1
  <2>3. c \in Seq(Events)
    BY <1>1, <1>2, <1>4
  <2>. QED  BY <2>1, <2>2, <2>3 DEF In
<1>6. topic' \in [Followed -> Seq(Events)]
  <2>1. \A k \in Followed : topic[k] \in Seq(Events) /\ topic[k] \o c \in Seq(Events)
    BY <1>1, <1>5, InConcat
  <2>. QED  BY <1>1, <1>3, <2>1
<1>7. topic'["balance"] = IF h.cat = "balance" THEN t \o c ELSE t
  BY <1>1, <1>2, <1>3, BalanceRowsAssumption
<1>8. t \in Seq(Events) /\ In(t \o c) = In(t) \cup {h}
  <2>1. t \in Seq(Events) /\ c \in Seq(Events)
    BY <1>1, <1>2, <1>5
  <2>2. In(t \o c) = In(t) \cup In(c)
    BY <2>1, InConcat
  <2>. QED  BY <1>5, <2>1, <2>2
<1>9. SettlementSound(h)
  BY <1>2, <1>4 DEF BalSound, SettlementsSound, Pending
<1>10. /\ Pending' \subseteq Pending
       /\ \A e \in Pending : e \in Pending' \/ e = h
       /\ h.cat = "balance" => h \in Pending'
  <2>1. Pending = In(stream) \cup In(t) /\ Pending' = In(stream') \cup In(topic'["balance"])
    BY <1>2 DEF Pending
  <2>. QED  BY <1>4, <1>7, <1>8, <2>1
<1>11. IInv'
  BY <1>1, NextIInv DEF vars
<1>12. \A u : Bought(u)' = Bought(u) /\ Total(u)' = Total(u)
  BY UnchangedBought
<1>13. BalTypeOK'
  BY <1>1, <1>3, <1>4, <1>6 DEF BalSound, BalTypeOK, StreamTypeOK
<1>14. CreditsBounded'
  <2>1. PICK routed \in Seq(Events) : Accounts(routed)
    BY DEF BalSound, CreditsBounded
  <2>2. PICK more : more = IF h.cat = "balance" THEN Append(routed, h) ELSE routed
    OBVIOUS
  <2>3. /\ more \in Seq(Events) /\ In(routed) \subseteq In(more)
        /\ h.cat = "balance" => h \in In(more)
    <3>1. Append(routed, h) = routed \o <<h>> /\ <<h>> \in Seq(Events) /\ In(<<h>>) = {h}
      BY <1>4 DEF In
    <3>2. routed \o <<h>> \in Seq(Events) /\ In(routed \o <<h>>) = In(routed) \cup In(<<h>>)
      BY <3>1, InConcat
    <3>. QED  BY <2>2, <3>1, <3>2
  <2>4. In(topic'["balance"]) \subseteq In(more)
    BY <1>2, <1>7, <1>8, <2>1, <2>3 DEF Accounts
  <2>5. ASSUME NEW u \in Users PROVE \E b \in Nat : CreditsOf(more, u, b)'
    <3>1. PICK b \in Nat : CreditsOf(routed, u, b)
      BY <2>1 DEF Accounts
    <3>2. /\ Run(routed, Unseen(seen, u), asset[u], b)
          /\ Run(stream, Bids(u), b, Total(u))
      BY <3>1 DEF CreditsOf
    <3>3. PICK d \in Nat : d = b + Bids(u)[h] /\ Run(stream', Bids(u), d, Total(u))
      BY <1>1, <1>2, <1>3, <3>2, BidsWeigh, RunTail
    <3>4. CASE h.cat = "balance"
      <4>1. PICK f \in [Events -> Nat] : f = Unseen(seen, u)
        BY UnseenWeigh
      <4>2. Run(more, f, asset[u], b + f[h])
        BY <1>4, <2>2, <3>2, <3>4, <4>1, RunAppend
      <4>3. b + f[h] \in Nat /\ asset[u] \in Nat /\ asset[u] <= asset[u] /\ b + f[h] <= d
        BY <1>1, <1>4, <3>3, <4>1, UnseenWeigh, BidsWeigh
      <4>4. Run(more, f, asset[u], d)
        BY <2>3, <3>3, <4>2, <4>3, RunBounds
      <4>. QED  BY <1>1, <1>12, <3>3, <4>1, <4>4 DEF CreditsOf
    <3>5. CASE h.cat # "balance"
      <4>1. Bids(u)[h] = 0
        BY <1>4, <1>9, <3>5, BidsWeigh DEF SettlementSound, IsBid
      <4>2. d = b
        BY <3>3, <4>1
      <4>. QED  BY <1>1, <1>12, <2>2, <3>2, <3>3, <3>5, <4>2 DEF CreditsOf
    <3>. QED  BY <3>4, <3>5
  <2>6. Accounts(more)'
    BY <2>4, <2>5 DEF Accounts
  <2>. QED  BY <2>3, <2>6 DEF CreditsBounded
<1>15. SettlementsSound'
  BY <1>10 DEF BalSound, SettlementsSound, SettlementSound
<1>16. CreditsComing'
  <2> SUFFICES ASSUME NEW u \in Users
               PROVE  /\ asset[u] >= InitAsset[u]
                      /\ u # System /\ u \notin lost /\ Bought(u)' > 0 => CreditComes(u)'
    BY <1>1 DEF CreditsComing
  <2>1. /\ asset[u] >= InitAsset[u]
        /\ u # System /\ u \notin lost /\ Bought(u) > 0 => CreditComes(u)
    BY DEF BalSound, CreditsComing
  <2>2. \A e \in Pending : IsBid(e, u) => e \in Pending'
    BY <1>9, <1>10 DEF IsBid, SettlementSound
  <2>3. CreditComes(u) => CreditComes(u)'
    BY <1>1, <2>2 DEF CreditComes, IsBid
  <2>. QED  BY <1>12, <2>1, <2>3
<1>17. CreditsRecorded'
  BY <1>1 DEF BalSound, CreditsRecorded
<1>. QED  BY <1>11, <1>13, <1>14, <1>15, <1>16, <1>17 DEF BalSound

\* The fanout ends and leaves everything where it is.
LEMMA FailKeepsBal ==
    ASSUME BalSound, UNCHANGED <<vars, cmd, stream, topic, hvars>>,
           fanout' \in {"running", "failed"}
    PROVE  BalSound'
<1>0. UNCHANGED <<rows, asset, escrow, seen, lost>>
  BY DEF hvars
<1>1. IInv'
  BY NextIInv DEF vars, BalSound
<1>2. \A u : Bought(u)' = Bought(u) /\ Total(u)' = Total(u)
  BY UnchangedBought
<1>3. BalTypeOK'
  BY <1>0 DEF BalSound, BalTypeOK, StreamTypeOK
<1>4. CreditsBounded'
  <2>1. PICK routed \in Seq(Events) : Accounts(routed)
    BY DEF BalSound, CreditsBounded
  <2>2. Accounts(routed)'
    BY <1>0, <1>2, <2>1 DEF Accounts, CreditsOf
  <2>. QED  BY <2>1, <2>2 DEF CreditsBounded
<1>5. SettlementsSound' /\ CreditsRecorded'
  BY <1>0 DEF BalSound, SettlementsSound, Pending, SettlementSound, CreditsRecorded
<1>6. Pending' = Pending
  BY DEF Pending
<1>7. CreditsComing'
  BY <1>0, <1>2, <1>6 DEF BalSound, CreditsComing, CreditComes, IsBid
<1>. QED  BY <1>1, <1>3, <1>4, <1>5, <1>7 DEF BalSound

\* BalanceEventHandler reads an event: what it records it credits, and it
\* records every settlement of a bid that it did not know, unless the database
\* refuses it.
Reads(e) ==
    /\ Consume("balance")
    /\ e = Head(topic["balance"])
    /\ seen \subseteq seen'
    /\ \A k \in seen' \ seen : k = Key(e)
    /\ Key(e) \in seen' \/ e.type # "bid_settled" \/ e.user \in lost'
    /\ asset' = [u \in Users |-> asset[u] + IF Key(e) \in seen' \ seen THEN Bids(u)[e] ELSE 0]
    /\ escrow' \in [Users -> Int]
    /\ lost \subseteq lost' /\ lost' \subseteq Users /\ rows' \subseteq Users
    /\ \A u \in Users \ rows' : asset'[u] = 0 /\ escrow'[u] = 0

\* Each of its four ways does so.
LEMMA HandlerReads ==
    ASSUME BalSound, HandlerStep
    PROVE  \E e \in Events : Reads(e)
<1>1. /\ topic["balance"] \in Seq(Events) /\ asset \in [Users -> Nat]
      /\ escrow \in [Users -> Int] /\ seen \subseteq Nat \X Users \X EventTypes
      /\ rows \subseteq Users /\ lost \subseteq Users
      /\ \A u \in Users \ rows : asset[u] = 0 /\ escrow[u] = 0
  BY BalTypes
<1>2. PICK e : e = Head(topic["balance"])
  OBVIOUS
<1>3. Consume("balance") /\ topic["balance"] # << >>
  BY DEF HandlerStep, HandleBalanceEvent, AskSettledRaises, DatabaseRaises, DropDuplicate,
         Consume
<1>4. e \in Events
  BY <1>1, <1>2, <1>3, InTail
<1>5. /\ e.qty \in Nat /\ e.user \in Users
      /\ \A u \in Users : Bids(u)[e] = IF IsBid(e, u) THEN e.qty ELSE 0
  BY <1>4, BidsWeigh
<1>6. CASE HandleBalanceEvent
  <2>1. /\ Key(e) \notin seen /\ seen' = seen \cup {Key(e)} /\ lost' = lost
        /\ asset' = IF e.type = "bid_settled" THEN IncreaseAssetBalance(e) ELSE asset
        /\ escrow' = [escrow EXCEPT ![e.user] =
                         CASE e.type = "asset_escrow_increased" -> @ + e.qty
                           [] e.type = "asset_escrow_decreased" /\ e.user \in rows -> @ - e.qty
                           [] OTHER -> @]
        /\ rows' = IF e.type \in {"bid_settled", "asset_escrow_increased"}
                   THEN rows \cup {e.user} ELSE rows
    BY <1>2, <1>6 DEF HandleBalanceEvent, AdjustAssetBalance
  <2>2. /\ escrow' \in [Users -> Int]
        /\ \A u \in Users : u # e.user => escrow'[u] = escrow[u]
        /\ e.type # "asset_escrow_increased" /\ e.user \notin rows =>
              escrow'[e.user] = escrow[e.user]
    <3>1. PICK k : k = CASE e.type = "asset_escrow_increased" -> escrow[e.user] + e.qty
                         [] e.type = "asset_escrow_decreased" /\ e.user \in rows ->
                                escrow[e.user] - e.qty
                         [] OTHER -> escrow[e.user]
      OBVIOUS
    <3>2. escrow' = [escrow EXCEPT ![e.user] = k]
      BY <1>1, <1>5, <2>1, <3>1
    <3>3. CASE e.type = "asset_escrow_increased"
      <4>1. k = escrow[e.user] + e.qty
        BY <3>1, <3>3
      <4>. QED  BY <1>1, <1>5, <3>2, <3>3, <4>1
    <3>4. CASE e.type = "asset_escrow_decreased" /\ e.user \in rows
      <4>1. k = escrow[e.user] - e.qty
        BY <3>1, <3>4
      <4>. QED  BY <1>1, <1>5, <3>2, <3>4, <4>1
    <3>5. CASE /\ e.type # "asset_escrow_increased"
               /\ ~(e.type = "asset_escrow_decreased" /\ e.user \in rows)
      <4>1. k = escrow[e.user]
        BY <3>1, <3>5
      <4>. QED  BY <1>1, <1>5, <3>2, <3>5, <4>1
    <3>. QED  BY <3>3, <3>4, <3>5
  <2>3. /\ asset' = [u \in Users |->
                        asset[u] + IF Key(e) \in seen' \ seen THEN Bids(u)[e] ELSE 0]
        /\ e.type # "bid_settled" => asset' = asset
        /\ \A u \in Users : u # e.user => asset'[u] = asset[u]
    <3>0. Key(e) \in seen' \ seen
      BY <2>1
    <3>1. CASE e.type = "bid_settled"
      <4>1. asset' = [asset EXCEPT ![e.user] = @ + e.qty]
        BY <2>1, <3>1 DEF IncreaseAssetBalance
      <4>2. \A u \in Users : asset'[u] = asset[u] + IF Key(e) \in seen' \ seen THEN Bids(u)[e] ELSE 0
        BY <1>1, <1>5, <3>0, <3>1, <4>1 DEF IsBid
      <4>3. asset' \in [Users -> Nat]
        BY <1>1, <1>5, <4>1
      <4>. QED  BY <1>1, <3>1, <4>1, <4>2, <4>3
    <3>2. CASE e.type # "bid_settled"
      <4>1. asset' = asset /\ \A u \in Users : Bids(u)[e] = 0
        BY <1>5, <2>1, <3>2 DEF IsBid
      <4>. QED  BY <1>1, <4>1
    <3>. QED  BY <3>1, <3>2
  <2>4. \A u \in Users \ rows' : asset'[u] = 0 /\ escrow'[u] = 0
    BY <1>1, <1>5, <2>1, <2>2, <2>3
  <2>5. rows' \subseteq Users
    BY <1>1, <1>5, <2>1
  <2>. QED  BY <1>1, <1>2, <1>3, <1>4, <2>1, <2>2, <2>3, <2>4, <2>5 DEF Reads
<1>7. CASE AskSettledRaises \/ DatabaseRaises \/ DropDuplicate
  <2>1. /\ rows' = rows /\ asset' = asset /\ escrow' = escrow /\ seen' = seen
        /\ lost' = lost \/ lost' = lost \cup {e.user}
        /\ Key(e) \in seen' \/ e.type # "bid_settled" \/ e.user \in lost'
    BY <1>2, <1>7 DEF AskSettledRaises, DatabaseRaises, DropDuplicate, hvars
  <2>2. asset' = [u \in Users |-> asset[u] + IF Key(e) \in seen' \ seen THEN Bids(u)[e] ELSE 0]
    BY <1>1, <2>1
  <2>3. lost \subseteq lost' /\ lost' \subseteq Users
    BY <1>1, <1>5, <2>1
  <2>. QED  BY <1>1, <1>2, <1>3, <1>4, <2>1, <2>2, <2>3 DEF Reads
<1>. QED  BY <1>6, <1>7 DEF HandlerStep

\* The handler reads an event and keeps the account.
LEMMA HandlerKeepsBal ==
    ASSUME BalSound, NEW e \in Events, Reads(e)
    PROVE  BalSound'
<1>1. /\ IInv /\ cmd \in Nat /\ stream \in Seq(Events)
      /\ topic \in [Followed -> Seq(Events)] /\ topic["balance"] \in Seq(Events)
      /\ fanout \in {"running", "failed"} /\ asset \in [Users -> Nat]
      /\ seen \subseteq Nat \X Users \X EventTypes
  BY BalTypes
<1>2. PICK t : t = topic["balance"]
  OBVIOUS
<1>3. /\ t # << >> /\ t \in Seq(Events) /\ e = Head(t)
      /\ topic' = [topic EXCEPT !["balance"] = Tail(t)]
      /\ UNCHANGED vars /\ cmd' = cmd /\ stream' = stream /\ fanout' = fanout
  BY <1>1, <1>2 DEF Reads, Consume
<1>4. /\ seen \subseteq seen' /\ (\A k \in seen' \ seen : k = Key(e))
      /\ (Key(e) \in seen' \/ e.type # "bid_settled" \/ e.user \in lost')
      /\ escrow' \in [Users -> Int] /\ lost \subseteq lost' /\ lost' \subseteq Users
      /\ rows' \subseteq Users /\ \A u \in Users \ rows' : asset'[u] = 0 /\ escrow'[u] = 0
  BY DEF Reads
<1>5. /\ Tail(t) \in Seq(Events) /\ In(t) = {e} \cup In(Tail(t))
  BY <1>3, InTail
<1>6. topic' \in [Followed -> Seq(Events)] /\ topic'["balance"] = Tail(t)
  BY <1>1, <1>3, <1>5, BalanceRowsAssumption
<1>7. e.cmd \in Nat /\ e.user \in Users /\ e.qty \in Nat /\ e.type \in EventTypes
  BY DEF Events
<1>8. \A u \in Users : Bids(u)[e] \in Nat /\ Bids(u)[e] = IF IsBid(e, u) THEN e.qty ELSE 0
  BY BidsWeigh
<1>9. \A u \in Users : asset'[u] = asset[u] + IF Key(e) \in seen' \ seen THEN Bids(u)[e] ELSE 0
  BY DEF Reads
<1>10. asset' \in [Users -> Nat] /\ \A u \in Users : asset'[u] >= asset[u]
  <2>1. asset' = [u \in Users |-> asset[u] + IF Key(e) \in seen' \ seen THEN Bids(u)[e] ELSE 0]
    BY DEF Reads
  <2>. QED  BY <1>1, <1>8, <1>9, <2>1
<1>11. seen' \subseteq Nat \X Users \X EventTypes
  BY <1>1, <1>4, <1>7 DEF Key
<1>12. IInv'
  BY <1>1, <1>3, NextIInv
<1>13. \A u : Bought(u)' = Bought(u) /\ Total(u)' = Total(u)
  BY <1>3, UnchangedBought
<1>14. BalTypeOK'
  BY <1>1, <1>3, <1>4, <1>6, <1>10, <1>11 DEF BalTypeOK, StreamTypeOK
<1>15. Pending = {e} \cup Pending' /\ SettlementSound(e)
  <2>1. Pending = In(stream) \cup In(t) /\ Pending' = In(stream) \cup In(Tail(t))
    BY <1>2, <1>3, <1>6 DEF Pending
  <2>2. Pending = {e} \cup Pending'
    BY <1>5, <2>1
  <2>. QED  BY <2>2 DEF BalSound, SettlementsSound
<1>16. SettlementsSound'
  BY <1>15 DEF BalSound, SettlementsSound, SettlementSound
<1>17. CreditsBounded'
  <2>1. PICK routed \in Seq(Events) : Accounts(routed)
    BY DEF BalSound, CreditsBounded
  <2>2. e \in In(routed) /\ In(topic'["balance"]) \subseteq In(routed)
    BY <1>2, <1>5, <1>6, <2>1 DEF Accounts
  <2>3. ASSUME NEW u \in Users PROVE \E b \in Nat : CreditsOf(routed, u, b)'
    <3>1. PICK b \in Nat : CreditsOf(routed, u, b)
      BY <2>1 DEF Accounts
    <3>2. Run(routed, Unseen(seen, u), asset[u], b) /\ Run(stream, Bids(u), b, Total(u))
      BY <3>1 DEF CreditsOf
    <3>3. CASE Key(e) \in seen' \ seen
      <4>1. Run(routed, Unseen(seen', u), asset[u] + Bids(u)[e], b)
        BY <1>4, <2>2, <3>2, <3>3, RunTaken
      <4>2. asset'[u] = asset[u] + Bids(u)[e]
        BY <1>9, <3>3
      <4>. QED  BY <1>3, <1>13, <3>2, <4>1, <4>2 DEF CreditsOf
    <3>4. CASE Key(e) \notin seen' \ seen
      <4>1. seen' = seen
        BY <1>4, <3>4
      <4>2. asset'[u] = asset[u]
        BY <1>1, <1>9, <3>4
      <4>. QED  BY <1>3, <1>13, <3>2, <4>1, <4>2 DEF CreditsOf
    <3>. QED  BY <3>3, <3>4
  <2>4. Accounts(routed)'
    BY <2>2, <2>3 DEF Accounts
  <2>. QED  BY <2>4 DEF CreditsBounded
<1>18. ASSUME NEW u \in Users, IsBid(e, u), Key(e) \in seen' PROVE asset'[u] > InitAsset[u]
  <2>1. asset[u] >= InitAsset[u] /\ InitAsset[u] \in Nat /\ asset[u] \in Nat
    BY <1>1, UsersAssumption DEF BalSound, CreditsComing
  <2>2. CASE Key(e) \in seen
    <3>1. Key(e) = <<e.cmd, u, "bid_settled">>
      BY <1>18 DEF IsBid, Key
    <3>2. asset[u] > InitAsset[u]
      BY <1>7, <2>2, <3>1 DEF BalSound, CreditsRecorded
    <3>. QED  BY <1>10, <2>1, <3>2
  <2>3. CASE Key(e) \notin seen
    <3>1. e.qty > 0
      BY <1>15, <1>18 DEF SettlementSound, IsBid
    <3>2. asset'[u] = asset[u] + e.qty
      BY <1>8, <1>9, <1>18, <2>3
    <3>. QED  BY <1>7, <2>1, <3>1, <3>2
  <2>. QED  BY <2>2, <2>3
<1>19. \A u \in Users : asset[u] > InitAsset[u] => asset'[u] > InitAsset[u]
  BY <1>1, <1>10, UsersAssumption
<1>20. CreditsComing'
  <2> SUFFICES ASSUME NEW u \in Users
               PROVE  /\ asset'[u] >= InitAsset[u]
                      /\ u # System /\ u \notin lost' /\ Bought(u)' > 0 => CreditComes(u)'
    BY DEF CreditsComing
  <2>1. /\ asset[u] >= InitAsset[u]
        /\ u # System /\ u \notin lost /\ Bought(u) > 0 => CreditComes(u)
    BY DEF BalSound, CreditsComing
  <2>2. asset'[u] >= InitAsset[u]
    BY <1>1, <1>10, <2>1, UsersAssumption
  <2>3. u \notin lost' /\ CreditComes(u) => CreditComes(u)'
    BY <1>4, <1>15, <1>18, <1>19 DEF CreditComes, IsBid
  <2>. QED  BY <1>4, <1>13, <2>1, <2>2, <2>3
<1>21. CreditsRecorded'
  <2> SUFFICES ASSUME NEW c \in Nat, NEW u \in Users, <<c, u, "bid_settled">> \in seen'
               PROVE  asset'[u] > InitAsset[u]
    BY DEF CreditsRecorded
  <2>1. CASE <<c, u, "bid_settled">> \in seen
    BY <1>19, <2>1 DEF BalSound, CreditsRecorded
  <2>2. CASE <<c, u, "bid_settled">> = Key(e)
    BY <1>18, <2>2 DEF Key, IsBid
  <2>. QED  BY <1>4, <2>1, <2>2
<1>. QED  BY <1>12, <1>14, <1>16, <1>17, <1>20, <1>21 DEF BalSound

\* Every step keeps the invariant.
LEMMA NextBalSound == BalSound /\ [BalNext]_bvars => BalSound'
<1> SUFFICES ASSUME BalSound, [BalNext]_bvars PROVE BalSound'
  OBVIOUS
<1>1. CASE EngineStep /\ UNCHANGED hvars
  BY <1>1, EngineKeepsBal
<1>2. CASE FanoutStep /\ UNCHANGED <<vars, hvars>>
  <2>1. ASSUME NEW copies \in 1 .. MaxCopies, Route(copies) PROVE BalSound'
    BY <1>2, <2>1, RouteKeepsBal
  <2>2. CASE FanoutFails
    BY <1>2, <2>2, FailKeepsBal DEF FanoutFails
  <2>. QED  BY <1>2, <2>1, <2>2 DEF FanoutStep
<1>3. CASE HandlerStep
  BY <1>3, HandlerReads, HandlerKeepsBal
<1>4. CASE UNCHANGED bvars
  <2>1. UNCHANGED <<vars, cmd, stream, topic, hvars>> /\ fanout' = fanout
    BY <1>4 DEF bvars, evars, svars
  <2>. QED  BY <2>1, BalTypes, FailKeepsBal
<1>. QED  BY <1>1, <1>2, <1>3, <1>4 DEF BalNext

-----------------------------------------------------------------------------
(***************************************************************************)
(* The theorems.                                                           *)
(***************************************************************************)

\* The account of what is in the rows, in the topics and still to be routed is
\* kept in every state.
THEOREM CreditsAccounted == BalSpec => []BalSound
  BY InitBalSound, NextBalSound, PTL DEF BalSpec

\* BalanceEventHandler: no row ever shows more than its user had and bought,
\* however often a message is delivered and however often one command settles the
\* same user.
THEOREM NeverCreditedTwice == BalSpec => []BalInv
<1>1. BalSound => BalInv
  <2> SUFFICES ASSUME BalSound PROVE NoDoubleCredit
    BY DEF BalSound, BalInv
  <2> SUFFICES ASSUME NEW u \in Users PROVE asset[u] <= InitAsset[u] + Bought(u)
    BY DEF NoDoubleCredit
  <2>0. PICK routed \in Seq(Events) : Accounts(routed)
    BY DEF BalSound, CreditsBounded
  <2>1. PICK b \in Nat : CreditsOf(routed, u, b)
    BY <2>0 DEF Accounts
  <2>2. asset[u] <= b
    BY <2>1, ClimbRises DEF CreditsOf, Run
  <2>3. b <= Total(u)
    BY <2>1, BalTypes, BidsWeigh, RunBounds DEF CreditsOf
  <2>4. asset[u] \in Nat /\ Total(u) \in Nat
    BY BalTypes, TotalNat
  <2>. QED  BY <2>2, <2>3, <2>4 DEF Total
<1>. QED  BY <1>1, CreditsAccounted, PTL

\* Once every event has been read, the row of a user who bought and sold nothing
\* has grown, unless BalanceEventHandler lost an event of the user to a database
\* error.
THEOREM BuyersCreditedWhenDrained == BalSpec => []BuyersCredited
<1>1. BalSound => BuyersCredited
  <2> SUFFICES ASSUME BalSound, Drained, NEW u \in Users \ (lost \cup {System}), Bought(u) > 0
               PROVE  asset[u] > InitAsset[u]
    BY DEF BuyersCredited
  <2>1. Pending = {}
    BY BalanceRowsAssumption DEF Drained, Pending, In
  <2>. QED  BY <2>1 DEF BalSound, CreditsComing, CreditComes
<1>. QED  BY <1>1, CreditsAccounted, PTL

=============================================================================
