------------------------------ MODULE OrderBook ------------------------------
(***************************************************************************)
(* The limit order book of one symbol: engine/orderbook.  A book is a      *)
(* value, and each operation of the class OrderBook is an operator from    *)
(* books to books.                                                         *)
(*                                                                         *)
(* A price level is a FIFO queue of orders (a doubly linked list with a    *)
(* tracker dictionary in PriceLevel).  A side of the book is a SortedDict  *)
(* from prices to levels that holds a price exactly when its level is not  *)
(* empty, so here it is a function on all prices and the absent levels are *)
(* the empty queues.  The best price of each side is cached by the code in *)
(* an attribute of its own; it is a field of its own here, so that the     *)
(* cache can be compared with the levels.                                  *)
(*                                                                         *)
(* Prices are ticks 1..MaxPrice.                                           *)
(***************************************************************************)
EXTENDS Integers, Sequences, SequencesExt

CONSTANTS MaxPrice,    \* the highest tick an order may quote
          MaxOrders    \* bound: the number of orders ever submitted

ASSUME MaxPriceAssumption == MaxPrice \in Nat \ {0}

ASSUME MaxOrdersAssumption == MaxOrders \in Nat \ {0}

Sides == {"bid", "ask"}

Prices == 1 .. MaxPrice

\* Orders are numbered in the order in which the engine receives them.
OrderIds == 1 .. MaxOrders

\* The value None of _best_bid_price and _best_ask_price.
NoPrice == 0

Opposite(side) == IF side = "bid" THEN "ask" ELSE "bid"

\* p is a strictly more attractive quote than q for the other side.
Better(side, p, q) == IF side = "bid" THEN p > q ELSE p < q

Books == [level : [Sides -> [Prices -> Seq(OrderIds)]],
          best  : [Sides -> Prices \cup {NoPrice}]]

EmptyBook == [level |-> [s \in Sides |-> [p \in Prices |-> << >>]],
              best  |-> [s \in Sides |-> NoPrice]]

\* The keys of self._bids or self._asks: the prices with a level.
Quotes(book, side) == {p \in Prices : book.level[side][p] # << >>}

\* peekitem(-1) of the bids, peekitem(0) of the asks, None of an empty side.
Extremum(side, P) ==
    IF P = {} THEN NoPrice ELSE IF side = "bid" THEN Max(P) ELSE Min(P)

OnLevel(book, side, price, o) ==
    \E i \in DOMAIN book.level[side][price] : book.level[side][price][i] = o

Position(q, o) == CHOOSE i \in DOMAIN q : q[i] = o

\* PriceLevel.append of an order that is not on the level (for one that is,
\* it raises ValueError).
Enqueue(q, o) == Append(q, o)

\* PriceLevel.remove: what is left of a queue without an order that is on it.
Dequeue(q, o) == RemoveAt(q, Position(q, o))

\* Variant of AppendOrder: the order goes to the head of its level.
AppendOrderAtHead(book, side, price, o) ==
    [level |-> [book.level EXCEPT ![side][price] = <<o>> \o @],
     best  |-> [book.best EXCEPT ![side] =
                   IF @ = NoPrice \/ Better(side, price, @) THEN price ELSE @]]

\* OrderBook.append.
AppendOrder(book, side, price, o) ==
    [level |-> [book.level EXCEPT ![side][price] = Enqueue(@, o)],
     best  |-> [book.best EXCEPT ![side] =
                   IF @ = NoPrice \/ Better(side, price, @) THEN price ELSE @]]

\* Variant of RemoveOrder: the cached best price is not moved.
RemoveOrderKeepBest(book, side, price, o) ==
    [book EXCEPT !.level[side][price] = Dequeue(@, o)]

\* OrderBook.remove of an order that is on the level.
\* The cached best price moves only when the level that is now empty was the
\* extreme one, and then to the next level of the SortedDict.
RemoveOrder(book, side, price, o) ==
    LET rest == Dequeue(book.level[side][price], o)
        P    == Quotes(book, side)
    IN  [level |-> [book.level EXCEPT ![side][price] = rest],
         best  |-> [book.best EXCEPT ![side] =
                       IF rest = << >> /\ price = Extremum(side, P)
                       THEN Extremum(side, P \ {price})
                       ELSE @]]

\* Variant of LimitCrossable: an order at the best price does not cross.
LimitCrossableStrictly(book, side, price) ==
    LET best == book.best[Opposite(side)]
    IN  best # NoPrice /\ IF side = "bid" THEN price > best ELSE price < best

\* utils.limit_crossable
LimitCrossable(book, side, price) ==
    LET best == book.best[Opposite(side)]
    IN  best # NoPrice /\ IF side = "bid" THEN price >= best ELSE price <= best

\* utils.stop_crossable
StopCrossable(book, side, price) ==
    LET best == book.best[Opposite(side)]
    IN  best # NoPrice /\ IF side = "bid" THEN price <= best ELSE price >= best

-----------------------------------------------------------------------------
\* The cached best prices are the extreme prices of the levels.
BestIsExtremum(book) ==
    \A s \in Sides : book.best[s] = Extremum(s, Quotes(book, s))

\* No order is twice on a level.
NoDuplicates(book) ==
    \A s \in Sides, p \in Prices :
        \A i, j \in DOMAIN book.level[s][p] :
            book.level[s][p][i] = book.level[s][p][j] => i = j

=============================================================================
