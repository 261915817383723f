----------------------------- MODULE PaperBook -----------------------------
(***************************************************************************)
(* The book of the paper broker (paper.py): cash and realized profit per   *)
(* currency, one position per symbol, the filled orders.  Every fill is    *)
(* atomic here; PaperFlow shows how the server makes it so.                *)
(*                                                                         *)
(* A position keeps its cost, quantity times avg_price, in place of        *)
(* avg_price, so that the weighted average needs no fractions.             *)
(***************************************************************************)
EXTENDS Orders

CONSTANTS
  Symbol,
  Trade,       \* [Order -> TradeType], what each order asks of the broker
  Price,       \* what a MARKET order can fill at
  StartCash    \* paper_starting_cash

TradeType == [symbol : Symbol, side : {"BUY", "SELL"}, quantity : Nat \ {0}, market : BOOLEAN]

VARIABLE book

NoPosition == [quantity |-> 0, cost |-> 0, currency |-> "none"]

EmptyBook ==
  [cash |-> StartCash, realized |-> [c \in Currency |-> 0],
   position |-> [s \in Symbol |-> NoPosition], filled |-> {}]

PositionOf(b, o) == b.position[Trade[o].symbol]

\* A limit order fills at its own price, a MARKET order at the price of the day.
FillPrices(o) == IF Trade[o].market THEN Price ELSE {OrderSpec[o].notional \div Trade[o].quantity}

Covered(b, o, price) ==
  IF Trade[o].side = "BUY"
    THEN price * Trade[o].quantity <= b.cash[CurrencyOf(o)]
    ELSE Trade[o].quantity <= PositionOf(b, o).quantity

\* A position takes its currency from the buy that opens it.
Bought(b, o, price) ==
  LET amount == price * Trade[o].quantity
      held == PositionOf(b, o)
  IN [b EXCEPT
        !.cash[CurrencyOf(o)] = @ - amount,
        !.position[Trade[o].symbol] =
           [quantity |-> held.quantity + Trade[o].quantity,
            cost |-> held.cost + amount,
            currency |-> IF held.quantity = 0 THEN CurrencyOf(o) ELSE held.currency],
        !.filled = @ \cup {o}]

CostShare(b, o) == (PositionOf(b, o).cost * Trade[o].quantity) \div PositionOf(b, o).quantity

\* Variant with a bug: the order's currency decides the bucket, not the position's.
SoldByOrder(b, o, price) ==
  LET amount == price * Trade[o].quantity
      left == PositionOf(b, o).quantity - Trade[o].quantity
  IN [b EXCEPT
        !.cash[CurrencyOf(o)] = @ + amount,
        !.realized[PositionOf(b, o).currency] = @ + (amount - CostShare(b, o)),
        !.position[Trade[o].symbol] =
           IF left = 0 THEN NoPosition
           ELSE [PositionOf(b, o) EXCEPT !.quantity = left, !.cost = @ - CostShare(b, o)],
        !.filled = @ \cup {o}]

\* A sale is booked in the currency of the position; a sold-out one is deleted.
Sold(b, o, price) ==
  LET amount == price * Trade[o].quantity
      left == PositionOf(b, o).quantity - Trade[o].quantity
  IN [b EXCEPT
        !.cash[PositionOf(b, o).currency] = @ + amount,
        !.realized[PositionOf(b, o).currency] = @ + (amount - CostShare(b, o)),
        !.position[Trade[o].symbol] =
           IF left = 0 THEN NoPosition
           ELSE [PositionOf(b, o) EXCEPT !.quantity = left, !.cost = @ - CostShare(b, o)],
        !.filled = @ \cup {o}]

FilledAt(b, o, price) ==
  IF Trade[o].side = "BUY" THEN Bought(b, o, price) ELSE Sold(b, o, price)

Init == book = EmptyBook

\* An order is filled once, when cash or position cover it.
Fill(o) ==
  /\ o \notin book.filled
  /\ \E price \in FillPrices(o) :
       Covered(book, o, price) /\ book' = FilledAt(book, o, price)

Next == \E o \in Order : Fill(o)

Spec == Init /\ [][Next]_book
-----------------------------------------------------------------------------
\* Money is conserved per currency: cash and the cost of the positions held in
\* a currency are what it started with plus the profit realized in it.
Holding(b, c) == {s \in Symbol : b.position[s].quantity > 0 /\ b.position[s].currency = c}

Cost(b) == [s \in Symbol |-> b.position[s].cost]

Invested(b, c) == ColumnSum(Holding(b, c), Cost(b))

ConservedIn(b, c) == b.cash[c] + Invested(b, c) = StartCash[c] + b.realized[c]
=============================================================================
