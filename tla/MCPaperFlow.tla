---------------------------- MODULE MCPaperFlow ----------------------------
(* Small instances of PaperFlow for TLC.  Prices are even, so that the cost   *)
(* of half a position is a whole number.                                      *)
EXTENDS PaperFlow, TLC

CONSTANTS o1, o2, o3

Buy(q) == [symbol |-> "S", side |-> "BUY", quantity |-> q, market |-> FALSE]
Sell(q) == [Buy(q) EXCEPT !.side = "SELL"]
AtMarket(trade) == [trade EXCEPT !.market = TRUE]

Worth(n, c) == [kind |-> "order", modify |-> FALSE, currency |-> c, notional |-> n, prev |-> 0]

\* two buys in dollars, of which the cash covers the first and at the low price
\* the second, and a sale whose spec fell back to the other currency
Trades == (o1 :> Buy(2) @@ o2 :> AtMarket(Buy(1)) @@ o3 :> Sell(1))
Specs  == (o1 :> Worth(4, "USD") @@ o2 :> Worth(2, "USD") @@ o3 :> Worth(4, "KRW"))

MCPrice == {2, 4}
MCCash == [c \in Currency |-> IF c = "USD" THEN 6 ELSE 0]
MCCap == [c \in Currency |-> 8]

SymmetricProcs == Permutations(Proc)
=============================================================================
