--------------------------- MODULE MCConfirmation ---------------------------
(* One deployment for TLC: a live instance, an older live build whose clock is *)
(* ahead, a paper and a read_only instance, and one that lacks allow_live, all *)
(* on one redis.  A day has four ticks.                                        *)
EXTENDS Confirmation, TLC

CONSTANTS live, old, paper, readOnly, unarmed   \* Instance

MCInstance == {live, old, paper, readOnly, unarmed}

Amounts == [c \in Currency |-> IF c = "KRW" THEN 4 ELSE 5]
Base == [mode |-> "live", allowLive |-> TRUE, enforceHours |-> TRUE, knowsConditional |-> TRUE,
         ttl |-> 2, delay |-> 2, cap |-> Amounts, deny |-> {}, allow |-> {"a", "b"}]

MCSetting ==
  (live :> Base
   @@ old :> [Base EXCEPT !.knowsConditional = FALSE, !.enforceHours = FALSE, !.delay = 1,
                          !.cap = [Amounts EXCEPT !["KRW"] = 3], !.deny = {"B"}]
   @@ paper :> [Base EXCEPT !.mode = "paper", !.allowLive = FALSE]
   @@ readOnly :> [Base EXCEPT !.mode = "read_only"]
   @@ unarmed :> [Base EXCEPT !.allowLive = FALSE])

MCSkew == [i \in Instance |-> IF i = old THEN 1 ELSE 0]

Order(market, quantity, price, amount) ==
  [market |-> market, quantity |-> quantity, price |-> price, amount |-> amount]
Plain(order) == [kind |-> "order", modify |-> FALSE, symbol |-> "a", currency |-> "KRW",
                 confirmed |-> FALSE, order |-> order]
Leg(price) == [trigger |-> 1, price |-> price]
Group(type, orderType, first, second) ==
  [type |-> type, orderType |-> orderType, quantity |-> 1, secondSide |-> type # "SINGLE",
   first |-> Leg(first), second |-> IF type = "SINGLE" THEN [trigger |-> None, price |-> None] ELSE Leg(second)]
Trigger(group) == [kind |-> "conditional", modify |-> FALSE, symbol |-> "a", currency |-> "USD",
                   confirmed |-> TRUE, group |-> group]

\* A MARKET order estimated at the last price, an order by amount, one of no
\* quantity, one in dollars, whose session wraps past midnight, a modify to 2 at 2
\* (too much for the old instance), and the groups.
MCArgument ==
  {Plain(Order(TRUE, 3, None, None)), Plain(Order(TRUE, None, None, 4)),
   Plain(Order(FALSE, 0, 2, None)), [Plain(Order(FALSE, 1, 1, None)) EXCEPT !.currency = "USD"],
   [Plain(Order(FALSE, 2, 2, None)) EXCEPT !.modify = TRUE, !.symbol = "b"],
   Trigger(Group("OTO", "LIMIT", 2, 3)), Trigger(Group("OCO", "LIMIT", 2, 3)),
   [Trigger(Group("SINGLE", "MARKET", None, None)) EXCEPT !.modify = TRUE]}

MCSymbol == {"a", "b", "B"}
MCCanon == [s \in Symbol |-> IF s = "b" THEN "B" ELSE s]
MCLast == [s \in Symbol |-> 1]
MCMarket == [c \in Currency |-> IF c = "KRW" THEN [start |-> 1, end |-> 3] ELSE [start |-> 3, end |-> 1]]
MCHighValue == [c \in Currency |-> 5]
MCHardCeiling == [c \in Currency |-> 6]
=============================================================================
