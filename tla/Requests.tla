------------------------------ MODULE Requests ------------------------------
(***************************************************************************)
(* The pure part of a preview: what an order or a conditional group counts *)
(* (safety.py build_spec, conditional.py build_request, group_notional)    *)
(* and whether a market is open (market_hours.py).  Each is put next to    *)
(* what it is meant to compute.                                            *)
(*                                                                         *)
(* An optional number that is not given is None; a given one that is not a *)
(* positive number is any integer below 1 other than None.                 *)
(***************************************************************************)
EXTENDS Integers

None == -1
Given(x) == x # None
Positive(x) == Given(x) => x > 0
-----------------------------------------------------------------------------
(* Ordinary orders. *)

\* build_spec accepts these arguments; last is the last price, None if unknown,
\* and only a MARKET order without an amount is estimated with it.
RefPrice(o, last) == IF o.market /\ ~Given(o.amount) THEN last ELSE None

ValidOrder(o, last) ==
  /\ Positive(o.quantity) /\ Positive(o.price) /\ Positive(o.amount)
  /\ Given(o.amount) => ~Given(o.price) /\ ~Given(o.quantity)
  /\ \/ Given(o.amount)
     \/ Given(o.quantity) /\ (Given(o.price) \/ Given(RefPrice(o, last)))

OrderNotional(o, last) ==
  IF Given(o.amount) THEN o.amount
  ELSE IF Given(o.price) THEN o.price * o.quantity
  ELSE RefPrice(o, last) * o.quantity

\* What Toss charges for an order it takes; it takes a price for LIMIT orders only.
Takes(o) == o.market <=> ~Given(o.price)
Charged(o, marketPrice) ==
  IF Given(o.amount) THEN o.amount
  ELSE o.quantity * (IF o.market THEN marketPrice ELSE o.price)
-----------------------------------------------------------------------------
(* Conditional groups. *)

HasSecond(g) == g.secondSide \/ Given(g.second.trigger) \/ Given(g.second.price)
Legs(g) == IF HasSecond(g) THEN {g.first, g.second} ELSE {g.first}

\* build_request accepts these arguments.
ValidGroup(g) ==
  /\ Given(g.quantity) /\ Positive(g.quantity)
  /\ Given(g.first.trigger)
  /\ \A leg \in {g.first, g.second} : Positive(leg.trigger) /\ Positive(leg.price)
  /\ g.type = "SINGLE" => ~HasSecond(g)
  /\ g.type # "SINGLE" => g.secondSide /\ Given(g.second.trigger)
  /\ \A leg \in Legs(g) : Given(leg.price) <=> g.orderType = "LIMIT"

LegAmount(g, leg) == g.quantity * (IF g.orderType = "LIMIT" THEN leg.price ELSE leg.trigger)

\* Variant with a bug: both legs of an OCO are counted, one of an OTO.
GroupNotionalSwapped(g) ==
  LET first == LegAmount(g, g.first)
      second == LegAmount(g, g.second)
  IN IF ~HasSecond(g) THEN first
     ELSE IF g.type # "OCO" THEN (IF first < second THEN second ELSE first)
     ELSE first + second

\* group_notional: the larger leg of an OCO, otherwise all legs.
GroupNotional(g) ==
  LET first == LegAmount(g, g.first)
      second == LegAmount(g, g.second)
  IN IF ~HasSecond(g) THEN first
     ELSE IF g.type = "OCO" THEN (IF first < second THEN second ELSE first)
     ELSE first + second

\* The amounts the broker may come to buy or sell for: a leg of an OCO ends the
\* other, the second leg of an OTO waits for the first.
Firings(g) ==
  LET first == LegAmount(g, g.first)
      second == LegAmount(g, g.second)
  IN CASE g.type = "SINGLE" -> {first}
       [] g.type = "OCO" -> {first, second}
       [] g.type = "OTO" -> {first, first + second}
-----------------------------------------------------------------------------
(* Market hours.  Times of day are 0 .. DayLength - 1. *)

Closed == [start |-> None, end |-> None]

\* Variant with a bug: a session never wraps.
IsOpenUnwrapped(session, t) ==
  Given(session.start) /\ Given(session.end) /\ session.start <= t /\ t < session.end

\* is_market_open; a session in KST may wrap past midnight.
IsOpen(session, t) ==
  /\ Given(session.start) /\ Given(session.end)
  /\ IF session.start <= session.end
       THEN session.start <= t /\ t < session.end
       ELSE session.start <= t \/ t < session.end

\* A session lasts from its start to the next time of day that is its end; it
\* covers time t of some day if it began at most its length before.
LengthOf(session, dayLength) ==
  session.end - session.start + IF session.start <= session.end THEN 0 ELSE dayLength
Covers(session, t, dayLength) ==
  /\ session # Closed
  /\ \E day \in {0, dayLength} :
       /\ session.start <= t + day
       /\ t + day < session.start + LengthOf(session, dayLength)
=============================================================================
