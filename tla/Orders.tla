------------------------------- MODULE Orders -------------------------------
(***************************************************************************)
(* The orders a preview can describe (safety.py OrderSpec).  A preview     *)
(* makes one spec, one clientOrderId and one confirmation token, so one    *)
(* element of Order stands for all three.                                  *)
(*                                                                         *)
(* prev is prev_notional; 0 stands for None, which spend_delta treats the  *)
(* same way: the whole notional counts.                                    *)
(***************************************************************************)
EXTENDS Amounts

CONSTANTS
  Order,      \* clientOrderIds
  Currency,
  OrderSpec   \* [Order -> Spec], what each preview described

Kind == {"order", "conditional"}

SpecType ==
  [kind : Kind, modify : BOOLEAN, currency : Currency,
   notional : 1 .. Ceiling, prev : 0 .. Ceiling]

\* Only preview_modify and preview_conditional_modify set prev_notional.
ASSUME OrdersAssumption ==
  /\ IsFiniteSet(Order)
  /\ OrderSpec \in [Order -> SpecType]
  /\ \A o \in Order : ~OrderSpec[o].modify => OrderSpec[o].prev = 0

CurrencyOf(o) == OrderSpec[o].currency

\* The increment check_guardrails looks at (safety.py 227).
Increment(o) == OrderSpec[o].notional - OrderSpec[o].prev

\* spend_delta: what reserve and release move on the counter.  A conditional
\* modify never refunds.
SpendDelta ==
  [o \in Order |->
     IF OrderSpec[o].kind = "conditional" /\ Increment(o) < 0 THEN 0 ELSE Increment(o)]
=============================================================================
