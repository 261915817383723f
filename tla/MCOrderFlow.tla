---------------------------- MODULE MCOrderFlow ----------------------------
(* Small instances of OrderFlow for TLC: a unit of amount is one order of the *)
(* smallest size, and a day's cap is two of them.                             *)
EXTENDS OrderFlow

CONSTANTS o1, o2, o3, o4

MCCap == [c \in Currency |-> 2]

Plain(n) == [kind |-> "order", modify |-> FALSE, currency |-> "KRW", notional |-> n, prev |-> 0]
Upsize(n, prev) == [Plain(n) EXCEPT !.modify = TRUE, !.prev = prev]
Trigger(n) == [Plain(n) EXCEPT !.kind = "conditional"]

\* an order in dollars
Dollars(spec) == [spec EXCEPT !.currency = "USD"]

\* in won a conditional order that fills the cap and a modify that fills it too
\* and that place would execute for more; in dollars a downsize by one and an
\* order that passes the cap by one
Mixed == (o1 :> Trigger(2) @@ o2 :> Upsize(3, 1)
            @@ o3 :> Dollars(Upsize(2, 3)) @@ o4 :> Dollars(Plain(3)))

\* an order that fills the cap, the downsize by one of an order made elsewhere
\* and a conditional order
Uncounted == (o1 :> Plain(2) @@ o3 :> Upsize(2, 3) @@ o4 :> Trigger(1))

\* two orders that do not fit under one cap together
Pair == (o1 :> Plain(2) @@ o3 :> Trigger(1))

\* two that do
Companions == (o1 :> Plain(1) @@ o2 :> Upsize(2, 1))

SymmetricProcs == Permutations(Proc)
=============================================================================
