------------------------- MODULE MCRedisSpendStore -------------------------
(* Small instances of RedisSpendStore for TLC. *)
EXTENDS RedisSpendStore, TLC

CONSTANTS o1, o2, o3

MCCap == [c \in Currency |-> 3]

Plain(n) == [kind |-> "order", modify |-> FALSE, currency |-> "KRW", notional |-> n, prev |-> 0]

\* two orders that do not fit under the cap together, and one in dollars
TwoBuckets == (o1 :> Plain(2) @@ o2 :> Plain(2) @@ o3 :> [Plain(2) EXCEPT !.currency = "USD"])

SymmetricProcs == Permutations(Proc)
=============================================================================
