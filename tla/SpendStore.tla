----------------------------- MODULE SpendStore -----------------------------
(***************************************************************************)
(* The daily spend counter and its reservation set: the SpendStore         *)
(* protocol of stores.py as MemorySpendStore implements it, every call     *)
(* atomic, called the way SafetyManager.reserve and release call it: the   *)
(* currency bucket and the signed delta are the order's own, the dedup key *)
(* is its clientOrderId.                                                   *)
(***************************************************************************)
EXTENDS Orders

CONSTANTS
  LastDay,    \* bound: the days are 0 .. LastDay
  Cap         \* [Currency -> Nat], daily_order_limit and daily_order_limit_usd

ASSUME SpendStoreAssumption == LastDay \in Nat /\ Cap \in [Currency -> Nat]

Day == 0 .. LastDay

VARIABLES
  spent,     \* day -> currency -> counter
  reserved   \* day -> the dedup keys counted in it

storeVars == <<spent, reserved>>

StoreTypeOK ==
  /\ spent \in [Day -> [Currency -> Nat]]
  /\ reserved \in [Day -> SUBSET Order]

EmptyCounters == [d \in Day |-> [c \in Currency |-> 0]]

StoreInit ==
  /\ spent = EmptyCounters
  /\ reserved = [d \in Day |-> {}]

\* Variant with a bug: no floor.
FlooredNowhere(n) == n

Floored(n) == IF n < 0 THEN 0 ELSE n

Fits(d, o, delta) == spent[d][CurrencyOf(o)] + delta <= Cap[CurrencyOf(o)]

Moved(d, o, delta) ==
  [spent EXCEPT ![d][CurrencyOf(o)] = Floored(spent[d][CurrencyOf(o)] + delta)]

\* reserve() -> True: counted now, or already counted by a call with this key.
Reserve(d, o) ==
  \/ o \in reserved[d] /\ UNCHANGED storeVars
  \/ /\ o \notin reserved[d]
     /\ Fits(d, o, SpendDelta[o])
     /\ spent' = Moved(d, o, SpendDelta[o])
     /\ reserved' = [reserved EXCEPT ![d] = reserved[d] \cup {o}]

\* reserve() -> False: over the cap, nothing changes.
Refuses(d, o) == o \notin reserved[d] /\ ~Fits(d, o, SpendDelta[o])

\* Variant with a bug: the dedup key stays behind.
ReleaseKeepingKey(d, o) ==
  \/ o \notin reserved[d] /\ UNCHANGED storeVars
  \/ /\ o \in reserved[d]
     /\ spent' = Moved(d, o, -SpendDelta[o])
     /\ UNCHANGED reserved

\* Variant with a bug: a key this day does not hold is not ignored.
ReleaseAnyway(d, o) ==
  /\ spent' = Moved(d, o, -SpendDelta[o])
  /\ reserved' = [reserved EXCEPT ![d] = reserved[d] \ {o}]

\* release(): takes the delta back once; a key this day does not hold is ignored.
Release(d, o) ==
  \/ o \notin reserved[d] /\ UNCHANGED storeVars
  \/ /\ o \in reserved[d]
     /\ spent' = Moved(d, o, -SpendDelta[o])
     /\ reserved' = [reserved EXCEPT ![d] = reserved[d] \ {o}]

\* A call cut short between its two writes (redis; RedisSpendStore shows these are
\* the outcomes).  reserve() has moved the counter and not yet added the key:
CountOnly(d, o) ==
  /\ o \notin reserved[d]
  /\ Fits(d, o, SpendDelta[o])
  /\ spent' = Moved(d, o, SpendDelta[o])
  /\ UNCHANGED reserved

\* release() has removed the key and not yet moved the counter.
LoseKey(d, o) ==
  /\ o \in reserved[d]
  /\ reserved' = [reserved EXCEPT ![d] = reserved[d] \ {o}]
  /\ UNCHANGED spent

StoreNext == \E d \in Day, o \in Order : Reserve(d, o) \/ Release(d, o)

StoreSpec == StoreInit /\ [][StoreNext]_storeVars
-----------------------------------------------------------------------------
HeldIn(d, c) == {o \in reserved[d] : CurrencyOf(o) = c}

CounterIsExact ==
  \A d \in Day, c \in Currency : spent[d][c] = Total(HeldIn(d, c), SpendDelta)

CounterWithinCap ==
  \A d \in Day, c \in Currency : spent[d][c] <= Cap[c]
=============================================================================
