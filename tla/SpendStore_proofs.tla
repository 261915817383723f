------------------------- MODULE SpendStore_proofs -------------------------
(* The counter of the spend store: exactly the sum of its standing           *)
(* reservations and under the cap when no order carries a negative delta and *)
(* no call is cut short; and, bucket by bucket, no lower than what is        *)
(* reserved in it, and no more reserved than its cap, as long as no downsize *)
(* credits that bucket.                                                      *)
EXTENDS SpendStore, Amounts_proofs

USE CeilingAssumption, OrdersAssumption, SpendStoreAssumption

NoCredit == \A o \in Order : SpendDelta[o] >= 0

\* spend_delta is an amount within the ceiling.
LEMMA DeltaType ==
  /\ SpendDelta \in [Order -> Amount]
  /\ \A o \in Order : Increment(o) \in Amount /\ CurrencyOf(o) \in Currency
BY DEF SpendDelta, Increment, Amount, SpecType, CurrencyOf

\* The counters start typed, exact and within their caps.
LEMMA StoreInitExact ==
  ASSUME StoreInit
  PROVE  StoreTypeOK /\ CounterIsExact /\ CounterWithinCap
<1>1. StoreTypeOK
  BY DEF StoreInit, StoreTypeOK, EmptyCounters
<1>2. CounterWithinCap
  BY DEF StoreInit, CounterWithinCap, EmptyCounters
<1>3. ASSUME NEW d \in Day, NEW c \in Currency
      PROVE  spent[d][c] = Total(HeldIn(d, c), SpendDelta)
  <2>1. HeldIn(d, c) = {}
    BY DEF StoreInit, HeldIn
  <2>2. spent[d][c] = 0
    BY DEF StoreInit, EmptyCounters
  <2> QED
    BY <2>1, <2>2, TotalEmpty
<1> QED
  BY <1>1, <1>2, <1>3 DEF CounterIsExact

\* Moving a counter keeps its type: it is floored at zero.
LEMMA MovedType ==
  ASSUME StoreTypeOK, NEW d \in Day, NEW o \in Order, NEW delta \in Amount
  PROVE  /\ Moved(d, o, delta) \in [Day -> [Currency -> Nat]]
         /\ Moved(d, o, delta)[d][CurrencyOf(o)] = Floored(spent[d][CurrencyOf(o)] + delta)
         /\ \A e \in Day, c \in Currency :
              <<e, c>> # <<d, CurrencyOf(o)>> => Moved(d, o, delta)[e][c] = spent[e][c]
<1>1. CurrencyOf(o) \in Currency /\ spent[d][CurrencyOf(o)] \in Nat /\ delta \in Int
  BY DeltaType DEF StoreTypeOK, Amount
<1>2. Floored(spent[d][CurrencyOf(o)] + delta) \in Nat
  BY <1>1 DEF Floored
<1> QED
  BY <1>1, <1>2 DEF Moved, StoreTypeOK

\* reserve and release keep the store typed, whatever the deltas.
LEMMA StoreStepType ==
  ASSUME StoreTypeOK, NEW d \in Day, NEW o \in Order, Reserve(d, o) \/ Release(d, o)
  PROVE  StoreTypeOK'
<1>1. SpendDelta[o] \in Amount /\ -SpendDelta[o] \in Amount
  BY DeltaType DEF Amount
<1>2. CASE UNCHANGED storeVars
  BY <1>2 DEF StoreTypeOK, storeVars
<1>3. CASE spent' = Moved(d, o, SpendDelta[o]) /\ reserved' = [reserved EXCEPT ![d] = reserved[d] \cup {o}]
  BY <1>1, <1>3, MovedType DEF StoreTypeOK
<1>4. CASE spent' = Moved(d, o, -SpendDelta[o]) /\ reserved' = [reserved EXCEPT ![d] = reserved[d] \ {o}]
  BY <1>1, <1>4, MovedType DEF StoreTypeOK
<1> QED
  BY <1>2, <1>3, <1>4 DEF Reserve, Release

\* A call cut short keeps the store typed too.
LEMMA CutStepType ==
  ASSUME StoreTypeOK, NEW d \in Day, NEW o \in Order, CountOnly(d, o) \/ LoseKey(d, o)
  PROVE  StoreTypeOK'
<1>1. SpendDelta[o] \in Amount
  BY DeltaType
<1>2. CASE CountOnly(d, o)
  BY <1>1, <1>2, MovedType DEF CountOnly, StoreTypeOK
<1>3. CASE LoseKey(d, o)
  BY <1>3 DEF LoseKey, StoreTypeOK
<1> QED
  BY <1>2, <1>3

\* The sets the counters sum over are finite sets of orders.
LEMMA HeldFinite ==
  ASSUME StoreTypeOK, NEW d \in Day, NEW c \in Currency
  PROVE  HeldIn(d, c) \in SUBSET Order /\ IsFiniteSet(HeldIn(d, c))
<1>1. HeldIn(d, c) \in SUBSET Order
  BY DEF HeldIn, StoreTypeOK
<1> QED
  BY <1>1, FS_Subset

\* A new reservation adds exactly its delta and was checked against the cap.
LEMMA ReserveExact ==
  ASSUME StoreTypeOK, CounterIsExact, CounterWithinCap, NoCredit,
         NEW d \in Day, NEW o \in Order, Reserve(d, o)
  PROVE  CounterIsExact' /\ CounterWithinCap'
<1>1. CASE UNCHANGED storeVars
  BY <1>1 DEF CounterIsExact, CounterWithinCap, HeldIn, storeVars
<1>2. CASE /\ o \notin reserved[d]
           /\ Fits(d, o, SpendDelta[o])
           /\ spent' = Moved(d, o, SpendDelta[o])
           /\ reserved' = [reserved EXCEPT ![d] = reserved[d] \cup {o}]
  <2> DEFINE b == CurrencyOf(o)
  <2>1. b \in Currency /\ SpendDelta[o] \in Amount /\ SpendDelta[o] \in Nat /\ spent[d][b] \in Nat
    BY DeltaType DEF Amount, NoCredit, StoreTypeOK
  <2>2. spent'[d][b] = spent[d][b] + SpendDelta[o]
    BY <1>2, <2>1, MovedType DEF Floored
  <2>3. \A e \in Day, c \in Currency : <<e, c>> # <<d, b>> => spent'[e][c] = spent[e][c]
    BY <1>2, <2>1, MovedType
  <2>4. HeldIn(d, b)' = HeldIn(d, b) \cup {o} /\ o \notin HeldIn(d, b)
    BY <1>2 DEF HeldIn, StoreTypeOK
  <2>5. \A e \in Day, c \in Currency : <<e, c>> # <<d, b>> => HeldIn(e, c)' = HeldIn(e, c)
    BY <1>2 DEF HeldIn, StoreTypeOK
  <2>6. Total(HeldIn(d, b) \cup {o}, SpendDelta) = Total(HeldIn(d, b), SpendDelta) + SpendDelta[o]
    BY <2>1, <2>4, DeltaType, HeldFinite, TotalAdd
  <2>7. spent'[d][b] = Total(HeldIn(d, b)', SpendDelta)
    BY <2>1, <2>2, <2>4, <2>6 DEF CounterIsExact
  <2>8. CounterIsExact'
    BY <2>3, <2>5, <2>7 DEF CounterIsExact
  <2>9. spent'[d][b] <= Cap[b]
    BY <1>2, <2>2 DEF Fits
  <2> QED
    BY <2>3, <2>8, <2>9 DEF CounterWithinCap
<1> QED
  BY <1>1, <1>2 DEF Reserve

\* A release takes out exactly what its reservation had put in.
LEMMA ReleaseExact ==
  ASSUME StoreTypeOK, CounterIsExact, CounterWithinCap, NoCredit,
         NEW d \in Day, NEW o \in Order, Release(d, o)
  PROVE  CounterIsExact' /\ CounterWithinCap'
<1>1. CASE UNCHANGED storeVars
  BY <1>1 DEF CounterIsExact, CounterWithinCap, HeldIn, storeVars
<1>2. CASE /\ o \in reserved[d]
           /\ spent' = Moved(d, o, -SpendDelta[o])
           /\ reserved' = [reserved EXCEPT ![d] = reserved[d] \ {o}]
  <2> DEFINE b == CurrencyOf(o)
  <2>1. /\ b \in Currency /\ SpendDelta[o] \in Nat /\ spent[d][b] \in Nat
        /\ -SpendDelta[o] \in Amount
    BY DeltaType DEF Amount, NoCredit, StoreTypeOK
  <2>2. HeldIn(d, b)' = HeldIn(d, b) \ {o} /\ o \in HeldIn(d, b)
    BY <1>2 DEF HeldIn, StoreTypeOK
  <2>3. \A e \in Day, c \in Currency : <<e, c>> # <<d, b>> => HeldIn(e, c)' = HeldIn(e, c)
    BY <1>2 DEF HeldIn, StoreTypeOK
  <2>4. Total(HeldIn(d, b) \ {o}, SpendDelta) = Total(HeldIn(d, b), SpendDelta) - SpendDelta[o]
    BY <2>1, <2>2, DeltaType, HeldFinite, TotalRemove
  <2>5. spent[d][b] = Total(HeldIn(d, b), SpendDelta)
    BY <2>1 DEF CounterIsExact
  <2>6. 0 <= Total(HeldIn(d, b) \ {o}, SpendDelta)
    <3>1. HeldIn(d, b) \ {o} \in SUBSET Order /\ IsFiniteSet(HeldIn(d, b) \ {o})
      BY <2>1, HeldFinite, FS_RemoveElement
    <3>2. Total({}, SpendDelta) <= Total(HeldIn(d, b) \ {o}, SpendDelta)
      BY <3>1, DeltaType, TotalMonotone DEF NoCredit
    <3> QED
      BY <3>2, TotalEmpty
  <2>7. spent'[d][b] = spent[d][b] - SpendDelta[o]
    <3>1. spent'[d][b] = Floored(spent[d][b] + (-SpendDelta[o]))
      BY <1>2, <2>1, MovedType
    <3> QED
      BY <3>1, <2>1, <2>4, <2>5, <2>6 DEF Floored
  <2>8. \A e \in Day, c \in Currency : <<e, c>> # <<d, b>> => spent'[e][c] = spent[e][c]
    BY <1>2, <2>1, MovedType
  <2>9. spent'[d][b] = Total(HeldIn(d, b)', SpendDelta)
    BY <2>2, <2>4, <2>5, <2>7
  <2>10. CounterIsExact'
    BY <2>3, <2>8, <2>9 DEF CounterIsExact
  <2>11. spent'[d][b] <= Cap[b]
    BY <2>1, <2>7 DEF CounterWithinCap
  <2> QED
    BY <2>8, <2>10, <2>11 DEF CounterWithinCap
<1> QED
  BY <1>1, <1>2 DEF Release
-----------------------------------------------------------------------------
(* Cut calls, restarts and downsizes in other currencies. *)

NoCreditIn(c) == \A o \in Order : CurrencyOf(o) = c => SpendDelta[o] >= 0

\* A bucket that no downsize credits: what its reservations add up to is within
\* its counter and within its cap.  The counter alone may be higher: a call cut
\* short and the amounts of a restored audit log stand on no key.
Accounted ==
  \A d \in Day, c \in Currency : NoCreditIn(c) =>
    /\ Total(HeldIn(d, c), SpendDelta) <= spent[d][c]
    /\ Total(HeldIn(d, c), SpendDelta) <= Cap[c]

\* Where nothing is reserved there is nothing to account for.
LEMMA EmptyAccounted ==
  ASSUME NEW d \in Day, NEW c \in Currency, reserved[d] = {}, spent[d][c] \in Nat
  PROVE  /\ Total(HeldIn(d, c), SpendDelta) <= spent[d][c]
         /\ Total(HeldIn(d, c), SpendDelta) <= Cap[c]
<1>1. HeldIn(d, c) = {}
  BY DEF HeldIn
<1>2. Cap[c] \in Nat
  OBVIOUS
<1> QED
  BY <1>1, <1>2, TotalEmpty

\* In the initial state nothing is reserved.
LEMMA InitAccounted ==
  ASSUME StoreInit
  PROVE  Accounted
BY EmptyAccounted DEF StoreInit, EmptyCounters, Accounted

\* A call moves the bucket of its order alone.
LEMMA OtherBuckets ==
  ASSUME StoreTypeOK, NEW d \in Day, NEW o \in Order,
         Reserve(d, o) \/ Release(d, o) \/ CountOnly(d, o) \/ LoseKey(d, o)
  PROVE  \A e \in Day, c \in Currency : <<e, c>> # <<d, CurrencyOf(o)>> =>
           spent'[e][c] = spent[e][c] /\ HeldIn(e, c)' = HeldIn(e, c)
<1>1. SpendDelta[o] \in Amount /\ -SpendDelta[o] \in Amount
  BY DeltaType DEF Amount
<1>2. \A e \in Day, c \in Currency : <<e, c>> # <<d, CurrencyOf(o)>> => spent'[e][c] = spent[e][c]
  BY <1>1, MovedType DEF Reserve, Release, CountOnly, LoseKey, storeVars
<1>3. \/ UNCHANGED reserved
      \/ reserved' = [reserved EXCEPT ![d] = reserved[d] \cup {o}]
      \/ reserved' = [reserved EXCEPT ![d] = reserved[d] \ {o}]
  BY DEF Reserve, Release, CountOnly, LoseKey, storeVars
<1>4. \A e \in Day, c \in Currency : <<e, c>> # <<d, CurrencyOf(o)>> => HeldIn(e, c)' = HeldIn(e, c)
  BY <1>3 DEF HeldIn, StoreTypeOK
<1> QED
  BY <1>2, <1>4

\* In its own bucket a call adds its delta to the counter and the reservations
\* alike, or to the counter only, or takes it from the reservations at least.
LEMMA CallAccounted ==
  ASSUME StoreTypeOK, Accounted, NEW d \in Day, NEW o \in Order,
         Reserve(d, o) \/ Release(d, o) \/ CountOnly(d, o) \/ LoseKey(d, o)
  PROVE  Accounted'
<1> DEFINE b == CurrencyOf(o)
           H == HeldIn(d, b)
<1>1. SUFFICES ASSUME NoCreditIn(b)
               PROVE  /\ Total(HeldIn(d, b)', SpendDelta) <= spent'[d][b]
                      /\ Total(HeldIn(d, b)', SpendDelta) <= Cap[b]
  BY OtherBuckets DEF Accounted
<1>2. /\ b \in Currency /\ spent[d][b] \in Nat /\ Cap[b] \in Nat
      /\ SpendDelta[o] \in Nat /\ SpendDelta[o] \in Amount /\ -SpendDelta[o] \in Amount
  BY <1>1, DeltaType DEF Amount, NoCreditIn, StoreTypeOK
<1>3. Total(H, SpendDelta) <= spent[d][b] /\ Total(H, SpendDelta) <= Cap[b]
  BY <1>1, <1>2 DEF Accounted
<1>4. H \in SUBSET Order /\ IsFiniteSet(H) /\ Total(H, SpendDelta) \in Int
  BY <1>2, HeldFinite, UnitsFinite
<1>5. CASE UNCHANGED storeVars
  BY <1>3, <1>5 DEF HeldIn, storeVars
<1>6. CASE o \notin reserved[d] /\ Fits(d, o, SpendDelta[o]) /\ spent' = Moved(d, o, SpendDelta[o])
  <2>1. spent'[d][b] = spent[d][b] + SpendDelta[o] /\ spent[d][b] + SpendDelta[o] <= Cap[b]
    BY <1>2, <1>6, MovedType DEF Floored, Fits
  <2>2. CASE UNCHANGED reserved
    <3>1. HeldIn(d, b)' = H
      BY <2>2 DEF HeldIn
    <3> HIDE DEF H
    <3> QED
      BY <1>2, <1>3, <1>4, <2>1, <3>1
  <2>3. CASE reserved' = [reserved EXCEPT ![d] = reserved[d] \cup {o}]
    <3>1. HeldIn(d, b)' = H \cup {o} /\ o \notin H
      BY <1>6, <2>3 DEF HeldIn, StoreTypeOK
    <3> HIDE DEF H
    <3>2. Total(H \cup {o}, SpendDelta) = Total(H, SpendDelta) + SpendDelta[o]
      BY <1>4, <3>1, DeltaType, TotalAdd
    <3> QED
      BY <1>2, <1>3, <1>4, <2>1, <3>1, <3>2
  <2> QED
    BY <1>6, <2>2, <2>3 DEF Reserve, CountOnly, Release, LoseKey, storeVars
<1>7. CASE o \in reserved[d] /\ reserved' = [reserved EXCEPT ![d] = reserved[d] \ {o}]
  <2>1. HeldIn(d, b)' = H \ {o} /\ o \in H
    BY <1>7 DEF HeldIn, StoreTypeOK
  <2> HIDE DEF H
  <2>2. Total(H \ {o}, SpendDelta) = Total(H, SpendDelta) - SpendDelta[o]
    BY <1>4, <2>1, DeltaType, TotalRemove
  <2>3. spent[d][b] - SpendDelta[o] <= spent'[d][b] /\ spent'[d][b] \in Int
    <3>1. CASE UNCHANGED spent
      BY <1>2, <3>1
    <3>2. CASE spent' = Moved(d, o, -SpendDelta[o])
      <4>1. spent'[d][b] = Floored(spent[d][b] + (-SpendDelta[o]))
        BY <1>2, <3>2, MovedType
      <4> QED
        BY <1>2, <4>1 DEF Floored
    <3> QED
      BY <1>7, <3>1, <3>2 DEF Reserve, Release, CountOnly, LoseKey, storeVars
  <2> QED
    BY <1>2, <1>3, <1>4, <2>1, <2>2, <2>3
<1> QED
  BY <1>5, <1>6, <1>7 DEF Reserve, Release, CountOnly, LoseKey
=============================================================================
