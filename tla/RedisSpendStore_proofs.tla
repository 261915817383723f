----------------------- MODULE RedisSpendStore_proofs -----------------------
(* The redis store: its lock makes the command sequences of its clients one  *)
(* call each of the store in memory, and a failure between two commands only *)
(* leaves the counter too high.                                              *)
EXTENDS RedisSpendStore, Amounts_proofs

USE CeilingAssumption, OrdersAssumption, RedisSpendStoreAssumption, OwnerAssumption

\* No order moves a counter down when it is reserved.
NoCredit == \A o \in Order : SpendDelta[o] >= 0
-----------------------------------------------------------------------------
(* Type correctness. *)

\* spend_delta is an amount within the ceiling.
LEMMA DeltaType ==
  /\ SpendDelta \in [Order -> Amount]
  /\ \A o \in Order : CurrencyOf(o) \in Currency
BY DEF SpendDelta, Increment, Amount, SpecType, CurrencyOf

\* What the record of a running call holds.
LEMMA OpType ==
  ASSUME TypeOK, NEW p \in Proc, op[p] # Idle
  PROVE  /\ op[p] \in Op
         /\ op[p].order \in Order /\ op[p].day \in Day /\ op[p].seen \in Nat
         /\ Bucket(p) \in Currency /\ Delta(p) \in Int
         /\ counter[op[p].day][Bucket(p)] \in Nat
<1>1. op[p] \in Op
  BY DEF TypeOK
<1>2. op[p].order \in Order /\ op[p].day \in Day /\ op[p].seen \in Nat
  BY <1>1 DEF Op
<1>3. Bucket(p) \in Currency /\ SpendDelta[op[p].order] \in Int
  BY <1>2, DeltaType DEF Bucket, Amount
<1> QED
  BY <1>1, <1>2, <1>3 DEF Delta, TypeOK

\* A call that moves on or ends leaves its client's record typed.
LEMMA GotoType ==
  ASSUME TypeOK, NEW p \in Proc, op[p] # Idle,
         NEW where \in {"waiting"} \cup Inside,
         Goto(p, where) \/ Finish(p)
  PROVE  op' \in [Proc -> Op \cup {Idle}]
<1>1. [op[p] EXCEPT !.at = where] \in Op
  BY OpType DEF Op
<1> QED
  BY <1>1 DEF Goto, Finish, TypeOK

\* Giving the lock back leaves the locks typed.
LEMMA UnlockedType ==
  ASSUME TypeOK, NEW p \in Proc
  PROVE  Unlocked(p) \in [Day -> Proc \cup {NoOwner}]
BY DEF Unlocked, TypeOK

\* The initial state is typed.
LEMMA InitType ==
  ASSUME Init
  PROVE  TypeOK
BY DEF Init, TypeOK

\* Every step keeps the types, whatever expires or fails.
LEMMA StepType ==
  ASSUME TypeOK, [Next]_vars
  PROVE  TypeOK'
<1>1. ASSUME NEW p \in Proc, NEW kind \in {"reserve", "release"}, NEW o \in Order, NEW d \in Day,
             Begin(p, kind, o, d)
      PROVE  TypeOK'
  <2>1. [at |-> "waiting", kind |-> kind, order |-> o, day |-> d, seen |-> 0] \in Op
    BY DEF Op
  <2> QED
    BY <1>1, <2>1 DEF Begin, TypeOK
<1>2. ASSUME NEW p \in Proc, ClientStep(p) PROVE TypeOK'
  <2>1. op[p] # Idle
    BY <1>2 DEF ClientStep, Acquire, GiveUp, Look, Drop, ReadCounter, Write, Add, Unlock, At
  <2>2. CASE Acquire(p)
    <3>1. op' \in [Proc -> Op \cup {Idle}]
      BY <2>1, <2>2, GotoType DEF Acquire, Inside
    <3>2. lock' \in [Day -> Proc \cup {NoOwner}]
      BY <2>1, <2>2, OpType DEF Acquire, TypeOK
    <3> QED
      BY <2>2, <3>1, <3>2 DEF Acquire, TypeOK
  <2>3. CASE GiveUp(p) \/ Look(p)
    <3>1. op' \in [Proc -> Op \cup {Idle}]
      BY <2>1, <2>3, GotoType DEF GiveUp, Look, Inside
    <3> QED
      BY <2>3, <3>1 DEF GiveUp, Look, TypeOK
  <2>4. CASE Drop(p) \/ Add(p)
    <3>1. op' \in [Proc -> Op \cup {Idle}]
      BY <2>1, <2>4, GotoType DEF Drop, Add, Inside
    <3>2. \E K \in SUBSET Order : keys' = [keys EXCEPT ![op[p].day] = K]
      <4>1. /\ keys[op[p].day] \ {op[p].order} \in SUBSET Order
            /\ keys[op[p].day] \cup {op[p].order} \in SUBSET Order
        BY <2>1, OpType DEF TypeOK
      <4> QED
        BY <2>4, <4>1 DEF Drop, Add
    <3>3. keys' \in [Day -> SUBSET Order]
      BY <3>2 DEF TypeOK
    <3> QED
      BY <2>4, <3>1, <3>3 DEF Drop, Add, TypeOK
  <2>5. CASE ReadCounter(p)
    <3>1. \A where \in {"unlock", "write"} :
            [op[p] EXCEPT !.seen = counter[op[p].day][Bucket(p)], !.at = where] \in Op
      BY <2>1, OpType DEF Op, Inside
    <3>2. op' \in [Proc -> Op \cup {Idle}]
      BY <2>5, <3>1 DEF ReadCounter, TypeOK
    <3> QED
      BY <2>5, <3>2 DEF ReadCounter, TypeOK
  <2>6. CASE Write(p)
    <3>1. op' \in [Proc -> Op \cup {Idle}]
      BY <2>1, <2>6, GotoType DEF Write, Inside
    <3>2. Floored(op[p].seen + Delta(p)) \in Nat
      BY <2>1, OpType DEF Floored
    <3>3. counter' \in [Day -> [Currency -> Nat]]
      BY <2>6, <3>2 DEF Write, TypeOK
    <3> QED
      BY <2>6, <3>1, <3>3 DEF Write, TypeOK
  <2>7. CASE Unlock(p)
    <3>1. op' \in [Proc -> Op \cup {Idle}]
      BY <2>7 DEF Unlock, Finish, TypeOK
    <3> QED
      BY <2>7, <3>1, UnlockedType DEF Unlock, TypeOK
  <2> QED
    BY <1>2, <2>2, <2>3, <2>4, <2>5, <2>6, <2>7 DEF ClientStep
<1>3. ASSUME NEW p \in Proc, Fail(p) PROVE TypeOK'
  <2>1. op' \in [Proc -> Op \cup {Idle}]
    BY <1>3 DEF Fail, Finish, TypeOK
  <2>2. lock' \in [Day -> Proc \cup {NoOwner}]
    BY <1>3, UnlockedType DEF Fail, TypeOK
  <2> QED
    BY <1>3, <2>1, <2>2 DEF Fail, TypeOK
<1>4. ASSUME NEW d \in Day, LeaseExpires(d) PROVE TypeOK'
  BY <1>4 DEF LeaseExpires, TypeOK
<1>5. CASE UNCHANGED vars
  BY <1>5 DEF vars, TypeOK
<1> QED
  BY <1>1, <1>2, <1>3, <1>4, <1>5 DEF Next

\* Every reachable state of the redis store is well typed.
THEOREM TypeCorrect == Spec => []TypeOK
<1>1. Init => TypeOK
  BY InitType
<1>2. TypeOK /\ [Next]_vars => TypeOK'
  BY StepType
<1> QED
  BY <1>1, <1>2, PTL DEF Spec
-----------------------------------------------------------------------------
(* The lock. *)

\* A client inside the lock of a day holds it.
Locked == \A p \in Proc : Working(p) => lock[op[p].day] = p

\* What a client knows of the keys and the counter is still so.
Agrees(p) ==
  /\ At(p, "drop") => ~IsReserve(p) /\ op[p].order \in keys[op[p].day]
  /\ Working(p) /\ op[p].at \in {"read", "write", "add"} => op[p].order \notin keys[op[p].day]
  /\ At(p, "add") => IsReserve(p)
  /\ At(p, "write") => /\ op[p].seen = counter[op[p].day][Bucket(p)]
                       /\ IsReserve(p) => Fits(p, op[p].seen)

LockInv == TypeOK /\ Locked /\ \A p \in Proc : Agrees(p)

\* What Goto changes of the records, and what it leaves.
LEMMA OpMoves ==
  ASSUME TypeOK, NEW p \in Proc, op[p] # Idle, NEW where \in {"waiting"} \cup Inside, Goto(p, where)
  PROVE  /\ op'[p] # Idle /\ op'[p].at = where
         /\ op'[p].order = op[p].order /\ op'[p].day = op[p].day
         /\ op'[p].kind = op[p].kind /\ op'[p].seen = op[p].seen
         /\ \A q \in Proc : q # p => op'[q] = op[q]
<1>1. op'[p] = [op[p] EXCEPT !.at = where]
  BY DEF Goto, TypeOK
<1>2. op'[p].at = where
  BY <1>1, OpType DEF Op
<1>3. where # "idle"
  BY DEF Inside
<1>4. op'[p] # Idle
  BY <1>2, <1>3 DEF Idle
<1> QED
  BY <1>1, <1>2, <1>4, OpType DEF Op, Goto, TypeOK

\* A client at a place inside the lock is inside it.
LEMMA AtIsWorking ==
  ASSUME NEW p \in Proc, NEW where \in Inside, At(p, where)
  PROVE  Working(p)
BY DEF At, Working

\* Steps that take nobody into the lock and touch neither key nor counter.
LEMMA OutsideStep ==
  ASSUME LockInv, TypeOK', UNCHANGED <<counter, keys>>,
         \A q \in Proc : Working(q)' => op'[q] = op[q] /\ lock'[op[q].day] = lock[op[q].day]
  PROVE  LockInv'
<1>1. ASSUME NEW q \in Proc, Working(q)' PROVE Working(q) /\ op'[q] = op[q]
  BY <1>1 DEF Working
<1>2. Locked'
  BY <1>1 DEF LockInv, Locked
<1>3. ASSUME NEW q \in Proc PROVE Agrees(q)'
  <2>1. CASE ~Working(q)'
    BY <2>1 DEF Agrees, Working, At, Inside
  <2>2. CASE Working(q)'
    <3>1. op'[q] = op[q] /\ Agrees(q)
      BY <1>1, <2>2 DEF LockInv
    <3> QED
      BY <3>1 DEF Agrees, At, Working, IsReserve, Bucket, Fits, Delta
  <2> QED
    BY <2>1, <2>2
<1> QED
  BY <1>2, <1>3 DEF LockInv

\* Steps inside the lock disturb nobody: no other client is inside that lock.
LEMMA InsideStep ==
  ASSUME LockInv, TypeOK', NEW p \in Proc, Working(p), UNCHANGED lock, Agrees(p)',
         op'[p] # Idle, op'[p].day = op[p].day,
         \A q \in Proc : q # p => op'[q] = op[q],
         \A d \in Day : d # op[p].day => counter'[d] = counter[d] /\ keys'[d] = keys[d]
  PROVE  LockInv'
<1>1. Locked'
  BY DEF LockInv, Locked, Working
<1>2. ASSUME NEW q \in Proc, q # p PROVE Agrees(q)'
  <2>1. op'[q] = op[q] /\ Agrees(q)
    BY <1>2 DEF LockInv
  <2>2. CASE ~Working(q)
    BY <2>1, <2>2 DEF Agrees, Working, At, Inside
  <2>3. CASE Working(q)
    <3>1. op[q].day # op[p].day
      BY <1>2, <2>3 DEF LockInv, Locked
    <3>2. op[q].day \in Day
      BY <2>3, OpType DEF LockInv, Working
    <3>3. counter'[op[q].day] = counter[op[q].day] /\ keys'[op[q].day] = keys[op[q].day]
      BY <3>1, <3>2
    <3> QED
      BY <2>1, <3>3 DEF Agrees, At, Working, IsReserve, Bucket, Fits, Delta
  <2> QED
    BY <2>2, <2>3
<1> QED
  BY <1>1, <1>2 DEF LockInv

\* The client that takes the lock is alone in it.
LEMMA AcquireInv ==
  ASSUME LockInv, TypeOK', NEW p \in Proc, Acquire(p)
  PROVE  LockInv'
<1>1. op[p] # Idle /\ op[p].day \in Day /\ lock[op[p].day] = NoOwner
  BY OpType DEF LockInv, Acquire, At
<1>2. /\ op'[p] # Idle /\ op'[p].at = "look" /\ op'[p].day = op[p].day
      /\ \A q \in Proc : q # p => op'[q] = op[q]
  BY <1>1, OpMoves DEF LockInv, Acquire, Inside
<1>3. /\ lock'[op[p].day] = p
      /\ \A d \in Day : d # op[p].day => lock'[d] = lock[d]
  BY <1>1 DEF Acquire, LockInv, TypeOK
<1>4. ASSUME NEW q \in Proc, q # p, Working(q) PROVE op[q].day \in Day /\ op[q].day # op[p].day
  BY <1>1, <1>4, OpType DEF LockInv, Locked, Working
<1>5. Locked'
  <2>1. ASSUME NEW q \in Proc, Working(q)' PROVE lock'[op'[q].day] = q
    <3>1. CASE q = p
      BY <1>2, <1>3, <3>1
    <3>2. CASE q # p
      BY <1>2, <1>3, <1>4, <2>1, <3>2 DEF LockInv, Locked, Working
    <3> QED
      BY <3>1, <3>2
  <2> QED
    BY <2>1 DEF Locked
<1>6. ASSUME NEW q \in Proc PROVE Agrees(q)'
  <2>1. CASE q = p
    BY <1>2, <2>1 DEF Agrees, At
  <2>2. CASE q # p
    BY <1>2, <2>2 DEF Acquire, LockInv, Agrees, At, Working, IsReserve, Bucket, Fits, Delta
  <2> QED
    BY <2>1, <2>2
<1> QED
  BY <1>5, <1>6 DEF LockInv

\* Every command inside the lock leaves its client's knowledge right.
LEMMA CommandInv ==
  ASSUME LockInv, TypeOK', NEW p \in Proc,
         Look(p) \/ Drop(p) \/ ReadCounter(p) \/ Write(p) \/ Add(p)
  PROVE  LockInv'
<1>1. Working(p) /\ op[p] # Idle
  BY DEF Look, Drop, ReadCounter, Write, Add, At, Working, Inside
<1>2. /\ op[p].order \in Order /\ op[p].day \in Day /\ op[p].seen \in Nat
      /\ Bucket(p) \in Currency /\ Agrees(p)
      /\ op[p].kind \in {"reserve", "release"}
  BY <1>1, OpType DEF LockInv, Op
<1>3. CASE Look(p)
  <2>1. CASE (op[p].order \in keys[op[p].day]) = IsReserve(p)
    <3>1. /\ op'[p] # Idle /\ op'[p].at = "unlock" /\ op'[p].day = op[p].day
          /\ \A q \in Proc : q # p => op'[q] = op[q]
      BY <1>1, <1>3, <2>1, OpMoves DEF Look, LockInv, Inside
    <3>2. Agrees(p)'
      BY <3>1 DEF Agrees, At
    <3> QED
      BY <1>1, <1>3, <3>1, <3>2, InsideStep DEF Look
  <2>2. CASE (op[p].order \in keys[op[p].day]) # IsReserve(p)
    <3>1. PICK where \in {"read", "drop"} :
            Goto(p, where) /\ (where = "read" <=> IsReserve(p))
      BY <1>3, <2>2 DEF Look
    <3>2. /\ op'[p] # Idle /\ op'[p].at = where /\ op'[p].day = op[p].day
          /\ op'[p].order = op[p].order /\ op'[p].kind = op[p].kind
          /\ \A q \in Proc : q # p => op'[q] = op[q]
      BY <1>1, <3>1, OpMoves DEF LockInv, Inside
    <3>3. op[p].order \in keys[op[p].day] <=> ~IsReserve(p)
      BY <2>2 DEF IsReserve
    <3>4. Agrees(p)'
      BY <1>3, <3>1, <3>2, <3>3 DEF Look, Agrees, At, IsReserve
    <3> QED
      BY <1>1, <1>3, <3>2, <3>4, InsideStep DEF Look
  <2> QED
    BY <2>1, <2>2
<1>4. CASE Drop(p)
  <2>1. /\ op'[p] # Idle /\ op'[p].at = "read" /\ op'[p].day = op[p].day
        /\ op'[p].order = op[p].order /\ op'[p].kind = op[p].kind
        /\ \A q \in Proc : q # p => op'[q] = op[q]
    BY <1>1, <1>4, OpMoves DEF Drop, LockInv, Inside
  <2>2. /\ keys'[op[p].day] = keys[op[p].day] \ {op[p].order}
        /\ \A d \in Day : d # op[p].day => keys'[d] = keys[d]
    BY <1>2, <1>4 DEF Drop, LockInv, TypeOK
  <2>3. Agrees(p)'
    BY <2>1, <2>2 DEF Agrees, At
  <2> QED
    BY <1>1, <1>4, <2>1, <2>2, <2>3, InsideStep DEF Drop
<1>5. CASE ReadCounter(p)
  <2> DEFINE cur == counter[op[p].day][Bucket(p)]
             where == IF IsReserve(p) /\ ~Fits(p, cur) THEN "unlock" ELSE "write"
  <2>1. op' = [op EXCEPT ![p] = [op[p] EXCEPT !.seen = cur, !.at = where]]
    BY <1>5 DEF ReadCounter
  <2>2. op'[p] = [op[p] EXCEPT !.seen = cur, !.at = where] /\ \A q \in Proc : q # p => op'[q] = op[q]
    BY <2>1 DEF LockInv, TypeOK
  <2>3. /\ op'[p].at = where /\ op'[p].seen = cur
        /\ op'[p].order = op[p].order /\ op'[p].day = op[p].day /\ op'[p].kind = op[p].kind
    BY <1>1, <2>2, OpType DEF LockInv, Op
  <2>4. op'[p] # Idle
    BY <2>3 DEF Idle
  <2>5. op[p].order \notin keys[op[p].day] /\ UNCHANGED <<counter, keys, lock>>
    BY <1>1, <1>2, <1>5 DEF ReadCounter, Agrees, At
  <2>6. Agrees(p)'
    BY <2>3, <2>4, <2>5 DEF Agrees, At, Working, IsReserve, Bucket, Fits, Delta
  <2> QED
    BY <1>1, <2>2, <2>3, <2>4, <2>5, <2>6, InsideStep
<1>6. CASE Write(p)
  <2>1. PICK where \in {"add", "unlock"} : Goto(p, where) /\ (where = "add" => IsReserve(p))
    BY <1>6 DEF Write
  <2>2. /\ op'[p] # Idle /\ op'[p].at = where /\ op'[p].day = op[p].day
        /\ op'[p].order = op[p].order /\ op'[p].kind = op[p].kind
        /\ \A q \in Proc : q # p => op'[q] = op[q]
    BY <1>1, <2>1, OpMoves DEF LockInv, Inside
  <2>3. op[p].order \notin keys[op[p].day]
    BY <1>1, <1>2, <1>6 DEF Write, Agrees, At
  <2>4. Agrees(p)'
    BY <1>6, <2>1, <2>2, <2>3 DEF Write, Agrees, At, IsReserve
  <2>5. \A d \in Day : d # op[p].day => counter'[d] = counter[d]
    BY <1>6 DEF Write, LockInv, TypeOK
  <2> QED
    BY <1>1, <1>6, <2>2, <2>4, <2>5, InsideStep DEF Write
<1>7. CASE Add(p)
  <2>1. /\ op'[p] # Idle /\ op'[p].at = "unlock" /\ op'[p].day = op[p].day
        /\ \A q \in Proc : q # p => op'[q] = op[q]
    BY <1>1, <1>7, OpMoves DEF Add, LockInv, Inside
  <2>2. Agrees(p)'
    BY <2>1 DEF Agrees, At
  <2>3. \A d \in Day : d # op[p].day => keys'[d] = keys[d]
    BY <1>7 DEF Add, LockInv, TypeOK
  <2> QED
    BY <1>1, <1>7, <2>1, <2>2, <2>3, InsideStep DEF Add
<1> QED
  BY <1>3, <1>4, <1>5, <1>6, <1>7

\* While leases hold, every step keeps the lock exclusive and what its holder knows true.
LEMMA StepLock ==
  ASSUME LeaseHolds, LockInv, [Next]_vars
  PROVE  LockInv'
<1>1. TypeOK'
  BY StepType DEF LockInv
<1>2. ASSUME NEW p \in Proc, NEW kind \in {"reserve", "release"}, NEW o \in Order, NEW d \in Day,
             Begin(p, kind, o, d)
      PROVE  LockInv'
  <2>1. op'[p].at = "waiting" /\ \A q \in Proc : q # p => op'[q] = op[q]
    BY <1>2 DEF Begin, LockInv, TypeOK
  <2>2. \A q \in Proc : Working(q)' => op'[q] = op[q] /\ lock'[op[q].day] = lock[op[q].day]
    BY <1>2, <2>1 DEF Begin, Working, Inside
  <2> QED
    BY <1>1, <1>2, <2>2, OutsideStep DEF Begin
<1>3. ASSUME NEW p \in Proc, ClientStep(p) PROVE LockInv'
  <2>1. CASE Acquire(p)
    BY <1>1, <2>1, AcquireInv
  <2>2. CASE GiveUp(p)
    <3>1. \A q \in Proc : Working(q)' => op'[q] = op[q] /\ lock'[op[q].day] = lock[op[q].day]
      BY <2>2 DEF GiveUp, Finish, Working, LockInv, TypeOK
    <3> QED
      BY <1>1, <2>2, <3>1, OutsideStep DEF GiveUp
  <2>3. CASE Look(p) \/ Drop(p) \/ ReadCounter(p) \/ Write(p) \/ Add(p)
    BY <1>1, <2>3, CommandInv
  <2>4. CASE Unlock(p)
    <3>1. Working(p) /\ lock[op[p].day] = p
      BY <2>4, AtIsWorking DEF Unlock, LockInv, Locked, Inside
    <3>2. \A q \in Proc : Working(q)' => q # p /\ op'[q] = op[q] /\ Working(q)
      BY <2>4 DEF Unlock, Finish, Working, LockInv, TypeOK
    <3>3. \A q \in Proc : Working(q) /\ q # p => lock'[op[q].day] = lock[op[q].day]
      BY <2>4, <3>1, OpType DEF Unlock, Unlocked, LockInv, Locked, Working, TypeOK
    <3> QED
      BY <1>1, <2>4, <3>2, <3>3, OutsideStep DEF Unlock
  <2> QED
    BY <1>3, <2>1, <2>2, <2>3, <2>4 DEF ClientStep
<1>4. ASSUME NEW p \in Proc, Fail(p) PROVE LockInv'
  <2>1. Working(p) /\ lock[op[p].day] = p
    BY <1>4 DEF Fail, LockInv, Locked
  <2>2. \A q \in Proc : Working(q)' => q # p /\ op'[q] = op[q] /\ Working(q)
    BY <1>4 DEF Fail, Finish, Working, LockInv, TypeOK
  <2>3. \A q \in Proc : Working(q) /\ q # p => lock'[op[q].day] = lock[op[q].day]
    BY <1>4, <2>1, OpType DEF Fail, Unlocked, LockInv, Locked, Working, TypeOK
  <2> QED
    BY <1>1, <1>4, <2>2, <2>3, OutsideStep DEF Fail
<1>5. ASSUME NEW d \in Day, LeaseExpires(d) PROVE LockInv'
  <2>1. \A q \in Proc : Working(q) => op[q].day # d
    BY <1>5 DEF LeaseExpires, LockInv, Locked
  <2>2. \A q \in Proc : Working(q)' => op'[q] = op[q] /\ lock'[op[q].day] = lock[op[q].day]
    BY <1>5, <2>1, OpType DEF LeaseExpires, Working, LockInv, TypeOK
  <2> QED
    BY <1>1, <1>5, <2>2, OutsideStep DEF LeaseExpires
<1>6. CASE UNCHANGED vars
  BY <1>1, <1>6, OutsideStep DEF vars
<1> QED
  BY <1>2, <1>3, <1>4, <1>5, <1>6 DEF Next

\* The initial state has nobody inside a lock.
LEMMA InitLock ==
  ASSUME Init
  PROVE  LockInv
BY InitType DEF Init, LockInv, Locked, Agrees, Working, At

\* While leases hold, a client inside the lock holds it alone and knows the
\* counter and the keys as they are when it writes.
THEOREM LockIsExclusive ==
  ASSUME LeaseHolds
  PROVE  Spec => []LockInv
<1>1. Init => LockInv
  BY InitLock
<1>2. LockInv /\ [Next]_vars => LockInv'
  BY StepLock
<1> QED
  BY <1>1, <1>2, PTL DEF Spec
-----------------------------------------------------------------------------
(* The effect of a step on the store in memory. *)

\* Both readings of the store agree on the amounts of an order.
LEMMA SameAmounts ==
  /\ \A o \in Order : Atomic!SpendDelta[o] = SpendDelta[o] /\ Atomic!CurrencyOf(o) = CurrencyOf(o)
  /\ \A n \in Int : Atomic!Floored(n) = Floored(n)
  /\ Atomic!Day = Day
BY DEF Atomic!SpendDelta, SpendDelta, Atomic!Increment, Increment, Atomic!CurrencyOf, CurrencyOf,
       Atomic!Floored, Floored, Atomic!Day, Day

\* A client between its two writes is inside its lock, alone.
LEMMA HalfIsInside ==
  ASSUME LockInv, NEW p \in Proc, Working(p), NEW q \in HalfDone, q # p
  PROVE  q \in Proc /\ Working(q) /\ op[q].day # op[p].day
<1>1. q \in Proc /\ Working(q)
  BY AtIsWorking DEF HalfDone, Inside
<1> QED
  BY <1>1 DEF LockInv, Locked

\* What is in effect on a day where client p is inside the lock.
LEMMA EffectInside ==
  ASSUME LockInv, NEW p \in Proc, Working(p)
  PROVE  KeysInEffect[op[p].day]
           = IF p \in HalfDone THEN keys[op[p].day] \cup {op[p].order} ELSE keys[op[p].day]
<1>1. op[p].day \in Day
  BY OpType DEF LockInv, Working
<1>2. KeysInEffect[op[p].day]
        = keys[op[p].day] \cup {op[x].order : x \in {q \in HalfDone : op[q].day = op[p].day}}
  BY <1>1 DEF KeysInEffect
<1>3. {q \in HalfDone : op[q].day = op[p].day} = IF p \in HalfDone THEN {p} ELSE {}
  BY HalfIsInside
<1> QED
  BY <1>2, <1>3

\* A step of client p leaves the other days' effects alone.
LEMMA OtherDays ==
  ASSUME LockInv, NEW p \in Proc, Working(p), op'[p] # Idle => op'[p].day = op[p].day,
         \A q \in Proc : q # p => op'[q] = op[q],
         NEW d \in Day, d # op[p].day, keys'[d] = keys[d]
  PROVE  KeysInEffect'[d] = KeysInEffect[d]
<1>1. p \in HalfDone' => op'[p] # Idle
  BY DEF HalfDone, At, Working
<1>2. \A q \in Proc : q # p => (q \in HalfDone' <=> q \in HalfDone)
  BY DEF HalfDone, At, Working, IsReserve
<1>3. {q \in HalfDone' : op'[q].day = d} = {q \in HalfDone : op[q].day = d}
  BY <1>1, <1>2 DEF HalfDone
<1>4. \A q \in {x \in HalfDone : op[x].day = d} : op'[q].order = op[q].order
  BY DEF HalfDone
<1>5. {op'[x].order : x \in {q \in HalfDone' : op'[q].day = d}}
        = {op[x].order : x \in {q \in HalfDone : op[q].day = d}}
  BY <1>3, <1>4
<1> QED
  BY <1>5 DEF KeysInEffect

\* EffectInside for every client, as a state formula.
EffectLaw ==
  \A p \in Proc : Working(p) =>
    KeysInEffect[op[p].day]
      = IF p \in HalfDone THEN keys[op[p].day] \cup {op[p].order} ELSE keys[op[p].day]

\* Inside the lock, each command has the effect that the law states.
LEMMA LockGivesLaw == LockInv => EffectLaw
BY EffectInside DEF EffectLaw

\* Steps that leave keys and half-done calls as they are change no effect.
LEMMA SameEffect ==
  ASSUME UNCHANGED keys,
         \A q \in Proc : /\ q \in HalfDone' <=> q \in HalfDone
                         /\ q \in HalfDone => op'[q] = op[q]
  PROVE  KeysInEffect' = KeysInEffect
<1>1. HalfDone' = HalfDone /\ \A q \in HalfDone : op'[q] = op[q]
  BY DEF HalfDone
<1>2. ASSUME NEW d \in Day
      PROVE  {op'[x].order : x \in {q \in HalfDone' : op'[q].day = d}}
               = {op[x].order : x \in {q \in HalfDone : op[q].day = d}}
  <2>1. {q \in HalfDone' : op'[q].day = d} = {q \in HalfDone : op[q].day = d}
    BY <1>1
  <2> QED
    BY <1>1, <2>1
<1> QED
  BY <1>2 DEF KeysInEffect

\* The commands other than SET change neither the counter nor what is in effect.
LEMMA QuietCommand ==
  ASSUME LockInv, LockInv', NEW p \in Proc, Look(p) \/ Drop(p) \/ ReadCounter(p) \/ Add(p)
  PROVE  UNCHANGED <<counter, KeysInEffect>>
<1> DEFINE o == op[p].order
           d == op[p].day
<1>1. Working(p) /\ op[p] # Idle /\ d \in Day /\ Agrees(p)
  BY OpType DEF Look, Drop, ReadCounter, Add, At, Working, Inside, LockInv
<1>2. EffectLaw /\ EffectLaw'
  BY LockGivesLaw, PTL
<1>3. PICK where \in {"drop", "read", "write", "unlock"} :
        /\ op'[p] # Idle /\ op'[p].at = where
        /\ op'[p].order = o /\ op'[p].day = d /\ op'[p].kind = op[p].kind
        /\ \A q \in Proc : q # p => op'[q] = op[q]
        /\ Look(p) => where = "unlock" \/ where = (IF IsReserve(p) THEN "read" ELSE "drop")
        /\ Drop(p) => where = "read"
        /\ ReadCounter(p) => where = "write" \/ (where = "unlock" /\ IsReserve(p))
        /\ Add(p) => where = "unlock"
  <2>1. CASE ReadCounter(p)
    <3>1. PICK where \in {"write", "unlock"} :
            /\ op' = [op EXCEPT ![p] = [op[p] EXCEPT !.seen = counter[d][Bucket(p)], !.at = where]]
            /\ where = "unlock" => IsReserve(p)
      BY <2>1 DEF ReadCounter
    <3>2. /\ op'[p] = [op[p] EXCEPT !.seen = counter[d][Bucket(p)], !.at = where]
          /\ \A q \in Proc : q # p => op'[q] = op[q]
      BY <3>1 DEF LockInv, TypeOK
    <3>3. /\ op'[p].at = where /\ op'[p].order = o /\ op'[p].day = d /\ op'[p].kind = op[p].kind
      BY <1>1, <3>2, OpType DEF LockInv, Op
    <3>4. op'[p] # Idle
      BY <3>3 DEF Idle
    <3>5. ~Look(p) /\ ~Drop(p) /\ ~Add(p)
      BY <2>1 DEF ReadCounter, Look, Drop, Add, At
    <3> QED
      BY <3>1, <3>2, <3>3, <3>4, <3>5
  <2>2. CASE Look(p) \/ Drop(p) \/ Add(p)
    <3>1. PICK where \in {"drop", "read", "unlock"} :
            /\ Goto(p, where)
            /\ Look(p) => where = "unlock" \/ where = (IF IsReserve(p) THEN "read" ELSE "drop")
            /\ Drop(p) => where = "read"
            /\ Add(p) => where = "unlock"
      BY <2>2 DEF Look, Drop, Add, At
    <3>2. ~ReadCounter(p)
      BY <2>2 DEF ReadCounter, Look, Drop, Add, At
    <3> QED
      BY <1>1, <3>1, <3>2, OpMoves DEF LockInv, Inside
  <2> QED
    BY <2>1, <2>2
<1>4. Working(p)'
  BY <1>3 DEF Working, Inside
<1>5. \A e \in Day : e # d => keys'[e] = keys[e]
  BY DEF Look, Drop, ReadCounter, Add, LockInv, TypeOK
<1>6. KeysInEffect'[d] = KeysInEffect[d]
  <2>1. /\ KeysInEffect[d] = IF p \in HalfDone THEN keys[d] \cup {o} ELSE keys[d]
        /\ KeysInEffect'[d] = IF p \in HalfDone' THEN keys'[d] \cup {o} ELSE keys'[d]
    BY <1>1, <1>2, <1>3, <1>4 DEF EffectLaw
  <2>2. p \in HalfDone' <=> ~IsReserve(p) /\ op'[p].at \in {"read", "write"}
    BY <1>3, <1>4 DEF HalfDone, At, IsReserve
  <2>3. CASE Look(p)
    <3>1. p \notin HalfDone
      BY <2>3 DEF Look, HalfDone, At
    <3> QED
      BY <1>3, <2>1, <2>2, <2>3, <3>1 DEF Look
  <2>4. CASE Drop(p)
    <3>1. p \notin HalfDone /\ ~IsReserve(p) /\ o \in keys[d]
      BY <1>1, <2>4 DEF Drop, HalfDone, At, Agrees
    <3>2. keys'[d] = keys[d] \ {o}
      BY <1>1, <2>4 DEF Drop, LockInv, TypeOK
    <3> QED
      BY <1>3, <2>1, <2>2, <2>4, <3>1, <3>2
  <2>5. CASE ReadCounter(p)
    <3>1. p \in HalfDone <=> ~IsReserve(p)
      BY <1>1, <2>5 DEF ReadCounter, HalfDone, At
    <3> QED
      BY <1>3, <2>1, <2>2, <2>5, <3>1 DEF ReadCounter
  <2>6. CASE Add(p)
    <3>1. p \in HalfDone
      BY <2>6 DEF Add, HalfDone
    <3>2. keys'[d] = keys[d] \cup {o}
      BY <1>1, <2>6 DEF Add, LockInv, TypeOK
    <3> QED
      BY <1>3, <2>1, <2>2, <2>6, <3>1, <3>2
  <2> QED
    BY <2>3, <2>4, <2>5, <2>6
<1>7. \A e \in Day : KeysInEffect'[e] = KeysInEffect[e]
  BY <1>1, <1>3, <1>5, <1>6, OtherDays
<1>8. KeysInEffect' = KeysInEffect
  BY <1>7 DEF KeysInEffect
<1> QED
  BY <1>8 DEF Look, Drop, ReadCounter, Add

\* SET moves one counter, by the order's amount and from what it is.
LEMMA WriteMoves ==
  ASSUME LockInv, NEW p \in Proc, Write(p)
  PROVE  /\ Working(p) /\ op[p] # Idle
         /\ op[p].day \in Day /\ op[p].order \in Order
         /\ op[p].order \notin keys[op[p].day]
         /\ IsReserve(p) => Fits(p, counter[op[p].day][Bucket(p)])
         /\ counter' = [counter EXCEPT ![op[p].day][Bucket(p)] =
                          Floored(counter[op[p].day][Bucket(p)] + Delta(p))]
<1>1. Working(p) /\ op[p] # Idle /\ Agrees(p) /\ op[p].at = "write"
  BY DEF Write, At, Working, Inside, LockInv
<1>2. op[p].order \notin keys[op[p].day]
  BY <1>1 DEF Agrees
<1>3. /\ op[p].seen = counter[op[p].day][Bucket(p)]
      /\ IsReserve(p) => Fits(p, op[p].seen)
  BY <1>1 DEF Agrees, At
<1> QED
  BY <1>1, <1>2, <1>3, OpType DEF Write, LockInv

\* SET is the moment a call takes effect.
LEMMA WriteEffect ==
  ASSUME LockInv, LockInv', NEW p \in Proc, Write(p)
  PROVE  /\ \A e \in Day : e # op[p].day => KeysInEffect'[e] = KeysInEffect[e]
         /\ IsReserve(p) => /\ KeysInEffect[op[p].day] = keys[op[p].day]
                            /\ KeysInEffect'[op[p].day] = keys[op[p].day] \cup {op[p].order}
         /\ ~IsReserve(p) => /\ KeysInEffect[op[p].day] = keys[op[p].day] \cup {op[p].order}
                             /\ KeysInEffect'[op[p].day] = keys[op[p].day]
<1>1. Working(p) /\ op[p] # Idle /\ op[p].day \in Day /\ UNCHANGED keys /\ op[p].at = "write"
  BY WriteMoves DEF Write, At
<1>2. EffectLaw /\ EffectLaw'
  BY LockGivesLaw, PTL
<1>3. /\ op'[p] # Idle /\ op'[p].at = IF IsReserve(p) THEN "add" ELSE "unlock"
      /\ op'[p].order = op[p].order /\ op'[p].day = op[p].day /\ op'[p].kind = op[p].kind
      /\ \A q \in Proc : q # p => op'[q] = op[q]
  <2>1. PICK where \in {"add", "unlock"} : Goto(p, where) /\ where = IF IsReserve(p) THEN "add" ELSE "unlock"
    BY DEF Write
  <2> QED
    BY <1>1, <2>1, OpMoves DEF LockInv, Inside
<1>4. Working(p)'
  BY <1>3 DEF Working, Inside
<1>5. (p \in HalfDone <=> ~IsReserve(p)) /\ (p \in HalfDone' <=> IsReserve(p))
  BY <1>1, <1>3, <1>4 DEF HalfDone, At, IsReserve
<1>6. /\ KeysInEffect[op[p].day] = IF p \in HalfDone THEN keys[op[p].day] \cup {op[p].order} ELSE keys[op[p].day]
      /\ KeysInEffect'[op[p].day] = IF p \in HalfDone' THEN keys'[op[p].day] \cup {op[p].order} ELSE keys'[op[p].day]
  BY <1>1, <1>2, <1>3, <1>4 DEF EffectLaw
<1>7. \A e \in Day : e # op[p].day => KeysInEffect'[e] = KeysInEffect[e]
  BY <1>1, <1>3, OtherDays
<1> QED
  BY <1>1, <1>5, <1>6, <1>7

\* SET is one whole call of the store in memory.
LEMMA WriteIsCall ==
  ASSUME LockInv, LockInv', NEW p \in Proc, Write(p)
  PROVE  Atomic!Reserve(op[p].day, op[p].order) \/ Atomic!Release(op[p].day, op[p].order)
<1> DEFINE o == op[p].order
           d == op[p].day
           b == CurrencyOf(op[p].order)
<1>1. /\ Working(p) /\ op[p] # Idle
      /\ d \in Day /\ o \in Order /\ o \notin keys[d]
      /\ IsReserve(p) => Fits(p, counter[d][b])
      /\ counter' = [counter EXCEPT ![d][b] = Floored(counter[d][b] + Delta(p))]
  BY WriteMoves DEF Bucket
<1>2. /\ counter[d][b] \in Nat /\ Delta(p) \in Int /\ SpendDelta[o] \in Int
      /\ Delta(p) = IF IsReserve(p) THEN SpendDelta[o] ELSE -SpendDelta[o]
  BY <1>1, OpType, DeltaType DEF LockInv, Bucket, Delta, Amount
<1>3. /\ Atomic!SpendDelta[o] = SpendDelta[o] /\ Atomic!CurrencyOf(o) = b
      /\ Atomic!Floored(counter[d][b] + Delta(p)) = Floored(counter[d][b] + Delta(p))
  BY <1>1, <1>2, SameAmounts
<1>4. CASE IsReserve(p)
  <2>1. o \notin KeysInEffect[d]
    BY <1>1, <1>4, WriteEffect
  <2>2. Atomic!Fits(d, o, Atomic!SpendDelta[o])
    BY <1>1, <1>2, <1>3, <1>4 DEF Fits, Bucket, Atomic!Fits
  <2>3. counter' = Atomic!Moved(d, o, Atomic!SpendDelta[o])
    BY <1>1, <1>2, <1>3, <1>4 DEF Atomic!Moved
  <2>4. KeysInEffect' = [KeysInEffect EXCEPT ![d] = KeysInEffect[d] \cup {o}]
    <3>1. /\ KeysInEffect'[d] = KeysInEffect[d] \cup {o}
          /\ \A e \in Day : e # d => KeysInEffect'[e] = KeysInEffect[e]
      BY <1>4, WriteEffect
    <3> QED
      BY <1>1, <3>1 DEF KeysInEffect
  <2> QED
    BY <2>1, <2>2, <2>3, <2>4 DEF Atomic!Reserve
<1>5. CASE ~IsReserve(p)
  <2>1. o \in KeysInEffect[d]
    BY <1>5, WriteEffect
  <2>2. counter' = Atomic!Moved(d, o, -Atomic!SpendDelta[o])
    BY <1>1, <1>2, <1>3, <1>5 DEF Atomic!Moved
  <2>3. KeysInEffect' = [KeysInEffect EXCEPT ![d] = KeysInEffect[d] \ {o}]
    <3>1. /\ KeysInEffect'[d] = KeysInEffect[d] \ {o}
          /\ \A e \in Day : e # d => KeysInEffect'[e] = KeysInEffect[e]
      BY <1>1, <1>5, WriteEffect
    <3> QED
      BY <1>1, <3>1 DEF KeysInEffect
  <2> QED
    BY <2>1, <2>2, <2>3 DEF Atomic!Release
<1> QED
  BY <1>4, <1>5

\* A failure takes the key of a half-done call out of effect, or nothing.
LEMMA FailEffect ==
  ASSUME LockInv, NEW p \in Proc, Fail(p)
  PROVE  UNCHANGED <<counter, KeysInEffect>> \/ Atomic!LoseKey(op[p].day, op[p].order)
<1> DEFINE o == op[p].order
           d == op[p].day
<1>1. /\ Working(p) /\ d \in Day /\ o \in Order /\ UNCHANGED <<counter, keys>>
      /\ op'[p] = Idle /\ \A q \in Proc : q # p => op'[q] = op[q]
  BY OpType DEF Fail, Finish, Working, LockInv, TypeOK
<1>2. p \notin HalfDone' /\ \A q \in Proc : q # p => (q \in HalfDone' <=> q \in HalfDone)
  BY <1>1 DEF HalfDone, At, Working, IsReserve
<1>3. CASE p \notin HalfDone
  <2>1. \A q \in Proc : /\ q \in HalfDone' <=> q \in HalfDone
                        /\ q \in HalfDone => op'[q] = op[q]
    BY <1>1, <1>2, <1>3
  <2> QED
    BY <1>1, <2>1, SameEffect
<1>4. CASE p \in HalfDone
  <2>1. o \notin keys[d]
    BY <1>1, <1>4 DEF HalfDone, At, LockInv, Agrees
  <2>2. KeysInEffect[d] = keys[d] \cup {o}
    BY <1>1, <1>4, EffectInside
  <2>3. KeysInEffect'[d] = keys[d]
    <3>1. {q \in HalfDone' : op'[q].day = d} = {}
      <4> SUFFICES ASSUME NEW q \in HalfDone' PROVE op'[q].day # d
        OBVIOUS
      <4>1. q \in Proc /\ q # p /\ q \in HalfDone /\ op'[q] = op[q]
        BY <1>1, <1>2 DEF HalfDone
      <4> QED
        BY <1>1, <4>1, HalfIsInside
    <3> QED
      BY <1>1, <3>1 DEF KeysInEffect
  <2>4. \A e \in Day : e # d => KeysInEffect'[e] = KeysInEffect[e]
    BY <1>1, OtherDays
  <2>5. KeysInEffect' = [KeysInEffect EXCEPT ![d] = KeysInEffect[d] \ {o}]
    <3>1. KeysInEffect'[d] = KeysInEffect[d] \ {o}
      BY <2>1, <2>2, <2>3
    <3> QED
      BY <1>1, <2>4, <3>1 DEF KeysInEffect
  <2> QED
    BY <1>1, <2>2, <2>5 DEF Atomic!LoseKey
<1> QED
  BY <1>3, <1>4

\* Every step is a call of the store in memory, changes nothing that counts, or
\* is a failure that takes one key out of effect.
LEMMA StepEffect ==
  ASSUME LockInv, LockInv', [Next]_vars
  PROVE  \/ UNCHANGED <<counter, KeysInEffect>>
         \/ \E d \in Day, o \in Order : Atomic!Reserve(d, o) \/ Atomic!Release(d, o)
         \/ Failures /\ \E d \in Day, o \in Order : Atomic!LoseKey(d, o)
<1>1. ASSUME NEW p \in Proc, NEW kind \in {"reserve", "release"}, NEW o \in Order, NEW d \in Day,
             Begin(p, kind, o, d)
      PROVE  UNCHANGED <<counter, KeysInEffect>>
  <2>1. /\ op[p] = Idle /\ op'[p].at = "waiting"
        /\ \A q \in Proc : q # p => op'[q] = op[q]
    BY <1>1 DEF Begin, LockInv, TypeOK
  <2>2. \A q \in Proc : /\ q \in HalfDone' <=> q \in HalfDone
                        /\ q \in HalfDone => op'[q] = op[q]
    BY <2>1 DEF HalfDone, At, Working, Inside, IsReserve
  <2> QED
    BY <1>1, <2>2, SameEffect DEF Begin
<1>2. ASSUME NEW p \in Proc, Acquire(p) \/ GiveUp(p) \/ Unlock(p)
      PROVE  UNCHANGED <<counter, KeysInEffect>>
  <2>1. /\ op[p] # Idle /\ op[p].at \in {"waiting", "unlock"}
        /\ op'[p].at \in {"look", "idle"}
        /\ \A q \in Proc : q # p => op'[q] = op[q]
    <3>1. op[p] # Idle
      BY <1>2 DEF Acquire, GiveUp, Unlock, At
    <3>2. CASE Acquire(p)
      BY <3>1, <3>2, OpMoves DEF Acquire, At, LockInv, Inside
    <3>3. CASE GiveUp(p) \/ Unlock(p)
      BY <3>1, <3>3 DEF GiveUp, Unlock, At, Finish, Idle, LockInv, TypeOK
    <3> QED
      BY <1>2, <3>2, <3>3
  <2>2. \A q \in Proc : /\ q \in HalfDone' <=> q \in HalfDone
                        /\ q \in HalfDone => op'[q] = op[q]
    BY <2>1 DEF HalfDone, At, Working, Inside, IsReserve
  <2> QED
    BY <1>2, <2>2, SameEffect DEF Acquire, GiveUp, Unlock
<1>3. ASSUME NEW p \in Proc, Look(p) \/ Drop(p) \/ ReadCounter(p) \/ Add(p)
      PROVE  UNCHANGED <<counter, KeysInEffect>>
  BY <1>3, QuietCommand
<1>4. ASSUME NEW p \in Proc, Write(p)
      PROVE  \E d \in Day, o \in Order : Atomic!Reserve(d, o) \/ Atomic!Release(d, o)
  BY <1>4, WriteIsCall, WriteMoves
<1>5. ASSUME NEW p \in Proc, Fail(p)
      PROVE  \/ UNCHANGED <<counter, KeysInEffect>>
             \/ Failures /\ \E d \in Day, o \in Order : Atomic!LoseKey(d, o)
  <2>1. Failures /\ op[p].day \in Day /\ op[p].order \in Order
    BY <1>5, OpType DEF Fail, Working, LockInv
  <2> QED
    BY <1>5, <2>1, FailEffect
<1>6. ASSUME NEW d \in Day, LeaseExpires(d) PROVE UNCHANGED <<counter, KeysInEffect>>
  <2>1. \A q \in Proc : /\ q \in HalfDone' <=> q \in HalfDone
                        /\ q \in HalfDone => op'[q] = op[q]
    BY <1>6 DEF LeaseExpires, HalfDone, At, Working, IsReserve
  <2> QED
    BY <1>6, <2>1, SameEffect DEF LeaseExpires
<1>7. CASE UNCHANGED vars
  BY <1>7 DEF vars, KeysInEffect, HalfDone, At, Working, IsReserve
<1> QED
  BY <1>1, <1>2, <1>3, <1>4, <1>5, <1>6, <1>7 DEF Next, ClientStep
-----------------------------------------------------------------------------
(* Atomicity. *)

\* While leases hold, every step of the redis store is a call of the store in
\* memory, a stutter, or a failure that loses one key: reserve and release are
\* atomic.
THEOREM ImplementsStore ==
  ASSUME LeaseHolds
  PROVE  Spec => IsAtomic
<1>1. Init => Atomic!StoreInit
  <2> SUFFICES ASSUME Init PROVE Atomic!StoreInit
    OBVIOUS
  <2>1. HalfDone = {}
    BY DEF Init, HalfDone, At, Working
  <2>2. KeysInEffect = [d \in Day |-> {}]
    BY <2>1 DEF Init, KeysInEffect
  <2> QED
    BY <2>2 DEF Init, Atomic!StoreInit, Atomic!EmptyCounters, Atomic!Day, Day
<1>2. LockInv /\ LockInv' /\ [Next]_vars => [CallOrFailure]_Atomic!storeVars
  <2> SUFFICES ASSUME LockInv, LockInv', [Next]_vars
               PROVE  [CallOrFailure]_Atomic!storeVars
    OBVIOUS
  <2>1. \/ UNCHANGED <<counter, KeysInEffect>>
        \/ \E d \in Day, o \in Order : Atomic!Reserve(d, o) \/ Atomic!Release(d, o)
        \/ Failures /\ \E d \in Day, o \in Order : Atomic!LoseKey(d, o)
    BY StepEffect
  <2> QED
    BY <2>1, SameAmounts DEF CallOrFailure, Atomic!StoreNext, Atomic!storeVars
<1> QED
  BY <1>1, <1>2, LockIsExclusive, PTL DEF Spec, IsAtomic
-----------------------------------------------------------------------------
(* Failures. *)

\* The orders in effect are finitely many orders.
LEMMA HeldFinite ==
  ASSUME LockInv, NEW d \in Day, NEW c \in Currency
  PROVE  /\ HeldIn(d, c) \in SUBSET Order /\ IsFiniteSet(HeldIn(d, c))
         /\ KeysInEffect[d] \in SUBSET Order
<1>1. \A q \in HalfDone : op[q].order \in Order
  BY AtIsWorking, OpType DEF LockInv, HalfDone, Working, Inside
<1>2. KeysInEffect[d] \in SUBSET Order
  BY <1>1 DEF KeysInEffect, LockInv, TypeOK
<1>3. HeldIn(d, c) \in SUBSET Order
  BY <1>2 DEF HeldIn
<1> QED
  BY <1>2, <1>3, FS_Subset

CoverInv == LockInv /\ CounterCovers

\* A reservation adds to the counter what it adds to the reserved orders.
LEMMA ReserveCovers ==
  ASSUME CoverInv, LockInv', NEW d \in Day, NEW o \in Order, Atomic!Reserve(d, o)
  PROVE  CounterCovers'
<1>1. CASE UNCHANGED <<counter, KeysInEffect>>
  BY <1>1 DEF CoverInv, CounterCovers, HeldIn
<1>2. CASE ~UNCHANGED <<counter, KeysInEffect>>
  <2> DEFINE b == CurrencyOf(o)
  <2>1. /\ b \in Currency /\ SpendDelta[o] \in Int /\ counter[d][b] \in Nat
        /\ Atomic!SpendDelta[o] = SpendDelta[o] /\ Atomic!CurrencyOf(o) = b
    BY DeltaType, SameAmounts DEF CoverInv, LockInv, TypeOK, Amount
  <2>2. /\ o \notin KeysInEffect[d]
        /\ counter' = [counter EXCEPT ![d][b] = Floored(counter[d][b] + SpendDelta[o])]
        /\ KeysInEffect' = [KeysInEffect EXCEPT ![d] = KeysInEffect[d] \cup {o}]
    BY <1>2, <2>1, SameAmounts DEF Atomic!Reserve, Atomic!storeVars, Atomic!Moved
  <2>3. /\ counter[d][b] + SpendDelta[o] <= counter'[d][b] /\ counter'[d][b] \in Nat
        /\ \A e \in Day, c \in Currency : <<e, c>> # <<d, b>> => counter'[e][c] = counter[e][c]
    BY <2>1, <2>2 DEF Floored, CoverInv, LockInv, TypeOK
  <2>4. /\ KeysInEffect'[d] = KeysInEffect[d] \cup {o}
        /\ \A e \in Day : e # d => KeysInEffect'[e] = KeysInEffect[e]
    BY <2>2 DEF KeysInEffect
  <2>5. /\ HeldIn(d, b)' = HeldIn(d, b) \cup {o} /\ o \notin HeldIn(d, b)
        /\ \A e \in Day, c \in Currency : <<e, c>> # <<d, b>> => HeldIn(e, c)' = HeldIn(e, c)
    BY <2>2, <2>4 DEF HeldIn
  <2>6. Total(HeldIn(d, b) \cup {o}, SpendDelta) = Total(HeldIn(d, b), SpendDelta) + SpendDelta[o]
    BY <2>1, <2>5, DeltaType, HeldFinite, TotalAdd DEF CoverInv
  <2>7. Total(HeldIn(d, b), SpendDelta) <= counter[d][b] /\ Total(HeldIn(d, b), SpendDelta) \in Int
    BY <2>1, HeldFinite, UnitsFinite DEF CoverInv, CounterCovers
  <2>8. Total(HeldIn(d, b)', SpendDelta) <= counter'[d][b]
    BY <2>1, <2>3, <2>5, <2>6, <2>7
  <2> QED
    BY <2>3, <2>5, <2>8 DEF CoverInv, CounterCovers
<1> QED
  BY <1>1, <1>2

\* A release takes no more from the counter than from the reserved orders.
LEMMA ReleaseCovers ==
  ASSUME CoverInv, LockInv', NEW d \in Day, NEW o \in Order, Atomic!Release(d, o)
  PROVE  CounterCovers'
<1>1. CASE UNCHANGED <<counter, KeysInEffect>>
  BY <1>1 DEF CoverInv, CounterCovers, HeldIn
<1>2. CASE ~UNCHANGED <<counter, KeysInEffect>>
  <2> DEFINE b == CurrencyOf(o)
  <2>1. /\ b \in Currency /\ SpendDelta[o] \in Int /\ counter[d][b] \in Nat
        /\ Atomic!SpendDelta[o] = SpendDelta[o] /\ Atomic!CurrencyOf(o) = b
    BY DeltaType, SameAmounts DEF CoverInv, LockInv, TypeOK, Amount
  <2>2. /\ o \in KeysInEffect[d]
        /\ counter' = [counter EXCEPT ![d][b] = Floored(counter[d][b] + (-SpendDelta[o]))]
        /\ KeysInEffect' = [KeysInEffect EXCEPT ![d] = KeysInEffect[d] \ {o}]
    BY <1>2, <2>1, SameAmounts DEF Atomic!Release, Atomic!storeVars, Atomic!Moved
  <2>3. /\ counter[d][b] - SpendDelta[o] <= counter'[d][b]
        /\ counter'[d][b] \in Nat
        /\ \A e \in Day, c \in Currency : <<e, c>> # <<d, b>> => counter'[e][c] = counter[e][c]
    BY <2>1, <2>2 DEF Floored, CoverInv, LockInv, TypeOK
  <2>4. /\ KeysInEffect'[d] = KeysInEffect[d] \ {o}
        /\ \A e \in Day : e # d => KeysInEffect'[e] = KeysInEffect[e]
    BY <2>2 DEF KeysInEffect
  <2>5. /\ HeldIn(d, b)' = HeldIn(d, b) \ {o} /\ o \in HeldIn(d, b)
        /\ \A e \in Day, c \in Currency : <<e, c>> # <<d, b>> => HeldIn(e, c)' = HeldIn(e, c)
    BY <2>2, <2>4 DEF HeldIn
  <2>6. Total(HeldIn(d, b) \ {o}, SpendDelta) = Total(HeldIn(d, b), SpendDelta) - SpendDelta[o]
    BY <2>1, <2>5, DeltaType, HeldFinite, TotalRemove DEF CoverInv
  <2>7. Total(HeldIn(d, b), SpendDelta) <= counter[d][b] /\ Total(HeldIn(d, b), SpendDelta) \in Int
    BY <2>1, HeldFinite, UnitsFinite DEF CoverInv, CounterCovers
  <2>8. Total(HeldIn(d, b)', SpendDelta) <= counter'[d][b]
    BY <2>1, <2>3, <2>5, <2>6, <2>7
  <2> QED
    BY <2>3, <2>5, <2>8 DEF CoverInv, CounterCovers
<1> QED
  BY <1>1, <1>2

\* Without credits a failure, which only takes orders out of effect, leaves the
\* counter too high.
LEMMA FailureCovers ==
  ASSUME NoCredit, CoverInv, LockInv', UNCHANGED counter,
         \A d \in Day : KeysInEffect'[d] \subseteq KeysInEffect[d]
  PROVE  CounterCovers'
<1>1. ASSUME NEW d \in Day, NEW c \in Currency
      PROVE  Total(HeldIn(d, c)', SpendDelta) <= counter'[d][c]
  <2>1. HeldIn(d, c)' \in SUBSET HeldIn(d, c)
    BY DEF HeldIn
  <2>2. HeldIn(d, c) \in SUBSET Order /\ IsFiniteSet(HeldIn(d, c)) /\ IsFiniteSet(HeldIn(d, c)')
    BY <2>1, HeldFinite, FS_Subset DEF CoverInv
  <2>3. \A o \in Order : SpendDelta[o] \in Int /\ 0 <= SpendDelta[o]
    BY DeltaType DEF NoCredit, Amount
  <2>4. Total(HeldIn(d, c)', SpendDelta) <= Total(HeldIn(d, c), SpendDelta)
    BY <2>1, <2>2, <2>3, DeltaType, TotalMonotone
  <2>5. /\ Total(HeldIn(d, c)', SpendDelta) \in Int /\ Total(HeldIn(d, c), SpendDelta) \in Int
        /\ counter[d][c] \in Nat
    BY <2>2, UnitsFinite DEF CoverInv, LockInv, TypeOK
  <2> QED
    BY <2>4, <2>5 DEF CoverInv, CounterCovers
<1> QED
  BY <1>1 DEF CounterCovers

\* While leases hold the counter covers what is reserved, downsizes included as
\* long as nothing fails, and whatever dies between two commands if there are none.
THEOREM CounterIsSafe ==
  ASSUME LeaseHolds, Failures => NoCredit
  PROVE  Spec => []CounterCovers
<1>1. Init => CoverInv
  <2> SUFFICES ASSUME Init PROVE CoverInv
    OBVIOUS
  <2>1. HalfDone = {}
    BY DEF Init, HalfDone, At, Working
  <2>2. \A d \in Day, c \in Currency : HeldIn(d, c) = {} /\ counter[d][c] = 0
    BY <2>1 DEF Init, KeysInEffect, HeldIn
  <2>3. CounterCovers
    <3>1. Total({}, SpendDelta) = 0
      BY TotalEmpty
    <3>2. ASSUME NEW d \in Day, NEW c \in Currency
          PROVE  Total(HeldIn(d, c), SpendDelta) = 0 /\ counter[d][c] = 0
      BY <2>2, <3>1
    <3> QED
      BY <3>2 DEF CounterCovers
  <2> QED
    BY <2>3, InitLock DEF CoverInv
<1>2. CoverInv /\ [Next]_vars => CoverInv'
  <2> SUFFICES ASSUME CoverInv, [Next]_vars PROVE CoverInv'
    OBVIOUS
  <2>1. LockInv'
    BY StepLock DEF CoverInv
  <2>2. CASE UNCHANGED <<counter, KeysInEffect>>
    BY <2>1, <2>2 DEF CoverInv, CounterCovers, HeldIn
  <2>3. ASSUME NEW d \in Day, NEW o \in Order, Atomic!Reserve(d, o) \/ Atomic!Release(d, o)
        PROVE  CoverInv'
    BY <2>1, <2>3, ReserveCovers, ReleaseCovers DEF CoverInv
  <2>4. ASSUME Failures, NEW d \in Day, NEW o \in Order, Atomic!LoseKey(d, o)
        PROVE  CoverInv'
    <3>1. /\ UNCHANGED counter
          /\ KeysInEffect' = [KeysInEffect EXCEPT ![d] = KeysInEffect[d] \ {o}]
      BY <2>4 DEF Atomic!LoseKey
    <3>2. \A e \in Day : KeysInEffect'[e] \subseteq KeysInEffect[e]
      BY <3>1 DEF KeysInEffect
    <3> QED
      BY <2>1, <2>4, <3>1, <3>2, FailureCovers DEF CoverInv
  <2> QED
    BY <2>1, <2>2, <2>3, <2>4, StepEffect DEF CoverInv
<1>3. CoverInv => CounterCovers
  BY DEF CoverInv
<1> QED
  BY <1>1, <1>2, <1>3, PTL DEF Spec
-----------------------------------------------------------------------------
(* The cap needs no lock: every SET writes what was read, checked and moved  *)
(* by one order, or lower.  Interleaved SETs may lose one another's counts   *)
(* when leases run out; none of them passes the cap.                         *)

\* What a client is about to write is within the cap of its bucket.
WritesWithinCap ==
  \A p \in Proc : At(p, "write") => op[p].seen + Delta(p) <= Cap[Bucket(p)]

CapInv == TypeOK /\ CounterWithinCap /\ WritesWithinCap

\* The client that reads the counter goes on to write only within the cap.
LEMMA ReadKeepsCap ==
  ASSUME NoCredit, CapInv, TypeOK', NEW p \in Proc, ReadCounter(p)
  PROVE  CapInv'
<1> DEFINE cur == counter[op[p].day][Bucket(p)]
           where == IF IsReserve(p) /\ ~Fits(p, cur) THEN "unlock" ELSE "write"
<1>1. /\ TypeOK /\ op[p] # Idle /\ op[p] \in Op /\ op[p].order \in Order /\ op[p].day \in Day
      /\ Bucket(p) \in Currency /\ Delta(p) \in Int /\ cur \in Nat
  BY OpType DEF ReadCounter, At, CapInv
<1>2. cur <= Cap[Bucket(p)] /\ Cap[Bucket(p)] \in Nat
  BY <1>1 DEF CapInv, CounterWithinCap
<1>3. where = "write" => cur + Delta(p) <= Cap[Bucket(p)]
  <2>1. CASE IsReserve(p)
    BY <2>1 DEF Fits
  <2>2. CASE ~IsReserve(p)
    <3>1. Delta(p) <= 0
      <4>1. SpendDelta[op[p].order] \in Int /\ SpendDelta[op[p].order] >= 0
        BY <1>1, DeltaType DEF NoCredit, Amount
      <4> QED
        BY <2>2, <4>1 DEF Delta
    <3> QED
      BY <1>1, <1>2, <3>1
  <2> QED
    BY <2>1, <2>2
<1> HIDE DEF where, cur
<1>4. /\ op'[p] = [op[p] EXCEPT !.seen = cur, !.at = where]
      /\ \A q \in Proc : q # p => op'[q] = op[q]
      /\ UNCHANGED counter
  BY <1>1 DEF ReadCounter, TypeOK, cur, where
<1>5. /\ op'[p].at = where /\ op'[p].seen = cur
      /\ op'[p].order = op[p].order /\ op'[p].kind = op[p].kind
  BY <1>1, <1>4 DEF Op
<1>6. WritesWithinCap'
  <2> SUFFICES ASSUME NEW q \in Proc, At(q, "write")'
               PROVE  (op[q].seen + Delta(q) <= Cap[Bucket(q)])'
    BY DEF WritesWithinCap
  <2>1. CASE q = p
    <3>1. where = "write" /\ Delta(p)' = Delta(p) /\ Bucket(p)' = Bucket(p)
      BY <1>5, <2>1 DEF At, Delta, IsReserve, Bucket
    <3> QED
      BY <1>3, <1>5, <2>1, <3>1
  <2>2. CASE q # p
    <3>1. At(q, "write") /\ op'[q] = op[q]
      BY <1>4, <2>2 DEF At
    <3> QED
      BY <3>1 DEF CapInv, WritesWithinCap, Delta, IsReserve, Bucket
  <2> QED
    BY <2>1, <2>2
<1> QED
  BY <1>4, <1>6 DEF CapInv, CounterWithinCap

\* The SET of a client leaves its counter within the cap.
LEMMA WriteKeepsCap ==
  ASSUME CapInv, TypeOK', NEW p \in Proc, Write(p)
  PROVE  CapInv'
<1> DEFINE next == Floored(op[p].seen + Delta(p))
<1>1. /\ TypeOK /\ op[p] # Idle /\ At(p, "write") /\ op[p].day \in Day
      /\ op[p].seen \in Nat /\ Delta(p) \in Int /\ Bucket(p) \in Currency
  BY OpType DEF Write, At, CapInv
<1>2. next <= Cap[Bucket(p)]
  <2>1. op[p].seen + Delta(p) <= Cap[Bucket(p)] /\ Cap[Bucket(p)] \in Nat
    BY <1>1 DEF CapInv, WritesWithinCap
  <2> QED
    BY <2>1 DEF Floored
<1> HIDE DEF next
<1>3. /\ counter'[op[p].day][Bucket(p)] = next
      /\ \A d \in Day, c \in Currency :
           <<d, c>> # <<op[p].day, Bucket(p)>> => counter'[d][c] = counter[d][c]
  BY <1>1 DEF Write, TypeOK, next
<1>4. CounterWithinCap'
  BY <1>2, <1>3 DEF CapInv, CounterWithinCap
<1>5. ~At(p, "write")' /\ \A q \in Proc : q # p => op'[q] = op[q]
  <2>1. PICK where \in {"add", "unlock"} : Goto(p, where)
    BY DEF Write
  <2> QED
    BY <1>1, <2>1, OpMoves DEF At, Inside
<1>6. WritesWithinCap'
  <2> SUFFICES ASSUME NEW q \in Proc, At(q, "write")'
               PROVE  (op[q].seen + Delta(q) <= Cap[Bucket(q)])'
    BY DEF WritesWithinCap
  <2>1. At(q, "write") /\ op'[q] = op[q]
    BY <1>5 DEF At
  <2> QED
    BY <2>1 DEF CapInv, WritesWithinCap, Delta, IsReserve, Bucket
<1> QED
  BY <1>4, <1>6 DEF CapInv

\* A step that writes no counter and sends nobody to its SET.
LEMMA OtherKeepsCap ==
  ASSUME CapInv, TypeOK', UNCHANGED counter,
         \A q \in Proc : At(q, "write")' => At(q, "write") /\ op'[q] = op[q]
  PROVE  CapInv'
BY DEF CapInv, CounterWithinCap, WritesWithinCap, Delta, IsReserve, Bucket

\* Whatever leases run out and whatever fails, no counter passes its cap.
THEOREM CapNeedsNoLock ==
  ASSUME NoCredit
  PROVE  Spec => []CounterWithinCap
<1>1. Init => CapInv
  <2>1. Init => CounterWithinCap
    BY DEF Init, CounterWithinCap
  <2>2. Init => WritesWithinCap
    BY DEF Init, WritesWithinCap, At
  <2> QED
    BY <2>1, <2>2, InitType DEF CapInv
<1>2. CapInv /\ [Next]_vars => CapInv'
  <2> SUFFICES ASSUME CapInv, [Next]_vars PROVE CapInv'
    OBVIOUS
  <2>1. TypeOK /\ TypeOK'
    BY StepType DEF CapInv
  <2>2. ASSUME NEW p \in Proc, NEW kind \in {"reserve", "release"}, NEW o \in Order, NEW d \in Day,
               Begin(p, kind, o, d)
        PROVE  CapInv'
    <3>1. /\ op'[p].at = "waiting" /\ \A q \in Proc : q # p => op'[q] = op[q]
          /\ UNCHANGED counter
      BY <2>1, <2>2 DEF Begin, TypeOK
    <3> QED
      BY <2>1, <3>1, OtherKeepsCap DEF At
  <2>3. ASSUME NEW p \in Proc, ClientStep(p) PROVE CapInv'
    <3>1. CASE ReadCounter(p)
      BY <2>1, <3>1, ReadKeepsCap
    <3>2. CASE Write(p)
      BY <2>1, <3>2, WriteKeepsCap
    <3>3. CASE Acquire(p) \/ Look(p) \/ Drop(p) \/ Add(p)
      <4>1. op[p] # Idle /\ UNCHANGED counter
        BY <3>3 DEF Acquire, Look, Drop, Add, At
      <4>2. PICK where \in {"look", "unlock", "read", "drop"} : Goto(p, where)
        BY <3>3 DEF Acquire, Look, Drop, Add
      <4>3. ~At(p, "write")' /\ \A q \in Proc : q # p => op'[q] = op[q]
        BY <2>1, <4>1, <4>2, OpMoves DEF At, Inside
      <4> QED
        BY <2>1, <4>1, <4>3, OtherKeepsCap DEF At
    <3>4. CASE GiveUp(p) \/ Unlock(p)
      <4>1. /\ UNCHANGED counter /\ op'[p] = Idle
            /\ \A q \in Proc : q # p => op'[q] = op[q]
        BY <2>1, <3>4 DEF GiveUp, Unlock, Finish, TypeOK
      <4> QED
        BY <2>1, <4>1, OtherKeepsCap DEF At
    <3> QED
      BY <2>3, <3>1, <3>2, <3>3, <3>4 DEF ClientStep
  <2>4. ASSUME NEW p \in Proc, Fail(p) PROVE CapInv'
    <3>1. /\ UNCHANGED counter /\ op'[p] = Idle
          /\ \A q \in Proc : q # p => op'[q] = op[q]
      BY <2>1, <2>4 DEF Fail, Finish, TypeOK
    <3> QED
      BY <2>1, <3>1, OtherKeepsCap DEF At
  <2>5. ASSUME NEW d \in Day, LeaseExpires(d) PROVE CapInv'
    BY <2>1, <2>5, OtherKeepsCap DEF LeaseExpires, At
  <2>6. CASE UNCHANGED vars
    BY <2>1, <2>6, OtherKeepsCap DEF vars, At
  <2> QED
    BY <2>2, <2>3, <2>4, <2>5, <2>6 DEF Next
<1>3. CapInv => CounterWithinCap
  BY DEF CapInv
<1> QED
  BY <1>1, <1>2, <1>3, PTL DEF Spec
=============================================================================
