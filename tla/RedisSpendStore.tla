-------------------------- MODULE RedisSpendStore --------------------------
(***************************************************************************)
(* The spend store on redis (redis_stores.py RedisSpendStore), command by  *)
(* command: reserve and release are read-modify-write sequences of plain   *)
(* redis commands under a lock per day, and the lock is a lease that redis *)
(* takes back after lock_timeout.  A client is one server process inside a *)
(* reserve() or release() call.                                            *)
(*                                                                         *)
(*   LeaseHolds  a client that is inside the lock finishes before its      *)
(*               lease runs out                                            *)
(*   Failures    a client can die, or a redis command of it can raise,     *)
(*               between any two commands                                  *)
(***************************************************************************)
EXTENDS Orders

CONSTANTS
  LastDay, Cap,     \* as in SpendStore
  Proc, LeaseHolds, Failures

ASSUME RedisSpendStoreAssumption ==
  /\ LastDay \in Nat
  /\ Cap \in [Currency -> Nat]
  /\ {LeaseHolds, Failures} \subseteq BOOLEAN

Day == 0 .. LastDay

VARIABLES
  counter,   \* spend:{day}:{currency}
  keys,      \* reserved:{day}
  lock,      \* lock:spend:{day}, the client whose lock value it holds
  op         \* per client, the call it runs and the counter it has read

vars == <<counter, keys, lock, op>>

NoOwner == "free"
ASSUME OwnerAssumption == NoOwner \notin Proc

Idle == [at |-> "idle"]
Inside == {"look", "drop", "read", "write", "add", "unlock"}
Op == [at : {"waiting"} \cup Inside, kind : {"reserve", "release"},
       order : Order, day : Day, seen : Nat]

TypeOK ==
  /\ counter \in [Day -> [Currency -> Nat]]
  /\ keys \in [Day -> SUBSET Order]
  /\ lock \in [Day -> Proc \cup {NoOwner}]
  /\ op \in [Proc -> Op \cup {Idle}]

Init ==
  /\ counter = [d \in Day |-> [c \in Currency |-> 0]]
  /\ keys = [d \in Day |-> {}]
  /\ lock = [d \in Day |-> NoOwner]
  /\ op = [p \in Proc |-> Idle]

At(p, where) == op[p] # Idle /\ op[p].at = where
Working(p) == op[p] # Idle /\ op[p].at \in Inside
Goto(p, where) == op' = [op EXCEPT ![p] = [op[p] EXCEPT !.at = where]]
Finish(p) == op' = [op EXCEPT ![p] = Idle]
IsReserve(p) == op[p].kind = "reserve"
Delta(p) == IF IsReserve(p) THEN SpendDelta[op[p].order] ELSE -SpendDelta[op[p].order]
Bucket(p) == CurrencyOf(op[p].order)

Begin(p, kind, o, d) ==
  /\ op[p] = Idle
  /\ op' = [op EXCEPT ![p] =
              [at |-> "waiting", kind |-> kind, order |-> o, day |-> d, seen |-> 0]]
  /\ UNCHANGED <<counter, keys, lock>>
-----------------------------------------------------------------------------
(* The lock. *)

\* Variant with a bug: two clients can be inside the lock.
AcquireAnyway(p) ==
  /\ At(p, "waiting")
  /\ lock' = [lock EXCEPT ![op[p].day] = p]
  /\ Goto(p, "look")
  /\ UNCHANGED <<counter, keys>>

Acquire(p) ==
  /\ At(p, "waiting")
  /\ lock[op[p].day] = NoOwner
  /\ lock' = [lock EXCEPT ![op[p].day] = p]
  /\ Goto(p, "look")
  /\ UNCHANGED <<counter, keys>>

\* Variant with a bug: no blocking_timeout.
WaitForever(p) == At(p, "waiting") /\ FALSE /\ UNCHANGED vars

\* blocking_timeout has passed: LockError.
GiveUp(p) ==
  /\ At(p, "waiting")
  /\ Finish(p)
  /\ UNCHANGED <<counter, keys, lock>>

Unlocked(p) ==
  IF lock[op[p].day] = p THEN [lock EXCEPT ![op[p].day] = NoOwner] ELSE lock

\* The end of the with block: the lock is deleted if it still is this
\* client's; otherwise LockNotOwnedError, and the call has done its work.
Unlock(p) ==
  /\ At(p, "unlock")
  /\ lock' = Unlocked(p)
  /\ Finish(p)
  /\ UNCHANGED <<counter, keys>>

\* redis takes a lease back after lock_timeout.
LeaseExpires(d) ==
  /\ lock[d] # NoOwner
  /\ LeaseHolds => ~(Working(lock[d]) /\ op[lock[d]].day = d)
  /\ lock' = [lock EXCEPT ![d] = NoOwner]
  /\ UNCHANGED <<counter, keys, op>>
-----------------------------------------------------------------------------
(* Inside the lock. *)

\* Variant with a bug: release does not look whether the key is there.
LookToReserve(p) ==
  /\ At(p, "look")
  /\ IF IsReserve(p) /\ op[p].order \in keys[op[p].day]
       THEN Goto(p, "unlock")
       ELSE Goto(p, IF IsReserve(p) THEN "read" ELSE "drop")
  /\ UNCHANGED <<counter, keys, lock>>

\* SISMEMBER: reserve has nothing to do for a key that is there, release for
\* one that is not.
Look(p) ==
  /\ At(p, "look")
  /\ IF (op[p].order \in keys[op[p].day]) = IsReserve(p)
       THEN Goto(p, "unlock")
       ELSE Goto(p, IF IsReserve(p) THEN "read" ELSE "drop")
  /\ UNCHANGED <<counter, keys, lock>>

\* SREM (release)
Drop(p) ==
  /\ At(p, "drop")
  /\ keys' = [keys EXCEPT ![op[p].day] = @ \ {op[p].order}]
  /\ Goto(p, "read")
  /\ UNCHANGED <<counter, lock>>

\* Variant with a bug: what the cap is compared with leaves the order out.
FitsBefore(p, cur) == cur <= Cap[Bucket(p)]

Fits(p, cur) == cur + Delta(p) <= Cap[Bucket(p)]

\* GET; reserve() -> False if the order does not fit under the cap.
ReadCounter(p) ==
  /\ At(p, "read")
  /\ LET cur == counter[op[p].day][Bucket(p)]
     IN op' = [op EXCEPT ![p] =
                 [op[p] EXCEPT !.seen = cur,
                               !.at = IF IsReserve(p) /\ ~Fits(p, cur) THEN "unlock" ELSE "write"]]
  /\ UNCHANGED <<counter, keys, lock>>

Floored(n) == IF n < 0 THEN 0 ELSE n

\* SET
Write(p) ==
  /\ At(p, "write")
  /\ counter' = [counter EXCEPT ![op[p].day][Bucket(p)] = Floored(op[p].seen + Delta(p))]
  /\ Goto(p, IF IsReserve(p) THEN "add" ELSE "unlock")
  /\ UNCHANGED <<keys, lock>>

\* SADD (reserve)
Add(p) ==
  /\ At(p, "add")
  /\ keys' = [keys EXCEPT ![op[p].day] = @ \cup {op[p].order}]
  /\ Goto(p, "unlock")
  /\ UNCHANGED <<counter, lock>>

\* The client dies where it is, or a command raises and the with block unlocks.
Fail(p) ==
  /\ Failures
  /\ Working(p)
  /\ lock' \in {lock, Unlocked(p)}
  /\ Finish(p)
  /\ UNCHANGED <<counter, keys>>

ClientStep(p) ==
  \/ Acquire(p)
  \/ GiveUp(p)
  \/ Look(p)
  \/ Drop(p)
  \/ ReadCounter(p)
  \/ Write(p)
  \/ Add(p)
  \/ Unlock(p)

Next ==
  \/ \E p \in Proc, kind \in {"reserve", "release"}, o \in Order, d \in Day : Begin(p, kind, o, d)
  \/ \E p \in Proc : ClientStep(p)
  \/ \E p \in Proc : Fail(p)
  \/ \E d \in Day : LeaseExpires(d)

Spec == Init /\ [][Next]_vars

\* A call that runs goes on (nothing else runs in its process) and redis counts
\* leases down whatever its clients do.
LiveSpec ==
  /\ Spec
  /\ \A p \in Proc : WF_vars(ClientStep(p))
  /\ \A d \in Day : WF_vars(LeaseExpires(d))
-----------------------------------------------------------------------------
(* Properties. *)

\* Clients between the two writes of their call.
HalfDone == {p \in Proc : At(p, "add") \/ (Working(p) /\ ~IsReserve(p) /\ op[p].at \in {"read", "write"})}

\* A call takes effect at its SET: until the other write is done, or once it is,
\* the key counts as the SET leaves it.
KeysInEffect == [d \in Day |-> keys[d] \cup {op[p].order : p \in {q \in HalfDone : op[q].day = d}}]

Atomic == INSTANCE SpendStore WITH spent <- counter, reserved <- KeysInEffect

\* A failure that changes what counts takes one key with it: the call it cuts had
\* moved the counter and not yet added its key, or removed it and not yet moved
\* the counter (what OrderFlow's ReserveCutShort and ReleaseCutShort rest on).
CallOrFailure ==
  \/ Atomic!StoreNext
  \/ Failures /\ \E d \in Day, o \in Order : Atomic!LoseKey(d, o)

\* reserve and release are atomic (docs/wiki/pytossinvest-mcp.md:104), whatever
\* the number of processes: each call that no crash or redis error cuts short is
\* one call of the store in memory, also after calls that were cut short, and a
\* call cut short leaves nothing worse than the key of its order missing.
IsAtomic == Atomic!StoreInit /\ [][CallOrFailure]_Atomic!storeVars

HeldIn(d, c) == {o \in KeysInEffect[d] : CurrencyOf(o) = c}

\* Whatever a crash or a redis error interrupts, the counter covers what is
\* reserved: a call cut in half tightens the cap and never widens it (the order
\* of SET and SADD, of SREM and SET; self-host-remote-mcp-design.md:121).
CounterCovers == \A d \in Day, c \in Currency : Total(HeldIn(d, c), SpendDelta) <= counter[d][c]

\* No interleaving of clients takes a counter over its cap.
CounterWithinCap == \A d \in Day, c \in Currency : counter[d][c] <= Cap[c]

\* Every call ends, whoever died holding the lock and however busy it is.
EveryCallEnds == \A p \in Proc : op[p] # Idle ~> op[p] = Idle
=============================================================================
