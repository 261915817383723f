----------------------------- MODULE PaperFlow -----------------------------
(***************************************************************************)
(* place_order in paper mode: the reservation of OrderFlow around          *)
(* PaperBroker.place, which loads the whole book, changes it and saves it  *)
(* inside the lock of its store.                                           *)
(*                                                                         *)
(* With Failures and more than one process this is the redis backend; with *)
(* one process and no failure it is the memory backend too, whose lock     *)
(* does nothing and whose load and save are plain assignments.             *)
(*                                                                         *)
(*   LeaseHolds    a process inside the lock saves before its lease ends   *)
(*   Failures      redis commands can raise, processes can die             *)
(*   SerialTokens  no token is used by two calls at the same time          *)
(***************************************************************************)
EXTENDS SpendStore

CONSTANTS Symbol, Trade, Price, StartCash, Proc, LeaseHolds, Failures, SerialTokens

VARIABLES
  stored,   \* the book under the redis key "paper"
  lock,     \* lock:paper, the process whose lock value it holds
  live,     \* the orders whose token is in the token store
  call      \* per process, the place_order call it runs and the book it loaded

vars == <<spent, reserved, stored, lock, live, call>>

Book == INSTANCE PaperBook WITH book <- stored

NoOwner == "free"

\* Paper mode has no modify and no conditional orders.
ASSUME PaperFlowAssumption ==
  /\ Trade \in [Order -> Book!TradeType]
  /\ Price \subseteq Nat \ {0}
  /\ StartCash \in [Currency -> Nat]
  /\ \A o \in Order : OrderSpec[o].kind = "order" /\ ~OrderSpec[o].modify
  /\ {LeaseHolds, Failures, SerialTokens} \subseteq BOOLEAN
  /\ NoOwner \notin Proc

\* bound: one day, so nothing is said here of midnight
Today == 0

Idle == [at |-> "idle"]

Init ==
  /\ StoreInit
  /\ stored = Book!EmptyBook
  /\ lock = NoOwner
  /\ live = {}
  /\ call = [p \in Proc |-> Idle]

At(p, where) == call[p].at = where
Inside(p) == call[p].at \in {"inside", "loaded", "saved", "refused"}
Goto(p, where) == call' = [call EXCEPT ![p].at = where]
Finish(p) == call' = [call EXCEPT ![p] = Idle]
Using(o) == {p \in Proc : call[p] # Idle /\ call[p].order = o}

Preview(o) ==
  /\ o \notin live
  /\ o \notin stored.filled
  /\ Fits(Today, o, Increment(o))
  /\ live' = live \cup {o}
  /\ UNCHANGED <<spent, reserved, stored, lock, call>>

\* consume and reserve
Start(p, o) ==
  /\ call[p] = Idle
  /\ o \in live
  /\ SerialTokens => Using(o) = {}
  /\ Reserve(Today, o)
  /\ call' = [call EXCEPT ![p] = [at |-> "waiting", order |-> o, book |-> Book!EmptyBook]]
  /\ UNCHANGED <<stored, lock, live>>

\* No reference price for a MARKET order (or the price call fails).
NoPrice(p) ==
  /\ At(p, "waiting")
  /\ Trade[call[p].order].market
  /\ Goto(p, "failed")
  /\ UNCHANGED <<spent, reserved, stored, lock, live>>
-----------------------------------------------------------------------------
(* PaperBroker.place *)

\* Variant with a bug: two processes can be inside the lock.
AcquireAnyway(p) ==
  /\ At(p, "waiting")
  /\ lock' = p
  /\ Goto(p, "inside")
  /\ UNCHANGED <<spent, reserved, stored, live>>

Acquire(p) ==
  /\ At(p, "waiting")
  /\ lock = NoOwner
  /\ lock' = p
  /\ Goto(p, "inside")
  /\ UNCHANGED <<spent, reserved, stored, live>>

\* blocking_timeout has passed: LockError.
GiveUp(p) ==
  /\ At(p, "waiting")
  /\ lock # NoOwner
  /\ Goto(p, "failed")
  /\ UNCHANGED <<spent, reserved, stored, lock, live>>

Load(p) ==
  /\ At(p, "inside")
  /\ call' = [call EXCEPT ![p].at = "loaded", ![p].book = stored]
  /\ UNCHANGED <<spent, reserved, stored, lock, live>>

\* The clientOrderId is in the book: no second fill.
Existing(p) ==
  /\ At(p, "loaded")
  /\ call[p].order \in call[p].book.filled
  /\ Goto(p, "saved")
  /\ UNCHANGED <<spent, reserved, stored, lock, live>>

\* Variant with a bug: no look for the clientOrderId.
SaveAgain(p) ==
  /\ At(p, "loaded")
  /\ \E price \in Book!FillPrices(call[p].order) :
       /\ Book!Covered(call[p].book, call[p].order, price)
       /\ stored' = Book!FilledAt(call[p].book, call[p].order, price)
  /\ Goto(p, "saved")
  /\ UNCHANGED <<spent, reserved, lock, live>>

Save(p) ==
  /\ At(p, "loaded")
  /\ call[p].order \notin call[p].book.filled
  /\ \E price \in Book!FillPrices(call[p].order) :
       /\ Book!Covered(call[p].book, call[p].order, price)
       /\ stored' = Book!FilledAt(call[p].book, call[p].order, price)
  /\ Goto(p, "saved")
  /\ UNCHANGED <<spent, reserved, lock, live>>

\* insufficient cash or quantity
Refuse(p) ==
  /\ At(p, "loaded")
  /\ call[p].order \notin call[p].book.filled
  /\ \E price \in Book!FillPrices(call[p].order) :
       ~Book!Covered(call[p].book, call[p].order, price)
  /\ Goto(p, "refused")
  /\ UNCHANGED <<spent, reserved, stored, lock, live>>

Unlocked(p) == IF lock = p THEN NoOwner ELSE lock

\* The end of the with block; LockNotOwnedError if the lease ran out.
Unlock(p) ==
  /\ call[p].at \in {"saved", "refused"}
  /\ lock' = Unlocked(p)
  /\ Goto(p, IF At(p, "saved") /\ lock = p THEN "filled" ELSE "failed")
  /\ UNCHANGED <<spent, reserved, stored, live>>

LeaseExpires ==
  /\ lock # NoOwner
  /\ LeaseHolds => ~Inside(lock)
  /\ lock' = NoOwner
  /\ UNCHANGED <<spent, reserved, stored, live, call>>
-----------------------------------------------------------------------------
(* Settlement and failures. *)

\* _is_rejection is True for every exception in paper mode.
Settle(p) ==
  /\ At(p, "failed")
  /\ Release(Today, call[p].order)
  /\ Finish(p)
  /\ UNCHANGED <<stored, lock, live>>

Commit(p) ==
  /\ At(p, "filled")
  /\ live' = live \ {call[p].order}
  /\ Finish(p)
  /\ UNCHANGED <<spent, reserved, stored, lock>>

\* A redis command inside the lock raises, before or after redis applied it.
Raise(p) ==
  /\ Failures
  /\ Inside(p)
  /\ lock' \in {lock, Unlocked(p)}
  /\ Goto(p, "failed")
  /\ UNCHANGED <<spent, reserved, stored, live>>

\* The process dies, or a store call outside the fill raises.
Abort(p) ==
  /\ Failures
  /\ call[p] # Idle
  /\ Finish(p)
  /\ UNCHANGED <<spent, reserved, stored, lock, live>>

CallStep(p) ==
  \/ NoPrice(p)
  \/ Acquire(p)
  \/ GiveUp(p)
  \/ Load(p)
  \/ Existing(p)
  \/ Save(p)
  \/ Refuse(p)
  \/ Unlock(p)
  \/ Settle(p)
  \/ Commit(p)

Next ==
  \/ \E o \in Order : Preview(o)
  \/ \E p \in Proc, o \in Order : Start(p, o)
  \/ \E p \in Proc : CallStep(p)
  \/ \E p \in Proc : Raise(p) \/ Abort(p)
  \/ LeaseExpires

Spec == Init /\ [][Next]_vars
-----------------------------------------------------------------------------
(* Properties. *)

\* The stored book changes only by whole fills, each order once and against the
\* book as it is: no interleaving loses a fill or fills a clientOrderId twice.
FillsAreAtomic == Book!Spec

\* Cash, cost of positions and realized profit agree in every currency.
MoneyIsConserved == \A c \in Currency : Book!ConservedIn(stored, c)

\* A place_order that succeeded stays in the book: its order was filled, and
\* what another process saves later keeps it.
SuccessStays == \A p \in Proc : At(p, "filled") => call[p].order \in stored.filled
=============================================================================
