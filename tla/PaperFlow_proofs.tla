------------------------- MODULE PaperFlow_proofs -------------------------
(* The paper broker fills each order once, atomically, and loses no fill, for *)
(* any number of processes, orders, symbols and prices, while leases outlast  *)
(* the calls: redis commands may fail, processes may die, tokens be shared.   *)
EXTENDS PaperFlow, SpendStore_proofs

USE CeilingAssumption, OrdersAssumption, SpendStoreAssumption

Position == [quantity : Nat, cost : Int, currency : Currency \cup {"none"}]

BookType ==
  [cash : [Currency -> Int], realized : [Currency -> Int], position : [Symbol -> Position],
   filled : SUBSET Order]

Call ==
  [at : {"waiting", "failed", "inside", "loaded", "saved", "refused", "filled"},
   order : Order, book : BookType]

FlowTypeOK ==
  /\ stored \in BookType
  /\ call \in [Proc -> Call \cup {Idle}]

\* Who is inside the lock holds it, and the book it has loaded is the stored one.
LockInv ==
  \A p \in Proc :
    /\ Inside(p) => lock = p
    /\ At(p, "loaded") => call[p].book = stored

\* An order that was saved stays in the book.
SavedStays ==
  \A p \in Proc : At(p, "saved") \/ At(p, "filled") => call[p].order \in stored.filled

IInv == FlowTypeOK /\ LockInv /\ SavedStays
-----------------------------------------------------------------------------
(* The book. *)

\* What an order asks of the broker.
LEMMA TradeFacts ==
  ASSUME NEW o \in Order
  PROVE  /\ Trade[o].symbol \in Symbol /\ Trade[o].quantity \in Nat \ {0}
         /\ CurrencyOf(o) \in Currency /\ Book!CurrencyOf(o) = CurrencyOf(o)
         /\ \A price \in Book!FillPrices(o) : price \in Int
<1>1. Trade[o] \in Book!TradeType /\ Price \subseteq Nat
  BY PaperFlowAssumption
<1>2. Trade[o].symbol \in Symbol /\ Trade[o].quantity \in Nat \ {0}
  BY <1>1 DEF Book!TradeType
<1>3. CurrencyOf(o) \in Currency /\ Book!CurrencyOf(o) = CurrencyOf(o)
  BY DeltaType DEF CurrencyOf, Book!CurrencyOf
<1>4. OrderSpec[o].notional \in Int
  BY DEF SpecType
<1>5. OrderSpec[o].notional \div Trade[o].quantity \in Int
  BY <1>2, <1>4
<1> QED
  BY <1>1, <1>2, <1>3, <1>5 DEF Book!FillPrices

\* A covered fill keeps the book typed and adds its order, whatever the side.
LEMMA FilledType ==
  ASSUME NEW b \in BookType, NEW o \in Order, NEW price \in Int, Book!Covered(b, o, price)
  PROVE  /\ Book!FilledAt(b, o, price) \in BookType
         /\ Book!FilledAt(b, o, price).filled = b.filled \cup {o}
<1> DEFINE s == Trade[o].symbol
           q == Trade[o].quantity
           held == b.position[s]
           amount == price * q
<1>1. /\ s \in Symbol /\ q \in Nat \ {0} /\ amount \in Int /\ CurrencyOf(o) \in Currency
      /\ Book!CurrencyOf(o) = CurrencyOf(o)
  BY TradeFacts
<1>2. /\ b.cash \in [Currency -> Int] /\ b.realized \in [Currency -> Int]
      /\ b.position \in [Symbol -> Position] /\ b.filled \in SUBSET Order
  BY DEF BookType
<1>3. held.quantity \in Nat /\ held.cost \in Int /\ held.currency \in Currency \cup {"none"}
  BY <1>1, <1>2 DEF Position
<1>4. Book!PositionOf(b, o) = held
  BY DEF Book!PositionOf
<1>5. CASE Trade[o].side = "BUY"
  <2> DEFINE position == [quantity |-> held.quantity + q, cost |-> held.cost + amount,
                          currency |-> IF held.quantity = 0 THEN CurrencyOf(o) ELSE held.currency]
  <2>1. position \in Position
    BY <1>1, <1>3 DEF Position
  <2>2. Book!FilledAt(b, o, price) = [b EXCEPT !.cash[CurrencyOf(o)] = @ - amount,
                                               !.position[s] = position,
                                               !.filled = @ \cup {o}]
    BY <1>1, <1>4, <1>5 DEF Book!FilledAt, Book!Bought
  <2>3. /\ [b.cash EXCEPT ![CurrencyOf(o)] = @ - amount] \in [Currency -> Int]
        /\ [b.position EXCEPT ![s] = position] \in [Symbol -> Position]
        /\ b.filled \cup {o} \in SUBSET Order
    BY <1>1, <1>2, <2>1
  <2> HIDE DEF position, amount, s
  <2> QED
    BY <2>2, <2>3 DEF BookType
<1>6. CASE Trade[o].side # "BUY"
  <2> DEFINE left == held.quantity - q
             share == (held.cost * q) \div held.quantity
             position == IF left = 0 THEN Book!NoPosition
                         ELSE [held EXCEPT !.quantity = left, !.cost = @ - share]
             c == held.currency
  <2>1. left \in Nat /\ held.quantity \in Nat \ {0}
    BY <1>1, <1>3, <1>4, <1>6 DEF Book!Covered
  <2>2. held.cost * q \in Int
    BY <1>1, <1>3
  <2>3. share \in Int
    BY <2>1, <2>2
  <2>4. position \in Position
    <3>1. held \in Position
      BY <1>1, <1>2
    <3>2. Book!NoPosition \in Position
      BY DEF Position, Book!NoPosition
    <3>3. held.cost - share \in Int
      BY <1>3, <2>3
    <3>4. [held EXCEPT !.quantity = left, !.cost = held.cost - share] \in Position
      <4> HIDE DEF left, share, held
      <4> QED
        BY <2>1, <3>1, <3>3 DEF Position
    <3> QED
      BY <3>2, <3>4
  <2>5. Book!FilledAt(b, o, price) = [b EXCEPT !.cash[c] = @ + amount,
                                               !.realized[c] = @ + (amount - share),
                                               !.position[s] = position,
                                               !.filled = @ \cup {o}]
    <3>1. Book!FilledAt(b, o, price) = Book!Sold(b, o, price)
      BY <1>6 DEF Book!FilledAt
    <3>2. Book!Sold(b, o, price) = [b EXCEPT !.cash[c] = @ + amount,
                                             !.realized[c] = @ + (amount - share),
                                             !.position[s] = position,
                                             !.filled = @ \cup {o}]
      BY DEF Book!Sold, Book!CostShare, Book!PositionOf
    <3> QED
      BY <3>1, <3>2
  <2>6. /\ [b.cash EXCEPT ![c] = @ + amount] \in [Currency -> Int]
        /\ [b.realized EXCEPT ![c] = @ + (amount - share)] \in [Currency -> Int]
        /\ [b.position EXCEPT ![s] = position] \in [Symbol -> Position]
        /\ b.filled \cup {o} \in SUBSET Order
    <3> HIDE DEF position, amount, s, share, c, left
    <3>1. ASSUME NEW f \in [Currency -> Int], NEW n \in Int
          PROVE  [f EXCEPT ![c] = f[c] + n] \in [Currency -> Int]
      <4>1. CASE c \in Currency
        BY <4>1
      <4>2. CASE c \notin Currency
        <5>1. [f EXCEPT ![c] = f[c] + n] = f
          BY <4>2
        <5> QED
          BY <5>1
      <4> QED
        BY <4>1, <4>2
    <3>2. /\ [b.cash EXCEPT ![c] = @ + amount] \in [Currency -> Int]
          /\ [b.realized EXCEPT ![c] = @ + (amount - share)] \in [Currency -> Int]
      BY <1>1, <1>2, <2>3, <3>1
    <3>3. [b.position EXCEPT ![s] = position] \in [Symbol -> Position]
      BY <1>1, <1>2, <2>4
    <3> QED
      BY <1>2, <1>1, <3>2, <3>3
  <2> HIDE DEF position, amount, s, share, c, left
  <2> QED
    BY <2>5, <2>6 DEF BookType
<1> QED
  BY <1>5, <1>6
-----------------------------------------------------------------------------
(* The calls. *)

\* The record of a call that runs.
LEMMA CallType ==
  ASSUME FlowTypeOK, NEW p \in Proc, call[p] # Idle
  PROVE  call[p] \in Call /\ call[p].order \in Order
<1>1. call[p] \in Call
  BY DEF FlowTypeOK
<1> QED
  BY <1>1 DEF Call

\* Changing the place of a call changes nothing else of any call.
LEMMA Moves ==
  ASSUME FlowTypeOK, NEW p \in Proc, call[p] # Idle,
         NEW where \in {"waiting", "failed", "inside", "loaded", "saved", "refused", "filled"},
         Goto(p, where)
  PROVE  /\ call' \in [Proc -> Call \cup {Idle}]
         /\ call'[p].at = where /\ call'[p].order = call[p].order
         /\ \A q \in Proc : q # p => call'[q] = call[q]
<1>1. call[p] \in Call
  BY CallType
<1>2. [call[p] EXCEPT !.at = where] \in Call
  BY <1>1 DEF Call
<1>3. call' = [call EXCEPT ![p] = [call[p] EXCEPT !.at = where]]
  BY DEF Goto
<1>4. call \in [Proc -> Call \cup {Idle}]
  BY DEF FlowTypeOK
<1>5. call'[p] = [call[p] EXCEPT !.at = where]
  BY <1>3, <1>4
<1>6. call'[p].at = where /\ call'[p].order = call[p].order
  BY <1>1, <1>5 DEF Call
<1> QED
  BY <1>2, <1>3, <1>4, <1>6

\* Nobody else is inside the lock a process holds, nobody at all inside a free one.
LEMMA Alone ==
  ASSUME LockInv, NEW p \in Proc, lock = p \/ lock = NoOwner
  PROVE  \A q \in Proc : q # p => ~Inside(q)
BY PaperFlowAssumption DEF LockInv

\* A call that moves on keeps the invariant when it holds the lock where it must
\* and claims no fill the book does not have.
LEMMA AdvanceKeeps ==
  ASSUME IInv, NEW p \in Proc, call[p] # Idle,
         NEW where \in {"waiting", "failed", "inside", "saved", "refused", "filled"},
         Goto(p, where), stored' = stored,
         lock' = lock \/ \A q \in Proc : q # p => ~Inside(q),
         where \in {"inside", "saved", "refused"} => lock' = p,
         where \in {"saved", "filled"} => call[p].order \in stored.filled
  PROVE  IInv'
<1>1. /\ call' \in [Proc -> Call \cup {Idle}]
      /\ call'[p].at = where /\ call'[p].order = call[p].order
      /\ \A q \in Proc : q # p => call'[q] = call[q]
  BY Moves DEF IInv
<1>2. FlowTypeOK'
  BY <1>1 DEF IInv, FlowTypeOK
<1>3. LockInv'
  BY <1>1 DEF IInv, LockInv, Inside, At
<1>4. SavedStays'
  BY <1>1 DEF IInv, SavedStays, At
<1> QED
  BY <1>2, <1>3, <1>4 DEF IInv

\* A call that ends where it is keeps the invariant.
LEMMA FinishKeeps ==
  ASSUME IInv, NEW p \in Proc, Finish(p), UNCHANGED <<stored, lock>>
  PROVE  IInv'
<1>1. call' \in [Proc -> Call \cup {Idle}] /\ call'[p] = Idle
  BY DEF Finish, IInv, FlowTypeOK
<1>2. \A q \in Proc : q # p => call'[q] = call[q]
  BY DEF Finish, IInv, FlowTypeOK
<1>3. FlowTypeOK'
  BY <1>1 DEF IInv, FlowTypeOK
<1>4. call'[p].at = "idle"
  BY <1>1 DEF Idle
<1>5. LockInv'
  BY <1>2, <1>4 DEF IInv, LockInv, Inside, At
<1>6. SavedStays'
  BY <1>2, <1>4 DEF IInv, SavedStays, At
<1> QED
  BY <1>3, <1>5, <1>6 DEF IInv

\* A process loads the book while nobody else can save.
LEMMA LoadKeeps ==
  ASSUME IInv, NEW p \in Proc, Load(p)
  PROVE  IInv'
<1>1. call[p] # Idle /\ lock = p
  BY DEF Load, At, Idle, IInv, LockInv, Inside
<1>2. call[p] \in Call /\ stored \in BookType
  BY <1>1, CallType DEF IInv, FlowTypeOK
<1>3. /\ call \in [Proc -> Call \cup {Idle}]
      /\ call' = [call EXCEPT ![p] = [call[p] EXCEPT !.at = "loaded", !.book = stored]]
  BY DEF Load, IInv, FlowTypeOK
<1>4. [call[p] EXCEPT !.at = "loaded", !.book = stored] \in Call
  BY <1>2 DEF Call
<1>5. /\ call' \in [Proc -> Call \cup {Idle}]
      /\ call'[p].at = "loaded" /\ call'[p].book = stored
      /\ \A q \in Proc : q # p => call'[q] = call[q]
  BY <1>2, <1>3, <1>4 DEF Call
<1>6. FlowTypeOK'
  BY <1>5 DEF IInv, FlowTypeOK, Load
<1>7. LockInv'
  BY <1>1, <1>5 DEF IInv, LockInv, Inside, At, Load
<1>8. SavedStays'
  BY <1>5 DEF IInv, SavedStays, At, Load
<1> QED
  BY <1>6, <1>7, <1>8 DEF IInv

\* What a process saves is one whole fill of the stored book.
LEMMA SaveFills ==
  ASSUME IInv, NEW p \in Proc, Save(p)
  PROVE  /\ call[p].order \in Order /\ Book!Fill(call[p].order)
         /\ stored' \in BookType /\ stored'.filled = stored.filled \cup {call[p].order}
<1>1. call[p] # Idle /\ call[p].book = stored /\ stored \in BookType
  BY DEF Save, At, Idle, IInv, LockInv, FlowTypeOK
<1>2. call[p].order \in Order
  BY <1>1, CallType DEF IInv
<1>3. PICK price \in Book!FillPrices(call[p].order) :
        /\ Book!Covered(stored, call[p].order, price)
        /\ stored' = Book!FilledAt(stored, call[p].order, price)
  BY <1>1 DEF Save
<1>4. price \in Int
  BY <1>2, TradeFacts
<1>5. Book!Fill(call[p].order)
  BY <1>1, <1>3 DEF Save, Book!Fill
<1> QED
  BY <1>1, <1>2, <1>3, <1>4, <1>5, FilledType

\* A save keeps the invariant: its process holds the lock and has loaded the
\* stored book.
LEMMA SaveKeeps ==
  ASSUME IInv, NEW p \in Proc, Save(p)
  PROVE  IInv'
<1>1. call[p] # Idle /\ lock = p
  BY DEF Save, At, Idle, IInv, LockInv, Inside
<1>2. /\ call' \in [Proc -> Call \cup {Idle}]
      /\ call'[p].at = "saved" /\ call'[p].order = call[p].order
      /\ \A q \in Proc : q # p => call'[q] = call[q]
  BY <1>1, Moves DEF IInv, Save
<1>3. \A q \in Proc : q # p => ~Inside(q)
  BY <1>1, Alone DEF IInv
<1>4. FlowTypeOK'
  BY <1>2, SaveFills DEF FlowTypeOK
<1>5. LockInv'
  BY <1>1, <1>2, <1>3 DEF LockInv, Inside, At, Save
<1>6. SavedStays'
  BY <1>2, SaveFills DEF IInv, SavedStays, At
<1> QED
  BY <1>4, <1>5, <1>6 DEF IInv
-----------------------------------------------------------------------------
\* The invariant holds of an empty book and no calls.
LEMMA InitInv ==
  ASSUME Init
  PROVE  IInv
<1>1. Book!EmptyBook \in BookType
  <2>1. StartCash \in [Currency -> Int]
    BY PaperFlowAssumption
  <2>2. Book!NoPosition \in Position
    BY DEF Book!NoPosition, Position
  <2> QED
    BY <2>1, <2>2 DEF Book!EmptyBook, BookType
<1>2. FlowTypeOK
  BY <1>1 DEF Init, FlowTypeOK
<1>3. \A p \in Proc : call[p].at = "idle"
  BY DEF Init, Idle
<1> QED
  BY <1>2, <1>3 DEF IInv, LockInv, SavedStays, Inside, At

\* Every step of a call keeps the invariant.
LEMMA CallStepKeeps ==
  ASSUME IInv, NEW p \in Proc, CallStep(p)
  PROVE  IInv'
<1>1. CASE NoPrice(p) \/ GiveUp(p)
  <2>1. call[p] # Idle
    BY <1>1 DEF NoPrice, GiveUp, At, Idle
  <2> QED
    BY <1>1, <2>1, AdvanceKeeps DEF NoPrice, GiveUp
<1>2. CASE Acquire(p)
  <2>1. call[p] # Idle
    BY <1>2 DEF Acquire, At, Idle
  <2>2. \A q \in Proc : q # p => ~Inside(q)
    BY <1>2, Alone DEF Acquire, IInv
  <2> QED
    BY <1>2, <2>1, <2>2, AdvanceKeeps DEF Acquire
<1>3. CASE Load(p)
  BY <1>3, LoadKeeps
<1>4. CASE Existing(p) \/ Refuse(p)
  <2>1. call[p] # Idle /\ lock = p /\ call[p].book = stored
    BY <1>4 DEF Existing, Refuse, At, Idle, IInv, LockInv, Inside
  <2> QED
    BY <1>4, <2>1, AdvanceKeeps DEF Existing, Refuse
<1>5. CASE Save(p)
  BY <1>5, SaveKeeps
<1>6. CASE Unlock(p)
  <2>1. call[p] # Idle /\ lock = p
    BY <1>6 DEF Unlock, At, Idle, IInv, LockInv, Inside
  <2>2. \A q \in Proc : q # p => ~Inside(q)
    BY <2>1, Alone DEF IInv
  <2>3. At(p, "saved") => call[p].order \in stored.filled
    BY DEF IInv, SavedStays
  <2>4. CASE At(p, "saved")
    BY <1>6, <2>1, <2>2, <2>3, <2>4, AdvanceKeeps DEF Unlock
  <2>5. CASE ~At(p, "saved")
    BY <1>6, <2>1, <2>2, <2>5, AdvanceKeeps DEF Unlock
  <2> QED
    BY <2>4, <2>5
<1>7. CASE Settle(p) \/ Commit(p)
  BY <1>7, FinishKeeps DEF Settle, Commit
<1> QED
  BY <1>1, <1>2, <1>3, <1>4, <1>5, <1>6, <1>7 DEF CallStep

\* A command that raises inside the lock, or a process that dies, leaves the book.
LEMMA FailureKeeps ==
  ASSUME IInv, NEW p \in Proc, Raise(p) \/ Abort(p)
  PROVE  IInv'
<1>1. CASE Raise(p)
  <2>1. call[p] # Idle /\ lock = p
    BY <1>1 DEF Raise, Inside, Idle, IInv, LockInv
  <2>2. \A q \in Proc : q # p => ~Inside(q)
    BY <2>1, Alone DEF IInv
  <2> QED
    BY <1>1, <2>1, <2>2, AdvanceKeeps DEF Raise
<1>2. CASE Abort(p)
  BY <1>2, FinishKeeps DEF Abort
<1> QED
  BY <1>1, <1>2

\* A new call keeps the invariant.
LEMMA StartKeeps ==
  ASSUME IInv, NEW p \in Proc, NEW o \in Order, Start(p, o)
  PROVE  IInv'
<1> DEFINE new == [at |-> "waiting", order |-> o, book |-> Book!EmptyBook]
<1>1. Book!EmptyBook \in BookType
  <2>1. StartCash \in [Currency -> Int]
    BY PaperFlowAssumption
  <2>2. Book!NoPosition \in Position
    BY DEF Book!NoPosition, Position
  <2> QED
    BY <2>1, <2>2 DEF Book!EmptyBook, BookType
<1>2. new \in Call /\ new.at = "waiting"
  BY <1>1 DEF Call
<1>3. call' = [call EXCEPT ![p] = new] /\ UNCHANGED <<stored, lock>>
  BY DEF Start
<1> HIDE DEF new
<1>4. /\ call' \in [Proc -> Call \cup {Idle}]
      /\ call'[p] = new
      /\ \A q \in Proc : q # p => call'[q] = call[q]
  BY <1>2, <1>3 DEF IInv, FlowTypeOK
<1>5. FlowTypeOK'
  BY <1>3, <1>4 DEF IInv, FlowTypeOK
<1>6. LockInv'
  BY <1>2, <1>3, <1>4 DEF IInv, LockInv, Inside, At
<1>7. SavedStays'
  BY <1>2, <1>3, <1>4 DEF IInv, SavedStays, At
<1> QED
  BY <1>5, <1>6, <1>7 DEF IInv

\* While leases hold, who is inside the lock holds it, has loaded what is stored,
\* and what was saved stays (RedisPaperStore.lock, load and save).
THEOREM Invariance ==
  ASSUME LeaseHolds
  PROVE  Spec => []IInv
<1>1. IInv /\ [Next]_vars => IInv'
  <2> SUFFICES ASSUME IInv, [Next]_vars
               PROVE  IInv'
    OBVIOUS
  <2>1. CASE UNCHANGED <<stored, lock, call>>
    BY <2>1 DEF IInv, FlowTypeOK, LockInv, SavedStays, Inside, At
  <2>2. ASSUME NEW o \in Order, Preview(o)
        PROVE  IInv'
    BY <2>1, <2>2 DEF Preview
  <2>3. CASE LeaseExpires
    <3>1. \A p \in Proc : ~Inside(p)
      BY <2>3 DEF LeaseExpires, IInv, LockInv
    <3> QED
      BY <2>3, <3>1 DEF LeaseExpires, IInv, FlowTypeOK, LockInv, SavedStays, Inside, At
  <2> QED
    BY <2>1, <2>2, <2>3, StartKeeps, CallStepKeeps, FailureKeeps DEF Next, vars
<1> QED
  BY <1>1, InitInv, PTL DEF Spec

\* While leases outlast the calls, the stored book changes only by whole fills,
\* each order once and against the book as it is, whatever fails or dies.
THEOREM FillsAreAlwaysAtomic ==
  ASSUME LeaseHolds
  PROVE  Spec => FillsAreAtomic
<1>1. Init => Book!Init
  BY DEF Init, Book!Init
<1>2. IInv /\ [Next]_vars => [Book!Next]_stored
  <2> SUFFICES ASSUME IInv, [Next]_vars, stored' # stored
               PROVE  Book!Next
    OBVIOUS
  <2>1. PICK p \in Proc : Save(p)
    BY DEF Next, vars, Preview, Start, CallStep, NoPrice, Acquire, GiveUp, Load, Existing,
           Refuse, Unlock, Settle, Commit, Raise, Abort, LeaseExpires
  <2> QED
    BY <2>1, SaveFills DEF Book!Next
<1> QED
  BY <1>1, <1>2, Invariance, PTL DEF Spec, FillsAreAtomic, Book!Spec

\* While leases outlast the calls, an order whose place_order succeeded is in
\* the book, and no later save of another process drops it.
THEOREM SuccessAlwaysStays ==
  ASSUME LeaseHolds
  PROVE  Spec => []SuccessStays
<1>1. IInv => SuccessStays
  BY DEF IInv, SavedStays, SuccessStays
<1> QED
  BY <1>1, Invariance, PTL
-----------------------------------------------------------------------------
(* Money.  A position is worth what its buys cost, in the currency of the buys; *)
(* each fill moves one position and, by as much, the cash of its currency.      *)

\* The buys of a symbol agree on their currency, as the stock's own currency
\* does; PaperBroker.place does not check it.
OneCurrency ==
  \A o, x \in Order :
    /\ Trade[o].side = "BUY" /\ Trade[x].side = "BUY"
    /\ Trade[o].symbol = Trade[x].symbol
    => CurrencyOf(o) = CurrencyOf(x)

BoughtIn(s, c) ==
  \E o \in Order : Trade[o].side = "BUY" /\ Trade[o].symbol = s /\ CurrencyOf(o) = c

\* A position that can be in the book of symbol s.
Sound(position, s) ==
  /\ position.quantity \in Nat /\ position.cost \in Nat
  /\ position.quantity = 0 => position.cost = 0
  /\ position.quantity > 0 => BoughtIn(s, position.currency)

Balanced(b, c) ==
  /\ IsFiniteSet(Columns(Book!Holding(b, c), Book!Cost(b)))
  /\ Book!ConservedIn(b, c)

MInv ==
  /\ \A s \in Symbol : Sound(stored.position[s], s)
  /\ \A c \in Currency : Balanced(stored, c)

\* All buys of a symbol are in one currency.
LEMMA OneBuyer ==
  ASSUME OneCurrency, NEW s, NEW c, NEW e, BoughtIn(s, c), BoughtIn(s, e)
  PROVE  c = e /\ c \in Currency
<1>1. PICK o \in Order : Trade[o].side = "BUY" /\ Trade[o].symbol = s /\ CurrencyOf(o) = c
  BY DEF BoughtIn
<1>2. PICK x \in Order : Trade[x].side = "BUY" /\ Trade[x].symbol = s /\ CurrencyOf(x) = e
  BY DEF BoughtIn
<1>3. CurrencyOf(o) = CurrencyOf(x)
  BY <1>1, <1>2 DEF OneCurrency
<1> QED
  BY <1>1, <1>2, <1>3, TradeFacts

\* The sums of the book are the sums of Amounts.
LEMMA InvestedIsSum ==
  ASSUME NEW b, NEW c
  PROVE  Book!Invested(b, c) = ColumnSum(Book!Holding(b, c), Book!Cost(b))
<1>1. \A S : Book!Cardinality(S) = Cardinality(S)
  BY DEF Book!Cardinality, Cardinality
<1> QED
  BY <1>1 DEF Book!Invested, Book!ColumnSum, Book!Columns, ColumnSum, Columns

\* A book in which one position changes stays balanced in every currency when
\* the cash of that position's currency pays for the change.
LEMMA BalanceMoves ==
  ASSUME NEW b \in BookType, NEW n \in BookType, NEW s \in Symbol, NEW c \in Currency,
         \A x \in Symbol : Sound(b.position[x], x),
         \A x \in Symbol : Sound(n.position[x], x),
         \A x \in Symbol : x # s => n.position[x] = b.position[x],
         b.position[s].quantity > 0 => b.position[s].currency = c,
         n.position[s].quantity > 0 => n.position[s].currency = c,
         \A e \in Currency : e # c => n.cash[e] = b.cash[e] /\ n.realized[e] = b.realized[e],
         n.cash[c] + n.position[s].cost - n.realized[c]
           = b.cash[c] + b.position[s].cost - b.realized[c],
         NEW e \in Currency, Balanced(b, e)
  PROVE  Balanced(n, e)
<1> DEFINE before == Book!Holding(b, e)
           after == Book!Holding(n, e)
<1>1. /\ Book!Cost(b) \in [Symbol -> Nat] /\ \A x \in Symbol : Book!Cost(b)[x] = b.position[x].cost
      /\ Book!Cost(n) \in [Symbol -> Nat] /\ \A x \in Symbol : Book!Cost(n)[x] = n.position[x].cost
  BY DEF Book!Cost, Sound
<1>2. before \in SUBSET Symbol /\ after \in SUBSET Symbol /\ before \ {s} = after \ {s}
  BY DEF Book!Holding
<1>3. IsFiniteSet(Columns(before, Book!Cost(b)))
  BY DEF Balanced
<1>4. \A x \in Symbol : x # s => Book!Cost(b)[x] = Book!Cost(n)[x]
  BY <1>1
<1>5. /\ IsFiniteSet(Columns(after, Book!Cost(n)))
      /\ ColumnSum(before, Book!Cost(b)) \in Nat
      /\ ColumnSum(after, Book!Cost(n)) + (IF s \in before THEN Book!Cost(b)[s] ELSE 0)
           = ColumnSum(before, Book!Cost(b)) + (IF s \in after THEN Book!Cost(n)[s] ELSE 0)
  <2> HIDE DEF before, after
  <2> QED
    BY <1>1, <1>2, <1>3, <1>4, SumChange
<1>6. IsFiniteSet(Columns(after, Book!Cost(n)))
  BY <1>5
<1>7. ColumnSum(after, Book!Cost(n)) \in Nat
  BY <1>6, FS_CardinalityType DEF ColumnSum
<1>8. b.cash[e] + ColumnSum(before, Book!Cost(b)) = StartCash[e] + b.realized[e]
  BY InvestedIsSum DEF Balanced, Book!ConservedIn
<1>9. /\ n.cash[e] \in Int /\ b.cash[e] \in Int /\ n.realized[e] \in Int /\ b.realized[e] \in Int
      /\ n.cash[c] \in Int /\ b.cash[c] \in Int /\ n.realized[c] \in Int /\ b.realized[c] \in Int
      /\ n.position[s].cost \in Nat /\ b.position[s].cost \in Nat
      /\ n.position[s].quantity \in Nat /\ b.position[s].quantity \in Nat
      /\ n.position[s].quantity = 0 => n.position[s].cost = 0
      /\ b.position[s].quantity = 0 => b.position[s].cost = 0
      /\ StartCash[e] \in Nat
  BY PaperFlowAssumption DEF BookType, Sound
<1>10. n.cash[e] + ColumnSum(after, Book!Cost(n)) = StartCash[e] + n.realized[e]
  <2>1. CASE e = c
    <3>1. (IF s \in before THEN Book!Cost(b)[s] ELSE 0) = b.position[s].cost
      BY <1>1, <1>9, <2>1 DEF Book!Holding
    <3>2. (IF s \in after THEN Book!Cost(n)[s] ELSE 0) = n.position[s].cost
      BY <1>1, <1>9, <2>1 DEF Book!Holding
    <3>3. ColumnSum(after, Book!Cost(n)) + b.position[s].cost = ColumnSum(before, Book!Cost(b)) + n.position[s].cost
      BY <1>5, <3>1, <3>2
    <3>4. n.cash[e] + n.position[s].cost - n.realized[e] = b.cash[e] + b.position[s].cost - b.realized[e]
      BY <2>1
    <3>5. ColumnSum(before, Book!Cost(b)) \in Nat
      BY <1>5
    <3> HIDE DEF before, after
    <3> QED
      BY <1>7, <1>8, <1>9, <3>3, <3>4, <3>5
  <2>2. CASE e # c
    <3>1. s \notin before /\ s \notin after
      BY <2>2 DEF Book!Holding
    <3>2. ColumnSum(after, Book!Cost(n)) = ColumnSum(before, Book!Cost(b))
      <4> HIDE DEF before, after
      <4> QED
        BY <1>5, <1>7, <3>1
    <3> HIDE DEF before, after
    <3> QED
      BY <1>8, <2>2, <3>2
  <2> QED
    BY <2>1, <2>2
<1>11. Book!Invested(n, e) = ColumnSum(after, Book!Cost(n))
  BY InvestedIsSum
<1>12. Book!ConservedIn(n, e)
  BY <1>10, <1>11 DEF Book!ConservedIn
<1> QED
  BY <1>6, <1>12 DEF Balanced

\* A limit order's own price and the price of the day are numbers.
LEMMA PriceType ==
  ASSUME NEW o \in Order, NEW price \in Book!FillPrices(o)
  PROVE  price \in Nat
<1>1. Price \subseteq Nat
  BY PaperFlowAssumption
<1>2. OrderSpec[o].notional \in Nat
  BY DEF SpecType
<1>3. Trade[o].quantity \in Nat \ {0}
  BY TradeFacts
<1>4. OrderSpec[o].notional \div Trade[o].quantity \in Nat
  BY <1>2, <1>3
<1> QED
  BY <1>1, <1>4 DEF Book!FillPrices

\* A buy moves its amount from cash to the cost of the position, which is in its
\* currency already or was empty.
LEMMA BuyBalances ==
  ASSUME OneCurrency, NEW b \in BookType, NEW o \in Order, NEW price \in Nat,
         Trade[o].side = "BUY", Book!Covered(b, o, price),
         \A x \in Symbol : Sound(b.position[x], x),
         \A e \in Currency : Balanced(b, e)
  PROVE  LET n == Book!FilledAt(b, o, price)
         IN  /\ \A x \in Symbol : Sound(n.position[x], x)
             /\ \A e \in Currency : Balanced(n, e)
<1> DEFINE n == Book!FilledAt(b, o, price)
           s == Trade[o].symbol
           q == Trade[o].quantity
           c == CurrencyOf(o)
           held == b.position[s]
           amount == price * q
           new == [quantity |-> held.quantity + q, cost |-> held.cost + amount,
                   currency |-> IF held.quantity = 0 THEN c ELSE held.currency]
<1>1. s \in Symbol /\ q \in Nat \ {0} /\ c \in Currency
  BY TradeFacts
<1>2. amount \in Nat
  BY <1>1
<1>3. n \in BookType
  BY FilledType
<1>4. /\ n.cash = [b.cash EXCEPT ![c] = @ - amount]
      /\ n.realized = b.realized
      /\ n.position = [b.position EXCEPT ![s] = new]
  <2>1. Book!FilledAt(b, o, price) = Book!Bought(b, o, price) /\ Book!CurrencyOf(o) = c
    BY TradeFacts DEF Book!FilledAt
  <2>2. Book!Bought(b, o, price) = [b EXCEPT !.cash[c] = @ - amount,
                                             !.position[s] = new,
                                             !.filled = @ \cup {o}]
    BY <2>1 DEF Book!Bought, Book!PositionOf
  <2>3. n = [b EXCEPT !.cash[c] = @ - amount,
                      !.position[s] = new,
                      !.filled = @ \cup {o}]
    BY <2>1, <2>2
  <2> HIDE DEF n, s, amount, c, new
  <2> QED
    BY <2>3 DEF BookType
<1>5. /\ b.cash \in [Currency -> Int] /\ b.realized \in [Currency -> Int]
      /\ b.position \in [Symbol -> Position]
  BY DEF BookType
<1>6. Sound(held, s)
  BY <1>1
<1>7. held.quantity \in Nat /\ held.cost \in Nat
  BY <1>6 DEF Sound
<1>8. BoughtIn(s, c)
  BY DEF BoughtIn
<1>9. held.quantity > 0 => held.currency = c
  BY <1>6, <1>8, OneBuyer DEF Sound
<1>10. /\ new.quantity \in Nat \ {0} /\ new.cost \in Nat /\ new.cost = held.cost + amount
       /\ new.currency = c
  BY <1>1, <1>2, <1>7, <1>9
<1> HIDE DEF n, s, q, c, amount, new
<1>11. n.position[s] = new /\ \A x \in Symbol : x # s => n.position[x] = b.position[x]
  BY <1>1, <1>4, <1>5
<1>12. Sound(new, s)
  BY <1>8, <1>10 DEF Sound
<1>13. \A x \in Symbol : Sound(n.position[x], x)
  BY <1>11, <1>12
<1>14. /\ n.cash[c] = b.cash[c] - amount /\ n.realized[c] = b.realized[c]
       /\ \A e \in Currency : e # c => n.cash[e] = b.cash[e] /\ n.realized[e] = b.realized[e]
       /\ b.cash[c] \in Int /\ b.realized[c] \in Int
  BY <1>1, <1>4, <1>5
<1>15. n.cash[c] + n.position[s].cost - n.realized[c] = b.cash[c] + b.position[s].cost - b.realized[c]
  BY <1>2, <1>7, <1>10, <1>11, <1>14
<1>16. ASSUME NEW e \in Currency
       PROVE  Balanced(n, e)
  <2>1. Balanced(b, e)
    OBVIOUS
  <2>2. n.position[s].currency = c
    BY <1>10, <1>11
  <2> QED
    BY <1>1, <1>3, <1>9, <1>11, <1>13, <1>14, <1>15, <2>1, <2>2, BalanceMoves
<1> QED
  BY <1>13, <1>16 DEF n

\* A sale moves its share of the cost back to cash, and what it brings beyond
\* that to the realized profit of the same currency.
LEMMA SaleBalances ==
  ASSUME OneCurrency, NEW b \in BookType, NEW o \in Order, NEW price \in Nat,
         Trade[o].side # "BUY", Book!Covered(b, o, price),
         \A x \in Symbol : Sound(b.position[x], x),
         \A e \in Currency : Balanced(b, e)
  PROVE  LET n == Book!FilledAt(b, o, price)
         IN  /\ \A x \in Symbol : Sound(n.position[x], x)
             /\ \A e \in Currency : Balanced(n, e)
<1> DEFINE n == Book!FilledAt(b, o, price)
           s == Trade[o].symbol
           q == Trade[o].quantity
           held == b.position[s]
           c == held.currency
           amount == price * q
           left == held.quantity - q
           share == (held.cost * q) \div held.quantity
           new == IF left = 0 THEN Book!NoPosition
                  ELSE [held EXCEPT !.quantity = left, !.cost = @ - share]
<1>1. s \in Symbol /\ q \in Nat \ {0}
  BY TradeFacts
<1>2. amount \in Nat
  BY <1>1
<1>3. n \in BookType
  BY FilledType
<1>4. /\ n.cash = [b.cash EXCEPT ![c] = @ + amount]
      /\ n.realized = [b.realized EXCEPT ![c] = @ + (amount - share)]
      /\ n.position = [b.position EXCEPT ![s] = new]
  <2>1. Book!FilledAt(b, o, price) = Book!Sold(b, o, price)
    BY DEF Book!FilledAt
  <2>2. Book!Sold(b, o, price) = [b EXCEPT !.cash[c] = @ + amount,
                                           !.realized[c] = @ + (amount - share),
                                           !.position[s] = new,
                                           !.filled = @ \cup {o}]
    BY DEF Book!Sold, Book!CostShare, Book!PositionOf
  <2>3. n = [b EXCEPT !.cash[c] = @ + amount,
                      !.realized[c] = @ + (amount - share),
                      !.position[s] = new,
                      !.filled = @ \cup {o}]
    BY <2>1, <2>2
  <2> HIDE DEF n, s, amount, c, new, share
  <2> QED
    BY <2>3 DEF BookType
<1>5. /\ b.cash \in [Currency -> Int] /\ b.realized \in [Currency -> Int]
      /\ b.position \in [Symbol -> Position]
  BY DEF BookType
<1>6. Sound(held, s)
  BY <1>1
<1>7. /\ held.quantity \in Nat \ {0} /\ held.cost \in Nat /\ q \in 0 .. held.quantity
      /\ left \in Nat /\ (left = 0 => q = held.quantity)
  <2>1. q <= held.quantity
    BY DEF Book!Covered, Book!PositionOf
  <2>2. held.quantity \in Nat /\ held.cost \in Nat
    BY <1>6 DEF Sound
  <2> HIDE DEF held, q
  <2> QED
    BY <1>1, <2>1, <2>2
<1>8. share \in 0 .. held.cost /\ (left = 0 => share = held.cost)
  BY <1>7, ShareWithin
<1> HIDE DEF share
<1>9. BoughtIn(s, c)
  BY <1>6, <1>7 DEF Sound
<1>10. c \in Currency
  BY <1>9, OneBuyer
<1>11. held \in Position
  BY <1>1, <1>5
<1>12. held.cost - share \in Nat
  BY <1>7, <1>8
<1>13. new.quantity = left /\ new.cost = held.cost - share /\ (left > 0 => new.currency = c)
  <2>1. CASE left = 0
    <3>1. new = Book!NoPosition
      BY <2>1
    <3>2. held.cost - share = 0
      BY <1>7, <1>8, <2>1
    <3> HIDE DEF new, left, held
    <3> QED
      BY <2>1, <3>1, <3>2 DEF Book!NoPosition
  <2>2. CASE left # 0
    <3>1. new = [held EXCEPT !.quantity = left, !.cost = held.cost - share]
      BY <2>2
    <3> HIDE DEF left, held, new
    <3>2. /\ new.quantity = left /\ new.cost = held.cost - share
          /\ new.currency = held.currency
      BY <1>11, <3>1 DEF Position
    <3> QED
      BY <3>2 DEF held
  <2> QED
    BY <2>1, <2>2
<1> HIDE DEF n, s, q, c, amount, new, left
<1>14. n.position[s] = new /\ \A x \in Symbol : x # s => n.position[x] = b.position[x]
  BY <1>1, <1>4, <1>5
<1>15. Sound(new, s)
  BY <1>7, <1>8, <1>9, <1>12, <1>13 DEF Sound
<1>16. \A x \in Symbol : Sound(n.position[x], x)
  BY <1>14, <1>15
<1>17. /\ n.cash[c] = b.cash[c] + amount /\ n.realized[c] = b.realized[c] + (amount - share)
       /\ \A e \in Currency : e # c => n.cash[e] = b.cash[e] /\ n.realized[e] = b.realized[e]
       /\ b.cash[c] \in Int /\ b.realized[c] \in Int
  BY <1>4, <1>5, <1>10
<1>18. n.cash[c] + n.position[s].cost - n.realized[c] = b.cash[c] + b.position[s].cost - b.realized[c]
  BY <1>2, <1>7, <1>8, <1>13, <1>14, <1>17
<1>19. ASSUME NEW e \in Currency
       PROVE  Balanced(n, e)
  <2>1. Balanced(b, e)
    OBVIOUS
  <2>2. /\ n.position[s].quantity > 0 => n.position[s].currency = c
        /\ b.position[s].quantity > 0 => b.position[s].currency = c
    BY <1>13, <1>14 DEF c
  <2> QED
    BY <1>1, <1>3, <1>10, <1>14, <1>16, <1>17, <1>18, <2>1, <2>2, BalanceMoves
<1> QED
  BY <1>16, <1>19 DEF n

\* The book starts with all its money in cash.
LEMMA InitMoney ==
  ASSUME Init
  PROVE  MInv
<1>1. stored = Book!EmptyBook
  BY DEF Init
<1>2. \A s \in Symbol : stored.position[s] = Book!NoPosition
  BY <1>1 DEF Book!EmptyBook
<1>3. \A s \in Symbol : Sound(stored.position[s], s)
  BY <1>2 DEF Sound, Book!NoPosition
<1>4. ASSUME NEW c \in Currency
      PROVE  Balanced(stored, c)
  <2>1. Book!Holding(stored, c) = {}
    BY <1>2 DEF Book!Holding, Book!NoPosition
  <2>2. /\ IsFiniteSet(Columns(Book!Holding(stored, c), Book!Cost(stored)))
        /\ Book!Invested(stored, c) = 0
    BY <2>1, SumEmpty, InvestedIsSum
  <2>3. stored.cash[c] = StartCash[c] /\ stored.realized[c] = 0 /\ StartCash[c] \in Nat
    BY <1>1, PaperFlowAssumption DEF Book!EmptyBook
  <2> QED
    BY <2>2, <2>3 DEF Balanced, Book!ConservedIn
<1> QED
  BY <1>3, <1>4 DEF MInv

\* A fill keeps every position sound and every currency balanced.
LEMMA FillMoney ==
  ASSUME OneCurrency, stored \in BookType, MInv, NEW o \in Order, Book!Fill(o)
  PROVE  MInv'
<1>1. PICK price \in Book!FillPrices(o) :
        Book!Covered(stored, o, price) /\ stored' = Book!FilledAt(stored, o, price)
  BY DEF Book!Fill
<1>2. price \in Nat
  BY PriceType
<1>3. /\ \A x \in Symbol : Sound(stored.position[x], x)
      /\ \A e \in Currency : Balanced(stored, e)
  BY DEF MInv
<1>4. /\ \A x \in Symbol : Sound(stored'.position[x], x)
      /\ \A e \in Currency : Balanced(stored', e)
  BY <1>1, <1>2, <1>3, BuyBalances, SaleBalances
<1> QED
  BY <1>4 DEF MInv

\* While leases outlast the calls and the buys of a symbol agree on their
\* currency, cash, the cost of the positions and realized profit agree in every
\* currency, whatever fails or dies and however the processes interleave.
THEOREM MoneyIsAlwaysConserved ==
  ASSUME LeaseHolds, OneCurrency
  PROVE  Spec => []MoneyIsConserved
<1>1. IInv /\ MInv /\ [Next]_vars => MInv'
  <2> SUFFICES ASSUME IInv, MInv, [Next]_vars
               PROVE  MInv'
    OBVIOUS
  <2>1. CASE stored' = stored
    BY <2>1 DEF MInv, Balanced, Book!ConservedIn, Book!Invested, Book!Holding, Book!Cost
  <2>2. CASE stored' # stored
    <3>1. PICK p \in Proc : Save(p)
      BY <2>2 DEF Next, vars, Preview, Start, CallStep, NoPrice, Acquire, GiveUp, Load, Existing,
             Refuse, Unlock, Settle, Commit, Raise, Abort, LeaseExpires
    <3>2. call[p].order \in Order /\ Book!Fill(call[p].order)
      BY <3>1, SaveFills
    <3> QED
      BY <3>2, FillMoney DEF IInv, FlowTypeOK
  <2> QED
    BY <2>1, <2>2
<1>2. MInv => MoneyIsConserved
  BY DEF MInv, Balanced, MoneyIsConserved
<1> QED
  BY <1>1, <1>2, InitMoney, Invariance, PTL DEF Spec
=============================================================================
