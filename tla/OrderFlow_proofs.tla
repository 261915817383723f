-------------------------- MODULE OrderFlow_proofs --------------------------
(* The order flow keeps the daily caps, for any number of servers, orders,   *)
(* currencies and days: what is executed and still reserved is within them   *)
(* whatever Toss answers, and all that is executed as long as the            *)
(* environment keeps its side, Contract.                                     *)
EXTENDS OrderFlow, SpendStore_proofs

USE CeilingAssumption, OrdersAssumption, SpendStoreAssumption, OrderFlowAssumption

\* The state is in redis, a 4xx is an answer about the whole clientOrderId, an
\* executed order is answered usably and a token is used by one call at a time.
Contract == Durable /\ RejectIsFinal /\ ~BadBodies /\ SerialTokens
-----------------------------------------------------------------------------
(* The audit log: what restore_spend makes of it, by induction on its length. *)

\* The largest position in a set of positions.
LEMMA MaxOf ==
  ASSUME NEW n \in Nat, NEW s \in SUBSET (1 .. n), s # {}
  PROVE  Max(s) \in s /\ \A y \in s : y <= Max(s)
<1> DEFINE U == {m \in Nat : \A y \in s : y <= m}
<1>1. U \in SUBSET Nat /\ n \in U
  OBVIOUS
<1>2. PICK m \in U : \A u \in U : m <= u
  BY <1>1, LeastNumber
<1>3. m \in s
  <2> SUFFICES ASSUME m \notin s PROVE FALSE
    OBVIOUS
  <2>1. \A y \in s : y <= m - 1 /\ y \in Nat /\ y >= 1
    BY <1>2
  <2>2. m - 1 \in Nat /\ ~(m <= m - 1)
    <3>1. PICK y \in s : TRUE
      OBVIOUS
    <3>2. y <= m - 1 /\ y \in Nat /\ y >= 1 /\ m \in Nat
      BY <2>1
    <3> QED
      BY <3>2
  <2>3. m - 1 \in U
    BY <2>1, <2>2
  <2> QED
    BY <1>2, <2>2, <2>3
<1>4. \A y \in s : m >= y
  BY <1>2
<1>5. \E x \in s : \A y \in s : x >= y
  BY <1>3, <1>4
<1>6. Max(s) \in s /\ \A y \in s : Max(s) >= y
  BY <1>5 DEF Max
<1> QED
  BY <1>6

NoSpend == [c \in Currency |-> 0]

\* iter is the function that FoldLeft picks in SpendIn: the spend of day d in the
\* events at each set of positions up to n.
SpendFold(iter, log, d, n) ==
  iter = [s \in SUBSET (1 .. n) |->
     IF s = {} THEN NoSpend ELSE Seed(d, iter[s \ {Max(s)}], log[Max(s)])]

\* There is such a function: one position more extends it.
LEMMA SpendFoldExists ==
  ASSUME NEW log, NEW d, NEW n \in Nat
  PROVE  \E iter : SpendFold(iter, log, d, n)
<1> DEFINE T == {m \in Nat : \E iter : SpendFold(iter, log, d, m)}
<1>1. 0 \in T
  <2>1. SpendFold([s \in SUBSET (1 .. 0) |-> NoSpend], log, d, 0)
    BY DEF SpendFold
  <2> QED
    BY <2>1
<1>2. ASSUME NEW m \in Nat, m \in T PROVE m + 1 \in T
  <2>1. PICK f : SpendFold(f, log, d, m)
    BY <1>2
  <2> DEFINE g == [s \in SUBSET (1 .. m + 1) |->
                     IF m + 1 \in s THEN Seed(d, f[s \ {m + 1}], log[m + 1]) ELSE f[s]]
  <2>2. ASSUME NEW s \in SUBSET (1 .. m + 1), m + 1 \in s
        PROVE  Max(s) = m + 1 /\ g[s \ {m + 1}] = f[s \ {m + 1}]
    <3>1. Max(s) \in s /\ \A y \in s : y <= Max(s)
      BY <2>2, MaxOf, m + 1 \in Nat
    <3>2. Max(s) = m + 1
      <4>1. Max(s) \in 1 .. m + 1 /\ m + 1 <= Max(s)
        BY <3>1, <2>2
      <4> QED
        BY <4>1
    <3>3. s \ {m + 1} \in SUBSET (1 .. m + 1) /\ m + 1 \notin s \ {m + 1}
      OBVIOUS
    <3> QED
      BY <3>2, <3>3
  <2>3. ASSUME NEW s \in SUBSET (1 .. m + 1), m + 1 \notin s, s # {}
        PROVE  f[s] = Seed(d, g[s \ {Max(s)}], log[Max(s)])
    <3>1. s \in SUBSET (1 .. m) /\ s \ {Max(s)} \in SUBSET (1 .. m)
      <4>1. ASSUME NEW x \in s PROVE x \in 1 .. m
        <5>1. x \in 1 .. m + 1 /\ x # m + 1
          BY <2>3
        <5> QED
          BY <5>1
      <4> QED
        BY <4>1
    <3>2. f[s] = Seed(d, f[s \ {Max(s)}], log[Max(s)])
      BY <2>1, <2>3, <3>1 DEF SpendFold
    <3>3. g[s \ {Max(s)}] = f[s \ {Max(s)}]
      BY <3>1
    <3> QED
      BY <3>2, <3>3
  <2>4. f[{}] = NoSpend
    BY <2>1 DEF SpendFold
  <2>5. ASSUME NEW s \in SUBSET (1 .. m + 1)
        PROVE  g[s] = IF s = {} THEN NoSpend ELSE Seed(d, g[s \ {Max(s)}], log[Max(s)])
    <3>1. CASE m + 1 \in s
      BY <3>1, <2>2
    <3>2. CASE m + 1 \notin s /\ s # {}
      BY <3>2, <2>3
    <3>3. CASE s = {}
      BY <3>3, <2>4
    <3> QED
      BY <3>1, <3>2, <3>3
  <2>6. SpendFold(g, log, d, m + 1)
    <3>1. g = [s \in SUBSET (1 .. m + 1) |-> g[s]]
      OBVIOUS
    <3> HIDE DEF g
    <3>2. g = [s \in SUBSET (1 .. m + 1) |->
                 IF s = {} THEN NoSpend ELSE Seed(d, g[s \ {Max(s)}], log[Max(s)])]
      BY <3>1, <2>5
    <3> QED
      BY <3>2 DEF SpendFold
  <2> QED
    BY <2>6
<1> QED
  BY <1>1, <1>2, NatSetInduction

\* Two such functions agree where their logs do.
LEMMA SpendFoldsAgree ==
  ASSUME NEW log, NEW l2, NEW d, NEW n \in Nat, NEW m \in Nat, n <= m,
         \A i \in 1 .. n : log[i] = l2[i],
         NEW f, NEW g, SpendFold(f, log, d, n), SpendFold(g, l2, d, m)
  PROVE  f[1 .. n] = g[1 .. n]
<1> DEFINE T == {k \in Nat : k <= n => \A s \in SUBSET (1 .. k) : f[s] = g[s]}
<1>1. 0 \in T
  <2>1. \A s \in SUBSET (1 .. 0) : s = {}
    OBVIOUS
  <2>2. {} \in SUBSET (1 .. n) /\ {} \in SUBSET (1 .. m)
    OBVIOUS
  <2>3. f[{}] = NoSpend /\ g[{}] = NoSpend
    BY <2>2 DEF SpendFold
  <2> QED
    BY <2>1, <2>3
<1>2. ASSUME NEW k \in Nat, k \in T PROVE k + 1 \in T
  <2> SUFFICES ASSUME k + 1 <= n, NEW s \in SUBSET (1 .. k + 1) PROVE f[s] = g[s]
    BY <1>2
  <2>1. \A x \in SUBSET (1 .. k) : f[x] = g[x]
    <3>1. k <= n
      OBVIOUS
    <3> QED
      BY <1>2, <3>1
  <2>2. CASE s = {}
    <3>1. f[{}] = NoSpend /\ g[{}] = NoSpend
      BY DEF SpendFold
    <3> QED
      BY <2>2, <3>1
  <2>3. CASE s # {}
    <3>1. Max(s) \in s /\ \A y \in s : y <= Max(s)
      BY <2>3, MaxOf, k + 1 \in Nat
    <3>2. s \ {Max(s)} \in SUBSET (1 .. k)
      <4> SUFFICES ASSUME NEW y \in s, y # Max(s) PROVE y \in 1 .. k
        OBVIOUS
      <4>1. y \in 1 .. k + 1 /\ Max(s) \in 1 .. k + 1 /\ y <= Max(s)
        BY <3>1
      <4> QED
        BY <4>1
    <3>3. Max(s) \in 1 .. n /\ Max(s) \in 1 .. m
      <4>1. Max(s) \in 1 .. k + 1
        BY <3>1
      <4> QED
        BY <4>1
    <3>4. s \in SUBSET (1 .. n) /\ s \in SUBSET (1 .. m)
      <4> SUFFICES ASSUME NEW y \in s PROVE y \in 1 .. n /\ y \in 1 .. m
        OBVIOUS
      <4>1. y \in 1 .. k + 1
        OBVIOUS
      <4> QED
        BY <4>1
    <3>5. f[s] = Seed(d, f[s \ {Max(s)}], log[Max(s)]) /\ g[s] = Seed(d, g[s \ {Max(s)}], l2[Max(s)])
      BY <2>3, <3>4 DEF SpendFold
    <3>6. f[s \ {Max(s)}] = g[s \ {Max(s)}] /\ log[Max(s)] = l2[Max(s)]
      BY <2>1, <3>2, <3>3
    <3> QED
      BY <3>5, <3>6
  <2> QED
    BY <2>2, <2>3
<1>3. n \in T
  BY <1>1, <1>2, NatSetInduction
<1> QED
  BY <1>3

\* The fold is what any such function says of the whole log.
LEMMA SpendInIsFold ==
  ASSUME NEW log \in Seq(Event), NEW d, NEW f, SpendFold(f, log, d, Len(log))
  PROVE  SpendIn(log, d) = f[1 .. Len(log)]
<1> DEFINE g == CHOOSE iter : iter = [s \in SUBSET DOMAIN log |->
     IF s = {} THEN NoSpend ELSE LET x == Max(s) IN Seed(d, iter[s \ {x}], log[x])]
<1>1. SpendIn(log, d) = g[DOMAIN log]
  BY DEF SpendIn, FoldLeft, MapThenFoldSet, NoSpend
<1>2. DOMAIN log = 1 .. Len(log) /\ Len(log) \in Nat
  OBVIOUS
<1>3. SpendFold(g, log, d, Len(log))
  <2>1. g = CHOOSE iter : SpendFold(iter, log, d, Len(log))
    BY <1>2 DEF SpendFold
  <2> HIDE DEF g
  <2> QED
    BY <2>1
<1> HIDE DEF g
<1>4. f[1 .. Len(log)] = g[1 .. Len(log)]
  BY <1>2, <1>3, SpendFoldsAgree
<1> QED
  BY <1>1, <1>2, <1>4

\* An empty log restores nothing.
LEMMA SpendInEmpty ==
  ASSUME NEW d
  PROVE  SpendIn(<<>>, d) = NoSpend
<1>1. <<>> \in Seq(Event) /\ Len(<<>>) = 0 /\ 1 .. 0 = {}
  OBVIOUS
<1>2. PICK f : SpendFold(f, <<>>, d, 0)
  BY SpendFoldExists
<1>3. f[{}] = NoSpend
  BY <1>2 DEF SpendFold
<1> QED
  BY <1>1, <1>2, <1>3, SpendInIsFold

\* The last event of a log is seeded last.
LEMMA SpendInAppend ==
  ASSUME NEW log \in Seq(Event), NEW e \in Event, NEW d
  PROVE  SpendIn(Append(log, e), d) = Seed(d, SpendIn(log, d), e)
<1> DEFINE more == Append(log, e)
           n == Len(log)
<1>1. /\ more \in Seq(Event) /\ Len(more) = n + 1 /\ n \in Nat /\ more[n + 1] = e
      /\ \A i \in 1 .. n : log[i] = more[i]
  OBVIOUS
<1> HIDE DEF more, n
<1>2. PICK f : SpendFold(f, log, d, n)
  BY <1>1, SpendFoldExists
<1>3. PICK g : SpendFold(g, more, d, n + 1)
  <2>1. n + 1 \in Nat
    BY <1>1
  <2> QED
    BY <2>1, SpendFoldExists
<1>4. SpendIn(log, d) = f[1 .. n]
  BY <1>2, SpendInIsFold DEF n
<1>5. SpendIn(more, d) = g[1 .. n + 1]
  BY <1>1, <1>3, SpendInIsFold
<1>6. f[1 .. n] = g[1 .. n]
  BY <1>1, <1>2, <1>3, SpendFoldsAgree
<1>7. Max(1 .. n + 1) = n + 1
  <2>1. n + 1 \in 1 .. n + 1 /\ n + 1 \in Nat
    BY <1>1
  <2>2. Max(1 .. n + 1) \in 1 .. n + 1 /\ n + 1 <= Max(1 .. n + 1)
    BY <2>1, MaxOf
  <2> QED
    BY <1>1, <2>2
<1>8. (1 .. n + 1) \ {n + 1} = 1 .. n /\ 1 .. n + 1 # {}
  <2>1. n \in Nat
    BY <1>1
  <2>2. ASSUME NEW i PROVE i \in (1 .. n + 1) \ {n + 1} <=> i \in 1 .. n
    BY <2>1
  <2>3. n + 1 \in 1 .. n + 1
    BY <2>1
  <2> QED
    BY <2>2, <2>3
<1>9. g[1 .. n + 1] = Seed(d, g[1 .. n], more[n + 1])
  BY <1>3, <1>7, <1>8 DEF SpendFold
<1> QED
  BY <1>1, <1>4, <1>5, <1>6, <1>9 DEF more

\* A log with events is one event more than another log.
LEMMA LastEvent ==
  ASSUME NEW log \in Seq(Event), NEW n \in Nat, Len(log) = n + 1
  PROVE  \E front \in Seq(Event), e \in Event : Len(front) = n /\ log = Append(front, e)
<1> DEFINE front == [i \in 1 .. n |-> log[i]]
<1>1. \A i \in 1 .. n + 1 : log[i] \in Event
  OBVIOUS
<1>2. n + 1 \in 1 .. n + 1 /\ \A i \in 1 .. n : i \in 1 .. n + 1
  OBVIOUS
<1>3. front \in Seq(Event) /\ Len(front) = n
  BY <1>1, <1>2
<1>4. log = Append(front, log[n + 1])
  <2>1. Append(front, log[n + 1]) \in Seq(Event) /\ Len(Append(front, log[n + 1])) = n + 1
    BY <1>1, <1>2, <1>3
  <2>2. \A i \in 1 .. n + 1 : Append(front, log[n + 1])[i] = log[i]
    BY <1>3
  <2> HIDE DEF front
  <2> QED
    BY <2>1, <2>2
<1> QED
  BY <1>1, <1>2, <1>3, <1>4

\* seed keeps the counters numbers, and touches one of them.
LEMMA SeedType ==
  ASSUME NEW d, NEW b \in [Currency -> Nat], NEW e \in Event
  PROVE  /\ Seed(d, b, e) \in [Currency -> Nat]
         /\ e.day = d => Seed(d, b, e)[CurrencyOf(e.order)]
                           = Floored(b[CurrencyOf(e.order)] + e.amount)
         /\ \A c \in Currency :
              e.day # d \/ c # CurrencyOf(e.order) => Seed(d, b, e)[c] = b[c]
<1>1. e.order \in Order /\ e.amount \in Int /\ CurrencyOf(e.order) \in Currency
  BY DeltaType DEF Event, Amount
<1>2. Floored(b[CurrencyOf(e.order)] + e.amount) \in Nat
  BY <1>1 DEF Floored
<1> QED
  BY <1>1, <1>2 DEF Seed

\* Whatever the log, restore_spend rebuilds counters.
LEMMA SpendInType ==
  ASSUME NEW d
  PROVE  \A log \in Seq(Event) : SpendIn(log, d) \in [Currency -> Nat]
<1> DEFINE T == {n \in Nat : \A log \in Seq(Event) :
                               Len(log) = n => SpendIn(log, d) \in [Currency -> Nat]}
<1>1. 0 \in T
  <2>1. NoSpend \in [Currency -> Nat]
    BY DEF NoSpend
  <2>2. \A log \in Seq(Event) : Len(log) = 0 => log = <<>>
    OBVIOUS
  <2> QED
    BY <2>1, <2>2, SpendInEmpty
<1>2. ASSUME NEW n \in Nat, n \in T PROVE n + 1 \in T
  <2> SUFFICES ASSUME NEW log \in Seq(Event), Len(log) = n + 1
               PROVE  SpendIn(log, d) \in [Currency -> Nat]
    OBVIOUS
  <2>1. PICK front \in Seq(Event), e \in Event : Len(front) = n /\ log = Append(front, e)
    BY LastEvent
  <2>2. SpendIn(front, d) \in [Currency -> Nat]
    BY <1>2, <2>1
  <2>3. SpendIn(log, d) = Seed(d, SpendIn(front, d), e)
    BY <2>1, SpendInAppend
  <2> QED
    BY <2>2, <2>3, SeedType
<1>3. Nat \subseteq T
  BY <1>1, <1>2, NatSetInduction
<1> QED
  BY <1>3

\* The orders a log has an event of day d about, in the bucket c.
Logged(log, d, c) ==
  {o \in Order : CurrencyOf(o) = c /\ \E i \in DOMAIN log : log[i].order = o /\ log[i].day = d}

\* The last event of a log adds its order to those of its day and currency.
LEMMA LoggedAppend ==
  ASSUME NEW log \in Seq(Event), NEW e \in Event, NEW d, NEW c \in Currency
  PROVE  /\ e.day = d /\ c = CurrencyOf(e.order)
              => Logged(Append(log, e), d, c) = Logged(log, d, c) \cup {e.order}
         /\ e.day # d \/ c # CurrencyOf(e.order)
              => Logged(Append(log, e), d, c) = Logged(log, d, c)
<1> DEFINE more == Append(log, e)
<1>1. e.order \in Order
  BY DEF Event
<1>2. /\ DOMAIN log = 1 .. Len(log) /\ DOMAIN more = 1 .. Len(log) + 1 /\ Len(log) \in Nat
      /\ more[Len(log) + 1] = e
  OBVIOUS
<1>3. /\ \A i \in DOMAIN log : i \in DOMAIN more /\ more[i] = log[i]
      /\ \A i \in DOMAIN more : i \in DOMAIN log \/ i = Len(log) + 1
      /\ Len(log) + 1 \in DOMAIN more
  BY <1>2
<1> HIDE DEF more
<1>4. ASSUME NEW o \in Order
      PROVE  o \in Logged(more, d, c) <=>
               o \in Logged(log, d, c) \/ (e.order = o /\ e.day = d /\ CurrencyOf(o) = c)
  <2>1. ASSUME o \in Logged(more, d, c)
        PROVE  o \in Logged(log, d, c) \/ (e.order = o /\ e.day = d /\ CurrencyOf(o) = c)
    <3>1. PICK i \in DOMAIN more : more[i].order = o /\ more[i].day = d
      BY <2>1 DEF Logged
    <3> QED
      BY <1>2, <1>3, <2>1, <3>1 DEF Logged
  <2>2. ASSUME o \in Logged(log, d, c)
        PROVE  o \in Logged(more, d, c)
    <3>1. PICK i \in DOMAIN log : log[i].order = o /\ log[i].day = d
      BY <2>2 DEF Logged
    <3> QED
      BY <1>3, <2>2, <3>1 DEF Logged
  <2>3. ASSUME e.order = o, e.day = d, CurrencyOf(o) = c
        PROVE  o \in Logged(more, d, c)
    BY <1>2, <1>3, <2>3 DEF Logged
  <2> QED
    BY <2>1, <2>2, <2>3
<1>5. Logged(more, d, c) \subseteq Order /\ Logged(log, d, c) \subseteq Order
  BY DEF Logged
<1> QED
  BY <1>1, <1>4, <1>5 DEF more

\* An order more is covered by its delta more, or is in the sum already.
LEMMA JoinCovered ==
  ASSUME NEW L \in SUBSET Order, NEW o \in Order, SpendDelta[o] \in Nat,
         NEW n \in Nat, Total(L, SpendDelta) <= n
  PROVE  Total(L \cup {o}, SpendDelta) <= n + SpendDelta[o]
<1>1. IsFiniteSet(L)
  BY FS_Subset
<1>2. Total(L, SpendDelta) \in Int
  BY <1>1, UnitsFinite
<1>3. CASE o \in L
  <2>1. L \cup {o} = L
    BY <1>3
  <2>2. Total(L \cup {o}, SpendDelta) = Total(L, SpendDelta)
    BY <2>1
  <2> QED
    BY <1>2, <2>2
<1>4. CASE o \notin L
  <2>1. SpendDelta \in [Order -> Amount]
    BY DeltaType
  <2>2. Total(L \cup {o}, SpendDelta) = Total(L, SpendDelta) + SpendDelta[o]
    BY <1>1, <1>4, <2>1, TotalAdd
  <2> QED
    BY <1>2, <2>2
<1> QED
  BY <1>3, <1>4

\* Without credits, what restore_spend makes of a log covers the orders logged,
\* each once, however often it is logged.
THEOREM SpendInCovers ==
  ASSUME NEW d, \A o \in Order : SpendDelta[o] >= 0
  PROVE  \A log \in Seq(Event) :
           (\A i \in DOMAIN log : log[i].amount = SpendDelta[log[i].order])
             => \A c \in Currency : Total(Logged(log, d, c), SpendDelta) <= SpendIn(log, d)[c]
<1> DEFINE Covered(log) ==
             (\A i \in DOMAIN log : log[i].amount = SpendDelta[log[i].order])
               => \A c \in Currency : Total(Logged(log, d, c), SpendDelta) <= SpendIn(log, d)[c]
           T == {n \in Nat : \A log \in Seq(Event) : Len(log) = n => Covered(log)}
<1>1. 0 \in T
  <2>1. \A log \in Seq(Event) : Len(log) = 0 => log = <<>>
    OBVIOUS
  <2>2. \A c \in Currency : Logged(<<>>, d, c) = {} /\ NoSpend[c] = 0
    BY DEF Logged, NoSpend
  <2>3. \A c \in Currency : Total(Logged(<<>>, d, c), SpendDelta) = 0 /\ SpendIn(<<>>, d)[c] = 0
    BY <2>2, SpendInEmpty, TotalEmpty
  <2>4. Covered(<<>>)
    BY <2>3
  <2> HIDE DEF Covered
  <2> QED
    BY <2>1, <2>4
<1>2. ASSUME NEW n \in Nat, n \in T PROVE n + 1 \in T
  <2> SUFFICES ASSUME NEW log \in Seq(Event), Len(log) = n + 1,
                      \A i \in DOMAIN log : log[i].amount = SpendDelta[log[i].order],
                      NEW c \in Currency
               PROVE  Total(Logged(log, d, c), SpendDelta) <= SpendIn(log, d)[c]
    OBVIOUS
  <2>1. PICK front \in Seq(Event), e \in Event : Len(front) = n /\ log = Append(front, e)
    BY LastEvent
  <2> DEFINE b == SpendIn(front, d)
             L == Logged(front, d, c)
  <2>2. /\ e.amount = SpendDelta[e.order]
        /\ \A i \in DOMAIN front : front[i].amount = SpendDelta[front[i].order]
    <3>1. /\ n + 1 \in DOMAIN log /\ log[n + 1] = e
          /\ \A i \in DOMAIN front : i \in DOMAIN log /\ log[i] = front[i]
      BY <2>1
    <3> QED
      BY <3>1
  <2>3. Total(L, SpendDelta) <= b[c]
    BY <1>2, <2>1, <2>2
  <2>4. b \in [Currency -> Nat] /\ SpendIn(log, d) = Seed(d, b, e)
    BY <2>1, SpendInType, SpendInAppend
  <2>5. /\ e.order \in Order /\ SpendDelta \in [Order -> Amount]
        /\ SpendDelta[e.order] \in Nat /\ b[c] \in Nat
    BY <2>4, DeltaType DEF Event, Amount
  <2>6. L \in SUBSET Order /\ IsFiniteSet(L) /\ Total(L, SpendDelta) \in Int
    <3>1. L \in SUBSET Order
      BY DEF Logged
    <3>2. IsFiniteSet(L)
      BY <3>1, FS_Subset
    <3> QED
      BY <3>1, <3>2, UnitsFinite
  <2> HIDE DEF b
  <2>7. CASE e.day = d /\ c = CurrencyOf(e.order)
    <3>1. SpendIn(log, d)[c] = b[c] + SpendDelta[e.order]
      BY <2>1, <2>2, <2>4, <2>5, <2>7, SeedType DEF Floored
    <3>2. Logged(log, d, c) = L \cup {e.order}
      BY <2>1, <2>7, LoggedAppend
    <3>3. Total(L \cup {e.order}, SpendDelta) <= b[c] + SpendDelta[e.order]
      BY <2>3, <2>5, <2>6, JoinCovered
    <3> QED
      BY <3>1, <3>2, <3>3
  <2>8. CASE e.day # d \/ c # CurrencyOf(e.order)
    <3>1. SpendIn(log, d)[c] = b[c]
      <4>1. b \in [Currency -> Nat]
        BY <2>4
      <4>2. Seed(d, b, e)[c] = b[c]
        BY <2>5, <2>8, <4>1 DEF Seed
      <4> QED
        BY <2>4, <4>2
    <3>2. Logged(log, d, c) = L
      BY <2>1, <2>8, LoggedAppend
    <3> QED
      BY <2>3, <3>1, <3>2
  <2> QED
    BY <2>7, <2>8
<1>3. Nat \subseteq T
  BY <1>1, <1>2, NatSetInduction
<1>4. \A log \in Seq(Event) : Len(log) \in Nat
  OBVIOUS
<1> HIDE DEF Covered
<1>5. \A log \in Seq(Event) : Covered(log)
  BY <1>3, <1>4
<1> QED
  BY <1>5 DEF Covered
-----------------------------------------------------------------------------
(* Type correctness. *)

\* The record of a call is a call.
LEMMA CallType ==
  ASSUME TypeOK, NEW p \in Proc, call[p] # Idle
  PROVE  call[p] \in Call /\ call[p].order \in Order /\ call[p].day \in Day
         /\ RequestOf(p) \in Request
BY DEF TypeOK, Call, RequestOf, Request

\* A call moved to another place is a call.
LEMMA GotoType ==
  ASSUME TypeOK, NEW p \in Proc, call[p] # Idle,
         NEW where \in {"checked", "sent", "refused", "filled", "committed"},
         Goto(p, where) \/ Finish(p)
  PROVE  call' \in [Proc -> Call \cup {Idle}]
<1>1. [call[p] EXCEPT !.at = where] \in Call
  BY CallType DEF Call
<1> QED
  BY <1>1 DEF Goto, Finish, TypeOK

\* Whatever the answer, the call goes to a known place.
LEMMA AnsweredType ==
  ASSUME TypeOK, NEW p \in Proc, call[p] # Idle, NEW answer, Answered(p, answer)
  PROVE  call' \in [Proc -> Call \cup {Idle}]
BY GotoType DEF Answered

\* Executing a request books an amount within the ceiling.
LEMMA ExecuteType ==
  ASSUME TypeOK, NEW r \in Request, Execute(r)
  PROVE  fill' \in [Order -> Booking]
<1>1. r.order \in Order /\ r.day \in Day
  BY DEF Request
<1>2. FillAmount(r) \in Amount
  BY <1>1, DeltaType DEF FillAmount, SpecType, Amount
<1>3. [day |-> r.day, amount |-> FillAmount(r)] \in Booking
  BY <1>1, <1>2 DEF Booking
<1> QED
  BY <1>1, <1>3 DEF Execute, TypeOK

\* The initial state is typed.
LEMMA InitType ==
  ASSUME Init
  PROVE  TypeOK
<1>1. StoreTypeOK
  BY StoreInitExact DEF Init
<1>2. 0 \in Day /\ NotBooked \in Booking
  BY DEF Day, NotBooked, Booking, NoDay, Amount
<1>3. audit \in Seq(Event)
  BY DEF Init
<1> QED
  BY <1>1, <1>2, <1>3 DEF Init, TypeOK, Idle

\* A restart rebuilds counters, and what was sent is still a request.
LEMMA RestartType ==
  ASSUME TypeOK, Restart
  PROVE  TypeOK'
<1>1. today \in Day /\ audit \in Seq(Event)
  BY DEF TypeOK
<1>2. SpendIn(audit, today) \in [Currency -> Nat]
  BY <1>1, SpendInType
<1>3. EmptyCounters \in [Day -> [Currency -> Nat]]
  BY DEF EmptyCounters
<1>4. spent' \in [Day -> [Currency -> Nat]]
  <2>1. spent' = [EmptyCounters EXCEPT ![today] = SpendIn(audit, today)]
    BY DEF Restart
  <2> QED
    BY <1>1, <1>2, <1>3, <2>1
<1>5. StoreTypeOK'
  BY <1>4 DEF Restart, StoreTypeOK
<1>6. orphan' \in SUBSET Request
  BY CallType DEF Restart, Sent, At, TypeOK
<1>7. token' \in [Order -> {"none", "live", "expired", "committed"}]
  BY DEF Restart, TypeOK
<1> QED
  BY <1>5, <1>6, <1>7 DEF Restart, TypeOK

\* Every step keeps the types.
LEMMA StepType ==
  ASSUME TypeOK, [Next]_vars
  PROVE  TypeOK'
<1>1. ASSUME NEW o \in Order, Preview(o) \/ PreviewConditional(o) \/ Expire(o) PROVE TypeOK'
  BY <1>1 DEF Preview, PreviewConditional, IssueToken, Expire, TypeOK, StoreTypeOK
<1>2. ASSUME NEW p \in Proc, NEW o \in Order, NEW tool \in Tool, Start(p, o, tool) PROVE TypeOK'
  <2>1. [at |-> "checked", order |-> o, tool |-> tool, day |-> today] \in Call
    BY DEF Call, TypeOK
  <2> QED
    BY <1>2, <2>1 DEF Start, TypeOK, StoreTypeOK
<1>3. ASSUME NEW p \in Proc, CallStep(p) PROVE TypeOK'
  <2>1. CASE MakeReservation(p)
    <3>1. call[p] # Idle
      BY <2>1 DEF MakeReservation, At
    <3>2. [call[p] EXCEPT !.at = "sent", !.day = today] \in Call
      BY <3>1, CallType DEF Call, TypeOK
    <3>3. StoreTypeOK'
      BY <2>1, <3>1, CallType, StoreStepType DEF MakeReservation, TypeOK
    <3> QED
      BY <2>1, <3>2, <3>3 DEF MakeReservation, TypeOK
  <2>2. CASE OverLimit(p)
    BY <2>2 DEF OverLimit, Finish, TypeOK, StoreTypeOK
  <2>3. CASE Accepted(p)
    <3>1. call[p] # Idle
      BY <2>3 DEF Accepted, At
    <3>2. call' \in [Proc -> Call \cup {Idle}]
      BY <2>3, <3>1, AnsweredType DEF Accepted
    <3>3. fill' \in [Order -> Booking]
      BY <2>3, <3>1, CallType, ExecuteType DEF Accepted
    <3> QED
      BY <2>3, <3>2, <3>3 DEF Accepted, TypeOK, StoreTypeOK
  <2>4. CASE Refused(p) \/ RefusedAsDuplicate(p)
    <3>1. call[p] # Idle
      BY <2>4 DEF Refused, RefusedAsDuplicate, At
    <3>2. call' \in [Proc -> Call \cup {Idle}]
      BY <2>4, <3>1, AnsweredType DEF Refused, RefusedAsDuplicate
    <3> QED
      BY <2>4, <3>2 DEF Refused, RefusedAsDuplicate, TypeOK, StoreTypeOK
  <2>5. CASE Unclear(p)
    <3>1. call[p] # Idle
      BY <2>5 DEF Unclear, At
    <3>2. call' \in [Proc -> Call \cup {Idle}]
      BY <2>5, <3>1, AnsweredType DEF Unclear
    <3>3. fill' \in [Order -> Booking]
      BY <2>5, <3>1, CallType, ExecuteType DEF Unclear, TypeOK
    <3>4. orphan' \in SUBSET Request
      BY <2>5, <3>1, CallType DEF Unclear, TypeOK
    <3> QED
      BY <2>5, <3>2, <3>3, <3>4 DEF Unclear, TypeOK, StoreTypeOK
  <2>6. CASE Settle(p)
    <3>1. call[p] # Idle
      BY <2>6 DEF Settle, At
    <3>2. StoreTypeOK'
      BY <2>6, <3>1, CallType, StoreStepType DEF Settle, TypeOK
    <3> QED
      BY <2>6, <3>2 DEF Settle, Finish, TypeOK
  <2>7. CASE Commit(p)
    <3>1. call[p] # Idle
      BY <2>7 DEF Commit, At
    <3>2. call' \in [Proc -> Call \cup {Idle}]
      BY <2>7, <3>1, GotoType DEF Commit
    <3> QED
      BY <2>7, <3>2 DEF Commit, TypeOK, StoreTypeOK
  <2>8. CASE Record(p)
    <3>1. call[p] # Idle
      BY <2>8 DEF Record, At
    <3>2. [order |-> call[p].order, day |-> today, amount |-> SpendDelta[call[p].order]] \in Event
      BY <3>1, CallType, DeltaType DEF Event, TypeOK
    <3>3. audit' \in Seq(Event)
      BY <2>8, <3>2 DEF Record, TypeOK
    <3> QED
      BY <2>8, <3>3 DEF Record, Finish, TypeOK, StoreTypeOK
  <2>9. CASE Abort(p)
    <3>1. Sent({p}) \in SUBSET Request
      BY CallType DEF Sent, At
    <3> QED
      BY <2>9, <3>1 DEF Abort, Finish, TypeOK, StoreTypeOK
  <2>10. CASE ReserveCutShort(p) \/ ReleaseCutShort(p)
    <3>1. call[p] # Idle
      BY <2>10 DEF ReserveCutShort, ReleaseCutShort, At
    <3>2. StoreTypeOK'
      BY <2>10, <3>1, CallType, CutStepType DEF ReserveCutShort, ReleaseCutShort, TypeOK
    <3> QED
      BY <2>10, <3>2 DEF ReserveCutShort, ReleaseCutShort, Finish, TypeOK
  <2> QED
    BY <1>3, <2>1, <2>2, <2>3, <2>4, <2>5, <2>6, <2>7, <2>8, <2>9, <2>10 DEF CallStep
<1>4. ASSUME NEW r \in Request, LateExecution(r) \/ LateLoss(r) PROVE TypeOK'
  <2>1. fill' \in [Order -> Booking]
    BY <1>4, ExecuteType DEF LateExecution, LateLoss, TypeOK
  <2> QED
    BY <1>4, <2>1 DEF LateExecution, LateLoss, TypeOK, StoreTypeOK
<1>5. CASE Restart
  BY <1>5, RestartType
<1>6. CASE NextDay
  BY <1>6 DEF NextDay, TypeOK, StoreTypeOK, Day
<1>7. CASE UNCHANGED vars
  BY <1>7 DEF vars, TypeOK, StoreTypeOK
<1> QED
  BY <1>1, <1>2, <1>3, <1>4, <1>5, <1>6, <1>7 DEF Next

\* Whatever the backend and the environment, every reachable state is typed.
THEOREM TypeCorrect == Spec => []TypeOK
<1>1. Init => TypeOK
  BY InitType
<1>2. TypeOK /\ [Next]_vars => TypeOK'
  BY StepType
<1> QED
  BY <1>1, <1>2, PTL DEF Spec
-----------------------------------------------------------------------------
(* What is executed, whatever Toss answers and whatever restarts. *)

\* A request travels under the tool its token was made for.
RightTools ==
  /\ \A p \in Proc : call[p] # Idle => RightTool(call[p].tool, call[p].order)
  /\ \A r \in orphan : RightTool(r.tool, r.order)

\* An executed order is charged to a day, for no more than the counter moved.
FillsAreCovered ==
  \A o \in Order : fill[o] # NotBooked => fill[o].day \in Day /\ fill[o].amount <= SpendDelta[o]

CoveredInv == TypeOK /\ RightTools /\ FillsAreCovered

\* Toss books no more for a request than spend_delta counted for it.
LEMMA FillAmountCovered ==
  ASSUME NEW r \in Request, RightTool(r.tool, r.order)
  PROVE  FillAmount(r) <= SpendDelta[r.order]
<1>1. r.order \in Order /\ OrderSpec[r.order] \in SpecType
  BY DEF Request
<1>2. OrderSpec[r.order].notional \in Int /\ OrderSpec[r.order].prev \in Int
  BY <1>1 DEF SpecType
<1>3. Increment(r.order) <= SpendDelta[r.order]
  BY <1>1, <1>2 DEF SpendDelta, Increment
<1>4. CASE r.tool = "place"
  <2>1. ~OrderSpec[r.order].modify
    BY <1>4 DEF RightTool
  <2>2. Increment(r.order) = OrderSpec[r.order].notional
    BY <1>1, <1>2, <2>1 DEF Increment
  <2> QED
    BY <1>3, <1>4, <2>2 DEF FillAmount
<1>5. CASE r.tool # "place"
  BY <1>3, <1>5 DEF FillAmount
<1> QED
  BY <1>4, <1>5

\* A call that moves on or ends keeps its order, tool and day.
LEMMA CallMoves ==
  ASSUME TypeOK, NEW p \in Proc, call[p] # Idle,
         NEW where \in {"checked", "sent", "refused", "filled", "committed"},
         Goto(p, where) \/ Finish(p)
  PROVE  /\ \A q \in Proc : q # p => call'[q] = call[q]
         /\ \A q \in Proc : call'[q] # Idle =>
              /\ call[q] # Idle
              /\ call'[q].order = call[q].order
              /\ call'[q].tool = call[q].tool
              /\ call'[q].day = call[q].day
         /\ At(p, where)' \/ call'[p] = Idle
         /\ \A other \in STRING : At(p, other)' => other = where
<1>1. call[p] \in Call
  BY CallType
<1>2. \A q \in Proc : q # p => call'[q] = call[q]
  BY DEF Goto, Finish, TypeOK
<1>3. CASE Finish(p)
  BY <1>2, <1>3 DEF Finish, TypeOK, At
<1>4. CASE Goto(p, where)
  <2>1. call'[p] = [call[p] EXCEPT !.at = where]
    BY <1>4 DEF Goto, TypeOK
  <2>2. /\ call'[p].at = where /\ call'[p].order = call[p].order
        /\ call'[p].tool = call[p].tool /\ call'[p].day = call[p].day
    BY <1>1, <2>1 DEF Call
  <2>3. call'[p] # Idle
    BY <2>2 DEF Idle
  <2> QED
    BY <1>2, <2>2, <2>3 DEF At
<1> QED
  BY <1>3, <1>4

\* Whatever a call does next, it goes on under its order and tool or ends.
LEMMA CallStepMoves ==
  ASSUME TypeOK, NEW p \in Proc, CallStep(p)
  PROVE  \A q \in Proc : call'[q] # Idle =>
           /\ call[q] # Idle
           /\ call'[q].order = call[q].order
           /\ call'[q].tool = call[q].tool
<1>1. call[p] # Idle
  BY DEF CallStep, At, MakeReservation, ReserveCutShort, OverLimit, Accepted, Refused,
         RefusedAsDuplicate, Unclear, Settle, ReleaseCutShort, Commit, Record, Abort
<1>2. CASE MakeReservation(p)
  <2>1. /\ call'[p] = [call[p] EXCEPT !.at = "sent", !.day = today]
        /\ \A q \in Proc : q # p => call'[q] = call[q]
    BY <1>2 DEF MakeReservation, TypeOK
  <2>2. call[p] \in Call
    BY <1>1, CallType
  <2>3. call'[p].order = call[p].order /\ call'[p].tool = call[p].tool
    BY <2>1, <2>2 DEF Call
  <2> QED
    BY <1>1, <2>1, <2>3
<1>3. CASE Finish(p) \/ Goto(p, "filled") \/ Goto(p, "refused") \/ Goto(p, "committed")
  BY <1>1, <1>3, CallMoves
<1>4. ~MakeReservation(p) =>
        Finish(p) \/ Goto(p, "filled") \/ Goto(p, "refused") \/ Goto(p, "committed")
  BY DEF CallStep, ReserveCutShort, OverLimit, Accepted, Refused, RefusedAsDuplicate, Unclear,
         Settle, ReleaseCutShort, Commit, Record, Abort, Answered
<1> QED
  BY <1>2, <1>3, <1>4

\* What is out was sent by a call.
LEMMA OrphansWereSent ==
  ASSUME TypeOK, [Next]_vars
  PROVE  \A r \in orphan' \ orphan : \E q \in Proc : call[q] # Idle /\ r = RequestOf(q)
<1>1. ASSUME NEW p \in Proc, CallStep(p)
      PROVE  orphan' \ orphan \subseteq {RequestOf(p)} /\ call[p] # Idle
  <2>1. call[p] # Idle
    BY <1>1 DEF CallStep, At, MakeReservation, ReserveCutShort, OverLimit, Accepted, Refused,
           RefusedAsDuplicate, Unclear, Settle, ReleaseCutShort, Commit, Record, Abort
  <2>2. orphan' \ orphan \subseteq {RequestOf(p)}
    BY <1>1 DEF CallStep, Sent, MakeReservation, ReserveCutShort, OverLimit, Accepted, Refused,
           RefusedAsDuplicate, Unclear, Settle, ReleaseCutShort, Commit, Record, Abort
  <2> QED
    BY <2>1, <2>2
<1>2. CASE Restart
  BY <1>2 DEF Restart, Sent, At
<1>3. CASE \E r \in Request : LateExecution(r) \/ LateLoss(r)
  BY <1>3 DEF LateExecution, LateLoss
<1> QED
  BY <1>1, <1>2, <1>3 DEF Next, vars, Preview, PreviewConditional, IssueToken, Expire, Start, NextDay

\* A token is used with its own tool only, and what a call leaves behind keeps it.
LEMMA ToolsStayRight ==
  ASSUME TypeOK, RightTools, [Next]_vars
  PROVE  RightTools'
<1>1. ASSUME NEW p \in Proc, CallStep(p), NEW q \in Proc, call'[q] # Idle
      PROVE  RightTool(call'[q].tool, call'[q].order)
  BY <1>1, CallStepMoves DEF RightTools
<1>2. ASSUME NEW p \in Proc, NEW o \in Order, NEW tool \in Tool, Start(p, o, tool),
             NEW q \in Proc, call'[q] # Idle
      PROVE  RightTool(call'[q].tool, call'[q].order)
  BY <1>2 DEF Start, RightTools, TypeOK
<1>3. ASSUME NEW q \in Proc, call'[q] # Idle
      PROVE  RightTool(call'[q].tool, call'[q].order)
  BY <1>1, <1>2, <1>3 DEF Next, vars, RightTools, Preview, PreviewConditional, IssueToken, Expire,
     LateExecution, LateLoss, Restart, NextDay
<1>4. ASSUME NEW r \in orphan'
      PROVE  RightTool(r.tool, r.order)
  <2>1. CASE r \in orphan
    BY <2>1 DEF RightTools
  <2>2. CASE r \notin orphan
    <3>1. PICK q \in Proc : call[q] # Idle /\ r = RequestOf(q)
      BY <2>2, OrphansWereSent
    <3> QED
      BY <3>1 DEF RightTools, RequestOf
  <2> QED
    BY <2>1, <2>2
<1> QED
  BY <1>3, <1>4 DEF RightTools, RightTool

\* A step changes what was executed only by executing a request of a call or one
\* that is out.
LEMMA FillsChangeByExecution ==
  ASSUME TypeOK, RightTools, [Next]_vars
  PROVE  UNCHANGED fill \/ \E r \in Request : Execute(r) /\ RightTool(r.tool, r.order)
<1>1. ASSUME NEW p \in Proc, CallStep(p)
      PROVE  UNCHANGED fill \/ \E r \in Request : Execute(r) /\ RightTool(r.tool, r.order)
  <2>1. CASE Accepted(p) \/ Unclear(p)
    <3>1. call[p] # Idle
      BY <2>1 DEF Accepted, Unclear, At
    <3>2. RequestOf(p) \in Request /\ RightTool(RequestOf(p).tool, RequestOf(p).order)
      BY <3>1, CallType DEF RightTools, RequestOf
    <3> QED
      BY <2>1, <3>2 DEF Accepted, Unclear
  <2>2. CASE ~(Accepted(p) \/ Unclear(p))
    BY <1>1, <2>2 DEF CallStep, MakeReservation, ReserveCutShort, OverLimit, Refused,
                      RefusedAsDuplicate, Settle, ReleaseCutShort, Commit, Record, Abort
  <2> QED
    BY <2>1, <2>2
<1>2. ASSUME NEW r \in Request, LateExecution(r) \/ LateLoss(r)
      PROVE  UNCHANGED fill \/ \E x \in Request : Execute(x) /\ RightTool(x.tool, x.order)
  BY <1>2 DEF LateExecution, LateLoss, RightTools
<1> QED
  BY <1>1, <1>2 DEF Next, vars, Preview, PreviewConditional, IssueToken, Expire, Start, Restart, NextDay

\* Executing a request under the right tool keeps every fill covered.
LEMMA ExecuteCovered ==
  ASSUME TypeOK, FillsAreCovered, NEW r \in Request, Execute(r), RightTool(r.tool, r.order)
  PROVE  FillsAreCovered'
<1>1. r.order \in Order /\ r.day \in Day
  BY DEF Request
<1>2. FillAmount(r) <= SpendDelta[r.order]
  BY FillAmountCovered
<1>3. fill \in [Order -> Booking]
  BY DEF TypeOK
<1> QED
  BY <1>1, <1>2, <1>3 DEF Execute, FillsAreCovered

\* What is executed is covered by what its token reserves, always.
LEMMA StepCovered ==
  ASSUME CoveredInv, [Next]_vars
  PROVE  CoveredInv'
<1>1. TypeOK' /\ RightTools'
  BY StepType, ToolsStayRight DEF CoveredInv
<1>2. CASE UNCHANGED fill
  BY <1>1, <1>2 DEF CoveredInv, FillsAreCovered
<1>3. ASSUME NEW r \in Request, Execute(r), RightTool(r.tool, r.order) PROVE CoveredInv'
  BY <1>1, <1>3, ExecuteCovered DEF CoveredInv
<1> QED
  BY <1>2, <1>3, FillsChangeByExecution DEF CoveredInv

\* Nothing is executed at the start.
LEMMA InitCovered ==
  ASSUME Init
  PROVE  CoveredInv
<1>1. TypeOK
  BY InitType
<1>2. RightTools /\ FillsAreCovered
  BY DEF Init, RightTools, FillsAreCovered
<1> QED
  BY <1>1, <1>2 DEF CoveredInv

\* Whatever the environment, an executed order was executed for what its token
\* reserves, under its own tool.
LEMMA AlwaysCovered == Spec => []CoveredInv
<1> QED
  BY InitCovered, StepCovered, PTL DEF Spec
-----------------------------------------------------------------------------
(* The charges. *)

OneUse ==
  \A p, q \in Proc :
    p # q /\ call[p] # Idle /\ call[q] # Idle => call[p].order # call[q].order

\* A call about to release: its order was not executed and no request is out.
RefusedIsUnfilled ==
  \A p \in Proc : At(p, "refused") =>
    /\ fill[call[p].order] = NotBooked
    /\ \A r \in orphan : r.order # call[p].order

IInv ==
  /\ CoveredInv
  /\ ChargesStand
  /\ OneUse
  /\ RefusedIsUnfilled

\* Executing a charged request keeps every fill charged.
LEMMA ExecuteCharged ==
  ASSUME TypeOK, ChargesStand, NEW r \in Request, Execute(r),
         r.order \in reserved[r.day], UNCHANGED reserved
  PROVE  /\ \A o \in Order : fill'[o] # NotBooked => o \in reserved'[fill'[o].day]
         /\ \A o \in Order : o # r.order => fill'[o] = fill[o]
<1>1. r.order \in Order /\ r.day \in Day
  BY DEF Request
<1>2. fill \in [Order -> Booking]
  BY DEF TypeOK
<1> QED
  BY <1>1, <1>2 DEF Execute, ChargesStand


\* The initial state satisfies the inductive invariant.
LEMMA InitInv ==
  ASSUME Init
  PROVE  IInv
<1>1. CoveredInv
  BY InitCovered
<1>2. ChargesStand /\ OneUse /\ RefusedIsUnfilled
  BY DEF Init, ChargesStand, OneUse, RefusedIsUnfilled, At
<1> QED
  BY <1>1, <1>2 DEF IInv, CoveredInv

\* A step that leaves reservations, fills and requests out alone, and after
\* which calls only moved on, none of them to "sent" or "refused".
LEMMA QuietStep ==
  ASSUME IInv, UNCHANGED <<reserved, orphan, fill>>,
         \A q \in Proc : call'[q] # Idle =>
              /\ call[q] # Idle
              /\ call'[q].order = call[q].order
              /\ call'[q].tool = call[q].tool
              /\ call'[q].day = call[q].day,
         \A q \in Proc : At(q, "sent")' => At(q, "sent"),
         \A q \in Proc : At(q, "refused")' => At(q, "refused"),
         CoveredInv'
  PROVE  IInv'
<1>1. OneUse'
  BY DEF IInv, CoveredInv, OneUse
<1>2. ChargesStand'
  BY DEF IInv, CoveredInv, ChargesStand, At
<1>4. RefusedIsUnfilled'
  BY DEF IInv, CoveredInv, RefusedIsUnfilled, At
<1> QED
  BY <1>1, <1>2, <1>4 DEF IInv, CoveredInv

\* A reservation is made before the request leaves.
LEMMA MakeReservationInv ==
  ASSUME Contract, IInv, NEW p \in Proc, MakeReservation(p), CoveredInv'
  PROVE  IInv'
<1> DEFINE o == call[p].order
<1>1. call[p] # Idle /\ o \in Order /\ today \in Day /\ Reserve(today, o) /\ call[p] \in Call
  BY CallType DEF MakeReservation, At, IInv, CoveredInv, TypeOK
<1>2. /\ \A d \in Day : reserved[d] \subseteq reserved'[d]
      /\ o \in reserved'[today]
  <2>1. DOMAIN reserved = Day
    BY DEF IInv, CoveredInv, TypeOK, StoreTypeOK
  <2>2. \/ o \in reserved[today] /\ reserved' = reserved
        \/ reserved' = [reserved EXCEPT ![today] = @ \cup {o}]
    BY <1>1 DEF Reserve, storeVars
  <2> QED
    BY <1>1, <2>1, <2>2
<1>3. /\ call'[p].order = o /\ call'[p].day = today /\ call'[p].tool = call[p].tool
      /\ call'[p].at = "sent"
      /\ \A q \in Proc : q # p => call'[q] = call[q]
  <2>1. /\ call'[p] = [call[p] EXCEPT !.at = "sent", !.day = today]
        /\ \A q \in Proc : q # p => call'[q] = call[q]
    BY DEF MakeReservation, IInv, CoveredInv, TypeOK
  <2> QED
    BY <1>1, <2>1 DEF Call
<1>4. OneUse'
  BY <1>1, <1>3 DEF IInv, CoveredInv, MakeReservation, OneUse
<1>5. ChargesStand'
  <2>1. \A e \in Order : fill'[e] # NotBooked => e \in reserved'[fill'[e].day]
    BY <1>2 DEF MakeReservation, IInv, CoveredInv, ChargesStand, FillsAreCovered
  <2>2. \A r \in orphan' : r.order \in reserved'[r.day]
    BY <1>2 DEF MakeReservation, IInv, CoveredInv, ChargesStand, TypeOK, Request
  <2>3. \A q \in Proc : At(q, "sent")' => call'[q].order \in reserved'[call'[q].day]
    BY <1>1, <1>2, <1>3, CallType DEF IInv, CoveredInv, ChargesStand, At
  <2> QED
    BY <2>1, <2>2, <2>3 DEF ChargesStand, At
<1>7. RefusedIsUnfilled'
  BY <1>3 DEF MakeReservation, IInv, CoveredInv, RefusedIsUnfilled, At
<1> QED
  BY <1>4, <1>5, <1>7 DEF IInv, CoveredInv

\* Only a call at "refused" releases, and its order is neither executed nor out.
LEMMA SettleInv ==
  ASSUME Contract, IInv, NEW p \in Proc, Settle(p) \/ ReleaseCutShort(p), CoveredInv'
  PROVE  IInv'
<1> DEFINE o == call[p].order
<1>1. call[p] # Idle /\ o \in Order /\ today \in Day /\ (Release(today, o) \/ LoseKey(today, o))
  BY CallType DEF Settle, ReleaseCutShort, At, IInv, CoveredInv, TypeOK
<1>2. \A d \in Day, e \in Order : e \in reserved[d] /\ e # o => e \in reserved'[d]
  BY <1>1 DEF Release, LoseKey, storeVars, IInv, CoveredInv, TypeOK, StoreTypeOK
<1>3. /\ \A q \in Proc : q # p => call'[q] = call[q]
      /\ call'[p] = Idle
  BY <1>1 DEF Settle, ReleaseCutShort, Finish, IInv, CoveredInv, TypeOK
<1>4. OneUse'
  BY <1>1, <1>3 DEF IInv, CoveredInv, Settle, ReleaseCutShort, OneUse
<1>5. fill[o] = NotBooked /\ \A r \in orphan : r.order # o
  BY DEF Settle, ReleaseCutShort, IInv, CoveredInv, RefusedIsUnfilled
<1>6. ChargesStand'
  <2>1. \A e \in Order : fill'[e] # NotBooked => e \in reserved'[fill'[e].day]
    BY <1>2, <1>5 DEF Settle, ReleaseCutShort, IInv, CoveredInv, ChargesStand, FillsAreCovered
  <2>2. \A r \in orphan' : r.order \in reserved'[r.day]
    BY <1>2, <1>5 DEF Settle, ReleaseCutShort, IInv, CoveredInv, ChargesStand, TypeOK, Request
  <2>3. \A q \in Proc : At(q, "sent")' => call'[q].order \in reserved'[call'[q].day]
    BY <1>1, <1>2, <1>3, CallType DEF IInv, CoveredInv, ChargesStand, At, OneUse
  <2> QED
    BY <2>1, <2>2, <2>3 DEF ChargesStand, At
<1>8. RefusedIsUnfilled'
  BY <1>3 DEF Settle, ReleaseCutShort, IInv, CoveredInv, RefusedIsUnfilled, At
<1> QED
  BY <1>4, <1>6, <1>8 DEF IInv, CoveredInv

\* A step of Toss on a charged request r, with the calls moved on but none to
\* "sent" or "refused".
LEMMA TossStep ==
  ASSUME IInv, CoveredInv', UNCHANGED <<spent, reserved>>,
         NEW r \in Request, Execute(r) \/ UNCHANGED fill,
         RightTool(r.tool, r.order), r.order \in reserved[r.day],
         \A x \in orphan' \ orphan : \E q \in Proc : At(q, "sent") /\ x = RequestOf(q),
         \A q \in Proc : call'[q] # Idle =>
              /\ call[q] # Idle
              /\ call'[q].order = call[q].order
              /\ call'[q].tool = call[q].tool
              /\ call'[q].day = call[q].day,
         \A q \in Proc : At(q, "sent")' => At(q, "sent"),
         \A q \in Proc : At(q, "refused")' =>
              At(q, "refused") /\ r.order # call[q].order
  PROVE  IInv'
<1>1. OneUse'
  BY DEF IInv, CoveredInv, At, OneUse
<1>2. /\ \A o \in Order : fill'[o] # NotBooked => o \in reserved'[fill'[o].day]
      /\ \A o \in Order : o # r.order => fill'[o] = fill[o]
  <2>1. CASE Execute(r)
    BY <2>1, ExecuteCharged DEF IInv, CoveredInv
  <2>2. CASE UNCHANGED fill
    BY <2>2 DEF IInv, CoveredInv, ChargesStand, FillsAreCovered
  <2> QED
    BY <2>1, <2>2
<1>3. ChargesStand'
  <2>1. \A x \in orphan' : x.order \in reserved'[x.day]
    BY DEF IInv, CoveredInv, ChargesStand, RequestOf
  <2>2. \A q \in Proc : At(q, "sent")' => call'[q].order \in reserved'[call'[q].day]
    BY DEF IInv, CoveredInv, ChargesStand, At
  <2> QED
    BY <1>2, <2>1, <2>2 DEF ChargesStand, At
<1>4. RefusedIsUnfilled'
  <2> SUFFICES ASSUME NEW q \in Proc, At(q, "refused")'
               PROVE  /\ fill'[call'[q].order] = NotBooked
                      /\ \A x \in orphan' : x.order # call'[q].order
    BY DEF RefusedIsUnfilled, At
  <2>1. /\ At(q, "refused") /\ r.order # call[q].order
        /\ call'[q].order = call[q].order /\ call[q].order \in Order
    BY CallType DEF At, IInv, CoveredInv
  <2>2. fill'[call'[q].order] = NotBooked
    BY <1>2, <2>1 DEF IInv, CoveredInv, RefusedIsUnfilled
  <2>3. ASSUME NEW x \in orphan' PROVE x.order # call[q].order
    <3>1. CASE x \in orphan
      BY <2>1, <3>1 DEF IInv, CoveredInv, RefusedIsUnfilled
    <3>2. CASE x \notin orphan
      <4>1. PICK u \in Proc : At(u, "sent") /\ x = RequestOf(u)
        BY <3>2
      <4>2. u # q
        BY <2>1, <4>1 DEF At
      <4> QED
        BY <2>1, <4>1, <4>2 DEF IInv, CoveredInv, OneUse, At, RequestOf
    <3> QED
      BY <3>1, <3>2
  <2> QED
    BY <2>1, <2>2, <2>3
<1> QED
  BY <1>1, <1>2, <1>3, <1>4 DEF IInv, CoveredInv

\* Toss executes a call's request, or leaves it, with or without an answer.
LEMMA AnswerInv ==
  ASSUME Contract, IInv, CoveredInv', NEW p \in Proc, Accepted(p) \/ Unclear(p)
  PROVE  IInv'
<1> DEFINE r == RequestOf(p)
<1>1. /\ call[p] # Idle /\ At(p, "sent") /\ r \in Request /\ r.order = call[p].order
      /\ RightTool(r.tool, r.order) /\ r.order \in reserved[r.day]
  BY CallType DEF Accepted, Unclear, At, IInv, CoveredInv, RightTools, ChargesStand, RequestOf
<1>2. /\ Execute(r) \/ UNCHANGED fill
      /\ UNCHANGED <<spent, reserved>>
      /\ orphan' \subseteq orphan \cup {r}
  BY DEF Accepted, Unclear
<1>3. Goto(p, "filled") \/ Finish(p)
  <2>1. CASE Accepted(p)
    BY <2>1 DEF Accepted, Answered, Contract
  <2>2. CASE Unclear(p)
    <3>1. PICK answer \in {"unavailable", "timeout"} : Answered(p, answer)
      BY <2>2 DEF Unclear
    <3>2. ~IsRejection(answer)
      BY <3>1 DEF IsRejection, Status
    <3> QED
      BY <3>1, <3>2 DEF Answered
  <2> QED
    BY <2>1, <2>2
<1>4. /\ \A q \in Proc : q # p => call'[q] = call[q]
      /\ \A q \in Proc : call'[q] # Idle =>
              /\ call[q] # Idle
              /\ call'[q].order = call[q].order
              /\ call'[q].tool = call[q].tool
              /\ call'[q].day = call[q].day
      /\ ~At(p, "sent")' /\ ~At(p, "refused")'
  <2>1. TypeOK
    BY DEF IInv, CoveredInv
  <2>2. At(p, "filled")' \/ call'[p] = Idle
    BY <1>1, <1>3, <2>1, CallMoves
  <2> QED
    BY <1>1, <1>3, <2>1, <2>2, CallMoves DEF At
<1>5. \A q \in Proc : At(q, "sent")' => At(q, "sent")
  BY <1>4 DEF At
<1>6. \A q \in Proc : At(q, "refused")' => At(q, "refused") /\ r.order # call[q].order
  BY <1>1, <1>4 DEF At, IInv, CoveredInv, OneUse
<1> HIDE DEF r
<1>7. \A x \in orphan' \ orphan : \E q \in Proc : At(q, "sent") /\ x = RequestOf(q)
  BY <1>1, <1>2 DEF r
<1> QED
  BY <1>1, <1>2, <1>4, <1>5, <1>6, <1>7, TossStep

\* A 4xx sends the call to release, and by the contract nothing is out.
LEMMA RefusedInv ==
  ASSUME Contract, IInv, CoveredInv', NEW p \in Proc, Refused(p)
  PROVE  IInv'
<1>1. At(p, "sent") /\ call[p] # Idle /\ call[p] \in Call /\ NothingOut(p, call[p].order)
  BY CallType DEF Refused, At, Contract, IInv, CoveredInv
<1>2. IsRejection("refused")
  BY DEF IsRejection, Status
<1>3. Goto(p, "refused")
  BY <1>2 DEF Refused, Answered
<1>4. /\ \A q \in Proc : q # p => call'[q] = call[q]
      /\ call'[p].order = call[p].order /\ call'[p].tool = call[p].tool
      /\ call'[p].at = "refused"
  BY <1>1, <1>3 DEF Goto, IInv, CoveredInv, TypeOK, Call
<1>5. OneUse'
  BY <1>1, <1>4 DEF IInv, CoveredInv, Refused, OneUse
<1>7. ChargesStand'
  BY <1>4 DEF Refused, IInv, CoveredInv, ChargesStand, At
<1>8. RefusedIsUnfilled'
  BY <1>1, <1>4 DEF Refused, IInv, CoveredInv, RefusedIsUnfilled, NothingOut, At
<1> QED
  BY <1>5, <1>7, <1>8 DEF IInv, CoveredInv

\* A request out is executed late, or is lost.
LEMMA LateInv ==
  ASSUME IInv, CoveredInv', NEW r \in Request, LateExecution(r) \/ LateLoss(r)
  PROVE  IInv'
<1>1. /\ r \in orphan /\ RightTool(r.tool, r.order) /\ r.order \in reserved[r.day]
      /\ Execute(r) \/ UNCHANGED fill
      /\ UNCHANGED <<spent, reserved, call>>
      /\ orphan' \subseteq orphan
  BY DEF LateExecution, LateLoss, IInv, CoveredInv, RightTools, ChargesStand
<1>2. \A q \in Proc : At(q, "refused")' => At(q, "refused") /\ r.order # call[q].order
  BY <1>1 DEF IInv, CoveredInv, RefusedIsUnfilled, At
<1>3. \A q \in Proc : At(q, "sent")' => At(q, "sent")
  BY <1>1 DEF At
<1> QED
  BY <1>1, <1>2, <1>3, TossStep

\* A call that is cut off leaves its request out, charged.
LEMMA AbortInv ==
  ASSUME IInv, CoveredInv', NEW p \in Proc, Abort(p)
  PROVE  IInv'
<1>1. call[p] # Idle /\ TypeOK /\ Finish(p)
  BY DEF Abort, IInv, CoveredInv
<1>2. /\ \A q \in Proc : call'[q] # Idle =>
              /\ call[q] # Idle
              /\ call'[q].order = call[q].order
              /\ call'[q].tool = call[q].tool
              /\ call'[q].day = call[q].day
      /\ \A q \in Proc : q # p => call'[q] = call[q]
      /\ call'[p] = Idle
  BY <1>1 DEF Finish, TypeOK
<1>3. \A q \in Proc : At(q, "sent")' => At(q, "sent")
  BY <1>2 DEF At
<1>4. \A q \in Proc : At(q, "refused")' => At(q, "refused") /\ q # p
  BY <1>2 DEF At
<1>5. CASE At(p, "sent")
  <2> DEFINE r == RequestOf(p)
  <2>1. /\ r \in Request /\ r.order = call[p].order
        /\ RightTool(r.tool, r.order) /\ r.order \in reserved[r.day]
    BY <1>1, <1>5, CallType DEF At, IInv, CoveredInv, RightTools, ChargesStand, RequestOf
  <2>2. orphan' \subseteq orphan \cup {r} /\ UNCHANGED <<spent, reserved, fill>>
    BY DEF Abort, Sent
  <2>3. \A q \in Proc : At(q, "refused")' => At(q, "refused") /\ r.order # call[q].order
    BY <1>1, <1>4, <2>1 DEF At, IInv, CoveredInv, OneUse
  <2> HIDE DEF r
  <2>4. \A x \in orphan' \ orphan : \E q \in Proc : At(q, "sent") /\ x = RequestOf(q)
    BY <1>5, <2>2 DEF r
  <2> QED
    BY <1>2, <1>3, <2>1, <2>2, <2>3, <2>4, TossStep
<1>6. CASE ~At(p, "sent")
  <2>1. UNCHANGED <<spent, reserved, orphan, fill>>
    BY <1>6 DEF Abort, Sent
  <2> QED
    BY <1>2, <1>3, <1>4, <2>1, QuietStep
<1> QED
  BY <1>5, <1>6

\* A token is taken by a process only when no other uses it.
LEMMA StartInv ==
  ASSUME Contract, IInv, CoveredInv', NEW p \in Proc, NEW o \in Order, NEW tool \in Tool,
         Start(p, o, tool)
  PROVE  IInv'
<1>1. /\ \A q \in Proc : q # p => call'[q] = call[q]
      /\ call'[p].order = o /\ call'[p].tool = tool /\ call'[p].at = "checked"
      /\ RightTool(tool, o)
      /\ \A q \in Proc : call[q] # Idle => call[q].order # o
      /\ UNCHANGED <<spent, reserved, orphan, fill>>
  BY DEF Start, IInv, CoveredInv, TypeOK, Contract, Using
<1>3. OneUse'
  BY <1>1 DEF IInv, CoveredInv, OneUse
<1>5. ChargesStand'
  BY <1>1 DEF IInv, CoveredInv, ChargesStand, At
<1>6. RefusedIsUnfilled'
  BY <1>1 DEF IInv, CoveredInv, RefusedIsUnfilled, At
<1> QED
  BY <1>3, <1>5, <1>6 DEF IInv, CoveredInv

\* Every step keeps the inductive invariant.
LEMMA StepInv ==
  ASSUME Contract, IInv, [Next]_vars
  PROVE  IInv'
<1>1. TypeOK /\ CoveredInv'
  BY StepCovered DEF IInv, CoveredInv
<1>2. ASSUME NEW o \in Order, Preview(o) \/ PreviewConditional(o) \/ Expire(o) PROVE IInv'
  BY <1>1, <1>2, QuietStep DEF Preview, PreviewConditional, IssueToken, Expire, At
<1>3. ASSUME NEW p \in Proc, NEW o \in Order, NEW tool \in Tool, Start(p, o, tool) PROVE IInv'
  BY <1>1, <1>3, StartInv
<1>4. ASSUME NEW p \in Proc, CallStep(p) PROVE IInv'
  <2>1. CASE MakeReservation(p)
    BY <1>1, <2>1, MakeReservationInv
  <2>2. CASE OverLimit(p) \/ ReserveCutShort(p)
    <3>1. call[p] # Idle /\ Finish(p)
      BY <2>2 DEF OverLimit, ReserveCutShort, At
    <3>2. \A q \in Proc : call'[q] # Idle => call'[q] = call[q]
      BY <1>1, <3>1 DEF Finish, TypeOK
    <3> QED
      BY <1>1, <2>2, <3>2, QuietStep DEF OverLimit, ReserveCutShort, CountOnly, At
  <2>3. CASE Accepted(p) \/ Unclear(p)
    BY <1>1, <2>3, AnswerInv
  <2>4. CASE Refused(p)
    BY <1>1, <2>4, RefusedInv
  <2>5. CASE RefusedAsDuplicate(p)
    <3>1. Finish(p)
      BY <2>5 DEF RefusedAsDuplicate, Answered, IsRejection
    <3>2. \A q \in Proc : call'[q] # Idle => call'[q] = call[q]
      BY <1>1, <3>1 DEF Finish, TypeOK
    <3> QED
      BY <1>1, <2>5, <3>2, QuietStep DEF RefusedAsDuplicate, At
  <2>6. CASE Settle(p) \/ ReleaseCutShort(p)
    BY <1>1, <2>6, SettleInv
  <2>7. CASE Commit(p)
    <3>1. call[p] # Idle /\ Goto(p, "committed")
      BY <2>7 DEF Commit, At
    <3>2. /\ \A q \in Proc : call'[q] # Idle =>
              /\ call[q] # Idle
              /\ call'[q].order = call[q].order
              /\ call'[q].tool = call[q].tool
              /\ call'[q].day = call[q].day
          /\ \A q \in Proc : q # p => call'[q] = call[q]
          /\ ~At(p, "sent")' /\ ~At(p, "refused")'
      BY <1>1, <3>1, CallMoves DEF At
    <3>3. \A q \in Proc : At(q, "sent")' => At(q, "sent")
      BY <3>2 DEF At
    <3>4. \A q \in Proc : At(q, "refused")' => At(q, "refused")
      BY <3>2 DEF At
    <3> QED
      BY <1>1, <2>7, <3>2, <3>3, <3>4, QuietStep DEF Commit
  <2>8. CASE Record(p)
    <3>1. \A q \in Proc : call'[q] # Idle => call'[q] = call[q]
      BY <1>1, <2>8 DEF Record, Finish, TypeOK
    <3> QED
      BY <1>1, <2>8, <3>1, QuietStep DEF Record, At
  <2>9. CASE Abort(p)
    BY <1>1, <2>9, AbortInv
  <2> QED
    BY <1>4, <2>1, <2>2, <2>3, <2>4, <2>5, <2>6, <2>7, <2>8, <2>9 DEF CallStep
<1>5. ASSUME NEW r \in Request, LateExecution(r) \/ LateLoss(r) PROVE IInv'
  BY <1>1, <1>5, LateInv
<1>6. CASE Restart
  BY <1>6 DEF Restart, Contract
<1>7. CASE NextDay
  BY <1>1, <1>7, QuietStep DEF NextDay, At
<1>8. CASE UNCHANGED vars
  BY <1>1, <1>8, QuietStep DEF vars, At
<1> QED
  BY <1>2, <1>3, <1>4, <1>5, <1>6, <1>7, <1>8 DEF Next

\* The inductive invariant holds in every reachable state.
THEOREM Invariance ==
  ASSUME Contract
  PROVE  Spec => []IInv
<1>1. Init => IInv
  BY InitInv
<1>2. IInv /\ [Next]_vars => IInv'
  BY StepInv
<1> QED
  BY <1>1, <1>2, PTL DEF Spec

\* What Toss executed or may still execute stays reserved on its day.
THEOREM ChargesAlwaysStand ==
  ASSUME Contract
  PROVE  Spec => []ChargesStand
<1>1. IInv => ChargesStand
  BY DEF IInv
<1> QED
  BY <1>1, Invariance, PTL

\* A step of the spend store: one call of it, or one that is cut short.
StoreCall(d, o) == Reserve(d, o) \/ Release(d, o)
CutCall(d, o) == o \in CutCalls /\ (CountOnly(d, o) \/ LoseKey(d, o))

\* Every step leaves the spend store alone, is one call of it or starts it anew.
LEMMA StepIsStoreCall ==
  ASSUME TypeOK, [Next]_vars
  PROVE  \/ UNCHANGED storeVars
         \/ \E d \in Day, o \in Order : StoreCall(d, o) \/ CutCall(d, o)
         \/ Restart
<1>1. ASSUME NEW p \in Proc, CallStep(p)
      PROVE  UNCHANGED storeVars \/ \E d \in Day, o \in Order : StoreCall(d, o) \/ CutCall(d, o)
  <2>1. CASE MakeReservation(p) \/ Settle(p)
    <3>1. call[p].order \in Order /\ today \in Day
      BY <2>1, CallType DEF MakeReservation, Settle, At, TypeOK
    <3>2. StoreCall(today, call[p].order)
      BY <2>1 DEF MakeReservation, Settle, StoreCall
    <3> QED
      BY <3>1, <3>2
  <2>2. CASE ReserveCutShort(p) \/ ReleaseCutShort(p)
    <3>1. call[p].order \in Order /\ today \in Day
      BY <2>2, CallType DEF ReserveCutShort, ReleaseCutShort, At, TypeOK
    <3>2. CutCall(today, call[p].order)
      BY <2>2 DEF ReserveCutShort, ReleaseCutShort, CutCall
    <3> QED
      BY <3>1, <3>2
  <2>3. CASE ~(\/ MakeReservation(p) \/ Settle(p)
               \/ ReserveCutShort(p) \/ ReleaseCutShort(p))
    BY <1>1, <2>3 DEF CallStep, OverLimit, Accepted, Refused, RefusedAsDuplicate, Unclear,
                      Commit, Record, Abort, storeVars
  <2> QED
    BY <2>1, <2>2, <2>3
<1>2. ASSUME NEW r \in Request, LateExecution(r) \/ LateLoss(r)
      PROVE  UNCHANGED storeVars
  BY <1>2 DEF LateExecution, LateLoss, storeVars
<1> QED
  BY <1>1, <1>2 DEF Next, vars, storeVars, Preview, PreviewConditional, IssueToken, Expire, Start,
                    NextDay

\* Whatever Toss answers, whatever is cut short and however often a server of
\* the memory backend restarts: in a bucket that no downsize credits, no more is
\* reserved than the counter holds and the cap allows.
THEOREM CounterIsAccounted == Spec => []Accounted
<1>1. Init => Accounted
  BY InitAccounted DEF Init
<1>2. TypeOK /\ Accounted /\ [Next]_vars => Accounted'
  <2> SUFFICES ASSUME TypeOK, Accounted, [Next]_vars PROVE Accounted'
    OBVIOUS
  <2>1. CASE UNCHANGED storeVars
    BY <2>1 DEF Accounted, HeldIn, storeVars
  <2>2. ASSUME NEW d \in Day, NEW o \in Order, StoreCall(d, o) \/ CutCall(d, o) PROVE Accounted'
    BY <2>2, CallAccounted DEF TypeOK, StoreCall, CutCall
  <2>3. CASE Restart
    <3>1. StoreTypeOK'
      BY <2>3, RestartType DEF TypeOK
    <3> SUFFICES ASSUME NEW d \in Day, NEW c \in Currency
                 PROVE  /\ Total(HeldIn(d, c)', SpendDelta) <= spent'[d][c]
                        /\ Total(HeldIn(d, c)', SpendDelta) <= Cap[c]
      BY DEF Accounted
    <3>2. HeldIn(d, c)' = {}
      BY <2>3 DEF Restart, HeldIn
    <3>3. spent'[d][c] \in Nat /\ Cap[c] \in Nat
      BY <3>1 DEF StoreTypeOK
    <3> QED
      BY <3>2, <3>3, TotalEmpty
  <2> QED
    BY <2>1, <2>2, <2>3, StepIsStoreCall
<1> QED
  BY <1>1, <1>2, TypeCorrect, PTL DEF Spec

\* Over redis, without downsizes and calls cut short, the counter is the sum of
\* the standing reservations and within the cap, whatever Toss answers and the
\* processes do.
THEOREM CounterNeverDrifts ==
  ASSUME Durable, NoCredit, CutCalls = {}
  PROVE  Spec => [](CounterIsExact /\ CounterWithinCap)
<1>1. Init => CounterIsExact /\ CounterWithinCap
  BY StoreInitExact DEF Init
<1>2. TypeOK /\ CounterIsExact /\ CounterWithinCap /\ [Next]_vars
        => CounterIsExact' /\ CounterWithinCap'
  <2> SUFFICES ASSUME TypeOK, CounterIsExact, CounterWithinCap, [Next]_vars
               PROVE  CounterIsExact' /\ CounterWithinCap'
    OBVIOUS
  <2>1. CASE UNCHANGED storeVars
    BY <2>1 DEF CounterIsExact, CounterWithinCap, HeldIn, storeVars
  <2>2. ASSUME NEW d \in Day, NEW o \in Order, StoreCall(d, o)
        PROVE  CounterIsExact' /\ CounterWithinCap'
    BY <2>2, ReserveExact, ReleaseExact DEF TypeOK, StoreCall
  <2>3. ~Restart
    BY DEF Restart
  <2> QED
    BY <2>1, <2>2, <2>3, StepIsStoreCall DEF CutCall
<1> QED
  BY <1>1, <1>2, TypeCorrect, PTL DEF Spec

\* The cap of one bucket.
HeldWithin(d, c) == Total({o \in Raises(d, c) : o \in reserved[d]}, Charged) <= Cap[c]
Within(d, c) == Exposure(d, c) <= Cap[c]

\* In a bucket no downsize credits, the executed orders that are still reserved
\* are within the cap: each was executed for no more than it reserved.
LEMMA HeldIsWithin ==
  ASSUME CoveredInv, Accounted, NEW d \in Day, NEW c \in Currency, NoCreditIn(c)
  PROVE  HeldWithin(d, c)
<1> DEFINE R == {o \in Raises(d, c) : o \in reserved[d]}
           H == HeldIn(d, c)
<1>1. d # NoDay
  BY DEF Day, NoDay
<1>2. \A o \in R : o \in H /\ o \in Order /\ fill[o] # NotBooked
  BY <1>1 DEF Raises, HeldIn, NotBooked
<1>3. \A o \in R : Charged[o] <= SpendDelta[o]
  BY <1>2 DEF CoveredInv, FillsAreCovered, Charged
<1>4. H \in SUBSET Order /\ IsFiniteSet(H) /\ R \in SUBSET H
  BY <1>2, HeldFinite DEF CoveredInv, TypeOK
<1>5. \A o \in H : 0 <= SpendDelta[o]
  BY <1>4, DeltaType DEF HeldIn, NoCreditIn, Amount
<1>6. Charged \in [Order -> Amount] /\ SpendDelta \in [Order -> Amount]
  BY DeltaType DEF CoveredInv, TypeOK, Charged, Booking
<1>7. Total(H, SpendDelta) <= Cap[c] /\ Cap[c] \in Nat
  BY DEF Accounted
<1> HIDE DEF R, H
<1>8. Total(R, Charged) <= Total(H, SpendDelta)
  BY <1>3, <1>4, <1>5, <1>6, TotalMonotone
<1>9. Total(R, Charged) \in Int /\ Total(H, SpendDelta) \in Int
  BY <1>4, FS_Subset, UnitsFinite
<1>10. Total(R, Charged) <= Cap[c]
  BY <1>7, <1>8, <1>9
<1> QED
  BY <1>10 DEF R, HeldWithin

\* Whatever Toss answers, over either backend, executed orders pass a cap only by
\* those whose reservation is gone: given back by a release, or forgotten by a
\* restart.
THEOREM OverrunIsAlwaysReleased ==
  ASSUME NoCredit
  PROVE  Spec => []OverrunIsReleased
<1>1. CoveredInv /\ Accounted => OverrunIsReleased
  BY HeldIsWithin DEF OverrunIsReleased, HeldWithin, NoCredit, NoCreditIn
<1> QED
  BY <1>1, AlwaysCovered, CounterIsAccounted, PTL

\* With the charges standing, every bucket that no downsize credits is within its
\* cap, whatever happens in the others.
LEMMA BucketIsWithin ==
  ASSUME IInv, Accounted, NEW d \in Day, NEW c \in Currency, NoCreditIn(c)
  PROVE  Within(d, c)
<1>1. \A o \in Raises(d, c) : fill[o] # NotBooked /\ fill[o].day = d /\ o \in Order
  BY DEF Raises, NotBooked, Day, NoDay
<1>2. {o \in Raises(d, c) : o \in reserved[d]} = Raises(d, c)
  BY <1>1 DEF IInv, ChargesStand
<1>3. HeldWithin(d, c)
  BY HeldIsWithin DEF IInv
<1> QED
  BY <1>2, <1>3 DEF HeldWithin, Within, Exposure

\* The cap of a currency holds as long as no downsize credits its bucket.
THEOREM CapHoldsPerBucket ==
  ASSUME Contract
  PROVE  Spec => [](\A d \in Day, c \in Currency : NoCreditIn(c) => Exposure(d, c) <= Cap[c])
<1>1. IInv /\ Accounted => \A d \in Day, c \in Currency : NoCreditIn(c) => Exposure(d, c) <= Cap[c]
  BY BucketIsWithin DEF Within
<1> QED
  BY <1>1, Invariance, CounterIsAccounted, PTL

\* What Toss executed and charged to a day stays within that day's caps.
THEOREM CapAlwaysHolds ==
  ASSUME Contract, NoCredit
  PROVE  Spec => []CapHolds
<1>1. IInv /\ Accounted => CapHolds
  BY BucketIsWithin DEF CapHolds, Within, NoCredit, NoCreditIn
<1> QED
  BY <1>1, Invariance, CounterIsAccounted, PTL
-----------------------------------------------------------------------------
(* What the server calls a success is one, whatever Toss answers: the token  *)
(* of an order leaves the store only once the order was executed, and an     *)
(* audited order is counted on some day.  No contract on Toss is needed,     *)
(* only one call per token at a time and, for the count, redis underneath.   *)

IsCounted(o) == \E d \in Day : o \in reserved[d]

\* A call whose request went out stands on a reservation.
SentIsCounted ==
  \A p \in Proc : At(p, "sent") \/ At(p, "filled") \/ At(p, "committed") =>
    IsCounted(call[p].order)

\* Only a call whose order was executed gets to commit.
CommitsAreExecuted ==
  \A p \in Proc : At(p, "filled") \/ At(p, "committed") => fill[call[p].order] # NotBooked

\* A committed token is in use only between commit and the audit record.
CommittedAtTheEnd ==
  \A p \in Proc : call[p] # Idle =>
    (At(p, "committed") <=> token[call[p].order] = "committed")

\* An audited order was committed and, with redis underneath, keeps its
\* reservation; a restart of the memory backend forgets it.
AuditedIsCommitted ==
  \A i \in DOMAIN audit :
    token[audit[i].order] = "committed" /\ (Durable => IsCounted(audit[i].order))

SInv ==
  /\ TypeOK
  /\ OneUse
  /\ SentIsCounted
  /\ CommitsAreExecuted
  /\ CommittedAtTheEnd
  /\ CommittedIsExecuted
  /\ AuditedIsCommitted
-----------------------------------------------------------------------------
\* Executing a request books its order and unbooks none.
LEMMA ExecuteBooks ==
  ASSUME TypeOK, NEW r \in Request, Execute(r)
  PROVE  /\ fill'[r.order] # NotBooked
         /\ \A o \in Order : fill[o] # NotBooked => fill'[o] # NotBooked
<1>1. r.order \in Order /\ r.day \in Day /\ r.day # NoDay
  BY DEF Request, Day, NoDay
<1>2. [day |-> r.day, amount |-> FillAmount(r)] # NotBooked
  BY <1>1 DEF NotBooked
<1> QED
  BY <1>1, <1>2 DEF Execute, TypeOK

\* An event is about an order.
LEMMA AuditType ==
  ASSUME TypeOK, NEW i \in DOMAIN audit
  PROVE  audit[i].order \in Order
<1>1. audit \in Seq(Event)
  BY DEF TypeOK
<1>2. audit[i] \in Event
  BY <1>1
<1> QED
  BY <1>2 DEF Event

\* A step that keeps reservations, audit and committed tokens, in which calls
\* stay, end, or get the answer they waited for.
LEMMA AnsweredKeepsSuccess ==
  ASSUME SInv, TypeOK', UNCHANGED <<reserved, audit>>,
         \A o \in Order : token'[o] = "committed" <=> token[o] = "committed",
         \A o \in Order : fill[o] # NotBooked => fill'[o] # NotBooked,
         \A q \in Proc : call'[q] # Idle =>
           /\ call[q] # Idle
           /\ call'[q].order = call[q].order
           /\ \/ call'[q].at = call[q].at
              \/ call[q].at = "sent" /\ call'[q].at = "refused"
              \/ call[q].at = "sent" /\ call'[q].at = "filled" /\ fill'[call[q].order] # NotBooked
  PROVE  SInv'
<1>1. \A q \in Proc : call[q] # Idle => call[q].order \in Order
  BY CallType DEF SInv
<1>2. \A i \in DOMAIN audit : audit[i].order \in Order
  BY AuditType DEF SInv
<1>3. OneUse'
  BY DEF SInv, OneUse
<1>4. SentIsCounted'
  BY DEF SInv, SentIsCounted, IsCounted, At
<1>5. CommitsAreExecuted'
  BY <1>1 DEF SInv, CommitsAreExecuted, At
<1>6. CommittedAtTheEnd'
  BY <1>1 DEF SInv, CommittedAtTheEnd, At
<1>7. CommittedIsExecuted'
  BY DEF SInv, CommittedIsExecuted
<1>8. AuditedIsCommitted'
  BY <1>2 DEF SInv, AuditedIsCommitted, IsCounted
<1> QED
  BY <1>3, <1>4, <1>5, <1>6, <1>7, <1>8 DEF SInv

\* Toss answers a call, or the call gives up.
LEMMA TossAnswersSuccess ==
  ASSUME SInv, TypeOK', NEW p \in Proc,
         Accepted(p) \/ Refused(p) \/ RefusedAsDuplicate(p) \/ Unclear(p)
  PROVE  SInv'
<1>1. /\ At(p, "sent") /\ call[p] # Idle /\ TypeOK
      /\ RequestOf(p) \in Request /\ RequestOf(p).order = call[p].order
      /\ UNCHANGED <<reserved, token, audit>>
  BY CallType DEF Accepted, Refused, RefusedAsDuplicate, Unclear, At, SInv, RequestOf
<1>2. UNCHANGED fill \/ Execute(RequestOf(p))
  BY DEF Accepted, Refused, RefusedAsDuplicate, Unclear
<1>3. \A o \in Order : fill[o] # NotBooked => fill'[o] # NotBooked
  BY <1>1, <1>2, ExecuteBooks
<1>4. \/ Finish(p)
      \/ Goto(p, "refused")
      \/ Goto(p, "filled") /\ fill'[call[p].order] # NotBooked
  <2>1. CASE Answered(p, "ok") /\ Execute(RequestOf(p))
    BY <1>1, <2>1, ExecuteBooks DEF Answered
  <2>2. CASE \E answer \in {"unusable", "refused", "duplicate", "unavailable", "timeout"} :
               Answered(p, answer)
    BY <2>2 DEF Answered
  <2> QED
    BY <2>1, <2>2 DEF Accepted, Refused, RefusedAsDuplicate, Unclear
<1>5. \A q \in Proc : call'[q] # Idle =>
        /\ call[q] # Idle
        /\ call'[q].order = call[q].order
        /\ \/ call'[q].at = call[q].at
           \/ call[q].at = "sent" /\ call'[q].at = "refused"
           \/ call[q].at = "sent" /\ call'[q].at = "filled" /\ fill'[call[q].order] # NotBooked
  <2>1. \A q \in Proc : q # p => call'[q] = call[q]
    BY <1>1, <1>4 DEF Goto, Finish, TypeOK
  <2>2. CASE Finish(p)
    BY <1>1, <2>1, <2>2 DEF Finish, TypeOK
  <2>3. CASE Goto(p, "refused")
    <3>1. call'[p] = [call[p] EXCEPT !.at = "refused"] /\ call[p] \in Call
      BY <1>1, <2>3, CallType DEF Goto, TypeOK
    <3> QED
      BY <1>1, <2>1, <3>1 DEF Call, At
  <2>4. CASE Goto(p, "filled") /\ fill'[call[p].order] # NotBooked
    <3>1. call'[p] = [call[p] EXCEPT !.at = "filled"] /\ call[p] \in Call
      BY <1>1, <2>4, CallType DEF Goto, TypeOK
    <3> QED
      BY <1>1, <2>1, <2>4, <3>1 DEF Call, At
  <2> QED
    BY <1>4, <2>2, <2>3, <2>4
<1> QED
  BY <1>1, <1>3, <1>5, AnsweredKeepsSuccess

\* A token is taken by a process only while it is live.
LEMMA StartSuccess ==
  ASSUME SerialTokens, SInv, TypeOK', NEW p \in Proc, NEW o \in Order, NEW tool \in Tool,
         Start(p, o, tool)
  PROVE  SInv'
<1>1. /\ \A q \in Proc : q # p => call'[q] = call[q]
      /\ call'[p].order = o /\ call'[p].at = "checked"
      /\ token[o] = "live"
      /\ \A q \in Proc : call[q] # Idle => call[q].order # o
      /\ UNCHANGED <<reserved, token, fill, audit>>
  BY DEF Start, SInv, TypeOK, Using
<1>2. OneUse'
  BY <1>1 DEF SInv, OneUse
<1>3. SentIsCounted'
  BY <1>1 DEF SInv, SentIsCounted, IsCounted, At
<1>4. CommitsAreExecuted'
  BY <1>1 DEF SInv, CommitsAreExecuted, At
<1>5. CommittedAtTheEnd'
  BY <1>1 DEF SInv, CommittedAtTheEnd, At
<1>6. CommittedIsExecuted'
  BY <1>1 DEF SInv, CommittedIsExecuted
<1>7. AuditedIsCommitted'
  BY <1>1 DEF SInv, AuditedIsCommitted, IsCounted
<1> QED
  BY <1>2, <1>3, <1>4, <1>5, <1>6, <1>7 DEF SInv

\* reserve() counts the order of the call and takes no other order's count.
LEMMA ReservationSuccess ==
  ASSUME SInv, TypeOK', NEW p \in Proc, MakeReservation(p)
  PROVE  SInv'
<1>1. /\ TypeOK /\ At(p, "checked") /\ call[p] # Idle /\ call[p] \in Call
      /\ call[p].order \in Order /\ today \in Day
  BY CallType DEF MakeReservation, At, SInv, TypeOK
<1>2. /\ call[p].order \in reserved'[today]
      /\ \A d \in Day : reserved[d] \subseteq reserved'[d]
  BY <1>1 DEF MakeReservation, Reserve, storeVars, TypeOK, StoreTypeOK
<1>3. /\ \A q \in Proc : q # p => call'[q] = call[q]
      /\ call'[p].order = call[p].order /\ call'[p].at = "sent" /\ call'[p] # Idle
      /\ UNCHANGED <<token, fill, audit>>
  BY <1>1 DEF MakeReservation, TypeOK, Call, Idle
<1>4. \A o \in Order : IsCounted(o) => IsCounted(o)'
  BY <1>2 DEF IsCounted
<1>5. IsCounted(call[p].order)'
  BY <1>1, <1>2, <1>3 DEF IsCounted
<1>6. OneUse'
  BY <1>1, <1>3 DEF SInv, OneUse
<1>7. SentIsCounted'
  <2> SUFFICES ASSUME NEW q \in Proc, (At(q, "sent") \/ At(q, "filled") \/ At(q, "committed"))'
               PROVE  IsCounted(call[q].order)'
    BY DEF SentIsCounted
  <2>1. CASE q = p
    BY <1>5, <2>1
  <2>2. CASE q # p
    <3>1. call[q] # Idle /\ call'[q] = call[q]
      BY <1>3, <2>2 DEF At
    <3>2. IsCounted(call[q].order) /\ call[q].order \in Order
      BY <3>1, CallType DEF SInv, SentIsCounted, At
    <3> QED
      BY <1>4, <3>1, <3>2 DEF IsCounted
  <2> QED
    BY <2>1, <2>2
<1>8. CommitsAreExecuted'
  BY <1>3 DEF SInv, CommitsAreExecuted, At
<1>9. CommittedAtTheEnd'
  BY <1>1, <1>3 DEF SInv, CommittedAtTheEnd, At
<1>10. CommittedIsExecuted'
  BY <1>3 DEF SInv, CommittedIsExecuted
<1>11. AuditedIsCommitted'
  BY <1>2, <1>3 DEF SInv, AuditedIsCommitted, IsCounted
<1> QED
  BY <1>6, <1>7, <1>8, <1>9, <1>10, <1>11 DEF SInv

\* release() takes back the count of an order that is neither committed nor sent.
LEMMA SettleSuccess ==
  ASSUME SInv, TypeOK', NEW p \in Proc, Settle(p) \/ ReleaseCutShort(p)
  PROVE  SInv'
<1>1. /\ TypeOK /\ At(p, "refused") /\ call[p] # Idle
      /\ call[p].order \in Order /\ today \in Day
      /\ token[call[p].order] # "committed"
  BY CallType DEF Settle, ReleaseCutShort, At, SInv, TypeOK, CommittedAtTheEnd
<1>2. \A o \in Order, d \in Day : o # call[p].order /\ o \in reserved[d] => o \in reserved'[d]
  BY <1>1 DEF Settle, ReleaseCutShort, Release, LoseKey, storeVars, TypeOK, StoreTypeOK
<1>3. /\ \A q \in Proc : q # p => call'[q] = call[q]
      /\ call'[p] = Idle
      /\ UNCHANGED <<token, fill, audit>>
  BY <1>1 DEF Settle, ReleaseCutShort, Finish, TypeOK
<1>4. OneUse'
  BY <1>3 DEF SInv, OneUse
<1>5. SentIsCounted'
  <2> SUFFICES ASSUME NEW q \in Proc, (At(q, "sent") \/ At(q, "filled") \/ At(q, "committed"))'
               PROVE  IsCounted(call[q].order)'
    BY DEF SentIsCounted
  <2>1. q # p /\ call'[q] = call[q] /\ call[q] # Idle
    BY <1>3 DEF At
  <2>2. IsCounted(call[q].order) /\ call[q].order \in Order
    BY <2>1, CallType DEF SInv, SentIsCounted, At
  <2>3. call[q].order # call[p].order
    BY <1>1, <2>1 DEF SInv, OneUse
  <2> QED
    BY <1>2, <2>1, <2>2, <2>3 DEF IsCounted
<1>6. CommitsAreExecuted'
  BY <1>3 DEF SInv, CommitsAreExecuted, At
<1>7. CommittedAtTheEnd'
  BY <1>3 DEF SInv, CommittedAtTheEnd, At
<1>8. CommittedIsExecuted'
  BY <1>3 DEF SInv, CommittedIsExecuted
<1>9. AuditedIsCommitted'
  <2> SUFFICES ASSUME NEW i \in DOMAIN audit
               PROVE  token[audit[i].order] = "committed"
                      /\ (Durable => IsCounted(audit[i].order)')
    BY <1>3 DEF AuditedIsCommitted, IsCounted
  <2>1. token[audit[i].order] = "committed" /\ (Durable => IsCounted(audit[i].order))
    BY DEF SInv, AuditedIsCommitted
  <2>2. audit[i].order \in Order /\ audit[i].order # call[p].order
    BY <1>1, <2>1, AuditType
  <2> QED
    BY <1>2, <1>3, <2>1, <2>2 DEF IsCounted
<1> QED
  BY <1>4, <1>5, <1>6, <1>7, <1>8, <1>9 DEF SInv

\* commit() deletes the token of an order that was executed.
LEMMA CommitSuccess ==
  ASSUME SInv, TypeOK', NEW p \in Proc, Commit(p)
  PROVE  SInv'
<1>1. /\ TypeOK /\ At(p, "filled") /\ call[p] # Idle /\ call[p] \in Call
      /\ call[p].order \in Order
  BY CallType DEF Commit, At, SInv
<1>2. /\ \A q \in Proc : q # p => call'[q] = call[q]
      /\ call'[p].order = call[p].order /\ call'[p].at = "committed" /\ call'[p] # Idle
      /\ UNCHANGED <<reserved, fill, audit>>
  BY <1>1 DEF Commit, Goto, TypeOK, Call, Idle
<1>3. /\ token'[call[p].order] = "committed"
      /\ \A o \in Order : o # call[p].order => token'[o] = token[o]
  BY <1>1 DEF Commit, TypeOK
<1>4. OneUse'
  BY <1>1, <1>2 DEF SInv, OneUse
<1>5. SentIsCounted'
  BY <1>1, <1>2 DEF SInv, SentIsCounted, IsCounted, At
<1>6. CommitsAreExecuted'
  BY <1>1, <1>2 DEF SInv, CommitsAreExecuted, At
<1>7. CommittedAtTheEnd'
  <2> SUFFICES ASSUME NEW q \in Proc, call'[q] # Idle
               PROVE  At(q, "committed")' <=> token'[call'[q].order] = "committed"
    BY DEF CommittedAtTheEnd
  <2>1. CASE q = p
    BY <1>2, <1>3, <2>1 DEF At
  <2>2. CASE q # p
    <3>1. call'[q] = call[q] /\ call[q] # Idle
      BY <1>2, <2>2
    <3>2. call[q].order \in Order /\ call[q].order # call[p].order
      BY <1>1, <2>2, <3>1, CallType DEF SInv, OneUse
    <3> QED
      BY <1>3, <3>1, <3>2 DEF SInv, CommittedAtTheEnd, At
  <2> QED
    BY <2>1, <2>2
<1>8. CommittedIsExecuted'
  <2>1. fill[call[p].order] # NotBooked
    BY <1>1 DEF SInv, CommitsAreExecuted
  <2> QED
    BY <1>2, <1>3, <2>1 DEF SInv, CommittedIsExecuted
<1>9. AuditedIsCommitted'
  <2>1. \A i \in DOMAIN audit : audit[i].order \in Order
    BY <1>1, AuditType
  <2> QED
    BY <1>2, <1>3, <2>1 DEF SInv, AuditedIsCommitted, IsCounted
<1> QED
  BY <1>4, <1>5, <1>6, <1>7, <1>8, <1>9 DEF SInv

\* The audit log gets an order that is committed and counted.
LEMMA RecordSuccess ==
  ASSUME SInv, TypeOK', NEW p \in Proc, Record(p)
  PROVE  SInv'
<1>1. /\ TypeOK /\ At(p, "committed") /\ call[p] # Idle
  BY DEF Record, At, SInv
<1>2. /\ \A q \in Proc : q # p => call'[q] = call[q]
      /\ call'[p] = Idle
      /\ UNCHANGED <<reserved, token, fill>>
  BY <1>1 DEF Record, Finish, TypeOK
<1>3. OneUse'
  BY <1>2 DEF SInv, OneUse
<1>4. SentIsCounted'
  BY <1>2 DEF SInv, SentIsCounted, IsCounted, At
<1>5. CommitsAreExecuted'
  BY <1>2 DEF SInv, CommitsAreExecuted, At
<1>6. CommittedAtTheEnd'
  BY <1>2 DEF SInv, CommittedAtTheEnd, At
<1>7. CommittedIsExecuted'
  BY <1>2 DEF SInv, CommittedIsExecuted
<1>8. AuditedIsCommitted'
  <2>1. token[call[p].order] = "committed" /\ IsCounted(call[p].order)
    BY <1>1 DEF SInv, CommittedAtTheEnd, SentIsCounted
  <2>2. \A i \in DOMAIN audit' :
          (i \in DOMAIN audit /\ audit'[i] = audit[i]) \/ audit'[i].order = call[p].order
    BY <1>1 DEF Record, TypeOK
  <2> QED
    BY <1>2, <2>1, <2>2 DEF SInv, AuditedIsCommitted, IsCounted
<1> QED
  BY <1>3, <1>4, <1>5, <1>6, <1>7, <1>8 DEF SInv

\* A restart ends every call and keeps the committed tokens.
LEMMA RestartSuccess ==
  ASSUME SInv, TypeOK', Restart
  PROVE  SInv'
<1>1. /\ TypeOK /\ ~Durable
      /\ \A q \in Proc : call'[q] = Idle
      /\ \A o \in Order : token'[o] = "committed" <=> token[o] = "committed"
      /\ UNCHANGED <<fill, audit>>
  BY DEF Restart, SInv, TypeOK
<1>2. OneUse' /\ SentIsCounted' /\ CommitsAreExecuted' /\ CommittedAtTheEnd'
  BY <1>1 DEF OneUse, SentIsCounted, CommitsAreExecuted, CommittedAtTheEnd, At
<1>3. CommittedIsExecuted'
  BY <1>1 DEF SInv, CommittedIsExecuted
<1>4. \A i \in DOMAIN audit : audit[i].order \in Order
  BY <1>1, AuditType
<1>5. AuditedIsCommitted'
  BY <1>1, <1>4 DEF SInv, AuditedIsCommitted
<1> QED
  BY <1>2, <1>3, <1>5 DEF SInv

\* Every step keeps the invariant of successes.
LEMMA StepSuccess ==
  ASSUME SerialTokens, SInv, [Next]_vars
  PROVE  SInv'
<1>1. TypeOK /\ TypeOK'
  BY StepType DEF SInv
<1>2. ASSUME NEW o \in Order, Preview(o) \/ PreviewConditional(o) \/ Expire(o) PROVE SInv'
  <2>1. \A x \in Order : token'[x] = "committed" <=> token[x] = "committed"
    BY <1>1, <1>2 DEF Preview, PreviewConditional, IssueToken, Expire, TypeOK
  <2> QED
    BY <1>1, <1>2, <2>1, AnsweredKeepsSuccess DEF Preview, PreviewConditional, IssueToken, Expire
<1>3. ASSUME NEW p \in Proc, NEW o \in Order, NEW tool \in Tool, Start(p, o, tool) PROVE SInv'
  BY <1>1, <1>3, StartSuccess
<1>4. ASSUME NEW p \in Proc, CallStep(p) PROVE SInv'
  <2>1. CASE MakeReservation(p)
    BY <1>1, <2>1, ReservationSuccess
  <2>2. CASE OverLimit(p) \/ ReserveCutShort(p) \/ Abort(p)
    <3>1. \A q \in Proc : call'[q] # Idle => call'[q] = call[q]
      BY <1>1, <2>2 DEF OverLimit, ReserveCutShort, Abort, Finish, TypeOK
    <3> QED
      BY <1>1, <2>2, <3>1, AnsweredKeepsSuccess DEF OverLimit, ReserveCutShort, CountOnly, Abort
  <2>3. CASE Accepted(p) \/ Refused(p) \/ RefusedAsDuplicate(p) \/ Unclear(p)
    BY <1>1, <2>3, TossAnswersSuccess
  <2>4. CASE Settle(p) \/ ReleaseCutShort(p)
    BY <1>1, <2>4, SettleSuccess
  <2>5. CASE Commit(p)
    BY <1>1, <2>5, CommitSuccess
  <2>6. CASE Record(p)
    BY <1>1, <2>6, RecordSuccess
  <2> QED
    BY <1>4, <2>1, <2>2, <2>3, <2>4, <2>5, <2>6 DEF CallStep
<1>5. ASSUME NEW r \in Request, LateExecution(r) \/ LateLoss(r) PROVE SInv'
  <2>1. \A o \in Order : fill[o] # NotBooked => fill'[o] # NotBooked
    BY <1>1, <1>5, ExecuteBooks DEF LateExecution, LateLoss
  <2> QED
    BY <1>1, <1>5, <2>1, AnsweredKeepsSuccess DEF LateExecution, LateLoss
<1>6. CASE Restart
  BY <1>1, <1>6, RestartSuccess
<1>7. CASE NextDay
  BY <1>1, <1>7, AnsweredKeepsSuccess DEF NextDay
<1>8. CASE UNCHANGED vars
  BY <1>1, <1>8, AnsweredKeepsSuccess DEF vars
<1> QED
  BY <1>2, <1>3, <1>4, <1>5, <1>6, <1>7, <1>8 DEF Next
-----------------------------------------------------------------------------
\* The initial state has no successes yet.
LEMMA InitSuccess ==
  ASSUME Init
  PROVE  SInv
<1>1. TypeOK
  BY InitType
<1>2. \A p \in Proc : call[p] = Idle
  BY DEF Init
<1>3. DOMAIN audit = {} /\ \A o \in Order : token[o] # "committed"
  BY DEF Init
<1> QED
  BY <1>1, <1>2, <1>3 DEF SInv, OneUse, SentIsCounted, CommitsAreExecuted, CommittedAtTheEnd,
                          CommittedIsExecuted, AuditedIsCommitted, At

\* The invariant of successes holds in every reachable state.
THEOREM SuccessInvariance ==
  ASSUME SerialTokens
  PROVE  Spec => []SInv
<1>1. Init => SInv
  BY InitSuccess
<1>2. SInv /\ [Next]_vars => SInv'
  BY StepSuccess
<1> QED
  BY <1>1, <1>2, PTL DEF Spec

\* A token leaves the store for good only when its order was executed, whatever
\* the backend.
THEOREM CommittedIsAlwaysExecuted ==
  ASSUME SerialTokens
  PROVE  Spec => []CommittedIsExecuted
<1>1. SInv => CommittedIsExecuted
  BY DEF SInv
<1> QED
  BY <1>1, SuccessInvariance, PTL

\* What the audit log calls placed or modified was executed and is counted.
THEOREM SuccessIsAlwaysCounted ==
  ASSUME Durable, SerialTokens
  PROVE  Spec => []SuccessIsCounted
<1>1. SInv => SuccessIsCounted
  <2> SUFFICES ASSUME SInv, NEW i \in DOMAIN audit
               PROVE  /\ fill[audit[i].order] # NotBooked
                      /\ \E d \in Day : audit[i].order \in reserved[d]
    BY DEF SuccessIsCounted
  <2>1. audit[i].order \in Order
    BY AuditType DEF SInv
  <2> QED
    BY <2>1 DEF SInv, AuditedIsCommitted, IsCounted, CommittedIsExecuted
<1> QED
  BY <1>1, SuccessInvariance, PTL
-----------------------------------------------------------------------------
(* What is finished is counted on the day it is charged to, with either      *)
(* backend: the counters that a restart rebuilds from the audit log lose     *)
(* nothing of the day.                                                       *)

\* The request of the call is or was on its way, and no refusal came back.
Busy(p) == At(p, "sent") \/ At(p, "filled") \/ At(p, "committed")

\* The order of such a call is counted on the day of its reservation.
HeldOnItsDay == \A p \in Proc : Busy(p) => call[p].order \in reserved[call[p].day]

\* Nothing bears a later date than today's.
DaysPassed ==
  /\ \A p \in Proc : call[p] # Idle => call[p].day <= today
  /\ \A r \in orphan : r.day <= today
  /\ \A o \in Order : fill[o].day <= today
  /\ \A d \in Day : d > today => reserved[d] = {}

\* What an earlier attempt with the token of a call sent is charged to the day
\* of the call or to an earlier one.
BookedByThen ==
  \A p \in Proc : Busy(p) =>
    /\ fill[call[p].order].day <= call[p].day
    /\ \A r \in orphan : r.order = call[p].order => r.day <= call[p].day

\* No call works on an order that is finished.
FinishedIsOver == \A p \in Proc : call[p] # Idle => ~Finished(call[p].order)

\* An event is about an executed order, and is not older than its execution.
EventsAreTrue ==
  \A i \in DOMAIN audit :
    /\ fill[audit[i].order] # NotBooked
    /\ fill[audit[i].order].day <= audit[i].day
    /\ audit[i].day <= today
    /\ audit[i].amount = SpendDelta[audit[i].order]

\* What today's counter of c has to cover: the orders reserved today and the
\* finished ones charged to today, whose reservations a restart forgot.
DueToday(c) ==
  {o \in Order : CurrencyOf(o) = c /\ (o \in reserved[today] \/ (Finished(o) /\ fill[o].day = today))}

DueIsCounted == \A c \in Currency : Total(DueToday(c), SpendDelta) <= spent[today][c]

DInv ==
  /\ SInv
  /\ HeldOnItsDay
  /\ DaysPassed
  /\ BookedByThen
  /\ FinishedIsOver
  /\ EventsAreTrue
  /\ DueIsCounted

\* Without credits the sum over fewer orders is no larger.
LEMMA FewerCovered ==
  ASSUME NoCredit, NEW U \in SUBSET Order, NEW S \in SUBSET U, NEW n \in Int,
         Total(U, SpendDelta) <= n
  PROVE  Total(S, SpendDelta) <= n
<1>1. IsFiniteSet(U) /\ IsFiniteSet(S)
  BY FS_Subset
<1>2. Total(U, SpendDelta) \in Int /\ Total(S, SpendDelta) \in Int
  BY <1>1, UnitsFinite
<1>3. /\ SpendDelta \in [Order -> Amount]
      /\ \A o \in Order : SpendDelta[o] <= SpendDelta[o] /\ 0 <= SpendDelta[o]
  BY DeltaType DEF NoCredit, Amount
<1>4. Total(S, SpendDelta) <= Total(U, SpendDelta)
  BY <1>1, <1>3, TotalMonotone
<1> QED
  BY <1>2, <1>4

\* Executing a request changes the booking of its order only, and only once.
LEMMA ExecuteOnce ==
  ASSUME TypeOK, NEW r \in Request, Execute(r)
  PROVE  /\ \A o \in Order : fill[o] # NotBooked => fill'[o] = fill[o]
         /\ \A o \in Order : fill'[o] = fill[o] \/ (o = r.order /\ fill'[o].day = r.day)
<1>1. r.order \in Order
  BY DEF Request
<1> QED
  BY <1>1 DEF Execute, TypeOK

\* An event has an order and a day.
LEMMA EventType ==
  ASSUME TypeOK, NEW i \in DOMAIN audit
  PROVE  audit[i].order \in Order /\ audit[i].day \in Day
<1>1. audit \in Seq(Event)
  BY DEF TypeOK
<1>2. audit[i] \in Event
  BY <1>1
<1> QED
  BY <1>2 DEF Event

\* As long as no booking changes, the audit log stays true.
LEMMA EventsStayTrue ==
  ASSUME TypeOK, TypeOK', EventsAreTrue, UNCHANGED audit, today <= today',
         \A o \in Order : fill[o] # NotBooked => fill'[o] = fill[o]
  PROVE  EventsAreTrue'
<1> SUFFICES ASSUME NEW i \in DOMAIN audit
             PROVE  /\ fill'[audit[i].order] # NotBooked
                    /\ fill'[audit[i].order].day <= audit[i].day
                    /\ audit[i].day <= today'
                    /\ audit[i].amount = SpendDelta[audit[i].order]
  BY DEF EventsAreTrue
<1>1. audit[i].order \in Order /\ audit[i].day \in Int /\ today \in Int /\ today' \in Int
  BY EventType DEF TypeOK, Day
<1> QED
  BY <1>1 DEF EventsAreTrue

\* A finished order is booked, on a day that has come.
LEMMA FinishedIsBooked ==
  ASSUME EventsAreTrue, NEW o \in Order, Finished(o)
  PROVE  fill[o] # NotBooked
BY DEF EventsAreTrue, Finished

\* Today's counter covers what is due as long as it does not fall, no booking
\* changes and today's reservations do not grow.
LEMMA DueStaysCounted ==
  ASSUME NoCredit, DInv, TypeOK', UNCHANGED <<today, audit>>,
         reserved'[today] \subseteq reserved[today],
         \A o \in Order : fill[o] # NotBooked => fill'[o] = fill[o],
         \A c \in Currency : spent[today][c] <= spent'[today][c]
  PROVE  DueIsCounted'
<1> SUFFICES ASSUME NEW c \in Currency
             PROVE  Total(DueToday(c)', SpendDelta) <= spent'[today][c]
  BY DEF DueIsCounted
<1>1. DueToday(c)' \subseteq DueToday(c) /\ DueToday(c) \in SUBSET Order
  <2>1. \A o \in Order : Finished(o)' <=> Finished(o)
    BY DEF Finished
  <2>2. \A o \in Order : Finished(o) => fill'[o] = fill[o]
    BY FinishedIsBooked DEF DInv
  <2> QED
    BY <2>1, <2>2 DEF DueToday
<1>2. spent[today][c] \in Int /\ spent'[today][c] \in Int /\ spent[today][c] <= spent'[today][c]
  BY DEF DInv, SInv, TypeOK, StoreTypeOK
<1>3. Total(DueToday(c), SpendDelta) <= spent[today][c]
  BY DEF DInv, DueIsCounted
<1>4. Total(DueToday(c)', SpendDelta) <= spent[today][c]
  BY <1>1, <1>2, <1>3, FewerCovered
<1>5. Total(DueToday(c)', SpendDelta) \in Int
  <2>1. IsFiniteSet(DueToday(c)')
    BY <1>1, FS_Subset
  <2> QED
    BY <2>1, UnitsFinite
<1> QED
  BY <1>2, <1>4, <1>5

\* A step in which calls stay, move on or end, and Toss may execute or lose what
\* is out: counters, reservations and the audit log stay as they are.
LEMMA TossKeepsCount ==
  ASSUME NoCredit, DInv, SInv', UNCHANGED <<spent, reserved, today, audit>>,
         \A q \in Proc : call'[q] # Idle =>
           /\ call[q] # Idle
           /\ call'[q].order = call[q].order
           /\ call'[q].day = call[q].day
           /\ Busy(q)' => Busy(q),
         \A x \in orphan' \ orphan : \E q \in Proc : At(q, "sent") /\ x = RequestOf(q),
         \/ UNCHANGED fill
         \/ \E r \in Request :
              /\ Execute(r)
              /\ r \in orphan \/ \E q \in Proc : At(q, "sent") /\ r = RequestOf(q)
  PROVE  DInv'
<1>1. TypeOK /\ TypeOK'
  BY DEF DInv, SInv
<1>2. \A o \in Order : fill[o] # NotBooked => fill'[o] = fill[o]
  BY <1>1, ExecuteOnce
<1>3. \A o \in Order :
        \/ fill'[o] = fill[o]
        \/ \E r \in Request : /\ o = r.order /\ fill'[o].day = r.day
                              /\ r \in orphan \/ \E q \in Proc : At(q, "sent") /\ r = RequestOf(q)
  BY <1>1, ExecuteOnce
<1>4. \A q \in Proc : At(q, "sent") =>
        /\ call[q] # Idle /\ Busy(q)
        /\ RequestOf(q).day = call[q].day /\ RequestOf(q).order = call[q].order
  BY DEF At, Busy, RequestOf
<1>5. HeldOnItsDay'
  BY DEF DInv, HeldOnItsDay, Busy, At
<1>6. DaysPassed'
  <2>1. \A q \in Proc : call'[q] # Idle => call'[q].day <= today'
    BY DEF DInv, DaysPassed
  <2>2. \A x \in orphan' : x.day <= today'
    BY <1>4 DEF DInv, DaysPassed
  <2>3. \A o \in Order : fill'[o].day <= today'
    BY <1>3, <1>4 DEF DInv, DaysPassed
  <2> QED
    BY <2>1, <2>2, <2>3 DEF DInv, DaysPassed
<1>7. BookedByThen'
  <2> SUFFICES ASSUME NEW p \in Proc, Busy(p)'
               PROVE  /\ fill'[call'[p].order].day <= call'[p].day
                      /\ \A r \in orphan' : r.order = call'[p].order => r.day <= call'[p].day
    BY DEF BookedByThen
  <2>1. /\ call[p] # Idle /\ call'[p].order = call[p].order /\ call'[p].day = call[p].day
        /\ Busy(p) /\ call[p].order \in Order /\ call[p].day \in Int
    BY <1>1, CallType DEF Busy, At, Day
  <2>2. /\ fill[call[p].order].day <= call[p].day
        /\ \A r \in orphan : r.order = call[p].order => r.day <= call[p].day
    BY <2>1 DEF DInv, BookedByThen
  <2>3. ASSUME NEW q \in Proc, At(q, "sent"), RequestOf(q).order = call[p].order
        PROVE  RequestOf(q).day <= call[p].day
    <3>1. q = p
      BY <1>4, <2>1, <2>3 DEF DInv, SInv, OneUse
    <3> QED
      BY <1>4, <2>1, <2>3, <3>1
  <2> QED
    BY <1>3, <2>1, <2>2, <2>3
<1>8. FinishedIsOver'
  BY DEF DInv, FinishedIsOver, Finished
<1>9. EventsAreTrue'
  <2>1. today <= today'
    BY <1>1 DEF TypeOK, Day
  <2> QED
    BY <1>1, <1>2, <2>1, EventsStayTrue DEF DInv
<1>10. DueIsCounted'
  <2>1. \A c \in Currency : spent[today][c] <= spent'[today][c]
    BY <1>1 DEF TypeOK, StoreTypeOK
  <2> QED
    BY <1>1, <1>2, <2>1, DueStaysCounted
<1> QED
  BY <1>5, <1>6, <1>7, <1>8, <1>9, <1>10 DEF DInv

\* A step after which no call is busy that was not, and the reservations taken
\* away are of orders no busy call uses: the counters may move.
LEMMA QuietDays ==
  ASSUME DInv, SInv', UNCHANGED <<today, orphan, fill>>,
         \A q \in Proc : call'[q] # Idle => call'[q].day <= today,
         \A q \in Proc : Busy(q)' => Busy(q) /\ call'[q] = call[q],
         \A d \in Day : reserved'[d] \subseteq reserved[d],
         \A q \in Proc, d \in Day : Busy(q)' /\ call[q].order \in reserved[d]
                                      => call[q].order \in reserved'[d]
  PROVE  HeldOnItsDay' /\ DaysPassed' /\ BookedByThen'
<1>1. TypeOK /\ TypeOK'
  BY DEF DInv, SInv
<1>2. \A q \in Proc : Busy(q) => call[q] # Idle /\ call[q].day \in Day
  BY <1>1, CallType DEF Busy, At
<1>3. HeldOnItsDay'
  BY <1>2 DEF DInv, HeldOnItsDay
<1>4. DaysPassed'
  BY DEF DInv, DaysPassed
<1>5. BookedByThen'
  BY DEF DInv, BookedByThen
<1> QED
  BY <1>3, <1>4, <1>5

\* A call starts today, on an order that is not finished.
LEMMA StartCount ==
  ASSUME NoCredit, DInv, SInv', NEW p \in Proc, NEW o \in Order, NEW tool \in Tool,
         Start(p, o, tool)
  PROVE  DInv'
<1>1. /\ TypeOK /\ TypeOK'
      /\ \A q \in Proc : q # p => call'[q] = call[q]
      /\ call'[p].order = o /\ call'[p].at = "checked" /\ call'[p].day = today
      /\ token[o] = "live"
      /\ UNCHANGED <<spent, reserved, today, orphan, fill, audit>>
  BY DEF Start, DInv, SInv, TypeOK
<1>2. /\ \A q \in Proc : call'[q] # Idle => call'[q].day <= today
      /\ \A q \in Proc : Busy(q)' => Busy(q) /\ call'[q] = call[q]
  <2>1. today <= today
    BY <1>1 DEF TypeOK, Day
  <2> QED
    BY <1>1, <2>1 DEF DInv, DaysPassed, Busy, At
<1>3. HeldOnItsDay' /\ DaysPassed' /\ BookedByThen'
  BY <1>1, <1>2, QuietDays
<1>4. FinishedIsOver'
  <2>1. ~Finished(o)
    BY <1>1 DEF DInv, SInv, AuditedIsCommitted, Finished
  <2> QED
    BY <1>1, <2>1 DEF DInv, FinishedIsOver, Finished
<1>5. EventsAreTrue'
  <2>1. today <= today'
    BY <1>1 DEF TypeOK, Day
  <2> QED
    BY <1>1, <2>1, EventsStayTrue DEF DInv
<1>6. DueIsCounted'
  <2>1. \A c \in Currency : spent[today][c] <= spent'[today][c]
    BY <1>1 DEF TypeOK, StoreTypeOK
  <2> QED
    BY <1>1, <2>1, DueStaysCounted
<1> QED
  BY <1>3, <1>4, <1>5, <1>6 DEF DInv

\* A reservation is made for today, and today's counter covers it.
LEMMA ReservationCount ==
  ASSUME NoCredit, DInv, SInv', NEW p \in Proc, MakeReservation(p)
  PROVE  DInv'
<1> DEFINE o == call[p].order
           b == CurrencyOf(o)
<1>1. /\ TypeOK /\ TypeOK' /\ call[p] # Idle /\ call[p] \in Call /\ o \in Order /\ today \in Day
      /\ Reserve(today, o) /\ UNCHANGED <<today, orphan, fill, audit>>
  BY CallType DEF MakeReservation, At, DInv, SInv, TypeOK
<1>2. /\ \A q \in Proc : q # p => call'[q] = call[q]
      /\ call'[p].order = o /\ call'[p].at = "sent" /\ call'[p].day = today
  BY <1>1 DEF MakeReservation, TypeOK, Call
<1>3. /\ o \in reserved'[today]
      /\ \A d \in Day : reserved[d] \subseteq reserved'[d]
      /\ \A d \in Day : d # today => reserved'[d] = reserved[d]
      /\ reserved'[today] \subseteq reserved[today] \cup {o}
  BY <1>1 DEF Reserve, storeVars, TypeOK, StoreTypeOK
<1>4. \A q \in Proc : q # p /\ Busy(q)' =>
        Busy(q) /\ call[q] # Idle /\ call[q].day \in Day /\ call[q].order \in Order
  BY <1>1, <1>2, CallType DEF Busy, At
<1>5. HeldOnItsDay'
  <2> SUFFICES ASSUME NEW q \in Proc, Busy(q)'
               PROVE  call'[q].order \in reserved'[call'[q].day]
    BY DEF HeldOnItsDay
  <2>1. CASE q = p
    BY <1>2, <1>3, <2>1
  <2>2. CASE q # p
    <3>1. call[q].order \in reserved[call[q].day] /\ call[q].day \in Day
      BY <1>4, <2>2 DEF DInv, HeldOnItsDay
    <3> QED
      BY <1>2, <1>3, <2>2, <3>1
  <2> QED
    BY <2>1, <2>2
<1>6. today \in Int /\ today <= today
  BY <1>1 DEF Day
<1>7. DaysPassed'
  BY <1>1, <1>2, <1>3, <1>6 DEF DInv, DaysPassed
<1>8. BookedByThen'
  <2> SUFFICES ASSUME NEW q \in Proc, Busy(q)'
               PROVE  /\ fill[call'[q].order].day <= call'[q].day
                      /\ \A r \in orphan : r.order = call'[q].order => r.day <= call'[q].day
    BY <1>1 DEF BookedByThen
  <2>1. CASE q = p
    BY <1>1, <1>2, <2>1 DEF DInv, DaysPassed
  <2>2. CASE q # p
    BY <1>2, <1>4, <2>2 DEF DInv, BookedByThen
  <2> QED
    BY <2>1, <2>2
<1>9. FinishedIsOver'
  BY <1>1, <1>2 DEF DInv, FinishedIsOver, Finished
<1>10. EventsAreTrue'
  BY <1>1, <1>6, EventsStayTrue DEF DInv
<1>11. DueIsCounted'
  <2>1. CASE UNCHANGED storeVars
    <3>1. /\ reserved'[today] \subseteq reserved[today]
          /\ \A c \in Currency : spent[today][c] <= spent'[today][c]
      BY <1>1, <2>1 DEF storeVars, TypeOK, StoreTypeOK
    <3> QED
      BY <1>1, <3>1, DueStaysCounted
  <2>2. CASE spent' = Moved(today, o, SpendDelta[o])
    <3> SUFFICES ASSUME NEW c \in Currency
                 PROVE  Total(DueToday(c)', SpendDelta) <= spent'[today][c]
      BY <1>1 DEF DueIsCounted
    <3>1. /\ SpendDelta[o] \in Nat /\ SpendDelta[o] \in Amount /\ b \in Currency
          /\ spent[today][c] \in Nat
      BY <1>1, DeltaType DEF NoCredit, Amount, TypeOK, StoreTypeOK
    <3>2. /\ spent'[today][b] = Floored(spent[today][b] + SpendDelta[o])
          /\ \A x \in Currency : x # b => spent'[today][x] = spent[today][x]
      BY <1>1, <2>2, <3>1, MovedType DEF TypeOK
    <3>3. DueToday(c) \in SUBSET Order /\ Total(DueToday(c), SpendDelta) <= spent[today][c]
      BY DEF DueToday, DInv, DueIsCounted
    <3>4. \A x \in Order : Finished(x)' <=> Finished(x)
      BY <1>1 DEF Finished
    <3>5. CASE c = b
      <4>1. Total(DueToday(c) \cup {o}, SpendDelta) <= spent[today][c] + SpendDelta[o]
        BY <1>1, <3>1, <3>3, JoinCovered
      <4>2. DueToday(c)' \subseteq DueToday(c) \cup {o}
        BY <1>1, <1>3, <3>4 DEF DueToday
      <4>3. spent'[today][c] = spent[today][c] + SpendDelta[o]
        BY <3>1, <3>2, <3>5 DEF Floored
      <4>4. /\ DueToday(c) \cup {o} \in SUBSET Order
            /\ spent[today][c] + SpendDelta[o] \in Int
        BY <1>1, <3>1, <3>3
      <4> QED
        BY <4>1, <4>2, <4>3, <4>4, FewerCovered
    <3>6. CASE c # b
      <4>1. DueToday(c)' \subseteq DueToday(c)
        BY <1>1, <1>3, <3>4, <3>6 DEF DueToday
      <4>2. spent'[today][c] = spent[today][c] /\ spent[today][c] \in Int
        BY <3>1, <3>2, <3>6
      <4> QED
        BY <3>3, <4>1, <4>2, FewerCovered
    <3> QED
      BY <3>5, <3>6
  <2>3. UNCHANGED storeVars \/ spent' = Moved(today, o, SpendDelta[o])
    BY <1>1 DEF Reserve
  <2> QED
    BY <2>1, <2>2, <2>3
<1> QED
  BY <1>5, <1>7, <1>8, <1>9, <1>10, <1>11 DEF DInv

\* A reserve() that is cut short only raises a counter.
LEMMA CutReserveCount ==
  ASSUME NoCredit, DInv, SInv', NEW p \in Proc, ReserveCutShort(p)
  PROVE  DInv'
<1>1. /\ TypeOK /\ TypeOK' /\ call[p].order \in Order /\ today \in Day
      /\ CountOnly(today, call[p].order) /\ UNCHANGED <<reserved, today, orphan, fill, audit>>
  BY CallType DEF ReserveCutShort, CountOnly, At, DInv, SInv, TypeOK
<1>2. \A q \in Proc : call'[q] # Idle => call'[q] = call[q]
  BY <1>1 DEF ReserveCutShort, Finish, TypeOK
<1>3. HeldOnItsDay' /\ DaysPassed' /\ BookedByThen'
  <2>1. \A q \in Proc : call'[q] # Idle => call'[q].day <= today
    BY <1>2 DEF DInv, DaysPassed
  <2>2. \A q \in Proc : Busy(q)' => Busy(q) /\ call'[q] = call[q]
    BY <1>2 DEF Busy, At
  <2> QED
    BY <1>1, <2>1, <2>2, QuietDays
<1>4. FinishedIsOver'
  BY <1>1, <1>2 DEF DInv, FinishedIsOver, Finished
<1>5. today <= today'
  BY <1>1 DEF Day
<1>6. EventsAreTrue'
  BY <1>1, <1>5, EventsStayTrue DEF DInv
<1>7. DueIsCounted'
  <2>1. \A c \in Currency : spent[today][c] <= spent'[today][c]
    <3>1. SpendDelta[call[p].order] \in Nat /\ SpendDelta[call[p].order] \in Amount
      BY <1>1, DeltaType DEF NoCredit, Amount
    <3>2. spent' = Moved(today, call[p].order, SpendDelta[call[p].order])
      BY <1>1 DEF CountOnly
    <3>3. StoreTypeOK /\ \A c \in Currency : spent[today][c] \in Nat
      BY <1>1 DEF TypeOK, StoreTypeOK
    <3> DEFINE b == CurrencyOf(call[p].order)
    <3>4. /\ spent'[today][b] = Floored(spent[today][b] + SpendDelta[call[p].order])
          /\ \A c \in Currency : c # b => spent'[today][c] = spent[today][c]
          /\ b \in Currency
      BY <1>1, <3>1, <3>2, <3>3, MovedType, DeltaType
    <3>5. spent[today][b] <= spent'[today][b]
      BY <3>1, <3>3, <3>4 DEF Floored
    <3> HIDE DEF b
    <3> QED
      BY <3>3, <3>4, <3>5
  <2> QED
    BY <1>1, <2>1, DueStaysCounted
<1> QED
  BY <1>3, <1>4, <1>6, <1>7 DEF DInv

\* A settlement takes back the count of an order that is not finished, and with
\* it no more than was counted for the order.
LEMMA SettleCount ==
  ASSUME NoCredit, DInv, SInv', NEW p \in Proc, Settle(p) \/ ReleaseCutShort(p)
  PROVE  DInv'
<1> DEFINE o == call[p].order
           b == CurrencyOf(o)
<1>1. /\ TypeOK /\ TypeOK' /\ call[p] # Idle /\ o \in Order /\ today \in Day /\ At(p, "refused")
      /\ Release(today, o) \/ LoseKey(today, o)
      /\ UNCHANGED <<today, orphan, fill, audit>>
  BY CallType DEF Settle, ReleaseCutShort, At, DInv, SInv, TypeOK
<1>2. /\ \A q \in Proc : q # p => call'[q] = call[q]
      /\ call'[p] = Idle
  BY <1>1 DEF Settle, ReleaseCutShort, Finish, TypeOK
<1>3. /\ \A d \in Day : reserved'[d] \subseteq reserved[d]
      /\ \A d \in Day, x \in Order : x # o /\ x \in reserved[d] => x \in reserved'[d]
  <2>1. reserved \in [Day -> SUBSET Order]
    BY <1>1 DEF TypeOK, StoreTypeOK
  <2>2. reserved' = reserved \/ reserved' = [reserved EXCEPT ![today] = reserved[today] \ {o}]
    BY <1>1 DEF Release, LoseKey, storeVars
  <2> HIDE DEF o
  <2> QED
    BY <2>1, <2>2
<1>4. HeldOnItsDay' /\ DaysPassed' /\ BookedByThen'
  <2>1. \A q \in Proc : call'[q] # Idle => call'[q].day <= today
    BY <1>2 DEF DInv, DaysPassed
  <2>2. \A q \in Proc : Busy(q)' => Busy(q) /\ call'[q] = call[q] /\ q # p /\ call[q] # Idle
    BY <1>2 DEF Busy, At
  <2>3. \A q \in Proc : Busy(q)' => call[q].order \in Order /\ call[q].order # o
    BY <1>1, <2>2, CallType DEF DInv, SInv, OneUse
  <2> QED
    BY <1>1, <1>3, <2>1, <2>2, <2>3, QuietDays
<1>5. FinishedIsOver'
  BY <1>1, <1>2 DEF DInv, FinishedIsOver, Finished
<1>6. today <= today'
  BY <1>1 DEF Day
<1>7. EventsAreTrue'
  BY <1>1, <1>6, EventsStayTrue DEF DInv
<1>8. DueIsCounted'
  <2>1. CASE UNCHANGED spent
    <3>1. \A c \in Currency : spent[today][c] <= spent'[today][c]
      BY <1>1, <2>1 DEF TypeOK, StoreTypeOK
    <3> QED
      BY <1>1, <1>3, <3>1, DueStaysCounted
  <2>2. CASE /\ o \in reserved[today]
             /\ spent' = Moved(today, o, -SpendDelta[o])
             /\ reserved' = [reserved EXCEPT ![today] = reserved[today] \ {o}]
    <3> SUFFICES ASSUME NEW c \in Currency
                 PROVE  Total(DueToday(c)', SpendDelta) <= spent'[today][c]
      BY <1>1 DEF DueIsCounted
    <3>1. /\ SpendDelta[o] \in Nat /\ -SpendDelta[o] \in Amount /\ b \in Currency
          /\ spent[today][c] \in Nat
      BY <1>1, DeltaType DEF NoCredit, Amount, TypeOK, StoreTypeOK
    <3>2. /\ spent'[today][b] = Floored(spent[today][b] + (-SpendDelta[o]))
          /\ \A x \in Currency : x # b => spent'[today][x] = spent[today][x]
      BY <1>1, <2>2, <3>1, MovedType DEF TypeOK
    <3>3. DueToday(c) \in SUBSET Order /\ Total(DueToday(c), SpendDelta) <= spent[today][c]
      BY DEF DueToday, DInv, DueIsCounted
    <3>4. (\A x \in Order : Finished(x)' <=> Finished(x)) /\ ~Finished(o)
      BY <1>1 DEF Finished, DInv, FinishedIsOver
    <3>5. reserved'[today] = reserved[today] \ {o}
      BY <1>1, <2>2 DEF TypeOK, StoreTypeOK
    <3>6. CASE c = b
      <4>1. o \in DueToday(c)
        BY <1>1, <2>2, <3>6 DEF DueToday
      <4>2. DueToday(c)' = DueToday(c) \ {o}
        BY <1>1, <3>4, <3>5 DEF DueToday
      <4>3. IsFiniteSet(DueToday(c)) /\ SpendDelta \in [Order -> Amount]
        BY <3>3, DeltaType, FS_Subset
      <4>4. Total(DueToday(c) \ {o}, SpendDelta) = Total(DueToday(c), SpendDelta) - SpendDelta[o]
        BY <3>3, <4>1, <4>3, TotalRemove
      <4>5. Total(DueToday(c), SpendDelta) \in Int
        BY <4>3, UnitsFinite
      <4>6. spent[today][c] - SpendDelta[o] <= spent'[today][c]
        BY <3>1, <3>2, <3>6 DEF Floored
      <4>7. spent'[today][c] \in Int
        BY <1>1 DEF TypeOK, StoreTypeOK
      <4> QED
        BY <3>1, <3>3, <4>2, <4>4, <4>5, <4>6, <4>7
    <3>7. CASE c # b
      <4>1. DueToday(c)' \subseteq DueToday(c)
        BY <1>1, <3>4, <3>5 DEF DueToday
      <4>2. spent'[today][c] = spent[today][c] /\ spent[today][c] \in Int
        BY <3>1, <3>2, <3>7
      <4> QED
        BY <3>3, <4>1, <4>2, FewerCovered
    <3> QED
      BY <3>6, <3>7
  <2>3. \/ UNCHANGED spent
        \/ /\ o \in reserved[today]
           /\ spent' = Moved(today, o, -SpendDelta[o])
           /\ reserved' = [reserved EXCEPT ![today] = reserved[today] \ {o}]
    BY <1>1 DEF Release, LoseKey, storeVars
  <2> QED
    BY <2>1, <2>2, <2>3
<1> QED
  BY <1>4, <1>5, <1>7, <1>8 DEF DInv

\* A recorded order was charged today only if its reservation is today's.
LEMMA RecordCount ==
  ASSUME NoCredit, DInv, SInv', NEW p \in Proc, Record(p)
  PROVE  DInv'
<1> DEFINE o == call[p].order
           e == [order |-> o, day |-> today, amount |-> SpendDelta[o]]
<1>1. /\ TypeOK /\ TypeOK' /\ call[p] # Idle /\ o \in Order /\ call[p].day \in Day /\ today \in Day
      /\ At(p, "committed") /\ Busy(p)
      /\ audit' = Append(audit, e)
      /\ UNCHANGED <<spent, reserved, today, orphan, fill>>
  BY CallType DEF Record, At, Busy, DInv, SInv, TypeOK
<1>2. /\ \A q \in Proc : q # p => call'[q] = call[q]
      /\ call'[p] = Idle
  BY <1>1 DEF Record, Finish, TypeOK
<1>3. /\ \A i \in DOMAIN audit : i \in DOMAIN audit' /\ audit'[i] = audit[i]
      /\ \A i \in DOMAIN audit' : (i \in DOMAIN audit /\ audit'[i] = audit[i]) \/ audit'[i] = e
      /\ \E i \in DOMAIN audit' : audit'[i] = e
  <2>1. audit \in Seq(Event)
    BY <1>1 DEF TypeOK
  <2>2. /\ DOMAIN audit = 1 .. Len(audit) /\ Len(audit) \in Nat
        /\ DOMAIN audit' = 1 .. Len(audit) + 1
        /\ audit'[Len(audit) + 1] = e
        /\ \A i \in 1 .. Len(audit) : audit'[i] = audit[i]
    BY <1>1, <2>1
  <2>3. /\ Len(audit) + 1 \in DOMAIN audit'
        /\ \A i \in DOMAIN audit : i \in DOMAIN audit'
        /\ \A i \in DOMAIN audit' : i \in DOMAIN audit \/ i = Len(audit) + 1
    BY <2>2
  <2> QED
    BY <2>2, <2>3
<1>4. HeldOnItsDay' /\ DaysPassed' /\ BookedByThen'
  <2>1. \A q \in Proc : call'[q] # Idle => call'[q].day <= today
    BY <1>2 DEF DInv, DaysPassed
  <2>2. \A q \in Proc : Busy(q)' => Busy(q) /\ call'[q] = call[q]
    BY <1>2 DEF Busy, At
  <2> QED
    BY <1>1, <2>1, <2>2, QuietDays
<1>5. \A x \in Order : Finished(x)' <=> Finished(x) \/ x = o
  BY <1>3 DEF Finished
<1>6. FinishedIsOver'
  <2> SUFFICES ASSUME NEW q \in Proc, call'[q] # Idle
               PROVE  \A i \in DOMAIN audit' : audit'[i].order # call'[q].order
    BY DEF FinishedIsOver, Finished
  <2>1. q # p /\ call'[q] = call[q] /\ call[q] # Idle /\ call[q].order \in Order
    BY <1>1, <1>2, CallType
  <2>2. ~Finished(call[q].order) /\ call[q].order # o
    BY <1>1, <2>1 DEF DInv, FinishedIsOver, SInv, OneUse
  <2>3. \A i \in DOMAIN audit' : audit'[i].order # call[q].order
    BY <1>3, <2>2 DEF Finished
  <2> QED
    BY <2>1, <2>3
<1>7. /\ fill[o] # NotBooked /\ fill[o].day <= call[p].day /\ call[p].day <= today
      /\ o \in reserved[call[p].day] /\ fill[o].day \in Int
  <2>1. fill[o].day \in Int
    BY <1>1 DEF TypeOK, Booking, Day, NoDay
  <2> QED
    BY <1>1, <2>1 DEF DInv, SInv, CommitsAreExecuted, BookedByThen, DaysPassed, HeldOnItsDay
<1>8. EventsAreTrue'
  <2> SUFFICES ASSUME NEW i \in DOMAIN audit'
               PROVE  /\ fill[audit'[i].order] # NotBooked
                      /\ fill[audit'[i].order].day <= audit'[i].day
                      /\ audit'[i].day <= today
                      /\ audit'[i].amount = SpendDelta[audit'[i].order]
    BY <1>1 DEF EventsAreTrue
  <2>1. CASE i \in DOMAIN audit /\ audit'[i] = audit[i]
    BY <2>1 DEF DInv, EventsAreTrue
  <2>2. CASE audit'[i] = e
    BY <1>1, <1>7, <2>2 DEF Day
  <2> QED
    BY <1>3, <2>1, <2>2
<1>9. DueIsCounted'
  <2>1. fill[o].day = today => o \in reserved[today]
    <3>1. fill[o].day = today => call[p].day = today
      BY <1>1, <1>7 DEF Day
    <3> QED
      BY <1>7, <3>1
  <2>2. \A c \in Currency : DueToday(c)' = DueToday(c)
    BY <1>1, <1>5, <2>1 DEF DueToday
  <2> QED
    BY <1>1, <2>2 DEF DInv, DueIsCounted
<1> QED
  BY <1>4, <1>6, <1>8, <1>9 DEF DInv

\* A restart forgets the reservations, and rebuilds from the audit log a counter
\* that covers the finished orders of the day.
LEMMA RestartCount ==
  ASSUME NoCredit, DInv, SInv', Restart
  PROVE  DInv'
<1>1. /\ TypeOK /\ TypeOK' /\ today \in Day /\ audit \in Seq(Event)
      /\ \A q \in Proc : call'[q] = Idle
      /\ \A d \in Day : reserved'[d] = {}
      /\ orphan' = orphan \cup Sent(Proc)
      /\ UNCHANGED <<today, fill, audit>>
  BY DEF Restart, DInv, SInv, TypeOK
<1>2. HeldOnItsDay' /\ BookedByThen' /\ FinishedIsOver'
  BY <1>1 DEF HeldOnItsDay, BookedByThen, FinishedIsOver, Busy, At
<1>3. DaysPassed'
  <2>1. \A r \in Sent(Proc) : \E q \in Proc : call[q] # Idle /\ r.day = call[q].day
    BY DEF Sent, At, RequestOf
  <2>2. \A r \in orphan' : r.day <= today
    BY <1>1, <2>1 DEF DInv, DaysPassed
  <2> QED
    BY <1>1, <2>2 DEF DInv, DaysPassed
<1>4. EventsAreTrue'
  <2>1. today <= today'
    BY <1>1 DEF Day
  <2> QED
    BY <1>1, <2>1, EventsStayTrue DEF DInv
<1>5. DueIsCounted'
  <2> SUFFICES ASSUME NEW c \in Currency
               PROVE  Total(DueToday(c)', SpendDelta) <= spent'[today][c]
    BY <1>1 DEF DueIsCounted
  <2>1. DueToday(c)' \subseteq Logged(audit, today, c)
    <3> SUFFICES ASSUME NEW o \in Order, CurrencyOf(o) = c, Finished(o), fill[o].day = today
                 PROVE  o \in Logged(audit, today, c)
      BY <1>1 DEF DueToday, Finished
    <3>1. PICK i \in DOMAIN audit : audit[i].order = o
      BY DEF Finished
    <3>2. fill[o].day <= audit[i].day /\ audit[i].day <= today
      BY <3>1 DEF DInv, EventsAreTrue
    <3>3. audit[i].day \in Int /\ today \in Int
      BY <1>1, EventType DEF Day
    <3>4. audit[i].day = today
      BY <3>2, <3>3
    <3> QED
      BY <3>1, <3>4 DEF Logged
  <2>2. \A i \in DOMAIN audit : audit[i].amount = SpendDelta[audit[i].order]
    BY DEF DInv, EventsAreTrue
  <2>3. Total(Logged(audit, today, c), SpendDelta) <= SpendIn(audit, today)[c]
    BY <1>1, <2>2, SpendInCovers DEF NoCredit
  <2>4. spent'[today] = SpendIn(audit, today)
    BY <1>1 DEF Restart, EmptyCounters
  <2>5. Logged(audit, today, c) \in SUBSET Order
    BY DEF Logged
  <2>6. spent'[today][c] \in Int
    BY <1>1 DEF TypeOK, StoreTypeOK
  <2>7. Total(Logged(audit, today, c), SpendDelta) <= spent'[today][c]
    BY <2>3, <2>4
  <2> QED
    BY <2>1, <2>5, <2>6, <2>7, FewerCovered
<1> QED
  BY <1>2, <1>3, <1>4, <1>5 DEF DInv

\* Nothing is due on a day that begins.
LEMMA NextDayCount ==
  ASSUME DInv, SInv', NextDay
  PROVE  DInv'
<1>1. /\ TypeOK /\ TypeOK' /\ today \in Int /\ today' = today + 1 /\ today' \in Day
      /\ UNCHANGED <<spent, reserved, token, call, orphan, fill, audit>>
  BY DEF NextDay, DInv, SInv, TypeOK, Day
<1>2. HeldOnItsDay' /\ BookedByThen' /\ FinishedIsOver'
  BY <1>1 DEF DInv, HeldOnItsDay, BookedByThen, FinishedIsOver, Finished, Busy, At
<1>3. DaysPassed'
  <2>1. \A q \in Proc : call[q] # Idle => call[q].day \in Int
    BY <1>1, CallType DEF Day
  <2>2. \A r \in orphan : r.day \in Int
    BY <1>1 DEF TypeOK, Request, Day
  <2>3. \A o \in Order : fill[o].day \in Int
    BY <1>1 DEF TypeOK, Booking, Day, NoDay
  <2>4. \A n \in Int : n <= today => n <= today + 1
    BY <1>1
  <2>5. \A d \in Day : d > today + 1 => d > today
    BY <1>1 DEF Day
  <2> QED
    BY <1>1, <2>1, <2>2, <2>3, <2>4, <2>5 DEF DInv, DaysPassed
<1>4. EventsAreTrue'
  BY <1>1, EventsStayTrue DEF DInv
<1>5. DueIsCounted'
  <2> SUFFICES ASSUME NEW c \in Currency
               PROVE  Total(DueToday(c)', SpendDelta) <= spent'[today'][c]
    BY DEF DueIsCounted
  <2>1. reserved'[today'] = {} /\ \A o \in Order : fill'[o].day # today'
    <3>1. today' > today /\ \A n \in Int : n <= today => n # today'
      BY <1>1
    <3>2. \A o \in Order : fill[o].day \in Int
      BY <1>1 DEF TypeOK, Booking, Day, NoDay
    <3> QED
      BY <1>1, <3>1, <3>2 DEF DInv, DaysPassed
  <2>2. DueToday(c)' = {}
    BY <2>1 DEF DueToday
  <2>3. spent'[today'][c] \in Nat
    BY <1>1 DEF TypeOK, StoreTypeOK
  <2> QED
    BY <2>2, <2>3, TotalEmpty
<1> QED
  BY <1>2, <1>3, <1>4, <1>5 DEF DInv

\* Every step keeps the invariant of the day's count.
LEMMA StepCount ==
  ASSUME SerialTokens, NoCredit, DInv, [Next]_vars
  PROVE  DInv'
<1>1. TypeOK /\ SInv /\ SInv'
  BY StepSuccess DEF DInv, SInv
<1>2. ASSUME NEW o \in Order, Preview(o) \/ PreviewConditional(o) \/ Expire(o) PROVE DInv'
  BY <1>1, <1>2, TossKeepsCount DEF Preview, PreviewConditional, IssueToken, Expire, Busy, At
<1>3. ASSUME NEW p \in Proc, NEW o \in Order, NEW tool \in Tool, Start(p, o, tool) PROVE DInv'
  BY <1>1, <1>3, StartCount
<1>4. ASSUME NEW p \in Proc, CallStep(p) PROVE DInv'
  <2>1. CASE MakeReservation(p)
    BY <1>1, <2>1, ReservationCount
  <2>2. CASE ReserveCutShort(p)
    BY <1>1, <2>2, CutReserveCount
  <2>3. CASE Settle(p) \/ ReleaseCutShort(p)
    BY <1>1, <2>3, SettleCount
  <2>4. CASE Record(p)
    BY <1>1, <2>4, RecordCount
  <2>5. CASE OverLimit(p) \/ Accepted(p) \/ Refused(p) \/ RefusedAsDuplicate(p) \/ Unclear(p)
             \/ Commit(p) \/ Abort(p)
    <3>1. call[p] # Idle /\ UNCHANGED <<spent, reserved, today, audit>>
      BY <2>5 DEF OverLimit, Accepted, Refused, RefusedAsDuplicate, Unclear, Commit, Abort, At
    <3>2. \/ Finish(p)
          \/ Goto(p, "refused")
          \/ Goto(p, "filled") /\ At(p, "sent")
          \/ Goto(p, "committed") /\ At(p, "filled")
      <4>1. CASE OverLimit(p) \/ Abort(p)
        BY <4>1 DEF OverLimit, Abort
      <4>2. CASE Commit(p)
        BY <4>2 DEF Commit
      <4>3. CASE Accepted(p) \/ Refused(p) \/ RefusedAsDuplicate(p) \/ Unclear(p)
        <5>1. At(p, "sent") /\ \E answer \in {"ok", "unusable", "refused", "duplicate",
                                              "unavailable", "timeout"} : Answered(p, answer)
          BY <4>3 DEF Accepted, Refused, RefusedAsDuplicate, Unclear
        <5> QED
          BY <5>1 DEF Answered
      <4> QED
        BY <2>5, <4>1, <4>2, <4>3
    <3>3. \A q \in Proc : call'[q] # Idle =>
            /\ call[q] # Idle
            /\ call'[q].order = call[q].order
            /\ call'[q].day = call[q].day
            /\ Busy(q)' => Busy(q)
      <4>1. PICK where \in {"refused", "filled", "committed"} :
              Finish(p) \/ (Goto(p, where) /\ (where = "refused" \/ Busy(p)))
        BY <3>2 DEF Busy
      <4>2. /\ \A q \in Proc : q # p => call'[q] = call[q]
            /\ \A q \in Proc : call'[q] # Idle =>
                 call[q] # Idle /\ call'[q].order = call[q].order /\ call'[q].day = call[q].day
            /\ At(p, where)' \/ call'[p] = Idle
        BY <1>1, <3>1, <4>1, CallMoves
      <4>3. Busy(p)' => Busy(p)
        <5>1. CASE where = "refused"
          BY <4>2, <5>1 DEF Busy, At
        <5>2. CASE Busy(p)
          BY <5>2
        <5>3. CASE Finish(p)
          BY <1>1, <5>3 DEF Finish, TypeOK, Busy, At
        <5> QED
          BY <4>1, <5>1, <5>2, <5>3
      <4>4. \A q \in Proc : q # p => (Busy(q)' => Busy(q))
        BY <4>2 DEF Busy, At
      <4> QED
        BY <4>2, <4>3, <4>4
    <3>4. \A x \in orphan' \ orphan : \E q \in Proc : At(q, "sent") /\ x = RequestOf(q)
      <4>1. orphan' = orphan \/ (At(p, "sent") /\ orphan' \subseteq orphan \cup {RequestOf(p)})
        BY <2>5 DEF OverLimit, Accepted, Refused, RefusedAsDuplicate, Unclear, Commit, Abort, Sent
      <4> QED
        BY <4>1
    <3>5. UNCHANGED fill \/ (At(p, "sent") /\ Execute(RequestOf(p)) /\ RequestOf(p) \in Request)
      BY <1>1, <2>5, <3>1, CallType DEF OverLimit, Accepted, Refused, RefusedAsDuplicate, Unclear,
                                        Commit, Abort
    <3> QED
      BY <1>1, <3>1, <3>3, <3>4, <3>5, TossKeepsCount
  <2> QED
    BY <1>4, <2>1, <2>2, <2>3, <2>4, <2>5 DEF CallStep
<1>5. ASSUME NEW r \in Request, LateExecution(r) \/ LateLoss(r) PROVE DInv'
  <2>1. /\ r \in orphan /\ orphan' \subseteq orphan
        /\ UNCHANGED fill \/ Execute(r)
        /\ UNCHANGED <<spent, reserved, today, call, audit>>
    BY <1>5 DEF LateExecution, LateLoss
  <2> QED
    BY <1>1, <2>1, TossKeepsCount DEF Busy, At
<1>6. CASE Restart
  BY <1>1, <1>6, RestartCount
<1>7. CASE NextDay
  BY <1>1, <1>7, NextDayCount
<1>8. CASE UNCHANGED vars
  BY <1>1, <1>8, TossKeepsCount DEF vars, Busy, At
<1> QED
  BY <1>2, <1>3, <1>4, <1>5, <1>6, <1>7, <1>8 DEF Next

\* The initial state has nothing to count.
LEMMA InitCount ==
  ASSUME Init
  PROVE  DInv
<1>1. SInv
  BY InitSuccess
<1>2. /\ TypeOK /\ today = 0 /\ audit = <<>> /\ \A p \in Proc : call[p] = Idle
      /\ \A d \in Day : reserved[d] = {}
      /\ \A o \in Order : fill[o].day = -1
      /\ orphan = {}
  BY <1>1 DEF Init, StoreInit, SInv, NotBooked, NoDay
<1>3. HeldOnItsDay /\ DaysPassed /\ BookedByThen /\ FinishedIsOver /\ EventsAreTrue
  BY <1>2 DEF HeldOnItsDay, DaysPassed, BookedByThen, FinishedIsOver, EventsAreTrue, Busy, At
<1>4. ASSUME NEW c \in Currency PROVE Total(DueToday(c), SpendDelta) <= spent[today][c]
  <2>1. DueToday(c) = {}
    BY <1>2 DEF DueToday, Finished, Day
  <2>2. today \in Day /\ spent[today][c] \in Nat
    BY <1>2 DEF TypeOK, StoreTypeOK
  <2> QED
    BY <2>1, <2>2, TotalEmpty
<1> QED
  BY <1>1, <1>3, <1>4 DEF DInv, DueIsCounted

\* Today's counter covers the orders charged to today whose tool call finished,
\* across any number of restarts, with either backend.
THEOREM FinishedIsAlwaysCountedToday ==
  ASSUME SerialTokens, NoCredit
  PROVE  Spec => []FinishedIsCountedToday
<1>1. Init => DInv
  BY InitCount
<1>2. DInv /\ [Next]_vars => DInv'
  BY StepCount
<1>3. DInv => FinishedIsCountedToday
  <2> SUFFICES ASSUME DInv, NEW c \in Currency
               PROVE  Total({o \in Order : fill[o].day = today /\ CurrencyOf(o) = c /\ Finished(o)},
                            SpendDelta) <= spent[today][c]
    BY DEF FinishedIsCountedToday
  <2> DEFINE S == {o \in Order : fill[o].day = today /\ CurrencyOf(o) = c /\ Finished(o)}
  <2>1. S \subseteq DueToday(c) /\ DueToday(c) \in SUBSET Order
    BY DEF DueToday
  <2>2. Total(DueToday(c), SpendDelta) <= spent[today][c] /\ spent[today][c] \in Int
    BY DEF DInv, DueIsCounted, SInv, TypeOK, StoreTypeOK
  <2> HIDE DEF S
  <2>3. Total(S, SpendDelta) <= spent[today][c]
    BY <2>1, <2>2, FewerCovered
  <2> QED
    BY <2>3 DEF S
<1> QED
  BY <1>1, <1>2, <1>3, PTL DEF Spec
=============================================================================
