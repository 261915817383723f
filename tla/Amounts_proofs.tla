--------------------------- MODULE Amounts_proofs ---------------------------
(* What Total does when an element joins or leaves a set: the arithmetic     *)
(* every accounting proof of the project rests on.  And induction over the   *)
(* numbers for a set in place of a predicate, which the provers can instantiate. *)
EXTENDS Amounts, FiniteSetTheorems, WellFoundedInduction, TLAPS

USE CeilingAssumption

\* A column of n units, the contribution of one element, has n members.
LEMMA ColumnSize ==
  ASSUME NEW x, NEW n \in Nat
  PROVE  IsFiniteSet({x} \X (1 .. n)) /\ Cardinality({x} \X (1 .. n)) = n
<1>1. IsFiniteSet({x}) /\ Cardinality({x}) = 1
  BY FS_Singleton
<1>2. IsFiniteSet(1 .. n) /\ Cardinality(1 .. n) = n
  BY FS_Interval
<1>3. /\ IsFiniteSet({x} \X (1 .. n))
      /\ Cardinality({x} \X (1 .. n)) = Cardinality({x}) * Cardinality(1 .. n)
  BY <1>1, <1>2, FS_Product
<1> QED
  BY <1>1, <1>2, <1>3

\* Finite sets have finitely many units, so their sums are integers.
LEMMA UnitsFinite ==
  ASSUME NEW S, IsFiniteSet(S), NEW amount
  PROVE  /\ IsFiniteSet(Ups(S, amount))
         /\ IsFiniteSet(Downs(S, amount))
         /\ Total(S, amount) \in Int
<1>1. IsFiniteSet(1 .. Ceiling)
  BY FS_Interval
<1>2. IsFiniteSet(Units(S))
  BY <1>1, FS_Product DEF Units
<1>3. IsFiniteSet(Ups(S, amount)) /\ IsFiniteSet(Downs(S, amount))
  BY <1>2, FS_Subset DEF Ups, Downs
<1>4. Cardinality(Ups(S, amount)) \in Nat /\ Cardinality(Downs(S, amount)) \in Nat
  BY <1>3, FS_CardinalityType
<1> QED
  BY <1>3, <1>4 DEF Total

\* The sum over nothing is zero.
LEMMA TotalEmpty ==
  ASSUME NEW amount
  PROVE  Total({}, amount) = 0
<1>1. Ups({}, amount) = {} /\ Downs({}, amount) = {}
  BY DEF Ups, Downs, Units
<1> QED
  BY <1>1, FS_EmptySet DEF Total

\* An element that joins a set adds its amount to the sum.
LEMMA TotalAdd ==
  ASSUME NEW T, NEW amount \in [T -> Amount],
         NEW S \in SUBSET T, IsFiniteSet(S), NEW x \in T, x \notin S
  PROVE  Total(S \cup {x}, amount) = Total(S, amount) + amount[x]
<1> DEFINE up   == IF amount[x] > 0 THEN amount[x] ELSE 0
           down == IF amount[x] < 0 THEN -amount[x] ELSE 0
<1>1. amount[x] \in Int /\ -Ceiling <= amount[x] /\ amount[x] <= Ceiling
  BY DEF Amount
<1>2. up \in 0 .. Ceiling /\ down \in 0 .. Ceiling /\ up - down = amount[x]
  BY <1>1
<1>3. Ups(S \cup {x}, amount) = Ups(S, amount) \cup ({x} \X (1 .. up))
  BY <1>1, <1>2 DEF Ups, Units
<1>4. Downs(S \cup {x}, amount) = Downs(S, amount) \cup ({x} \X (1 .. down))
  BY <1>1, <1>2 DEF Downs, Units
<1>5. Ups(S, amount) \cap ({x} \X (1 .. up)) = {} /\ Downs(S, amount) \cap ({x} \X (1 .. down)) = {}
  BY DEF Ups, Downs, Units
<1> HIDE DEF up, down
<1>6. /\ Cardinality({x} \X (1 .. up)) = up /\ IsFiniteSet({x} \X (1 .. up))
      /\ Cardinality({x} \X (1 .. down)) = down /\ IsFiniteSet({x} \X (1 .. down))
  <2>1. up \in Nat /\ down \in Nat
    BY <1>2
  <2> QED
    BY <2>1, ColumnSize
<1>7. IsFiniteSet(Ups(S, amount)) /\ IsFiniteSet(Downs(S, amount))
  BY UnitsFinite
<1>8. Cardinality({}) = 0
  BY FS_EmptySet
<1>9. Cardinality(Ups(S \cup {x}, amount)) = Cardinality(Ups(S, amount)) + up
  <2>1. Cardinality(Ups(S, amount) \cup ({x} \X (1 .. up)))
          = Cardinality(Ups(S, amount)) + Cardinality({x} \X (1 .. up))
            - Cardinality(Ups(S, amount) \cap ({x} \X (1 .. up)))
    BY <1>6, <1>7, FS_Union
  <2>2. Cardinality(Ups(S, amount)) \in Nat
    BY <1>7, FS_CardinalityType
  <2>3. Cardinality(Ups(S, amount) \cap ({x} \X (1 .. up))) = 0
    BY <1>5, <1>8
  <2>4. Cardinality(Ups(S \cup {x}, amount)) = Cardinality(Ups(S, amount) \cup ({x} \X (1 .. up)))
    BY <1>3
  <2> QED
    BY <1>2, <1>6, <2>1, <2>2, <2>3, <2>4
<1>10. Cardinality(Downs(S \cup {x}, amount)) = Cardinality(Downs(S, amount)) + down
  <2>1. Cardinality(Downs(S, amount) \cup ({x} \X (1 .. down)))
          = Cardinality(Downs(S, amount)) + Cardinality({x} \X (1 .. down))
            - Cardinality(Downs(S, amount) \cap ({x} \X (1 .. down)))
    BY <1>6, <1>7, FS_Union
  <2>2. Cardinality(Downs(S, amount)) \in Nat
    BY <1>7, FS_CardinalityType
  <2>3. Cardinality(Downs(S, amount) \cap ({x} \X (1 .. down))) = 0
    BY <1>5, <1>8
  <2>4. Cardinality(Downs(S \cup {x}, amount)) = Cardinality(Downs(S, amount) \cup ({x} \X (1 .. down)))
    BY <1>4
  <2> QED
    BY <1>2, <1>6, <2>1, <2>2, <2>3, <2>4
<1>11. Cardinality(Ups(S, amount)) \in Nat /\ Cardinality(Downs(S, amount)) \in Nat
  BY <1>7, FS_CardinalityType
<1> QED
  BY <1>1, <1>2, <1>9, <1>10, <1>11 DEF Total

\* An element that leaves a set takes its amount out of the sum.
LEMMA TotalRemove ==
  ASSUME NEW T, NEW amount \in [T -> Amount],
         NEW S \in SUBSET T, IsFiniteSet(S), NEW x \in S
  PROVE  Total(S \ {x}, amount) = Total(S, amount) - amount[x]
<1>1. IsFiniteSet(S \ {x})
  BY FS_RemoveElement
<1>2. Total((S \ {x}) \cup {x}, amount) = Total(S \ {x}, amount) + amount[x]
  BY <1>1, TotalAdd, x \notin S \ {x}, S \ {x} \in SUBSET T, x \in T
<1>3. Total((S \ {x}) \cup {x}, amount) = Total(S, amount)
  <2>1. (S \ {x}) \cup {x} = S
    OBVIOUS
  <2> QED
    BY <2>1
<1>4. Total(S \ {x}, amount) \in Int /\ amount[x] \in Int
  BY <1>1, UnitsFinite DEF Amount
<1> QED
  BY <1>2, <1>3, <1>4

\* A larger set with amounts at least as large, none negative, has a larger sum.
LEMMA TotalMonotone ==
  ASSUME NEW T, NEW a \in [T -> Amount], NEW b \in [T -> Amount],
         NEW U \in SUBSET T, IsFiniteSet(U), NEW S \in SUBSET U,
         \A x \in S : a[x] <= b[x],
         \A x \in U : 0 <= b[x]
  PROVE  Total(S, a) <= Total(U, b)
<1>1. IsFiniteSet(S)
  BY FS_Subset
<1>2. Downs(U, b) = {}
  BY DEF Downs, Units, Amount
<1>3. Ups(S, a) \subseteq Ups(U, b)
  BY DEF Ups, Units, Amount
<1>4. IsFiniteSet(Ups(U, b)) /\ IsFiniteSet(Ups(S, a)) /\ IsFiniteSet(Downs(S, a))
  BY <1>1, UnitsFinite
<1>5. Cardinality(Ups(S, a)) <= Cardinality(Ups(U, b))
  BY <1>3, <1>4, FS_Subset
<1>6. /\ Cardinality(Ups(S, a)) \in Nat /\ Cardinality(Ups(U, b)) \in Nat
      /\ Cardinality(Downs(S, a)) \in Nat /\ Cardinality({}) = 0
  BY <1>4, FS_CardinalityType, FS_EmptySet
<1> QED
  BY <1>2, <1>5, <1>6 DEF Total
-----------------------------------------------------------------------------
(* Sums of columns. *)

\* Nothing is summed over the empty set.
LEMMA SumEmpty ==
  ASSUME NEW amount
  PROVE  IsFiniteSet(Columns({}, amount)) /\ ColumnSum({}, amount) = 0
BY FS_EmptySet DEF ColumnSum, Columns

\* A set of columns splits into the column of one element and the others.
LEMMA SumSplit ==
  ASSUME NEW T, NEW amount \in [T -> Nat], NEW S \in SUBSET T, NEW x \in T,
         IsFiniteSet(Columns(S \ {x}, amount))
  PROVE  /\ IsFiniteSet(Columns(S, amount))
         /\ ColumnSum(S \ {x}, amount) \in Nat
         /\ ColumnSum(S, amount) = ColumnSum(S \ {x}, amount) + (IF x \in S THEN amount[x] ELSE 0)
<1>1. ColumnSum(S \ {x}, amount) \in Nat
  BY FS_CardinalityType DEF ColumnSum
<1>2. CASE x \notin S
  <2>1. S \ {x} = S
    BY <1>2
  <2> QED
    BY <1>1, <1>2, <2>1
<1>3. CASE x \in S
  <2> DEFINE others == Columns(S \ {x}, amount)
             column == {x} \X (1 .. amount[x])
  <2>1. Columns(S, amount) = others \cup column /\ others \cap column = {}
    BY <1>3 DEF Columns
  <2>2. IsFiniteSet(column) /\ Cardinality(column) = amount[x]
    BY ColumnSize
  <2>3. /\ IsFiniteSet(others \cup column)
        /\ Cardinality(others \cup column)
             = Cardinality(others) + Cardinality(column) - Cardinality(others \cap column)
    BY <2>2, FS_Union
  <2>4. Cardinality(others \cap column) = 0
    BY <2>1, FS_EmptySet
  <2> HIDE DEF others, column
  <2> QED
    BY <1>1, <1>3, <2>1, <2>2, <2>3, <2>4 DEF others, ColumnSum
<1> QED
  BY <1>2, <1>3

\* Two sums that differ in one element only differ by what it adds to each.
LEMMA SumChange ==
  ASSUME NEW T, NEW a \in [T -> Nat], NEW b \in [T -> Nat],
         NEW S \in SUBSET T, NEW U \in SUBSET T, NEW x \in T,
         S \ {x} = U \ {x},
         \A y \in T : y # x => a[y] = b[y],
         IsFiniteSet(Columns(S, a))
  PROVE  /\ IsFiniteSet(Columns(U, b))
         /\ ColumnSum(S, a) \in Nat
         /\ ColumnSum(U, b) + (IF x \in S THEN a[x] ELSE 0) = ColumnSum(S, a) + (IF x \in U THEN b[x] ELSE 0)
<1>1. Columns(S \ {x}, a) = Columns(U \ {x}, b)
  <2>1. \A y \in S \ {x} : {y} \X (1 .. a[y]) = {y} \X (1 .. b[y])
    OBVIOUS
  <2> QED
    BY <2>1 DEF Columns
<1>2. IsFiniteSet(Columns(S \ {x}, a))
  <2>1. Columns(S \ {x}, a) \subseteq Columns(S, a)
    BY DEF Columns
  <2> QED
    BY <2>1, FS_Subset
<1>3. ColumnSum(U \ {x}, b) = ColumnSum(S \ {x}, a)
  BY <1>1 DEF ColumnSum
<1>4. /\ ColumnSum(S \ {x}, a) \in Nat
      /\ ColumnSum(S, a) = ColumnSum(S \ {x}, a) + (IF x \in S THEN a[x] ELSE 0)
  BY <1>2, SumSplit
<1>5. /\ IsFiniteSet(Columns(U, b))
      /\ ColumnSum(U, b) = ColumnSum(U \ {x}, b) + (IF x \in U THEN b[x] ELSE 0)
  BY <1>1, <1>2, SumSplit
<1>6. a[x] \in Nat /\ b[x] \in Nat
  OBVIOUS
<1> QED
  BY <1>3, <1>4, <1>5, <1>6
-----------------------------------------------------------------------------
(* A share of an amount. *)

\* A part of the quantity takes a part of the amount, the whole takes it all.
LEMMA ShareWithin ==
  ASSUME NEW n \in Nat, NEW whole \in Nat \ {0}, NEW part \in 0 .. whole
  PROVE  /\ (n * part) \div whole \in 0 .. n
         /\ part = whole => (n * part) \div whole = n
<1> DEFINE share == (n * part) \div whole
<1>1. n * part \in Nat /\ n * part <= n * whole
  OBVIOUS
<1>2. share \in Int /\ whole * share <= n * part /\ n * part < whole * (share + 1)
  BY <1>1
<1>3. 0 <= share
  <2>1. ASSUME share + 1 <= 0
        PROVE  whole * (share + 1) <= 0
    BY <1>2, <2>1
  <2> HIDE DEF share
  <2> QED
    BY <1>1, <1>2, <2>1
<1>4. share <= n
  <2>1. ASSUME n + 1 <= share
        PROVE  whole * (n + 1) <= whole * share
    BY <1>2, <2>1
  <2>2. whole * (n + 1) = n * whole + whole
    OBVIOUS
  <2>3. n * whole \in Nat /\ whole * (n + 1) \in Nat
    OBVIOUS
  <2> HIDE DEF share
  <2>4. whole * share \in Int
    BY <1>2
  <2> QED
    BY <1>1, <1>2, <2>1, <2>2, <2>3, <2>4
<1>5. ASSUME part = whole
      PROVE  share = n
  <2>1. ASSUME share + 1 <= n
        PROVE  whole * (share + 1) <= whole * n
    BY <1>2, <2>1
  <2>2. n * whole = whole * n /\ whole * n \in Nat
    OBVIOUS
  <2> HIDE DEF share
  <2>3. whole * (share + 1) \in Int
    BY <1>2
  <2> QED
    BY <1>2, <1>4, <1>5, <2>1, <2>2, <2>3
<1> HIDE DEF share
<1>6. share \in 0 .. n /\ (part = whole => share = n)
  BY <1>2, <1>3, <1>4, <1>5
<1> QED
  BY <1>6 DEF share
-----------------------------------------------------------------------------
(* Induction. *)

Less == {pair \in Nat \X Nat : pair[1] < pair[2]}

\* No sequence of numbers descends for ever.
LEMMA LessIsWellFounded == IsWellFoundedOn(Less, Nat)
<1>1. OpToRel(<, Nat) = Less
  BY DEF OpToRel, Less
<1> QED
  BY <1>1, NatLessThanWellFounded

\* A set of numbers has a least one.
LEMMA LeastNumber ==
  ASSUME NEW T \in SUBSET Nat, T # {}
  PROVE  \E m \in T : \A n \in T : m <= n
<1>1. PICK m \in T : \A n \in T : <<n, m>> \notin Less
  BY LessIsWellFounded, WFMin
<1>2. ASSUME NEW n \in T PROVE m <= n
  <2>1. ~(n < m)
    BY <1>1 DEF Less
  <2> QED
    BY <2>1
<1> QED
  BY <1>2

\* A set with 0 and the successor of each of its numbers has them all.
LEMMA NatSetInduction ==
  ASSUME NEW T, 0 \in T, \A n \in Nat : n \in T => n + 1 \in T
  PROVE  Nat \subseteq T
<1> SUFFICES ASSUME Nat \ T # {}
             PROVE  FALSE
  OBVIOUS
<1>1. PICK m \in Nat \ T : \A n \in Nat \ T : m <= n
  BY LeastNumber
<1>2. m - 1 \in Nat /\ ~(m <= m - 1) /\ (m - 1) + 1 = m
  BY <1>1
<1>3. m - 1 \in T
  BY <1>1, <1>2
<1> QED
  BY <1>1, <1>2, <1>3
=============================================================================
