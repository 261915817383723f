------------------------------ MODULE Amounts ------------------------------
(***************************************************************************)
(* Sums of signed amounts over finite sets, without recursion.             *)
(*                                                                         *)
(* The program adds Decimal amounts.  Here an amount is an integer number  *)
(* of units and the sum of an amount over a set is the number of its       *)
(* increasing units minus the number of its decreasing units: counting     *)
(* units needs no induction, so what a sum does when an element joins or   *)
(* leaves the set is a fact about cardinalities.                           *)
(***************************************************************************)
EXTENDS Integers, FiniteSets

CONSTANT Ceiling   \* no single amount is larger than this, up or down

ASSUME CeilingAssumption == Ceiling \in Nat

Amount == -Ceiling .. Ceiling

Units(S) == S \X (1 .. Ceiling)

Ups(S, amount)   == {u \in Units(S) : u[2] <= amount[u[1]]}
Downs(S, amount) == {u \in Units(S) : u[2] + amount[u[1]] <= 0}

\* The sum of amount[x] over the x of the finite set S.
Total(S, amount) == Cardinality(Ups(S, amount)) - Cardinality(Downs(S, amount))

\* The same for amounts that only grow up and have no ceiling: one column each.
Columns(S, amount) == UNION {{x} \X (1 .. amount[x]) : x \in S}

ColumnSum(S, amount) == Cardinality(Columns(S, amount))
=============================================================================
