------------------------------ MODULE CreditSums ------------------------------
(***************************************************************************)
(* Sums of credits over a finite set, as SQL's sum() computes them.         *)
(*                                                                         *)
(* SumOver(f, S) counts units instead of folding: an element x weighing     *)
(* f[x] contributes the pairs <<x, 1>> .. <<x, f[x]>>.  Unlike a fold, its   *)
(* laws follow from those of Cardinality, so the ledger's invariants can be *)
(* proved for every number of calls.                                       *)
(***************************************************************************)
EXTENDS Naturals, FiniteSets

\* The credits of x, one by one.
UnitsOf(f, x) == {x} \X (1..f[x])

\* The credits of every element of S, one by one.
Units(f, S) == UNION {UnitsOf(f, x) : x \in S}

\* COALESCE(sum(f), 0) over the rows S.
SumOver(f, S) == Cardinality(Units(f, S))

===============================================================================
