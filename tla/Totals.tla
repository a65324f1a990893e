------------------------------- MODULE Totals -------------------------------
(***************************************************************************)
(* Sums of amounts.  The services add columns of integer minor units (AI   *)
(* balance, storage bytes) with SQL aggregates.  Here a column is a        *)
(* function from the rows of a table to Nat, and its sum is the number of  *)
(* single units in it: unit <<x, i>> is the i-th unit of row x.  Counting  *)
(* units instead of folding + over the rows keeps the sum within reach of  *)
(* the theorems on finite sets (Totals_proofs).                            *)
(***************************************************************************)
EXTENDS Integers, FiniteSets

(* The single units of a column.  *)
Units(f) == UNION {{x} \X (1..f[x]) : x \in DOMAIN f}

(* SELECT SUM(column), 0 when there is no row.  *)
Total(f) == Cardinality(Units(f))

(* The column f restricted to the rows in S, as a WHERE clause does.  *)
Where(f, S) == [x \in DOMAIN f |-> IF x \in S THEN f[x] ELSE 0]
=============================================================================
