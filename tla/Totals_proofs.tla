---------------------------- MODULE Totals_proofs ----------------------------
(***************************************************************************)
(* What a sum of amounts does when one row changes.                        *)
(***************************************************************************)
EXTENDS Totals, FiniteSetTheorems, TLAPS

(* The units of one row are as many as its amount.  *)
LEMMA RowUnits ==
  ASSUME NEW x, NEW n \in Nat
  PROVE  /\ IsFiniteSet({x} \X (1..n))
         /\ Cardinality({x} \X (1..n)) = n
<1>1. IsFiniteSet(1..n) /\ Cardinality(1..n) = n
  BY FS_Interval
<1>2. IsFiniteSet({x}) /\ Cardinality({x}) = 1
  BY FS_Singleton
<1>3. /\ IsFiniteSet({x} \X (1..n))
      /\ Cardinality({x} \X (1..n)) = 1 * n
  BY <1>1, <1>2, FS_Product, ZenonT(60)
<1> QED
  BY <1>3

(* Disjoint finite sets add up.  *)
LEMMA DisjointUnion ==
  ASSUME NEW A, IsFiniteSet(A), NEW B, IsFiniteSet(B), A \cap B = {}
  PROVE  /\ IsFiniteSet(A \cup B)
         /\ Cardinality(A \cup B) = Cardinality(A) + Cardinality(B)
<1>1. Cardinality(A) \in Nat /\ Cardinality(B) \in Nat
  BY FS_CardinalityType
<1>2. Cardinality(A \cap B) = 0
  BY FS_EmptySet
<1>3. /\ IsFiniteSet(A \cup B)
      /\ Cardinality(A \cup B) = Cardinality(A) + Cardinality(B) - Cardinality(A \cap B)
  BY FS_Union
<1> QED
  BY <1>1, <1>2, <1>3

(* A column without amounts has no units: its sum is 0.  *)
LEMMA TotalZero ==
  ASSUME NEW S
  PROVE  /\ IsFiniteSet(Units([x \in S |-> 0]))
         /\ Total([x \in S |-> 0]) = 0
<1>1. Units([x \in S |-> 0]) = {}
  BY DEF Units
<1> QED
  BY <1>1, FS_EmptySet DEF Total

(* A finite column has a natural number as its sum.  *)
LEMMA TotalType ==
  ASSUME NEW f, IsFiniteSet(Units(f))
  PROVE  Total(f) \in Nat
BY FS_CardinalityType DEF Total

(* No row exceeds the sum, and a sum of 0 leaves every row at 0.  *)
LEMMA TotalRow ==
  ASSUME NEW S, NEW f \in [S -> Nat], IsFiniteSet(Units(f)), NEW x \in S
  PROVE  f[x] <= Total(f)
<1>1. {x} \X (1..f[x]) \subseteq Units(f)
  BY DEF Units
<1>2. Cardinality({x} \X (1..f[x])) = f[x]
  BY RowUnits
<1>3. Cardinality({x} \X (1..f[x])) <= Cardinality(Units(f))
  BY <1>1, FS_Subset
<1> QED
  BY <1>2, <1>3 DEF Total

(* Setting the amount of one row moves the sum by the difference.  *)
LEMMA TotalUpdate ==
  ASSUME NEW S, NEW f \in [S -> Nat], IsFiniteSet(Units(f)),
         NEW x \in S, NEW n \in Nat,
         NEW g \in [S -> Nat], g[x] = n, \A y \in S \ {x} : g[y] = f[y]
  PROVE  /\ IsFiniteSet(Units(g))
         /\ Total(g) = (Total(f) - f[x]) + n
<1> DEFINE rest == {u \in Units(f) : u[1] # x}
           old  == {x} \X (1..f[x])
           new  == {x} \X (1..n)
<1>1. Units(f) = rest \cup old /\ rest \cap old = {}
  BY DEF Units
<1>2. Units(g) = rest \cup new /\ rest \cap new = {}
  <2>1. ASSUME NEW u \in Units(g) PROVE u \in rest \cup new
    <3>1. PICK y \in S : u \in {y} \X (1..g[y])
      BY DEF Units
    <3>2. CASE y = x
      BY <3>1, <3>2
    <3>3. CASE y # x
      BY <3>1, <3>3 DEF Units
    <3> QED
      BY <3>2, <3>3
  <2>2. ASSUME NEW u \in rest PROVE u \in Units(g)
    <3>1. PICK y \in S : u \in {y} \X (1..f[y])
      BY DEF Units
    <3>2. y # x
      BY <3>1
    <3> QED
      BY <3>1, <3>2 DEF Units
  <2>3. new \subseteq Units(g)
    BY DEF Units
  <2>4. rest \cap new = {}
    OBVIOUS
  <2> QED
    BY <2>1, <2>2, <2>3, <2>4
<1>3. IsFiniteSet(rest)
  BY FS_Subset
<1>4. /\ IsFiniteSet(old) /\ Cardinality(old) = f[x]
      /\ IsFiniteSet(new) /\ Cardinality(new) = n
  BY RowUnits
<1>5. /\ IsFiniteSet(rest \cup old)
      /\ Cardinality(rest \cup old) = Cardinality(rest) + Cardinality(old)
  <2> HIDE DEF rest, old, new
  <2> QED
    BY <1>1, <1>3, <1>4, DisjointUnion
<1>6. /\ IsFiniteSet(rest \cup new)
      /\ Cardinality(rest \cup new) = Cardinality(rest) + Cardinality(new)
  <2> HIDE DEF rest, old, new
  <2> QED
    BY <1>2, <1>3, <1>4, DisjointUnion
<1>7. Cardinality(rest) \in Nat /\ f[x] \in Nat
  BY <1>3, FS_CardinalityType
<1> HIDE DEF rest, old, new
<1> QED
  BY <1>1, <1>2, <1>4, <1>5, <1>6, <1>7 DEF Total

(* Multiplication by a size, stated apart: the solvers need these facts of   *)
(* nonlinear arithmetic by themselves.                                      *)
LEMMA ProductType ==
  ASSUME NEW m \in Nat, NEW n \in Nat
  PROVE  m * n \in Nat
OBVIOUS

LEMMA ProductAdd ==
  ASSUME NEW m \in Nat, NEW a \in Nat, NEW b \in Nat
  PROVE  m * (a + b) = m * a + m * b
OBVIOUS
=============================================================================
