------------------------------ MODULE MCBilling ------------------------------
(***************************************************************************)
(* Billing and the wallet on small tables: two request keys and two        *)
(* payments, so that a top-up and its refund or chargeback fit.            *)
(***************************************************************************)
EXTENDS Billing, TLC

CONSTANTS k1, k2, t1, t2, p1, p2

MCKey == {k1, k2}
MCTrace == {t1, t2}
MCPayment == {p1, p2}
Symmetry == Permutations(MCKey) \cup Permutations(MCTrace) \cup Permutations(MCPayment)
=============================================================================
