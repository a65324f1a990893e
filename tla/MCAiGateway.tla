----------------------------- MODULE MCAiGateway -----------------------------
(***************************************************************************)
(* Gateway calls on a small wallet.  In OwnTrace and Independent every key *)
(* has a trace of its own and is sent by itself, as most callers do; in    *)
(* OneTrace and PlanThenSynthesis two keys share a trace and the second    *)
(* follows the answer to the first, as the two requests of a chat do.      *)
(***************************************************************************)
EXTENDS AiGateway, TLC

CONSTANTS k1, k2, t1, t2, c1, c2, c3, p1, p2

MCKey == {k1, k2}
MCTrace == {t1, t2}
TwoCalls == {c1, c2}
ThreeCalls == {c1, c2, c3}
OnePayment == {p1}
TwoPayments == {p1, p2}
OwnTrace == k1 :> t1 @@ k2 :> t2
OneTrace == k1 :> t1 @@ k2 :> t1
Independent == k1 :> None @@ k2 :> None
PlanThenSynthesis == k1 :> None @@ k2 :> k1
CallSymmetry == Permutations(ThreeCalls)
=============================================================================
