----------------------------- MODULE MCInvoicing -----------------------------
(***************************************************************************)
(* Two sessions on two drafts that share an income and two payments, or on *)
(* one imported document.                                                  *)
(***************************************************************************)
EXTENDS Invoicing, TLC

CONSTANTS c1, c2, x1, i1, p1, p2, f1, f2, s1, s2

MCCfdi == {c1, c2, x1}
MCManual == {x1}
MCIngreso == {i1}
MCPago == {p1, p2}
MCFile == {f1, f2}
MCAmount == {2}
MCMetodo == c1 :> {"PPD"} @@ c2 :> {"PUE"} @@ x1 :> {"PPD"}
MCSession == {s1, s2}
MCSymmetry == Permutations(MCSession) \cup Permutations(MCFile) \cup Permutations(MCPago)
=============================================================================
