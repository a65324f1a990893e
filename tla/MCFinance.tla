------------------------------ MODULE MCFinance ------------------------------
(***************************************************************************)
(* Two sessions on one income and one request of an expediente, the        *)
(* central movements and one bank line.                                    *)
(***************************************************************************)
EXTENDS ExpedienteFinance, TLC

CONSTANTS m1, m2, m3, b1, s1, s2, r1, p1

MCMovement == {m1, m2, m3}
MCBankLine == {b1}
MCBankAmount == b1 :> 1
MCAmount == {1}
MCDrafted == {"INGRESO"}
MCSession == {s1, s2}
MCRegistro == {r1}
MCProposal == {p1}
MCNone == {}
MCEditAmount == {2}
MCEditBankAmount == b1 :> 2
MCSymmetry == Permutations(MCMovement) \cup Permutations(MCSession)
=============================================================================
