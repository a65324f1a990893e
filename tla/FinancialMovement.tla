--------------------------- MODULE FinancialMovement ---------------------------
(***************************************************************************)
(* FinancialMovementService and BankReconciliationService: the ledger of   *)
(* movimientos_financieros, their distribution, internal receipt and       *)
(* counter-movement, and the bank lines they are reconciled with.          *)
(*                                                                         *)
(* Every method is one READ COMMITTED transaction: it takes the advisory   *)
(* lock of ITS operation on the row, reads, decides, and later writes by   *)
(* id alone.  The lock keys differ from one operation to the next, so two  *)
(* operations on one movement overlap: each is a Read and a Commit here.   *)
(* The reads of one include clause count as one, as do a transaction's     *)
(* writes and its commit.  A distribution is its sum, amounts are whole,   *)
(* and all movements are of the account whose bank lines are modelled.     *)
(***************************************************************************)
EXTENDS Integers, FiniteSets

CONSTANTS
  Movement,     \* ids of movements
  BankLine,     \* transacciones_estado_cuenta, imported beforehand
  BankAmount,   \* the amount of each
  Amount,       \* amounts that are entered
  Drafted,      \* natures of the movements that are drafted
  Session,      \* database sessions of the server
  None

ASSUME FinanceAssumption ==
  /\ Amount \subseteq Nat \ {0}
  /\ BankAmount \in [BankLine -> Amount]
  /\ Drafted \subseteq {"INGRESO", "EGRESO"}
  /\ None \notin Movement \cup BankLine

VARIABLES
  movement,    \* the row of each movement id
  reconciled,  \* conciliaciones_financieras: pairs <<movement, bank line>>
  bank,        \* estado of each bank line
  tx           \* the open transaction of each session

ledgerVars == <<movement, reconciled, bank, tx>>

-----------------------------------------------------------------------------
Mutable == {"BORRADOR", "PENDIENTE", "PENDIENTE_COMPROBANTE", "LISTO_APLICAR"}
Applied == {"APLICADO", "RECIBIDO", "VALIDADO"}
Nature == {"INGRESO", "EGRESO"}

Opposite(n) == IF n = "INGRESO" THEN "EGRESO" ELSE "INGRESO"

(* LIBRE: the id is not in use.  *)
Free == [estatus |-> "LIBRE", naturaleza |-> "INGRESO", monto |-> 0, distribuido |-> 0,
         comprobante |-> "NINGUNO", origen |-> None, expediente |-> FALSE, clave |-> None]

Balanced(m) == movement[m].distribuido = movement[m].monto

(* The operations of other modules are typed by what they extend.  *)
NoTx == [op |-> "none", id |-> None, other |-> None, importe |-> 0, vigente |-> FALSE]

(* The advisory lock of an operation on a row is held to the end of the     *)
(* transaction that took it.                                                *)
Unlocked(op, id) == \A s \in Session : tx[s].op = op => tx[s].id # id

(* Read, without waiting for another operation of the kind.  *)
OpenUnlocked(s, op, id, other, importe, vigente) ==
  /\ tx[s] = NoTx
  /\ tx' = [tx EXCEPT ![s] = [op |-> op, id |-> id, other |-> other,
                              importe |-> importe, vigente |-> vigente]]

(* Lock, read, and keep what was read.  *)
Open(s, op, id, other, importe, vigente) ==
  /\ tx[s] = NoTx
  /\ Unlocked(op, id)
  /\ tx' = [tx EXCEPT ![s] = [op |-> op, id |-> id, other |-> other,
                              importe |-> importe, vigente |-> vigente]]

Close(s, op) == tx[s].op = op /\ tx' = [tx EXCEPT ![s] = NoTx]

(* The transaction fails or its session is lost: nothing was written.  *)
Rollback(s) ==
  /\ tx[s] # NoTx
  /\ tx' = [tx EXCEPT ![s] = NoTx]
  /\ UNCHANGED <<movement, reconciled, bank>>

-----------------------------------------------------------------------------
(* The read of the central operations: assertCentralMutable.  *)
Central(m) == movement[m].estatus # "LIBRE" /\ ~movement[m].expediente

(* Mutant: the status of the old ledger is written.  *)
StatusOfOld(d, amount) == IF d = amount THEN "POR_VALIDAR" ELSE "BORRADOR"

StatusOf(d, amount) == IF d = amount THEN "PENDIENTE_COMPROBANTE" ELSE "BORRADOR"

(* A draft is created under the lock of its idempotency key, a movement id  *)
(* here: a repeated call finds it and changes nothing.  validateDistribution*)
(* refuses a distribution d that is empty or exceeds the amount.            *)
CreateDraft(m, n, amount, d) ==
  /\ movement[m].estatus = "LIBRE"
  /\ movement' = [movement EXCEPT ![m] =
       [Free EXCEPT !.estatus = StatusOf(d, amount), !.naturaleza = n,
                    !.monto = amount, !.distribuido = d]]
  /\ UNCHANGED <<reconciled, bank, tx>>

(* The new distribution is checked against the amount, and whether there is *)
(* a receipt to annul is read now.                                          *)
ReadReplaceDistribution(s, m, d) ==
  /\ Central(m) /\ movement[m].estatus \in Mutable
  /\ Open(s, "replaceDistribution", m, None, d, movement[m].comprobante = "VIGENTE")
  /\ UNCHANGED <<movement, reconciled, bank>>

CommitReplaceDistribution(s) ==
  LET m == tx[s].id IN
  /\ Close(s, "replaceDistribution")
  /\ movement' = [movement EXCEPT
       ![m].distribuido = tx[s].importe,
       ![m].comprobante = IF tx[s].vigente THEN "ANULADO" ELSE @,
       ![m].estatus = StatusOf(tx[s].importe, movement[m].monto)]
  /\ UNCHANGED <<reconciled, bank>>

ReadGenerateReceipt(s, m) ==
  /\ Central(m) /\ movement[m].estatus \in Mutable
  /\ movement[m].comprobante # "VIGENTE" /\ Balanced(m)
  /\ Open(s, "generateReceipt", m, None, 0, FALSE)
  /\ UNCHANGED <<movement, reconciled, bank>>

(* comprobantes_financieros.movimiento_id is unique: a movement whose       *)
(* receipt was annulled gets no other, and the transaction fails.           *)
CommitGenerateReceipt(s) ==
  LET m == tx[s].id IN
  /\ Close(s, "generateReceipt")
  /\ movement[m].comprobante = "NINGUNO"
  /\ movement' = [movement EXCEPT ![m].comprobante = "VIGENTE", ![m].estatus = "LISTO_APLICAR"]
  /\ UNCHANGED <<reconciled, bank>>

ReadApply(s, m) ==
  /\ Central(m) /\ movement[m].estatus \in Mutable
  /\ movement[m].comprobante = "VIGENTE" /\ Balanced(m)
  /\ Open(s, "apply", m, None, 0, FALSE)
  /\ UNCHANGED <<movement, reconciled, bank>>

CommitApply(s) ==
  /\ Close(s, "apply")
  /\ movement' = [movement EXCEPT ![tx[s].id].estatus = "APLICADO"]
  /\ UNCHANGED <<reconciled, bank>>

(* cancelDraft takes no lock at all.  *)
ReadCancelDraft(s, m) ==
  /\ Central(m) /\ movement[m].estatus \in Mutable
  /\ OpenUnlocked(s, "cancelDraft", m, None, 0, FALSE)
  /\ UNCHANGED <<movement, reconciled, bank>>

CommitCancelDraft(s) ==
  /\ Close(s, "cancelDraft")
  /\ movement' = [movement EXCEPT ![tx[s].id].estatus = "CANCELADO"]
  /\ UNCHANGED <<reconciled, bank>>

-----------------------------------------------------------------------------
(* The counter-movements of m.  *)
Reversals(m) == {c \in Movement : movement[c].origen = m}

ReadReverseApplied(s, m) ==
  /\ Central(m) /\ movement[m].estatus \in Applied
  /\ \A c \in Reversals(m) : movement[c].estatus # "APLICADO"
  /\ Balanced(m)
  /\ Open(s, "reverseApplied", m, None, movement[m].distribuido, FALSE)
  /\ UNCHANGED <<movement, reconciled, bank>>

(* The counter-movement c of m, of the given status and distribution.  *)
Reverse(m, c, estatus, d, comprobante) ==
  /\ movement[c].estatus = "LIBRE"
  /\ movement' = [movement EXCEPT
       ![c] = [estatus |-> estatus, naturaleza |-> Opposite(movement[m].naturaleza),
               monto |-> movement[m].monto, distribuido |-> d, comprobante |-> comprobante,
               origen |-> m, expediente |-> movement[m].expediente, clave |-> None],
       ![m].estatus = "REVERTIDO"]

CommitReverseApplied(s, c) ==
  /\ Close(s, "reverseApplied")
  /\ Reverse(tx[s].id, c, "APLICADO", tx[s].importe, "VIGENTE")
  /\ UNCHANGED <<reconciled, bank>>

-----------------------------------------------------------------------------
(* Mutant: two operators may match one bank line at the same time.  *)
ReadReconcileUnlocked(s, m, b) ==
  /\ movement[m].estatus \in Applied
  /\ bank[b] = "PENDIENTE" /\ movement[m].monto = BankAmount[b]
  /\ OpenUnlocked(s, "reconcile", b, m, 0, FALSE)
  /\ UNCHANGED <<movement, reconciled, bank>>

(* An applied movement and a pending bank line of the same amount.  *)
ReadReconcile(s, m, b) ==
  /\ movement[m].estatus \in Applied
  /\ bank[b] = "PENDIENTE" /\ movement[m].monto = BankAmount[b]
  /\ Open(s, "reconcile", b, m, 0, FALSE)
  /\ UNCHANGED <<movement, reconciled, bank>>

CommitReconcile(s) ==
  /\ Close(s, "reconcile")
  /\ reconciled' = reconciled \cup {<<tx[s].other, tx[s].id>>}
  /\ bank' = [bank EXCEPT ![tx[s].id] = "CONCILIADA"]
  /\ UNCHANGED movement

-----------------------------------------------------------------------------
LedgerInit ==
  /\ movement = [m \in Movement |-> Free]
  /\ reconciled = {}
  /\ bank = [b \in BankLine |-> "PENDIENTE"]
  /\ tx = [s \in Session |-> NoTx]

CentralStep(s, m) ==
  \/ \E d \in 1..movement[m].monto : ReadReplaceDistribution(s, m, d)
  \/ ReadGenerateReceipt(s, m) \/ ReadApply(s, m) \/ ReadCancelDraft(s, m)
  \/ ReadReverseApplied(s, m) \/ CommitReverseApplied(s, m)
  \/ \E b \in BankLine : ReadReconcile(s, m, b)

CentralCommit(s) ==
  \/ CommitReplaceDistribution(s) \/ CommitGenerateReceipt(s) \/ CommitApply(s)
  \/ CommitCancelDraft(s) \/ CommitReconcile(s)

LedgerNext ==
  \/ \E m \in Movement, n \in Drafted, amount \in Amount : \E d \in 1..amount : CreateDraft(m, n, amount, d)
  \/ \E s \in Session : Rollback(s) \/ CentralCommit(s) \/ \E m \in Movement : CentralStep(s, m)

-----------------------------------------------------------------------------
(* Whatever overlaps, a movement has at most one counter-movement in force, *)
(* of the opposite nature and of its amount: one applied amount is not      *)
(* given back twice.                                                        *)
OneActiveReversal ==
  \A m \in Movement :
    /\ Cardinality({c \in Reversals(m) : movement[c].estatus \in Applied}) <= 1
    /\ \A c \in Reversals(m) : movement[c].monto = movement[m].monto
                               /\ movement[c].naturaleza = Opposite(movement[m].naturaleza)

(* A bank line is CONCILIADA exactly when one movement, of its amount, is   *)
(* matched with it: of two matches made at once the second is refused.      *)
BankMatchedOnce ==
  \A b \in BankLine :
    LET matched == {m \in Movement : <<m, b>> \in reconciled} IN
    /\ Cardinality(matched) = IF bank[b] = "CONCILIADA" THEN 1 ELSE 0
    /\ \A m \in matched : movement[m].monto = BankAmount[b]

(* FINANCE_DOMAIN_AUDIT, invariants 2 and 3: what is distributed of an      *)
(* applied movement is exactly its amount, since only a movement that is    *)
(* not applied may be edited.                                               *)
AppliedIsBalanced ==
  \A m \in Movement : movement[m].estatus = "APLICADO" /\ ~movement[m].expediente => Balanced(m)
=============================================================================
