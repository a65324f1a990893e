--------------------------- MODULE ExpedienteFinance ---------------------------
(***************************************************************************)
(* ExpedienteFinanceService over the ledger: the incomes that are reported *)
(* and the payments that are requested in an expediente, the movement each *)
(* is settled with, and the two routes of the expedientes controller that  *)
(* write movements of their own.                                           *)
(*                                                                         *)
(* expediente_ingresos_reportados and expediente_solicitudes_pago are one  *)
(* table here: they differ in the names of their states (PENDIENTE stands  *)
(* for PENDIENTE_APLICACION, SALDADO for APLICADO and PAGADA, ANULADO for  *)
(* ANULADA) and in where the settled amount comes from.  Its naturaleza    *)
(* says which of the two a row is.  An id stands for the idempotency key a *)
(* record, proposal or movement is created under.                          *)
(***************************************************************************)
EXTENDS FinancialMovement

CONSTANTS
  Registro,     \* ids of reported incomes and payment requests
  Proposal      \* ids of the AI's proposals

ASSUME RegistroAssumption ==
  /\ None \notin Registro
  /\ Registro \cap (Movement \cup BankLine) = {}

VARIABLES
  registro,    \* the row of each reported income and payment request
  propuesta    \* the record of each proposal that is PENDIENTE, or None

vars == <<ledgerVars, registro, propuesta>>

recordVars == <<registro, propuesta>>

-----------------------------------------------------------------------------
NoRegistro == [estado |-> "LIBRE", naturaleza |-> "INGRESO", monto |-> 0, validado |-> 0,
               evidencia |-> FALSE, movimiento |-> None]

(* reportIncome stores the receipt and the amount the reporter states, 0    *)
(* when none is; a request states its amount.                               *)
CreateRegistro(r, n, amount) ==
  /\ registro[r].estado = "LIBRE"
  /\ n = "EGRESO" => amount # 0
  /\ registro' = [registro EXCEPT ![r] =
       [NoRegistro EXCEPT !.estado = "PENDIENTE", !.naturaleza = n, !.monto = amount,
                          !.evidencia = TRUE]]
  /\ UNCHANGED <<ledgerVars, propuesta>>

(* The receipt, or the document of the request, is active no longer.        *)
RetireDocument(r) ==
  /\ registro[r].evidencia
  /\ registro' = [registro EXCEPT ![r].evidencia = FALSE]
  /\ UNCHANGED <<ledgerVars, propuesta>>

(* The document of r, whatever the state of r, is read by the model.        *)
ProposeFromDocument(p, r) ==
  /\ propuesta[p] = None
  /\ registro[r].evidencia
  /\ propuesta' = [propuesta EXCEPT ![p] = r]
  /\ UNCHANGED <<ledgerVars, registro>>

(* An accepted amount replaces that of the record, whatever its state.  A   *)
(* proposal that was decided is read no more: its id may stand for a later  *)
(* one.                                                                     *)
ValidateProposal(p, accepted, amount) ==
  /\ propuesta[p] # None
  /\ propuesta' = [propuesta EXCEPT ![p] = None]
  /\ registro' = IF accepted THEN [registro EXCEPT ![propuesta[p]].monto = amount]
                             ELSE registro
  /\ UNCHANGED ledgerVars

-----------------------------------------------------------------------------
(* ck_exp008_ingreso_applied_consistency, ck_exp008_solicitud_paid_...: a   *)
(* row has a movement exactly when it is settled.                           *)
Consistent(row) == (row.estado = "SALDADO") = (row.movimiento # None)

(* Mutant: the constraint is missing.  *)
WriteUnchecked(r, row) == registro' = [registro EXCEPT ![r] = row]

Write(r, row) == Consistent(row) /\ registro' = [registro EXCEPT ![r] = row]

(* Mutant: the state is not read again under the lock.  *)
MayApplyStale(r) == registro[r].naturaleza = "INGRESO" /\ registro[r].evidencia

(* An income needs its receipt, and must not be settled or void.            *)
MayApply(r) ==
  /\ registro[r].naturaleza = "INGRESO"
  /\ registro[r].estado = "PENDIENTE" /\ registro[r].evidencia

ReadApplyIncome(s, r, amount) ==
  /\ MayApply(r)
  /\ Open(s, "applyIncome", r, None, amount, FALSE)
  /\ UNCHANGED <<movement, reconciled, bank, recordVars>>

(* The amount of a request is read with its state.                          *)
ReadPayRequest(s, r) ==
  /\ registro[r].naturaleza = "EGRESO" /\ registro[r].estado = "PENDIENTE"
  /\ Open(s, "payRequest", r, None, registro[r].monto, FALSE)
  /\ UNCHANGED <<movement, reconciled, bank, recordVars>>

(* applyOperationalMovementInTransaction: a movement that is created        *)
(* applied, distributed and with its receipt.  Its key names the record;    *)
(* it cannot be in use, since the record is settled in the same transaction.*)
Operational(m, nature, amount, r) ==
  /\ movement[m].estatus = "LIBRE"
  /\ movement' = [movement EXCEPT ![m] =
       [estatus |-> "APLICADO", naturaleza |-> nature, monto |-> amount, distribuido |-> amount,
        comprobante |-> "VIGENTE", origen |-> None, expediente |-> TRUE, clave |-> r]]

(* The row is written by id, whatever became of it since it was read.       *)
Settle(s, op, m, r, amount, validado) ==
  /\ Close(s, op)
  /\ Operational(m, registro[r].naturaleza, amount, r)
  /\ Write(r, [registro[r] EXCEPT !.estado = "SALDADO", !.validado = validado, !.movimiento = m])
  /\ UNCHANGED <<reconciled, bank, propuesta>>

CommitApplyIncome(s, m) == Settle(s, "applyIncome", m, tx[s].id, tx[s].importe, tx[s].importe)

CommitPayRequest(s, m) == Settle(s, "payRequest", m, tx[s].id, tx[s].importe, 0)

ReadVoidRecord(s, r) ==
  /\ registro[r].estado = "PENDIENTE"
  /\ Open(s, "voidRecord", r, None, 0, FALSE)
  /\ UNCHANGED <<movement, reconciled, bank, recordVars>>

CommitVoidRecord(s) ==
  /\ Close(s, "voidRecord")
  /\ Write(tx[s].id, [registro[tx[s].id] EXCEPT !.estado = "ANULADO"])
  /\ UNCHANGED <<movement, reconciled, bank, propuesta>>

-----------------------------------------------------------------------------
(* The historical route of the expediente: the movement waits for a         *)
(* distribution and a receipt it is never given, since the central service  *)
(* refuses the movements of an expediente.                                  *)
AddMovimientoFinanciero(m, n, amount) ==
  /\ movement[m].estatus = "LIBRE"
  /\ movement' = [movement EXCEPT ![m] =
       [Free EXCEPT !.estatus = "PENDIENTE_COMPROBANTE", !.naturaleza = n,
                    !.monto = amount, !.expediente = TRUE]]
  /\ UNCHANGED <<reconciled, bank, tx, recordVars>>

(* Mutant: a movement that has a reverse already is not refused.  *)
MayReverseTwice(m) ==
  movement[m].expediente /\ movement[m].origen = None

MayReverse(m) ==
  /\ movement[m].expediente /\ movement[m].origen = None
  /\ movement[m].estatus \in Applied
  /\ Reversals(m) = {}

ReadReverseMovimiento(s, m) ==
  /\ MayReverse(m)
  /\ Open(s, "reverseMovimiento", m, None, 0, FALSE)
  /\ UNCHANGED <<movement, reconciled, bank, recordVars>>

(* The counter-movement is VALIDADO, without distribution or receipt.       *)
CommitReverseMovimiento(s, c) ==
  /\ Close(s, "reverseMovimiento")
  /\ Reverse(tx[s].id, c, "VALIDADO", 0, "NINGUNO")
  /\ UNCHANGED <<reconciled, bank, recordVars>>

-----------------------------------------------------------------------------
FinanceInit ==
  /\ LedgerInit
  /\ registro = [r \in Registro |-> NoRegistro]
  /\ propuesta = [p \in Proposal |-> None]

RecordNext ==
  \/ \E r \in Registro, n \in Nature, amount \in Amount \cup {0} : CreateRegistro(r, n, amount)
  \/ \E r \in Registro : RetireDocument(r)
  \/ \E p \in Proposal, r \in Registro : ProposeFromDocument(p, r)
  \/ \E p \in Proposal, accepted \in BOOLEAN, amount \in Amount :
       ValidateProposal(p, accepted, amount)

SettleNext(s) ==
  \/ \E r \in Registro, amount \in Amount : ReadApplyIncome(s, r, amount)
  \/ \E r \in Registro : ReadPayRequest(s, r) \/ ReadVoidRecord(s, r)
  \/ \E m \in Movement :
       \/ CommitApplyIncome(s, m) \/ CommitPayRequest(s, m)
       \/ ReadReverseMovimiento(s, m) \/ CommitReverseMovimiento(s, m)
  \/ CommitVoidRecord(s)

FinanceNext ==
  \/ LedgerNext /\ UNCHANGED recordVars
  \/ RecordNext
  \/ \E m \in Movement, n \in Drafted, amount \in Amount : AddMovimientoFinanciero(m, n, amount)
  \/ \E s \in Session : SettleNext(s)

FinanceSpec == FinanceInit /\ [][FinanceNext]_vars

-----------------------------------------------------------------------------
MovementType ==
  [estatus : Mutable \cup Applied \cup {"LIBRE", "CANCELADO", "REVERTIDO"},
   naturaleza : Nature, monto : Amount \cup {0}, distribuido : Nat,
   comprobante : {"NINGUNO", "VIGENTE", "ANULADO"}, origen : Movement \cup {None},
   expediente : BOOLEAN, clave : Registro \cup {None}]

RegistroType ==
  [estado : {"LIBRE", "PENDIENTE", "SALDADO", "ANULADO"}, naturaleza : Nature, monto : Amount \cup {0},
   validado : Amount \cup {0}, evidencia : BOOLEAN, movimiento : Movement \cup {None}]

(* Each open transaction holds ids of the tables its operation is about.    *)
TxType ==
  [op : {"none"}, id : {None}, other : {None}, importe : {0}, vigente : {FALSE}]
    \cup [op : {"replaceDistribution", "generateReceipt", "apply", "cancelDraft",
                "reverseApplied", "reverseMovimiento"},
          id : Movement, other : {None}, importe : Nat, vigente : BOOLEAN]
    \cup [op : {"reconcile"}, id : BankLine, other : Movement, importe : {0}, vigente : {FALSE}]
    \cup [op : {"applyIncome"}, id : Registro, other : {None}, importe : Amount, vigente : {FALSE}]
    \cup [op : {"payRequest"}, id : Registro, other : {None}, importe : Amount \cup {0}, vigente : {FALSE}]
    \cup [op : {"voidRecord"}, id : Registro, other : {None}, importe : {0}, vigente : {FALSE}]

(* Type correctness of the ledger, the records and the open transactions.   *)
FinanceTypeOK ==
  /\ movement \in [Movement -> MovementType]
  /\ reconciled \subseteq Movement \X BankLine
  /\ bank \in [BankLine -> {"PENDIENTE", "CONCILIADA"}]
  /\ tx \in [Session -> TxType]
  /\ registro \in [Registro -> RegistroType]
  /\ propuesta \in [Proposal -> Registro \cup {None}]

(* An income that is applied, or a request that is paid, is so by one       *)
(* movement of its nature, and of the validated amount for an income, that  *)
(* is in force or was reversed; and a movement that settles a record is the *)
(* one its record names: overlapping calls never leave a second one.        *)
SettledByOneMovement ==
  /\ \A r \in Registro : registro[r].estado = "SALDADO" =>
       LET m == registro[r].movimiento IN
       /\ m # None
       /\ movement[m].clave = r /\ movement[m].estatus \in {"APLICADO", "REVERTIDO"}
       /\ movement[m].naturaleza = registro[r].naturaleza
       /\ registro[r].naturaleza = "INGRESO" => movement[m].monto = registro[r].validado
  /\ \A m \in Movement : movement[m].clave # None =>
       registro[movement[m].clave].movimiento = m

(* An applied income or paid request stays so, with its movement and        *)
(* validated amount: one that is being voided meanwhile is not.             *)
SettledStays ==
  [][\A r \in Registro : registro[r].estado = "SALDADO" =>
       /\ registro'[r].estado = "SALDADO"
       /\ registro'[r].movimiento = registro[r].movimiento
       /\ registro'[r].validado = registro[r].validado]_vars
=============================================================================
