---------------------------- MODULE Finance_proofs ----------------------------
(***************************************************************************)
(* Records are settled once, by one movement; a movement has one counter-  *)
(* movement in force, and a bank line one match: although every operation  *)
(* reads under a lock of its own kind and writes later by id.              *)
(***************************************************************************)
EXTENDS ExpedienteFinance, FiniteSetTheorems, TLAPS

Settling == {"applyIncome", "payRequest"}
Editing == {"replaceDistribution", "generateReceipt", "apply", "cancelDraft", "reverseApplied"}

NatureOf(op) == IF op = "applyIncome" THEN "INGRESO" ELSE "EGRESO"

LEMMA FinanceCases ==
  ASSUME FinanceNext
  PROVE  \/ \E m \in Movement, n \in Drafted, amount \in Amount :
              (\E d \in 1..amount : CreateDraft(m, n, amount, d)) /\ UNCHANGED recordVars
         \/ \E s \in Session : Rollback(s) /\ UNCHANGED recordVars
         \/ \E s \in Session : CentralCommit(s) /\ UNCHANGED recordVars
         \/ \E s \in Session, m \in Movement : CentralStep(s, m) /\ UNCHANGED recordVars
         \/ RecordNext
         \/ \E m \in Movement, n \in Drafted, amount \in Amount : AddMovimientoFinanciero(m, n, amount)
         \/ \E s \in Session : SettleNext(s)
BY DEF FinanceNext, LedgerNext

-----------------------------------------------------------------------------
(* What a session that begins an operation has just read.  *)
Fresh(x) ==
  /\ x.op \in Settling =>
       /\ registro[x.id].estado = "PENDIENTE" /\ registro[x.id].naturaleza = NatureOf(x.op)
       /\ Unlocked(x.op, x.id)
  /\ x.op \in Editing => movement[x.id].estatus # "LIBRE" /\ ~movement[x.id].expediente
  /\ x.op = "reverseMovimiento" => movement[x.id].estatus # "LIBRE"

(* Transactions end, and begin with what they read.  *)
TxMoves ==
  \/ tx' = tx
  \/ \E s \in Session, x \in TxType :
       tx' = [tx EXCEPT ![s] = x] /\ (x = NoTx \/ Fresh(x))

LEMMA NoTxTyped == NoTx \in TxType
BY DEF NoTx, TxType

LEMMA Ends ==
  ASSUME NEW s \in Session, tx' = [tx EXCEPT ![s] = NoTx]
  PROVE  TxMoves
BY NoTxTyped DEF TxMoves

LEMMA Begins ==
  ASSUME NEW s \in Session, NEW x \in TxType, tx' = [tx EXCEPT ![s] = x], Fresh(x)
  PROVE  TxMoves
BY DEF TxMoves

LEMMA CentralReads ==
  ASSUME FinanceTypeOK, NEW s \in Session, NEW m \in Movement, CentralStep(s, m)
  PROVE  TxMoves
<1> USE FinanceAssumption, RegistroAssumption
<1>0. movement[m] \in MovementType
  BY DEF FinanceTypeOK
<1>1. ASSUME NEW d \in 1..movement[m].monto, ReadReplaceDistribution(s, m, d) PROVE TxMoves
  <2> DEFINE x == [op |-> "replaceDistribution", id |-> m, other |-> None, importe |-> d,
                   vigente |-> (movement[m].comprobante = "VIGENTE")]
  <2>1. tx' = [tx EXCEPT ![s] = x] /\ Central(m)
    BY <1>1 DEF ReadReplaceDistribution, Open
  <2>2. d \in Nat
    BY <1>0 DEF MovementType
  <2>3. x \in TxType
    BY <2>2 DEF TxType
  <2>4. Fresh(x)
    BY <2>1 DEF Fresh, Central, Settling, Editing
  <2> HIDE DEF x
  <2> QED
    BY <2>1, <2>3, <2>4, Begins
<1>2. ASSUME NEW op \in Editing \ {"replaceDistribution"}, NEW d \in Nat, Central(m),
             Open(s, op, m, None, d, FALSE) \/ OpenUnlocked(s, op, m, None, d, FALSE)
      PROVE  TxMoves
  <2> DEFINE x == [op |-> op, id |-> m, other |-> None, importe |-> d, vigente |-> FALSE]
  <2>1. tx' = [tx EXCEPT ![s] = x]
    BY <1>2 DEF Open, OpenUnlocked
  <2>3. x \in TxType
    BY <1>2 DEF TxType, Editing
  <2>4. Fresh(x)
    BY <1>2 DEF Fresh, Central, Settling, Editing
  <2> HIDE DEF x
  <2> QED
    BY <2>1, <2>3, <2>4, Begins
<1>3. CASE ReadGenerateReceipt(s, m)
  BY <1>2, <1>3 DEF ReadGenerateReceipt, Editing
<1>4. CASE ReadApply(s, m)
  BY <1>2, <1>4 DEF ReadApply, Editing
<1>5. CASE ReadCancelDraft(s, m)
  BY <1>2, <1>5 DEF ReadCancelDraft, Editing
<1>6. CASE ReadReverseApplied(s, m)
  <2>1. movement[m].distribuido \in Nat
    BY <1>0 DEF MovementType
  <2> QED
    BY <1>2, <1>6, <2>1 DEF ReadReverseApplied, Editing
<1>7. CASE CommitReverseApplied(s, m)
  BY <1>7, Ends DEF CommitReverseApplied, Close
<1>8. ASSUME NEW b \in BankLine, ReadReconcile(s, m, b) PROVE TxMoves
  <2> DEFINE x == [op |-> "reconcile", id |-> b, other |-> m, importe |-> 0, vigente |-> FALSE]
  <2>1. tx' = [tx EXCEPT ![s] = x]
    BY <1>8 DEF ReadReconcile, Open
  <2>2. x \in TxType /\ Fresh(x)
    BY DEF TxType, Fresh, Settling, Editing
  <2> HIDE DEF x
  <2> QED
    BY <2>1, <2>2, Begins
<1> QED
  BY <1>1, <1>3, <1>4, <1>5, <1>6, <1>7, <1>8 DEF CentralStep

LEMMA SettleReads ==
  ASSUME FinanceTypeOK, NEW s \in Session, SettleNext(s)
  PROVE  TxMoves
<1> USE FinanceAssumption, RegistroAssumption
<1>1. ASSUME NEW r \in Registro, NEW amount \in Amount, ReadApplyIncome(s, r, amount) PROVE TxMoves
  <2> DEFINE x == [op |-> "applyIncome", id |-> r, other |-> None, importe |-> amount,
                   vigente |-> FALSE]
  <2>1. tx' = [tx EXCEPT ![s] = x] /\ MayApply(r) /\ Unlocked("applyIncome", r)
    BY <1>1 DEF ReadApplyIncome, Open
  <2>2. x \in TxType /\ Fresh(x)
    BY <2>1 DEF TxType, Fresh, Settling, Editing, MayApply, NatureOf
  <2> HIDE DEF x
  <2> QED
    BY <2>1, <2>2, Begins
<1>2. ASSUME NEW r \in Registro, ReadPayRequest(s, r) PROVE TxMoves
  <2> DEFINE x == [op |-> "payRequest", id |-> r, other |-> None, importe |-> registro[r].monto,
                   vigente |-> FALSE]
  <2>1. /\ tx' = [tx EXCEPT ![s] = x] /\ Unlocked("payRequest", r)
        /\ registro[r].naturaleza = "EGRESO" /\ registro[r].estado = "PENDIENTE"
    BY <1>2 DEF ReadPayRequest, Open
  <2>2. registro[r].monto \in Amount \cup {0}
    BY DEF FinanceTypeOK, RegistroType
  <2>3. x \in TxType
    BY <2>2 DEF TxType
  <2>4. Fresh(x)
    BY <2>1 DEF Fresh, Settling, Editing, NatureOf
  <2> HIDE DEF x
  <2> QED
    BY <2>1, <2>3, <2>4, Begins
<1>3. ASSUME NEW r \in Registro, ReadVoidRecord(s, r) PROVE TxMoves
  <2> DEFINE x == [op |-> "voidRecord", id |-> r, other |-> None, importe |-> 0, vigente |-> FALSE]
  <2>1. tx' = [tx EXCEPT ![s] = x]
    BY <1>3 DEF ReadVoidRecord, Open
  <2>2. x \in TxType /\ Fresh(x)
    BY DEF TxType, Fresh, Settling, Editing
  <2> HIDE DEF x
  <2> QED
    BY <2>1, <2>2, Begins
<1>4. ASSUME NEW m \in Movement, ReadReverseMovimiento(s, m) PROVE TxMoves
  <2> DEFINE x == [op |-> "reverseMovimiento", id |-> m, other |-> None, importe |-> 0,
                   vigente |-> FALSE]
  <2>1. tx' = [tx EXCEPT ![s] = x] /\ movement[m].estatus \in Applied
    BY <1>4 DEF ReadReverseMovimiento, Open, MayReverse
  <2>2. x \in TxType /\ Fresh(x)
    BY <2>1 DEF TxType, Fresh, Settling, Editing, Applied
  <2> HIDE DEF x
  <2> QED
    BY <2>1, <2>2, Begins
<1>5. ASSUME NEW op, Close(s, op) PROVE TxMoves
  BY <1>5, Ends DEF Close
<1>6. ASSUME NEW m \in Movement,
             CommitApplyIncome(s, m) \/ CommitPayRequest(s, m) \/ CommitReverseMovimiento(s, m)
      PROVE  TxMoves
  BY <1>5, <1>6 DEF CommitApplyIncome, CommitPayRequest, Settle, CommitReverseMovimiento
<1>7. CASE CommitVoidRecord(s)
  BY <1>5, <1>7 DEF CommitVoidRecord
<1> QED
  BY <1>1, <1>2, <1>3, <1>4, <1>6, <1>7 DEF SettleNext

LEMMA Transactions ==
  ASSUME FinanceTypeOK, [FinanceNext]_vars
  PROVE  TxMoves
<1>1. CASE UNCHANGED vars
  BY <1>1 DEF vars, ledgerVars, TxMoves
<1>2. ASSUME NEW s \in Session, CentralCommit(s) PROVE TxMoves
  BY <1>2, Ends DEF CentralCommit, CommitReplaceDistribution, CommitGenerateReceipt, CommitApply,
                    CommitCancelDraft, CommitReconcile, Close
<1>3. CASE FinanceNext
  <2>1. ASSUME NEW m \in Movement, NEW n, NEW amount, NEW d, CreateDraft(m, n, amount, d)
        PROVE  TxMoves
    BY <2>1 DEF CreateDraft, TxMoves
  <2>2. ASSUME NEW s \in Session, Rollback(s) PROVE TxMoves
    BY <2>2, Ends DEF Rollback
  <2>3. CASE RecordNext
    BY <2>3 DEF RecordNext, CreateRegistro, RetireDocument, ProposeFromDocument, ValidateProposal,
                ledgerVars, TxMoves
  <2>4. ASSUME NEW m \in Movement, NEW n, NEW amount, AddMovimientoFinanciero(m, n, amount)
        PROVE  TxMoves
    BY <2>4 DEF AddMovimientoFinanciero, TxMoves
  <2> QED
    BY <1>2, <1>3, <2>1, <2>2, <2>3, <2>4, FinanceCases, CentralReads, SettleReads
<1> QED
  BY <1>1, <1>3

LEMMA TxTypeStep ==
  ASSUME FinanceTypeOK, TxMoves
  PROVE  tx' \in [Session -> TxType]
BY DEF FinanceTypeOK, TxMoves

-----------------------------------------------------------------------------
(* Between the read and the commit of an operation, what the commit relies  *)
(* on stays: a record that is being settled is not settled by another, and  *)
(* a movement that is being edited is none of an expediente.                *)
Awaiting(x) ==
  /\ x.op \in Settling => /\ registro[x.id].estado \in {"PENDIENTE", "ANULADO"}
                          /\ registro[x.id].naturaleza = NatureOf(x.op)
  /\ x.op \in Editing => movement[x.id].estatus # "LIBRE" /\ ~movement[x.id].expediente
  /\ x.op = "reverseMovimiento" => movement[x.id].estatus # "LIBRE"

OneSettler ==
  \A s, t \in Session :
    tx[s].op \in Settling /\ tx[s].op = tx[t].op /\ tx[s].id = tx[t].id => s = t

(* A movement with a key settles a record, and is in force or reversed.  *)
Keyed(m) ==
  movement[m].clave # None =>
    movement[m].expediente /\ movement[m].estatus \in {"APLICADO", "REVERTIDO"}

(* A movement names the record whose row names it.  *)
Paired ==
  \A r \in Registro, m \in Movement : registro[r].movimiento = m <=> movement[m].clave = r

Matched(r) ==
  LET m == registro[r].movimiento IN
  m # None => /\ movement[m].naturaleza = registro[r].naturaleza
              /\ registro[r].naturaleza = "INGRESO" => movement[m].monto = registro[r].validado

SettleInv ==
  /\ FinanceTypeOK
  /\ \A s \in Session : Awaiting(tx[s])
  /\ OneSettler
  /\ \A m \in Movement : Keyed(m)
  /\ \A r \in Registro : Consistent(registro[r]) /\ Matched(r)
  /\ Paired

-----------------------------------------------------------------------------
(* What a step that settles nothing may do to a movement: nothing, fill a   *)
(* free id without a key, or change the status and distribution of a row;   *)
(* that of a row with a key only by reversing it.                           *)
Edited(m) ==
  \/ movement'[m] = movement[m]
  \/ /\ movement[m].estatus = "LIBRE"
     /\ movement'[m].estatus # "LIBRE" /\ movement'[m].clave = None
  \/ /\ movement[m].estatus # "LIBRE" /\ movement'[m].estatus # "LIBRE"
     /\ movement'[m].clave = movement[m].clave
     /\ movement'[m].naturaleza = movement[m].naturaleza
     /\ movement'[m].monto = movement[m].monto
     /\ movement'[m].expediente = movement[m].expediente
     /\ movement[m].clave # None => movement'[m].estatus = "REVERTIDO"

LedgerEdited == movement' \in [Movement -> MovementType] /\ \A m \in Movement : Edited(m)

LEMMA Unwritten == FinanceTypeOK /\ movement' = movement => LedgerEdited
BY DEF LedgerEdited, Edited, FinanceTypeOK

LEMMA FreeTyped == Free \in MovementType /\ Free.clave = None
BY DEF Free, MovementType, Nature

(* A free id is filled with row.  *)
LEMMA Filled ==
  ASSUME FinanceTypeOK, NEW m \in Movement, movement[m].estatus = "LIBRE",
         NEW row \in MovementType, row.estatus # "LIBRE", row.clave = None,
         movement' = [movement EXCEPT ![m] = row]
  PROVE  LedgerEdited
BY DEF LedgerEdited, Edited, FinanceTypeOK

(* A row that is in use and has no key changes to row.  *)
LEMMA Rewritten ==
  ASSUME FinanceTypeOK, NEW m \in Movement, movement[m].estatus # "LIBRE",
         NEW row \in MovementType, row.estatus # "LIBRE",
         row.clave = movement[m].clave, row.naturaleza = movement[m].naturaleza,
         row.monto = movement[m].monto, row.expediente = movement[m].expediente,
         movement[m].clave # None => row.estatus = "REVERTIDO",
         movement' = [movement EXCEPT ![m] = row]
  PROVE  LedgerEdited
BY DEF LedgerEdited, Edited, FinanceTypeOK

LEMMA Drafts ==
  ASSUME FinanceTypeOK, NEW m \in Movement, NEW n \in Drafted, NEW amount \in Amount,
         \/ \E d \in 1..amount : CreateDraft(m, n, amount, d)
         \/ AddMovimientoFinanciero(m, n, amount)
  PROVE  LedgerEdited
<1> USE FinanceAssumption
<1>1. ASSUME NEW d \in 1..amount, CreateDraft(m, n, amount, d) PROVE LedgerEdited
  <2> DEFINE row == [Free EXCEPT !.estatus = StatusOf(d, amount), !.naturaleza = n,
                                 !.monto = amount, !.distribuido = d]
  <2>1. d \in Nat
    OBVIOUS
  <2>2. row \in MovementType /\ row.estatus # "LIBRE" /\ row.clave = None
    BY <2>1 DEF Free, MovementType, Nature, Mutable, StatusOf
  <2>3. movement' = [movement EXCEPT ![m] = row] /\ movement[m].estatus = "LIBRE"
    BY <1>1 DEF CreateDraft
  <2> HIDE DEF row
  <2> QED
    BY <2>2, <2>3, Filled
<1>2. CASE AddMovimientoFinanciero(m, n, amount)
  <2> DEFINE row == [Free EXCEPT !.estatus = "PENDIENTE_COMPROBANTE", !.naturaleza = n,
                                 !.monto = amount, !.expediente = TRUE]
  <2>2. row \in MovementType /\ row.estatus # "LIBRE" /\ row.clave = None
    BY DEF Free, MovementType, Nature, Mutable
  <2>3. movement' = [movement EXCEPT ![m] = row] /\ movement[m].estatus = "LIBRE"
    BY <1>2 DEF AddMovimientoFinanciero
  <2> HIDE DEF row
  <2> QED
    BY <2>2, <2>3, Filled
<1> QED
  BY <1>1, <1>2

LEMMA EditCommits ==
  ASSUME FinanceTypeOK, \A t \in Session : Awaiting(tx[t]), \A k \in Movement : Keyed(k),
         NEW s \in Session, CentralCommit(s)
  PROVE  LedgerEdited
<1> DEFINE m == tx[s].id
<1> USE FinanceAssumption
<1>0. tx[s] \in TxType /\ Awaiting(tx[s])
  BY DEF FinanceTypeOK
<1>1. ASSUME tx[s].op \in Editing
      PROVE  /\ m \in Movement /\ tx[s].importe \in Nat
             /\ movement[m] \in MovementType /\ movement[m].estatus # "LIBRE"
             /\ movement[m].clave = None
  <2>1. m \in Movement /\ tx[s].importe \in Nat
    BY <1>0, <1>1 DEF TxType, Editing
  <2>2. movement[m].estatus # "LIBRE" /\ ~movement[m].expediente
    BY <1>0, <1>1 DEF Awaiting
  <2> QED
    BY <2>1, <2>2 DEF Keyed, FinanceTypeOK
<1>2. CASE CommitReplaceDistribution(s)
  <2> DEFINE row == [movement[m] EXCEPT !.distribuido = tx[s].importe,
                       !.comprobante = IF tx[s].vigente THEN "ANULADO" ELSE @,
                       !.estatus = StatusOf(tx[s].importe, movement[m].monto)]
  <2>1. tx[s].op = "replaceDistribution" /\ movement' = [movement EXCEPT ![m] = row]
    BY <1>2 DEF CommitReplaceDistribution, Close
  <2>2. tx[s].op \in Editing
    BY <2>1 DEF Editing
  <2>3. /\ row \in MovementType /\ row.estatus # "LIBRE" /\ row.clave = movement[m].clave
        /\ row.naturaleza = movement[m].naturaleza /\ row.monto = movement[m].monto
        /\ row.expediente = movement[m].expediente
    BY <1>1, <2>2, ZenonT(60) DEF MovementType, StatusOf, Mutable
  <2> HIDE DEF row
  <2> QED
    BY <1>1, <2>1, <2>2, <2>3, Rewritten
<1>3. ASSUME NEW estatus \in {"LISTO_APLICAR", "APLICADO", "CANCELADO"},
             NEW comprobante \in {movement[m].comprobante, "VIGENTE"}, tx[s].op \in Editing,
             movement' = [movement EXCEPT ![m] =
               [movement[m] EXCEPT !.comprobante = comprobante, !.estatus = estatus]]
      PROVE  LedgerEdited
  <2> DEFINE row == [movement[m] EXCEPT !.comprobante = comprobante, !.estatus = estatus]
  <2>1. /\ row \in MovementType /\ row.estatus # "LIBRE" /\ row.clave = movement[m].clave
        /\ row.naturaleza = movement[m].naturaleza /\ row.monto = movement[m].monto
        /\ row.expediente = movement[m].expediente
    BY <1>1, <1>3, ZenonT(60) DEF MovementType, Mutable, Applied
  <2>2. movement' = [movement EXCEPT ![m] = row]
    BY <1>3
  <2> HIDE DEF row
  <2> QED
    BY <1>1, <1>3, <2>1, <2>2, Rewritten
<1>4. CASE CommitGenerateReceipt(s)
  BY <1>3, <1>4 DEF CommitGenerateReceipt, Close, Editing
<1>5. ASSUME NEW estatus \in {"APLICADO", "CANCELADO"}, tx[s].op \in Editing,
             movement' = [movement EXCEPT ![m].estatus = estatus]
      PROVE  LedgerEdited
  <2>1. movement[m] \in MovementType
    BY <1>1, <1>5
  <2>2. [movement[m] EXCEPT !.estatus = estatus]
          = [movement[m] EXCEPT !.comprobante = movement[m].comprobante, !.estatus = estatus]
    BY <2>1 DEF MovementType
  <2> QED
    BY <1>3, <1>5, <2>2
<1>6. CASE CommitApply(s)
  BY <1>5, <1>6 DEF CommitApply, Close, Editing
<1>7. CASE CommitCancelDraft(s)
  BY <1>5, <1>7 DEF CommitCancelDraft, Close, Editing
<1>8. CASE CommitReconcile(s)
  BY <1>8, Unwritten DEF CommitReconcile
<1> QED
  BY <1>2, <1>4, <1>6, <1>7, <1>8 DEF CentralCommit

LEMMA ReversalCommits ==
  ASSUME FinanceTypeOK, \A t \in Session : Awaiting(tx[t]), \A k \in Movement : Keyed(k),
         NEW s \in Session, NEW c \in Movement,
         CommitReverseApplied(s, c) \/ CommitReverseMovimiento(s, c)
  PROVE  LedgerEdited
<1> DEFINE m == tx[s].id
<1> USE FinanceAssumption
<1>1. /\ tx[s].op \in {"reverseApplied", "reverseMovimiento"}
      /\ \E estatus \in {"APLICADO", "VALIDADO"}, comprobante \in {"NINGUNO", "VIGENTE"},
            d \in {tx[s].importe, 0} : Reverse(m, c, estatus, d, comprobante)
  BY DEF CommitReverseApplied, CommitReverseMovimiento, Close
<1>2. PICK estatus \in {"APLICADO", "VALIDADO"}, comprobante \in {"NINGUNO", "VIGENTE"},
           d \in {tx[s].importe, 0} : Reverse(m, c, estatus, d, comprobante)
  BY <1>1
<1>3. m \in Movement /\ tx[s].importe \in Nat
  BY <1>1 DEF FinanceTypeOK, TxType
<1>4. movement[m].estatus # "LIBRE" /\ movement[m] \in MovementType /\ movement[c] \in MovementType
  BY <1>1, <1>3 DEF Awaiting, Editing, FinanceTypeOK
<1> DEFINE counter == [estatus |-> estatus, naturaleza |-> Opposite(movement[m].naturaleza),
              monto |-> movement[m].monto, distribuido |-> d, comprobante |-> comprobante,
              origen |-> m, expediente |-> movement[m].expediente, clave |-> None]
           reversed == [movement[m] EXCEPT !.estatus = "REVERTIDO"]
<1>5. movement' = [movement EXCEPT ![c] = counter, ![m] = reversed] /\ movement[c].estatus = "LIBRE"
  BY <1>2, <1>3, <1>4 DEF Reverse
<1>6. counter \in MovementType /\ counter.estatus # "LIBRE" /\ counter.clave = None
  BY <1>3, <1>4 DEF MovementType, Applied, Opposite, Nature
<1>7. /\ reversed \in MovementType /\ reversed.estatus = "REVERTIDO"
      /\ reversed.clave = movement[m].clave /\ reversed.naturaleza = movement[m].naturaleza
      /\ reversed.monto = movement[m].monto /\ reversed.expediente = movement[m].expediente
  BY <1>4 DEF MovementType
<1> HIDE DEF counter, reversed, m
<1> QED
  BY <1>3, <1>4, <1>5, <1>6, <1>7 DEF LedgerEdited, Edited, FinanceTypeOK

-----------------------------------------------------------------------------
(* What a step that settles nothing may do to a record: one that is settled *)
(* keeps its state, and no row gets or loses a movement.                    *)
Touched(r) ==
  /\ registro'[r].movimiento = registro[r].movimiento
  /\ registro[r].estado # "LIBRE" => /\ registro'[r].naturaleza = registro[r].naturaleza
                                     /\ registro'[r].validado = registro[r].validado
                                     /\ registro'[r].estado \in {registro[r].estado, "ANULADO"}
  /\ Consistent(registro'[r])

RecordsTouched ==
  /\ registro' \in [Registro -> RegistroType]
  /\ propuesta' \in [Proposal -> Registro \cup {None}]
  /\ \A r \in Registro : Touched(r)

LEMMA Untouched ==
  ASSUME FinanceTypeOK, \A r \in Registro : Consistent(registro[r]), UNCHANGED recordVars
  PROVE  RecordsTouched
BY DEF FinanceTypeOK, RecordsTouched, Touched, recordVars, RegistroType

(* A row that changes to one with the same movement.  *)
LEMMA RowTouched ==
  ASSUME FinanceTypeOK, \A q \in Registro : Consistent(registro[q]),
         NEW r \in Registro, NEW row \in RegistroType, registro' = [registro EXCEPT ![r] = row],
         UNCHANGED propuesta, Consistent(row),
         row.movimiento = registro[r].movimiento,
         registro[r].estado # "LIBRE" => /\ row.naturaleza = registro[r].naturaleza
                                         /\ row.validado = registro[r].validado
                                         /\ row.estado \in {registro[r].estado, "ANULADO"}
  PROVE  RecordsTouched
BY DEF FinanceTypeOK, RecordsTouched, Touched, RegistroType

LEMMA RecordSteps ==
  ASSUME FinanceTypeOK, \A q \in Registro : Consistent(registro[q]), RecordNext
  PROVE  RecordsTouched
<1> USE FinanceAssumption, RegistroAssumption
<1>1. ASSUME NEW r \in Registro, NEW n \in Nature, NEW amount \in Amount \cup {0},
             CreateRegistro(r, n, amount)
      PROVE  RecordsTouched
  <2> DEFINE row == [NoRegistro EXCEPT !.estado = "PENDIENTE", !.naturaleza = n,
                                       !.monto = amount, !.evidencia = TRUE]
  <2>1. registro' = [registro EXCEPT ![r] = row] /\ registro[r].estado = "LIBRE" /\ UNCHANGED propuesta
    BY <1>1 DEF CreateRegistro
  <2>2. row \in RegistroType /\ row.movimiento = None /\ Consistent(row)
    BY DEF NoRegistro, RegistroType, Consistent
  <2>3. registro[r].movimiento = None
    BY <2>1 DEF Consistent, FinanceTypeOK, RegistroType
  <2> HIDE DEF row
  <2> QED
    BY <2>1, <2>2, <2>3, RowTouched
<1>2. ASSUME NEW r \in Registro, RetireDocument(r) PROVE RecordsTouched
  <2> DEFINE row == [registro[r] EXCEPT !.evidencia = FALSE]
  <2>1. registro' = [registro EXCEPT ![r] = row] /\ UNCHANGED propuesta
    BY <1>2 DEF RetireDocument
  <2>2. registro[r] \in RegistroType
    BY DEF FinanceTypeOK
  <2>3. row \in RegistroType /\ row.movimiento = registro[r].movimiento
        /\ row.validado = registro[r].validado /\ row.naturaleza = registro[r].naturaleza
        /\ row.estado = registro[r].estado
    BY <2>2 DEF RegistroType
  <2>4. Consistent(row)
    BY <2>3 DEF Consistent
  <2> HIDE DEF row
  <2> QED
    BY <2>1, <2>3, <2>4, RowTouched
<1>3. ASSUME NEW p \in Proposal, NEW r \in Registro, ProposeFromDocument(p, r) PROVE RecordsTouched
  BY <1>3 DEF ProposeFromDocument, FinanceTypeOK, RecordsTouched, Touched, RegistroType
<1>4. ASSUME NEW p \in Proposal, NEW accepted \in BOOLEAN, NEW amount \in Amount,
             ValidateProposal(p, accepted, amount)
      PROVE  RecordsTouched
  <2> DEFINE q == propuesta[p]
             row == [registro[q] EXCEPT !.monto = amount]
  <2>1. propuesta' \in [Proposal -> Registro \cup {None}]
    BY <1>4 DEF ValidateProposal, FinanceTypeOK
  <2>2. CASE registro' = registro
    BY <2>1, <2>2 DEF FinanceTypeOK, RecordsTouched, Touched, RegistroType
  <2>3. CASE registro' = [registro EXCEPT ![q].monto = amount] /\ q \in Registro
    <3>1. /\ row \in RegistroType /\ Consistent(row) /\ row.movimiento = registro[q].movimiento
          /\ row.validado = registro[q].validado /\ row.naturaleza = registro[q].naturaleza
          /\ row.estado = registro[q].estado
      BY <2>3 DEF FinanceTypeOK, RegistroType, Consistent
    <3>2. registro' = [registro EXCEPT ![q] = row]
      BY <2>3
    <3> HIDE DEF row, q
    <3>3. registro' \in [Registro -> RegistroType]
      BY <3>1, <3>2 DEF FinanceTypeOK
    <3>4. ASSUME NEW r \in Registro PROVE Touched(r)
      BY <2>3, <3>1, <3>2 DEF FinanceTypeOK, Touched, RegistroType
    <3> QED
      BY <2>1, <3>3, <3>4 DEF RecordsTouched
  <2>4. CASE registro' = [registro EXCEPT ![q].monto = amount] /\ q \notin Registro
    <3>1. registro' = registro
      BY <2>4 DEF FinanceTypeOK
    <3> QED
      BY <2>2, <3>1
  <2> QED
    BY <1>4, <2>2, <2>3, <2>4 DEF ValidateProposal
<1> QED
  BY <1>1, <1>2, <1>3, <1>4 DEF RecordNext

LEMMA VoidCommits ==
  ASSUME FinanceTypeOK, \A q \in Registro : Consistent(registro[q]),
         NEW s \in Session, CommitVoidRecord(s)
  PROVE  RecordsTouched
<1> DEFINE r == tx[s].id
           row == [registro[r] EXCEPT !.estado = "ANULADO"]
<1>1. tx[s].op = "voidRecord" /\ registro' = [registro EXCEPT ![r] = row] /\ Consistent(row)
      /\ UNCHANGED propuesta
  BY DEF CommitVoidRecord, Close, Write
<1>2. r \in Registro
  BY <1>1 DEF FinanceTypeOK, TxType
<1>3. /\ row \in RegistroType /\ row.movimiento = registro[r].movimiento
      /\ row.validado = registro[r].validado /\ row.naturaleza = registro[r].naturaleza
      /\ row.estado = "ANULADO"
  BY <1>2 DEF FinanceTypeOK, RegistroType
<1> HIDE DEF row, r
<1> QED
  BY <1>1, <1>2, <1>3, RowTouched

-----------------------------------------------------------------------------
LEMMA BankStep ==
  ASSUME FinanceTypeOK, [FinanceNext]_vars
  PROVE  /\ reconciled' \subseteq Movement \X BankLine
         /\ bank' \in [BankLine -> {"PENDIENTE", "CONCILIADA"}]
<1> DEFINE Typed == /\ reconciled \subseteq Movement \X BankLine
                    /\ bank \in [BankLine -> {"PENDIENTE", "CONCILIADA"}]
<1> SUFFICES Typed'
  OBVIOUS
<1>0. UNCHANGED <<reconciled, bank>> => Typed'
  BY DEF FinanceTypeOK
<1> HIDE DEF Typed
<1>1. CASE UNCHANGED vars
  BY <1>0, <1>1 DEF vars, ledgerVars
<1>2. CASE FinanceNext
  <2>1. ASSUME NEW m \in Movement, NEW n, NEW amount, NEW d, CreateDraft(m, n, amount, d) PROVE Typed'
    BY <1>0, <2>1 DEF CreateDraft
  <2>2. ASSUME NEW s \in Session, Rollback(s) PROVE Typed'
    BY <1>0, <2>2 DEF Rollback
  <2>3. ASSUME NEW s \in Session, CommitReconcile(s) PROVE Typed'
    <3>1. /\ tx[s].op = "reconcile" /\ reconciled' = reconciled \cup {<<tx[s].other, tx[s].id>>}
          /\ bank' = [bank EXCEPT ![tx[s].id] = "CONCILIADA"]
      BY <2>3 DEF CommitReconcile, Close
    <3>2. tx[s].other \in Movement /\ tx[s].id \in BankLine
      BY <3>1 DEF FinanceTypeOK, TxType
    <3> QED
      BY <3>1, <3>2 DEF FinanceTypeOK, Typed
  <2>4. ASSUME NEW s \in Session, CentralCommit(s) PROVE Typed'
    BY <1>0, <2>3, <2>4 DEF CentralCommit, CommitReplaceDistribution, CommitGenerateReceipt,
                            CommitApply, CommitCancelDraft
  <2>5. ASSUME NEW s \in Session, NEW m \in Movement, CentralStep(s, m) PROVE Typed'
    BY <1>0, <2>5 DEF CentralStep, ReadReplaceDistribution, ReadGenerateReceipt, ReadApply,
                      ReadCancelDraft, ReadReverseApplied, CommitReverseApplied, ReadReconcile
  <2>6. CASE RecordNext
    BY <1>0, <2>6 DEF RecordNext, CreateRegistro, RetireDocument, ProposeFromDocument,
                      ValidateProposal, ledgerVars
  <2>7. ASSUME NEW m \in Movement, NEW n, NEW amount, AddMovimientoFinanciero(m, n, amount) PROVE Typed'
    BY <1>0, <2>7 DEF AddMovimientoFinanciero
  <2>8. ASSUME NEW s \in Session, SettleNext(s) PROVE Typed'
    BY <1>0, <2>8 DEF SettleNext, ReadApplyIncome, ReadPayRequest, ReadVoidRecord,
                      CommitApplyIncome, CommitPayRequest, Settle, ReadReverseMovimiento,
                      CommitReverseMovimiento, CommitVoidRecord
  <2> QED
    BY <1>2, <2>1, <2>2, <2>4, <2>5, <2>6, <2>7, <2>8, FinanceCases
<1> QED
  BY <1>1, <1>2

Settles == \E s \in Session, m \in Movement : CommitApplyIncome(s, m) \/ CommitPayRequest(s, m)

(* Every step but those of Settles edits movements and touches records.  *)
LEMMA OtherSteps ==
  ASSUME SettleInv, [FinanceNext]_vars, ~Settles
  PROVE  LedgerEdited /\ RecordsTouched
<1> DEFINE Goal == LedgerEdited /\ RecordsTouched
<1> SUFFICES Goal
  OBVIOUS
<1>0. FinanceTypeOK /\ (\A q \in Registro : Consistent(registro[q]))
        /\ (\A t \in Session : Awaiting(tx[t])) /\ (\A k \in Movement : Keyed(k))
  BY DEF SettleInv
<1>a. UNCHANGED recordVars => RecordsTouched
  BY <1>0, Untouched
<1>b. UNCHANGED movement => LedgerEdited
  BY <1>0, Unwritten
<1> HIDE DEF Goal
<1>1. CASE UNCHANGED vars
  BY <1>1, <1>a, <1>b DEF vars, ledgerVars, recordVars, Goal
<1>2. CASE FinanceNext
  <2>1. ASSUME NEW m \in Movement, NEW n \in Drafted, NEW amount \in Amount,
               NEW d \in 1..amount, CreateDraft(m, n, amount, d), UNCHANGED recordVars
        PROVE  Goal
    BY <1>0, <1>a, <2>1, Drafts DEF Goal
  <2>2. ASSUME NEW s \in Session, Rollback(s), UNCHANGED recordVars PROVE Goal
    BY <1>a, <1>b, <2>2 DEF Rollback, Goal
  <2>3. ASSUME NEW s \in Session, CentralCommit(s), UNCHANGED recordVars PROVE Goal
    BY <1>0, <1>a, <2>3, EditCommits DEF Goal
  <2>4. ASSUME NEW s \in Session, NEW m \in Movement, CentralStep(s, m), UNCHANGED recordVars
        PROVE  Goal
    <3>1. CASE CommitReverseApplied(s, m)
      BY <1>0, <1>a, <2>4, <3>1, ReversalCommits DEF Goal
    <3>2. CASE UNCHANGED movement
      BY <1>a, <1>b, <2>4, <3>2 DEF Goal
    <3> QED
      BY <2>4, <3>1, <3>2 DEF CentralStep, ReadReplaceDistribution, ReadGenerateReceipt, ReadApply,
                              ReadCancelDraft, ReadReverseApplied, ReadReconcile
  <2>5. CASE RecordNext
    <3>1. UNCHANGED movement
      BY <2>5 DEF RecordNext, CreateRegistro, RetireDocument, ProposeFromDocument,
                  ValidateProposal, ledgerVars
    <3> QED
      BY <1>0, <1>b, <2>5, <3>1, RecordSteps DEF Goal
  <2>6. ASSUME NEW m \in Movement, NEW n \in Drafted, NEW amount \in Amount,
               AddMovimientoFinanciero(m, n, amount)
        PROVE  Goal
    <3>1. UNCHANGED recordVars
      BY <2>6 DEF AddMovimientoFinanciero
    <3> QED
      BY <1>0, <1>a, <2>6, <3>1, Drafts DEF Goal
  <2>7. ASSUME NEW s \in Session, SettleNext(s) PROVE Goal
    <3>1. ASSUME NEW m \in Movement, CommitReverseMovimiento(s, m) PROVE Goal
      <4>1. UNCHANGED recordVars
        BY <3>1 DEF CommitReverseMovimiento
      <4> QED
        BY <1>0, <1>a, <3>1, <4>1, ReversalCommits DEF Goal
    <3>2. CASE CommitVoidRecord(s)
      <4>1. UNCHANGED movement
        BY <3>2 DEF CommitVoidRecord
      <4> QED
        BY <1>0, <1>b, <3>2, <4>1, VoidCommits DEF Goal
    <3>3. CASE UNCHANGED <<movement, recordVars>>
      BY <1>a, <1>b, <3>3 DEF Goal
    <3> QED
      BY <2>7, <3>1, <3>2, <3>3 DEF SettleNext, ReadApplyIncome, ReadPayRequest, ReadVoidRecord,
                                    ReadReverseMovimiento, Settles
  <2> QED
    BY <1>2, <2>1, <2>2, <2>3, <2>4, <2>5, <2>6, <2>7, FinanceCases
<1> QED
  BY <1>1, <1>2

(* What a transaction waits for survives edits and touches.  *)
LEMMA AwaitingKept ==
  ASSUME FinanceTypeOK, LedgerEdited, RecordsTouched, NEW x \in TxType, Awaiting(x)
  PROVE  /\ x.op \in Settling => /\ registro'[x.id].estado \in {"PENDIENTE", "ANULADO"}
                                 /\ registro'[x.id].naturaleza = NatureOf(x.op)
         /\ x.op \in Editing =>
              movement'[x.id].estatus # "LIBRE" /\ ~movement'[x.id].expediente
         /\ x.op = "reverseMovimiento" => movement'[x.id].estatus # "LIBRE"
<1>1. ASSUME x.op \in Settling
      PROVE  /\ registro'[x.id].estado \in {"PENDIENTE", "ANULADO"}
             /\ registro'[x.id].naturaleza = NatureOf(x.op)
  <2>1. x.id \in Registro
    BY <1>1 DEF TxType, Settling
  <2> QED
    BY <1>1, <2>1 DEF Awaiting, RecordsTouched, Touched
<1>2. ASSUME x.op \in Editing \cup {"reverseMovimiento"}
      PROVE  /\ movement'[x.id].estatus # "LIBRE"
             /\ x.op \in Editing => ~movement'[x.id].expediente
  <2>1. x.id \in Movement
    BY <1>2 DEF TxType, Editing
  <2> QED
    BY <1>2, <2>1 DEF Awaiting, LedgerEdited, Edited
<1> QED
  BY <1>1, <1>2

LEMMA FreshAwaits ==
  ASSUME NEW x, x = NoTx \/ Fresh(x)
  PROVE  Awaiting(x)
BY DEF Fresh, Awaiting, NoTx, Settling, Editing

LEMMA OneSettlerStep == FinanceTypeOK /\ OneSettler /\ TxMoves => OneSettler'
BY DEF FinanceTypeOK, OneSettler, TxMoves, Fresh, Unlocked, NoTx, Settling

LEMMA KeptInv ==
  ASSUME SettleInv, TxMoves, LedgerEdited, RecordsTouched,
         reconciled' \subseteq Movement \X BankLine,
         bank' \in [BankLine -> {"PENDIENTE", "CONCILIADA"}]
  PROVE  SettleInv'
<1> USE RegistroAssumption, FinanceAssumption
<1>1. FinanceTypeOK'
  <2>1. tx' \in [Session -> TxType]
    BY TxTypeStep DEF SettleInv
  <2> QED
    BY <2>1 DEF FinanceTypeOK, LedgerEdited, RecordsTouched
<1>2. ASSUME NEW s \in Session PROVE Awaiting(tx[s])'
  <2>1. PICK x \in TxType : tx'[s] = x /\ Awaiting(x)
    <3>1. tx[s] \in TxType /\ Awaiting(tx[s])
      BY DEF SettleInv, FinanceTypeOK
    <3> QED
      BY <3>1, FreshAwaits DEF TxMoves, SettleInv, FinanceTypeOK
  <2> QED
    BY <2>1, AwaitingKept DEF Awaiting, SettleInv
<1>3. OneSettler'
  BY OneSettlerStep DEF SettleInv
<1>4. ASSUME NEW m \in Movement PROVE Keyed(m)'
  BY DEF SettleInv, Keyed, LedgerEdited, Edited
<1>5. ASSUME NEW r \in Registro, NEW m \in Movement
      PROVE  (registro[r].movimiento = m <=> movement[m].clave = r)'
  <2>1. registro'[r].movimiento = registro[r].movimiento
    BY DEF RecordsTouched, Touched
  <2>2. movement[m].estatus = "LIBRE" => movement[m].clave = None
    BY DEF SettleInv, Keyed
  <2>3. movement'[m].clave = movement[m].clave
    BY <2>2 DEF LedgerEdited, Edited
  <2> QED
    BY <2>1, <2>3 DEF SettleInv, Paired
<1>6. ASSUME NEW r \in Registro PROVE Consistent(registro[r])' /\ Matched(r)'
  <2>1. Consistent(registro[r])'
    BY DEF RecordsTouched, Touched, Consistent
  <2>2. ASSUME registro[r].movimiento # None PROVE Matched(r)'
    <3> DEFINE m == registro[r].movimiento
    <3>1. m \in Movement /\ movement[m].clave = r
      BY <2>2 DEF SettleInv, FinanceTypeOK, RegistroType, Paired
    <3>2. movement[m].estatus # "LIBRE"
      BY <3>1 DEF SettleInv, Keyed
    <3>3. movement'[m].naturaleza = movement[m].naturaleza /\ movement'[m].monto = movement[m].monto
      BY <3>1, <3>2 DEF LedgerEdited, Edited
    <3>4. registro[r].estado # "LIBRE"
      BY <2>2 DEF SettleInv, Consistent
    <3>5. /\ registro'[r].movimiento = m /\ registro'[r].naturaleza = registro[r].naturaleza
          /\ registro'[r].validado = registro[r].validado
      BY <3>4 DEF RecordsTouched, Touched
    <3>6. Matched(r)
      BY DEF SettleInv
    <3> QED
      BY <3>3, <3>5, <3>6, <2>2 DEF Matched
  <2>3. ASSUME registro[r].movimiento = None PROVE Matched(r)'
    BY <2>3 DEF RecordsTouched, Touched, Matched
  <2> QED
    BY <2>1, <2>2, <2>3
<1> QED
  BY <1>1, <1>2, <1>3, <1>4, <1>5, <1>6 DEF SettleInv, Paired

-----------------------------------------------------------------------------
(* The commit of a settlement: the record it read is still open, and no     *)
(* other session is settling it.                                            *)
LEMMA SettleCommits ==
  ASSUME SettleInv, NEW s \in Session, NEW m \in Movement,
         CommitApplyIncome(s, m) \/ CommitPayRequest(s, m)
  PROVE  /\ SettleInv'
         /\ \A q \in Registro : registro[q].estado = "SALDADO" => registro'[q] = registro[q]
<1> DEFINE r == tx[s].id
           amount == tx[s].importe
           validado == IF tx[s].op = "applyIncome" THEN amount ELSE 0
           paid == [estatus |-> "APLICADO", naturaleza |-> registro[r].naturaleza,
                    monto |-> amount, distribuido |-> amount, comprobante |-> "VIGENTE",
                    origen |-> None, expediente |-> TRUE, clave |-> r]
           settled == [registro[r] EXCEPT !.estado = "SALDADO", !.validado = validado,
                                          !.movimiento = m]
<1> USE RegistroAssumption, FinanceAssumption
<1>1. /\ tx[s].op \in Settling /\ tx' = [tx EXCEPT ![s] = NoTx]
      /\ movement[m].estatus = "LIBRE" /\ movement' = [movement EXCEPT ![m] = paid]
      /\ registro' = [registro EXCEPT ![r] = settled]
      /\ UNCHANGED <<reconciled, bank, propuesta>>
  BY DEF CommitApplyIncome, CommitPayRequest, Settle, Close, Operational, Write, Settling
<1>2. r \in Registro /\ amount \in Amount \cup {0} /\ validado \in Amount \cup {0}
  <2>1. tx[s] \in TxType
    BY DEF SettleInv, FinanceTypeOK
  <2> QED
    BY <1>1, <2>1 DEF TxType, Settling
<1>3. /\ registro[r] \in RegistroType /\ registro[r].estado \in {"PENDIENTE", "ANULADO"}
      /\ registro[r].naturaleza = NatureOf(tx[s].op) /\ registro[r].movimiento = None
  <2>1. Awaiting(tx[s]) /\ Consistent(registro[r]) /\ registro[r] \in RegistroType
    BY <1>2 DEF SettleInv, FinanceTypeOK
  <2> QED
    BY <1>1, <2>1 DEF Awaiting, Consistent
<1>4. /\ paid \in MovementType /\ paid.clave = r /\ paid.expediente /\ paid.estatus = "APLICADO"
      /\ paid.naturaleza = registro[r].naturaleza /\ paid.monto = amount
  <2> HIDE DEF amount, r
  <2>1. amount \in Nat /\ registro[r].naturaleza \in Nature
    BY <1>2, <1>3 DEF RegistroType
  <2>2. paid \in MovementType
    BY <1>2, <2>1 DEF MovementType, Applied
  <2> QED
    BY <2>2
<1>5. /\ settled \in RegistroType /\ settled.estado = "SALDADO" /\ settled.movimiento = m
      /\ settled.naturaleza = registro[r].naturaleza /\ settled.validado = validado
  BY <1>2, <1>3 DEF RegistroType
<1>6. settled.naturaleza = "INGRESO" => settled.validado = amount
  BY <1>1, <1>3, <1>5 DEF NatureOf, Settling
<1>7. movement[m].clave = None
  BY <1>1 DEF SettleInv, Keyed
<1> HIDE DEF paid, settled, validado, amount
<1>8. FinanceTypeOK'
  BY <1>1, <1>2, <1>4, <1>5, NoTxTyped DEF SettleInv, FinanceTypeOK
<1>9. ASSUME NEW t \in Session PROVE Awaiting(tx[t])'
  <2>1. CASE t = s
    BY <1>1, <2>1, FreshAwaits DEF SettleInv, FinanceTypeOK, Awaiting, NoTx, Settling, Editing
  <2>2. CASE t # s
    <3>1. tx'[t] = tx[t] /\ tx[t] \in TxType /\ Awaiting(tx[t])
      BY <1>1, <2>2 DEF SettleInv, FinanceTypeOK
    <3>2. tx[t].op \in Settling => tx[t].id # r
      BY <1>1, <1>3, <2>2, <3>1 DEF SettleInv, OneSettler, Awaiting, NatureOf, Settling
    <3>3. tx[t].op \in Settling => registro'[tx[t].id] = registro[tx[t].id]
      BY <1>1, <3>1, <3>2 DEF TxType, Settling, SettleInv, FinanceTypeOK
    <3>4. tx[t].op \in Editing \cup {"reverseMovimiento"} => movement'[tx[t].id] = movement[tx[t].id]
      BY <1>1, <3>1 DEF TxType, Editing, SettleInv, FinanceTypeOK, Awaiting
    <3> QED
      BY <3>1, <3>3, <3>4 DEF Awaiting
  <2> QED
    BY <2>1, <2>2
<1>10. OneSettler'
  BY <1>1 DEF SettleInv, FinanceTypeOK, OneSettler, NoTx, Settling
<1>11. ASSUME NEW k \in Movement PROVE Keyed(k)'
  BY <1>1, <1>4 DEF SettleInv, FinanceTypeOK, Keyed
<1>12. ASSUME NEW q \in Registro, NEW k \in Movement
       PROVE  (registro[q].movimiento = k <=> movement[k].clave = q)'
  BY <1>1, <1>2, <1>3, <1>4, <1>5, <1>7 DEF SettleInv, FinanceTypeOK, Paired
<1>13. ASSUME NEW q \in Registro PROVE Consistent(registro[q])' /\ Matched(q)'
  <2>1. CASE q = r
    BY <1>1, <1>2, <1>4, <1>5, <1>6, <2>1 DEF SettleInv, FinanceTypeOK, Consistent, Matched
  <2>2. CASE q # r
    <3>1. registro'[q] = registro[q] /\ Consistent(registro[q]) /\ Matched(q)
      BY <1>1, <2>2 DEF SettleInv, FinanceTypeOK
    <3>2. registro[q].movimiento # m
      BY <1>7 DEF SettleInv, Paired
    <3>3. registro[q].movimiento # None => movement'[registro[q].movimiento] = movement[registro[q].movimiento]
      BY <1>1, <3>2 DEF SettleInv, FinanceTypeOK, RegistroType
    <3> QED
      BY <3>1, <3>3 DEF Consistent, Matched
  <2> QED
    BY <2>1, <2>2
<1>14. ASSUME NEW q \in Registro, registro[q].estado = "SALDADO" PROVE registro'[q] = registro[q]
  BY <1>1, <1>3, <1>14 DEF SettleInv, FinanceTypeOK
<1> QED
  BY <1>8, <1>9, <1>10, <1>11, <1>12, <1>13, <1>14 DEF SettleInv, Paired

LEMMA SettleInit == FinanceInit => SettleInv
<1> SUFFICES ASSUME FinanceInit PROVE SettleInv
  OBVIOUS
<1> USE RegistroAssumption, FinanceAssumption
<1>1. FinanceTypeOK
  BY FreeTyped, NoTxTyped
  DEF FinanceInit, LedgerInit, FinanceTypeOK, NoRegistro, RegistroType, Nature
<1>2. \A s \in Session : Awaiting(tx[s])
  BY DEF FinanceInit, LedgerInit, Awaiting, NoTx, Settling, Editing
<1>3. OneSettler
  BY DEF FinanceInit, LedgerInit, OneSettler, NoTx, Settling
<1>4. (\A m \in Movement : Keyed(m)) /\ Paired
  BY DEF FinanceInit, LedgerInit, Keyed, Paired, Free, NoRegistro
<1>5. \A r \in Registro : Consistent(registro[r]) /\ Matched(r)
  BY DEF FinanceInit, Consistent, Matched, NoRegistro
<1> QED
  BY <1>1, <1>2, <1>3, <1>4, <1>5 DEF SettleInv

LEMMA SettleStep == SettleInv /\ [FinanceNext]_vars => SettleInv'
<1> SUFFICES ASSUME SettleInv, [FinanceNext]_vars PROVE SettleInv'
  OBVIOUS
<1>1. CASE Settles
  BY <1>1, SettleCommits DEF Settles
<1>2. CASE ~Settles
  <2>1. FinanceTypeOK
    BY DEF SettleInv
  <2> QED
    BY <1>2, <2>1, Transactions, OtherSteps, BankStep, KeptInv
<1> QED
  BY <1>1, <1>2

(* Every step keeps what is settled.  *)
LEMMA StaysStep ==
  ASSUME SettleInv, [FinanceNext]_vars, NEW r \in Registro, registro[r].estado = "SALDADO"
  PROVE  /\ registro'[r].estado = "SALDADO" /\ registro'[r].movimiento = registro[r].movimiento
         /\ registro'[r].validado = registro[r].validado
<1>1. CASE Settles
  BY <1>1, SettleCommits DEF Settles
<1>2. CASE ~Settles
  <2>1. RecordsTouched
    BY <1>2, OtherSteps
  <2>2. registro[r].movimiento # None
    BY DEF SettleInv, Consistent
  <2> QED
    BY <2>1, <2>2 DEF RecordsTouched, Touched, Consistent
<1> QED
  BY <1>1, <1>2

(* A settled record has its movement, and that movement has no other.  *)
LEMMA SettleImplies == SettleInv => SettledByOneMovement
<1> SUFFICES ASSUME SettleInv PROVE SettledByOneMovement
  OBVIOUS
<1>1. ASSUME NEW r \in Registro, registro[r].estado = "SALDADO"
      PROVE  LET m == registro[r].movimiento IN
             /\ m # None
             /\ movement[m].clave = r /\ movement[m].estatus \in {"APLICADO", "REVERTIDO"}
             /\ movement[m].naturaleza = registro[r].naturaleza
             /\ registro[r].naturaleza = "INGRESO" => movement[m].monto = registro[r].validado
  <2>1. registro[r].movimiento \in Movement /\ registro[r].movimiento # None
    BY <1>1 DEF SettleInv, FinanceTypeOK, RegistroType, Consistent
  <2> QED
    BY <2>1, RegistroAssumption DEF SettleInv, Paired, Matched, Keyed
<1>2. ASSUME NEW m \in Movement, movement[m].clave # None
      PROVE  registro[movement[m].clave].movimiento = m
  <2>1. movement[m].clave \in Registro
    BY <1>2 DEF SettleInv, FinanceTypeOK, MovementType
  <2> QED
    BY <2>1 DEF SettleInv, Paired
<1> QED
  BY <1>1, <1>2 DEF SettledByOneMovement

LEMMA SettleInvariant == FinanceSpec => []SettleInv
BY SettleInit, SettleStep, PTL DEF FinanceSpec

-----------------------------------------------------------------------------
(* Every column and every open transaction keeps its domain: for any        *)
(* movements, records, sessions and amounts.                                *)
THEOREM FinanceTypeCorrect == FinanceSpec => []FinanceTypeOK
<1>1. SettleInv => FinanceTypeOK
  BY DEF SettleInv
<1> QED
  BY <1>1, SettleInvariant, PTL

(* However many sessions report, validate, apply, pay, void and reverse at  *)
(* the same time, a record is settled by one movement, of its nature and    *)
(* amount, and a movement settles one record.                               *)
THEOREM SettledCorrect == FinanceSpec => []SettledByOneMovement
BY SettleInvariant, SettleImplies, PTL

(* A record that is settled stays so, with its movement and amount: a call  *)
(* that read it earlier to void it is refused by the constraint.            *)
THEOREM SettledStaysCorrect == FinanceSpec => SettledStays
<1> DEFINE Stays == \A r \in Registro : registro[r].estado = "SALDADO" =>
                      /\ registro'[r].estado = "SALDADO"
                      /\ registro'[r].movimiento = registro[r].movimiento
                      /\ registro'[r].validado = registro[r].validado
<1>1. SettleInv /\ [FinanceNext]_vars => [Stays]_vars
  BY StaysStep
<1> HIDE DEF Stays
<1>2. FinanceSpec => [][Stays]_vars
  BY <1>1, SettleInvariant, PTL DEF FinanceSpec
<1> QED
  BY <1>2 DEF SettledStays, Stays

-----------------------------------------------------------------------------
(* The ledger: what a session read under its lock still holds when it       *)
(* writes.                                                                  *)

Editors == {"replaceDistribution", "generateReceipt", "apply", "cancelDraft"}
Reversing == {"reverseApplied", "reverseMovimiento"}
Exclusive == Reversing \cup {"reconcile"}

InForce(c) == movement[c].estatus \in Applied

(* What an open transaction relies on until it commits.  *)
Relies(x) ==
  /\ x.op \in Editors => movement[x.id].estatus # "LIBRE" /\ movement[x.id].origen = None
  /\ x.op \in Reversing =>
       /\ movement[x.id].estatus # "LIBRE"
       /\ movement[x.id].expediente = (x.op = "reverseMovimiento")
       /\ \A c \in Movement : movement[c].origen = x.id => ~InForce(c)
  /\ x.op = "reconcile" =>
       /\ bank[x.id] = "PENDIENTE"
       /\ movement[x.other].estatus # "LIBRE" /\ movement[x.other].monto = BankAmount[x.id]

(* No two transactions of a kind reverse one movement or match one line.  *)
OneHolder ==
  \A s, t \in Session :
    tx[s].op \in Exclusive /\ tx[s].op = tx[t].op /\ tx[s].id = tx[t].id => s = t

(* A counter-movement is in force or reversed; it mirrors its movement.  *)
CounterOK(c) ==
  LET m == movement[c].origen IN
  m # None =>
    /\ movement[c].estatus \in {"APLICADO", "VALIDADO", "REVERTIDO"}
    /\ movement[c].estatus = "VALIDADO" => movement[c].expediente
    /\ movement[m].estatus # "LIBRE"
    /\ movement[c].monto = movement[m].monto
    /\ movement[c].naturaleza = Opposite(movement[m].naturaleza)
    /\ movement[c].expediente = movement[m].expediente

OneInForce ==
  \A c, d \in Movement :
    movement[c].origen # None /\ movement[c].origen = movement[d].origen /\ InForce(c) /\ InForce(d)
      => c = d

BankOK ==
  /\ \A b \in BankLine : bank[b] = "CONCILIADA" => \E m \in Movement : <<m, b>> \in reconciled
  /\ \A b \in BankLine, m \in Movement : <<m, b>> \in reconciled =>
       bank[b] = "CONCILIADA" /\ movement[m].estatus # "LIBRE" /\ movement[m].monto = BankAmount[b]
  /\ \A b \in BankLine, m, n \in Movement : <<m, b>> \in reconciled /\ <<n, b>> \in reconciled => m = n

LedgerInv ==
  /\ SettleInv
  /\ \A s \in Session : Relies(tx[s])
  /\ OneHolder
  /\ \A c \in Movement : CounterOK(c)
  /\ OneInForce
  /\ BankOK

-----------------------------------------------------------------------------
(* The kinds of step.  A read begins a transaction on what it has just read *)
(* or a transaction ends without a trace.                                   *)
FreshRead(x) ==
  /\ x.op \in Editors => movement[x.id].estatus \in Mutable
  /\ x.op = "reverseApplied" =>
       /\ movement[x.id].estatus \in Applied /\ ~movement[x.id].expediente
       /\ \A c \in Reversals(x.id) : movement[c].estatus # "APLICADO"
  /\ x.op = "reverseMovimiento" =>
       /\ movement[x.id].estatus \in Applied /\ movement[x.id].expediente
       /\ Reversals(x.id) = {}
  /\ x.op = "reconcile" =>
       /\ bank[x.id] = "PENDIENTE"
       /\ movement[x.other].estatus \in Applied /\ movement[x.other].monto = BankAmount[x.id]
  /\ x.op \in Exclusive => Unlocked(x.op, x.id)

TxEnds == tx' = tx \/ \E s \in Session : tx' = [tx EXCEPT ![s] = NoTx]

TxBegins == \E s \in Session, x \in TxType : tx' = [tx EXCEPT ![s] = x] /\ FreshRead(x)

Reads == (TxEnds \/ TxBegins) /\ UNCHANGED <<movement, reconciled, bank>>

Fills ==
  /\ TxEnds /\ UNCHANGED <<reconciled, bank>>
  /\ \E m \in Movement, row \in MovementType :
       /\ movement[m].estatus = "LIBRE" /\ row.estatus # "LIBRE" /\ row.origen = None
       /\ movement' = [movement EXCEPT ![m] = row]

Edits ==
  /\ TxEnds /\ UNCHANGED <<reconciled, bank>>
  /\ \E m \in Movement, row \in MovementType :
       /\ movement[m].estatus # "LIBRE" /\ movement[m].origen = None
       /\ row.estatus # "LIBRE" /\ row.origen = None
       /\ row.naturaleza = movement[m].naturaleza /\ row.monto = movement[m].monto
       /\ row.expediente = movement[m].expediente
       /\ movement' = [movement EXCEPT ![m] = row]

Reverses ==
  \E s \in Session, c \in Movement : CommitReverseApplied(s, c) \/ CommitReverseMovimiento(s, c)

Matches == \E s \in Session : CommitReconcile(s)

LEMMA ClosedEnds ==
  ASSUME NEW s \in Session, NEW op, Close(s, op)
  PROVE  TxEnds
BY DEF Close, TxEnds

LEMMA OpenedBegins ==
  ASSUME NEW s \in Session, NEW x \in TxType, FreshRead(x), tx' = [tx EXCEPT ![s] = x],
         UNCHANGED <<movement, reconciled, bank>>
  PROVE  Reads
BY DEF TxBegins, Reads

(* The operations of the central service read.  *)
LEMMA CentralKinds ==
  ASSUME FinanceTypeOK, NEW s \in Session, NEW m \in Movement, CentralStep(s, m)
  PROVE  Reads \/ Reverses
<1> USE FinanceAssumption, RegistroAssumption
<1>0. movement[m] \in MovementType
  BY DEF FinanceTypeOK
<1>1. ASSUME NEW d \in 1..movement[m].monto, ReadReplaceDistribution(s, m, d) PROVE Reads
  <2> DEFINE x == [op |-> "replaceDistribution", id |-> m, other |-> None, importe |-> d,
                   vigente |-> (movement[m].comprobante = "VIGENTE")]
  <2>1. d \in Nat
    BY <1>0 DEF MovementType
  <2>2. x \in TxType
    BY <2>1 DEF TxType
  <2>3. FreshRead(x)
    BY <1>1 DEF ReadReplaceDistribution, FreshRead, Editors, Exclusive, Reversing
  <2>4. tx' = [tx EXCEPT ![s] = x] /\ UNCHANGED <<movement, reconciled, bank>>
    BY <1>1 DEF ReadReplaceDistribution, Open
  <2> HIDE DEF x
  <2> QED
    BY <2>2, <2>3, <2>4, OpenedBegins
<1>2. ASSUME NEW op \in {"generateReceipt", "apply", "cancelDraft"},
             movement[m].estatus \in Mutable,
             tx' = [tx EXCEPT ![s] = [op |-> op, id |-> m, other |-> None, importe |-> 0,
                                      vigente |-> FALSE]],
             UNCHANGED <<movement, reconciled, bank>>
      PROVE  Reads
  <2> DEFINE x == [op |-> op, id |-> m, other |-> None, importe |-> 0, vigente |-> FALSE]
  <2>1. x \in TxType
    BY DEF TxType
  <2>2. FreshRead(x)
    BY <1>2 DEF FreshRead, Editors, Exclusive, Reversing
  <2>3. tx' = [tx EXCEPT ![s] = x]
    BY <1>2
  <2> HIDE DEF x
  <2> QED
    BY <1>2, <2>1, <2>2, <2>3, OpenedBegins
<1>3. CASE ReadGenerateReceipt(s, m)
  BY <1>2, <1>3 DEF ReadGenerateReceipt, Open
<1>4. CASE ReadApply(s, m)
  BY <1>2, <1>4 DEF ReadApply, Open
<1>5. CASE ReadCancelDraft(s, m)
  BY <1>2, <1>5 DEF ReadCancelDraft, OpenUnlocked
<1>6. CASE ReadReverseApplied(s, m)
  <2> DEFINE x == [op |-> "reverseApplied", id |-> m, other |-> None,
                   importe |-> movement[m].distribuido, vigente |-> FALSE]
  <2>1. x \in TxType
    BY <1>0 DEF TxType, MovementType
  <2>2. /\ tx' = [tx EXCEPT ![s] = x] /\ UNCHANGED <<movement, reconciled, bank>>
        /\ movement[m].estatus \in Applied /\ ~movement[m].expediente
        /\ \A c \in Reversals(m) : movement[c].estatus # "APLICADO"
        /\ Unlocked("reverseApplied", m)
    BY <1>6 DEF ReadReverseApplied, Open, Central
  <2>3. FreshRead(x)
    BY <2>2 DEF FreshRead, Editors
  <2> HIDE DEF x
  <2> QED
    BY <2>1, <2>2, <2>3, OpenedBegins
<1>7. ASSUME NEW b \in BankLine, ReadReconcile(s, m, b) PROVE Reads
  <2> DEFINE x == [op |-> "reconcile", id |-> b, other |-> m, importe |-> 0, vigente |-> FALSE]
  <2>1. x \in TxType
    BY DEF TxType
  <2>2. /\ tx' = [tx EXCEPT ![s] = x] /\ UNCHANGED <<movement, reconciled, bank>>
        /\ movement[m].estatus \in Applied /\ bank[b] = "PENDIENTE"
        /\ movement[m].monto = BankAmount[b] /\ Unlocked("reconcile", b)
    BY <1>7 DEF ReadReconcile, Open
  <2>3. FreshRead(x)
    BY <2>2 DEF FreshRead, Editors
  <2> HIDE DEF x
  <2> QED
    BY <2>1, <2>2, <2>3, OpenedBegins
<1> QED
  BY <1>1, <1>3, <1>4, <1>5, <1>6, <1>7 DEF CentralStep, Reverses

LEMMA DraftKinds ==
  ASSUME FinanceTypeOK, \A c \in Movement : CounterOK(c),
         NEW m \in Movement, NEW n \in Drafted, NEW amount \in Amount,
         \/ \E d \in 1..amount : CreateDraft(m, n, amount, d)
         \/ AddMovimientoFinanciero(m, n, amount)
  PROVE  Fills
<1> USE FinanceAssumption
<1>1. ASSUME NEW d \in 1..amount, CreateDraft(m, n, amount, d) PROVE Fills
  <2> DEFINE row == [Free EXCEPT !.estatus = StatusOf(d, amount), !.naturaleza = n,
                                 !.monto = amount, !.distribuido = d]
  <2>1. d \in Nat
    OBVIOUS
  <2>2. row \in MovementType /\ row.estatus # "LIBRE" /\ row.origen = None
    BY <2>1 DEF Free, MovementType, Nature, Mutable, StatusOf
  <2>3. movement' = [movement EXCEPT ![m] = row] /\ movement[m].estatus = "LIBRE"
        /\ UNCHANGED <<reconciled, bank, tx>>
    BY <1>1 DEF CreateDraft
  <2> HIDE DEF row
  <2> QED
    BY <2>2, <2>3 DEF Fills, TxEnds
<1>2. CASE AddMovimientoFinanciero(m, n, amount)
  <2> DEFINE row == [Free EXCEPT !.estatus = "PENDIENTE_COMPROBANTE", !.naturaleza = n,
                                 !.monto = amount, !.expediente = TRUE]
  <2>1. row \in MovementType /\ row.estatus # "LIBRE" /\ row.origen = None
    BY DEF Free, MovementType, Nature, Mutable
  <2>2. movement' = [movement EXCEPT ![m] = row] /\ movement[m].estatus = "LIBRE"
        /\ UNCHANGED <<reconciled, bank, tx>>
    BY <1>2 DEF AddMovimientoFinanciero
  <2> HIDE DEF row
  <2> QED
    BY <2>1, <2>2 DEF Fills, TxEnds
<1> QED
  BY <1>1, <1>2

(* An edit commits on a row that was in use, and no counter-movement.  *)
LEMMA CommitKinds ==
  ASSUME FinanceTypeOK, NEW s \in Session, Relies(tx[s]), CentralCommit(s)
  PROVE  Edits \/ Matches
<1> DEFINE m == tx[s].id
<1> USE FinanceAssumption
<1>0. tx[s] \in TxType
  BY DEF FinanceTypeOK
<1>1. ASSUME tx[s].op \in Editors
      PROVE  /\ m \in Movement /\ tx[s].importe \in Nat
             /\ movement[m] \in MovementType /\ movement[m].estatus # "LIBRE"
             /\ movement[m].origen = None
  <2>1. m \in Movement /\ tx[s].importe \in Nat
    BY <1>0, <1>1 DEF TxType, Editors
  <2> QED
    BY <1>1, <2>1 DEF Relies, FinanceTypeOK
<1>2. CASE CommitReplaceDistribution(s)
  <2> DEFINE row == [movement[m] EXCEPT !.distribuido = tx[s].importe,
                       !.comprobante = IF tx[s].vigente THEN "ANULADO" ELSE @,
                       !.estatus = StatusOf(tx[s].importe, movement[m].monto)]
  <2>1. tx[s].op = "replaceDistribution" /\ movement' = [movement EXCEPT ![m] = row]
        /\ UNCHANGED <<reconciled, bank>>
    BY <1>2 DEF CommitReplaceDistribution, Close
  <2>2. tx[s].op \in Editors
    BY <2>1 DEF Editors
  <2>3. /\ row \in MovementType /\ row.estatus # "LIBRE" /\ row.origen = None
        /\ row.naturaleza = movement[m].naturaleza /\ row.monto = movement[m].monto
        /\ row.expediente = movement[m].expediente
    BY <1>1, <2>2, ZenonT(60) DEF MovementType, StatusOf, Mutable
  <2>4. TxEnds
    BY <1>2, ClosedEnds DEF CommitReplaceDistribution
  <2> HIDE DEF row, m
  <2> QED
    BY <1>1, <2>1, <2>2, <2>3, <2>4 DEF Edits
<1>3. ASSUME NEW estatus \in {"LISTO_APLICAR", "APLICADO", "CANCELADO"},
             NEW comprobante \in {movement[m].comprobante, "VIGENTE"}, tx[s].op \in Editors,
             TxEnds, UNCHANGED <<reconciled, bank>>,
             movement' = [movement EXCEPT ![m] =
               [movement[m] EXCEPT !.comprobante = comprobante, !.estatus = estatus]]
      PROVE  Edits
  <2> DEFINE row == [movement[m] EXCEPT !.comprobante = comprobante, !.estatus = estatus]
  <2>1. /\ row \in MovementType /\ row.estatus # "LIBRE" /\ row.origen = None
        /\ row.naturaleza = movement[m].naturaleza /\ row.monto = movement[m].monto
        /\ row.expediente = movement[m].expediente
    BY <1>1, <1>3 DEF MovementType, Mutable, Applied
  <2>2. movement' = [movement EXCEPT ![m] = row]
    BY <1>3
  <2> HIDE DEF row, m
  <2> QED
    BY <1>1, <1>3, <2>1, <2>2 DEF Edits
<1>4. CASE CommitGenerateReceipt(s)
  <2>1. TxEnds
    BY <1>4, ClosedEnds DEF CommitGenerateReceipt
  <2> QED
    BY <1>3, <1>4, <2>1 DEF CommitGenerateReceipt, Close, Editors
<1>5. ASSUME NEW estatus \in {"APLICADO", "CANCELADO"}, tx[s].op \in Editors,
             TxEnds, UNCHANGED <<reconciled, bank>>,
             movement' = [movement EXCEPT ![m].estatus = estatus]
      PROVE  Edits
  <2>1. movement[m] \in MovementType
    BY <1>1, <1>5
  <2>2. [movement[m] EXCEPT !.estatus = estatus]
          = [movement[m] EXCEPT !.comprobante = movement[m].comprobante, !.estatus = estatus]
    BY <2>1 DEF MovementType
  <2> QED
    BY <1>3, <1>5, <2>2
<1>6. CASE CommitApply(s)
  <2>1. TxEnds
    BY <1>6, ClosedEnds DEF CommitApply
  <2> QED
    BY <1>5, <1>6, <2>1 DEF CommitApply, Close, Editors
<1>7. CASE CommitCancelDraft(s)
  <2>1. TxEnds
    BY <1>7, ClosedEnds DEF CommitCancelDraft
  <2> QED
    BY <1>5, <1>7, <2>1 DEF CommitCancelDraft, Close, Editors
<1> QED
  BY <1>2, <1>4, <1>6, <1>7 DEF CentralCommit, Matches

(* Settlement fills a free id; the other steps on records read.  *)
LEMMA SettleKinds ==
  ASSUME FinanceTypeOK, NEW s \in Session, SettleNext(s)
  PROVE  Reads \/ Fills \/ Reverses
<1> USE FinanceAssumption, RegistroAssumption
<1>a. \A amount \in Amount \cup {0} : amount \in Nat
  BY DEF FinanceAssumption
<1>1. ASSUME NEW r \in Registro, NEW op \in {"applyIncome", "payRequest", "voidRecord"},
             NEW amount, [op |-> op, id |-> r, other |-> None, importe |-> amount, vigente |-> FALSE] \in TxType,
             Open(s, op, r, None, amount, FALSE), UNCHANGED <<movement, reconciled, bank>>
      PROVE  Reads
  <2> DEFINE x == [op |-> op, id |-> r, other |-> None, importe |-> amount, vigente |-> FALSE]
  <2>1. FreshRead(x)
    BY DEF FreshRead, Editors, Exclusive, Reversing
  <2>2. x \in TxType /\ tx' = [tx EXCEPT ![s] = x]
    BY <1>1 DEF Open
  <2> HIDE DEF x
  <2> QED
    BY <1>1, <2>1, <2>2, OpenedBegins
<1>2. ASSUME NEW r \in Registro, NEW amount \in Amount, ReadApplyIncome(s, r, amount) PROVE Reads
  <2>1. [op |-> "applyIncome", id |-> r, other |-> None, importe |-> amount, vigente |-> FALSE] \in TxType
    BY DEF TxType
  <2> QED
    BY <1>1, <1>2, <2>1 DEF ReadApplyIncome
<1>3. ASSUME NEW r \in Registro, ReadPayRequest(s, r) PROVE Reads
  <2>1. registro[r].monto \in Amount \cup {0}
    BY DEF FinanceTypeOK, RegistroType
  <2>2. [op |-> "payRequest", id |-> r, other |-> None, importe |-> registro[r].monto,
         vigente |-> FALSE] \in TxType
    BY <2>1 DEF TxType
  <2> QED
    BY <1>1, <1>3, <2>2 DEF ReadPayRequest
<1>4. ASSUME NEW r \in Registro, ReadVoidRecord(s, r) PROVE Reads
  <2>1. [op |-> "voidRecord", id |-> r, other |-> None, importe |-> 0, vigente |-> FALSE] \in TxType
    BY DEF TxType
  <2> QED
    BY <1>1, <1>4, <2>1 DEF ReadVoidRecord
<1>5. ASSUME NEW m \in Movement, ReadReverseMovimiento(s, m) PROVE Reads
  <2> DEFINE x == [op |-> "reverseMovimiento", id |-> m, other |-> None, importe |-> 0,
                   vigente |-> FALSE]
  <2>1. x \in TxType
    BY DEF TxType
  <2>2. /\ tx' = [tx EXCEPT ![s] = x] /\ UNCHANGED <<movement, reconciled, bank>>
        /\ movement[m].estatus \in Applied /\ movement[m].expediente /\ Reversals(m) = {}
        /\ Unlocked("reverseMovimiento", m)
    BY <1>5 DEF ReadReverseMovimiento, Open, MayReverse
  <2>3. FreshRead(x)
    BY <2>2 DEF FreshRead, Editors
  <2> HIDE DEF x
  <2> QED
    BY <2>1, <2>2, <2>3, OpenedBegins
<1>6. ASSUME NEW m \in Movement, NEW op \in {"applyIncome", "payRequest"},
             NEW validado, tx[s].importe \in Amount \cup {0}, tx[s].id \in Registro,
             Settle(s, op, m, tx[s].id, tx[s].importe, validado)
      PROVE  Fills
  <2> DEFINE r == tx[s].id
             row == [estatus |-> "APLICADO", naturaleza |-> registro[r].naturaleza,
                     monto |-> tx[s].importe, distribuido |-> tx[s].importe,
                     comprobante |-> "VIGENTE", origen |-> None, expediente |-> TRUE, clave |-> r]
  <2>1. registro[r].naturaleza \in Nature
    BY <1>6 DEF FinanceTypeOK, RegistroType
  <2>5. tx[s].importe \in Nat
    BY ONLY <1>6, <1>a
  <2>2. row \in MovementType /\ row.estatus # "LIBRE" /\ row.origen = None
    BY <1>6, <2>1, <2>5 DEF MovementType, Applied
  <2>3. movement[m].estatus = "LIBRE" /\ movement' = [movement EXCEPT ![m] = row]
        /\ UNCHANGED <<reconciled, bank>>
    BY <1>6 DEF Settle, Operational
  <2>4. TxEnds
    BY <1>6, ClosedEnds DEF Settle
  <2> HIDE DEF row, r
  <2> QED
    BY <2>2, <2>3, <2>4 DEF Fills
<1>7. ASSUME NEW m \in Movement, CommitApplyIncome(s, m) \/ CommitPayRequest(s, m) PROVE Fills
  <2>1. tx[s].op \in {"applyIncome", "payRequest"}
    BY <1>7 DEF CommitApplyIncome, CommitPayRequest, Settle, Close
  <2>2. tx[s].importe \in Amount \cup {0} /\ tx[s].id \in Registro
    BY <2>1 DEF FinanceTypeOK, TxType
  <2> QED
    BY <1>6, <1>7, <2>2 DEF CommitApplyIncome, CommitPayRequest
<1>8. CASE CommitVoidRecord(s)
  <2>1. TxEnds
    BY <1>8, ClosedEnds DEF CommitVoidRecord
  <2> QED
    BY <1>8, <2>1 DEF CommitVoidRecord, Reads
<1> QED
  BY <1>2, <1>3, <1>4, <1>5, <1>7, <1>8 DEF SettleNext, Reverses

LEMMA Kinds ==
  ASSUME LedgerInv, [FinanceNext]_vars
  PROVE  Reads \/ Fills \/ Edits \/ Reverses \/ Matches
<1>0. FinanceTypeOK /\ (\A s \in Session : Relies(tx[s])) /\ \A c \in Movement : CounterOK(c)
  BY DEF LedgerInv, SettleInv
<1>1. CASE UNCHANGED vars
  BY <1>1 DEF vars, ledgerVars, Reads, TxEnds
<1>2. CASE FinanceNext
  <2>1. ASSUME NEW s \in Session, Rollback(s) PROVE Reads
    BY <2>1 DEF Rollback, Reads, TxEnds
  <2>2. CASE RecordNext
    BY <2>2 DEF RecordNext, CreateRegistro, RetireDocument, ProposeFromDocument,
                ValidateProposal, ledgerVars, Reads, TxEnds
  <2> QED
    BY <1>0, <1>2, <2>1, <2>2, FinanceCases, DraftKinds, CommitKinds, CentralKinds, SettleKinds
<1> QED
  BY <1>1, <1>2

-----------------------------------------------------------------------------
(* Rows in use keep what others compare them with.  *)
Kept ==
  \A m \in Movement : movement[m].estatus # "LIBRE" =>
    /\ movement'[m].estatus # "LIBRE" /\ movement'[m].monto = movement[m].monto
    /\ movement'[m].naturaleza = movement[m].naturaleza /\ movement'[m].origen = movement[m].origen
    /\ movement'[m].expediente = movement[m].expediente

NoNewCounter == \A c \in Movement : movement'[c].origen # None => movement'[c] = movement[c]

Relies2(x) ==
  /\ x.op \in Editors => movement'[x.id].estatus # "LIBRE" /\ movement'[x.id].origen = None
  /\ x.op \in Reversing =>
       /\ movement'[x.id].estatus # "LIBRE"
       /\ movement'[x.id].expediente = (x.op = "reverseMovimiento")
       /\ \A c \in Movement : movement'[c].origen = x.id => movement'[c].estatus \notin Applied
  /\ x.op = "reconcile" =>
       /\ bank'[x.id] = "PENDIENTE"
       /\ movement'[x.other].estatus # "LIBRE" /\ movement'[x.other].monto = BankAmount[x.id]

LEMMA TxIds ==
  ASSUME NEW x \in TxType
  PROVE  /\ x.op \in Editors \cup Reversing => x.id \in Movement
         /\ x.op = "reconcile" => x.id \in BankLine /\ x.other \in Movement
BY DEF TxType, Editors, Reversing

LEMMA PlainKinds ==
  ASSUME LedgerInv, Reads \/ Fills \/ Edits
  PROVE  /\ Kept /\ NoNewCounter /\ UNCHANGED <<reconciled, bank>>
         /\ TxEnds \/ TxBegins
<1>0. movement \in [Movement -> MovementType]
  BY DEF LedgerInv, SettleInv, FinanceTypeOK
<1>1. CASE Reads
  BY <1>1 DEF Reads, Kept, NoNewCounter
<1>2. CASE Fills
  BY <1>0, <1>2 DEF Fills, Kept, NoNewCounter
<1>3. CASE Edits
  BY <1>0, <1>3 DEF Edits, Kept, NoNewCounter
<1> QED
  BY <1>1, <1>2, <1>3

(* What was just read is what the commit relies on: a counter-movement of a *)
(* central movement is never VALIDADO.                                      *)
LEMMA FreshRelies ==
  ASSUME FinanceTypeOK, \A c \in Movement : CounterOK(c), NEW x \in TxType, FreshRead(x)
  PROVE  Relies(x)
<1> USE FinanceAssumption
<1>1. ASSUME x.op \in Editors
      PROVE  movement[x.id].estatus # "LIBRE" /\ movement[x.id].origen = None
  <2>1. x.id \in Movement /\ movement[x.id].estatus \in Mutable
    BY <1>1, TxIds DEF FreshRead
  <2> QED
    BY <2>1 DEF CounterOK, Mutable
<1>2. ASSUME x.op \in Reversing
      PROVE  /\ movement[x.id].estatus # "LIBRE"
             /\ movement[x.id].expediente = (x.op = "reverseMovimiento")
             /\ \A c \in Movement : movement[c].origen = x.id => ~InForce(c)
  <2>1. x.id \in Movement /\ movement[x.id].estatus \in Applied
        /\ movement[x.id].expediente \in BOOLEAN
    BY <1>2, TxIds DEF FreshRead, Reversing, FinanceTypeOK, MovementType
  <2>2. CASE x.op = "reverseApplied"
    <3>1. ASSUME NEW c \in Movement, movement[c].origen = x.id PROVE ~InForce(c)
      <4>1. movement[c].estatus # "APLICADO" /\ ~movement[x.id].expediente
        BY <2>2, <3>1 DEF FreshRead, Reversals
      <4>2. movement[c].origen # None /\ CounterOK(c)
        BY <2>1, <3>1
      <4> QED
        BY <3>1, <4>1, <4>2 DEF CounterOK, InForce, Applied
    <3> QED
      BY <2>1, <2>2, <3>1 DEF FreshRead, Applied
  <2>3. CASE x.op = "reverseMovimiento"
    <3>1. \A c \in Movement : movement[c].origen # x.id
      BY <2>3 DEF FreshRead, Reversals
    <3> QED
      BY <2>1, <2>3, <3>1 DEF FreshRead, Applied
  <2> QED
    BY <1>2, <2>2, <2>3 DEF Reversing
<1> QED
  BY <1>1, <1>2 DEF Relies, FreshRead, Applied

LEMMA HeldBefore ==
  ASSUME LedgerInv, TxEnds \/ TxBegins, NEW s \in Session
  PROVE  \E x \in TxType : tx'[s] = x /\ Relies(x)
<1>1. FinanceTypeOK /\ (\A c \in Movement : CounterOK(c)) /\ Relies(tx[s]) /\ tx[s] \in TxType
  BY DEF LedgerInv, SettleInv, FinanceTypeOK
<1>2. tx \in [Session -> TxType]
  BY <1>1 DEF FinanceTypeOK
<1>3. NoTx \in TxType /\ Relies(NoTx)
  BY NoTxTyped DEF NoTx, Relies, Editors, Reversing
<1>4. CASE TxEnds
  BY <1>1, <1>2, <1>3, <1>4 DEF TxEnds
<1>5. CASE TxBegins
  <2>1. PICK t \in Session, x \in TxType : tx' = [tx EXCEPT ![t] = x] /\ FreshRead(x)
    BY <1>5 DEF TxBegins
  <2>2. Relies(x)
    BY <1>1, <2>1, FreshRelies
  <2> QED
    BY <1>1, <1>2, <2>1, <2>2
<1> QED
  BY <1>4, <1>5

LEMMA HolderStep ==
  ASSUME FinanceTypeOK, OneHolder, TxEnds \/ TxBegins
  PROVE  OneHolder'
<1>1. tx \in [Session -> TxType]
  BY DEF FinanceTypeOK
<1>2. CASE TxEnds
  BY <1>1, <1>2 DEF OneHolder, TxEnds, NoTx, Exclusive, Reversing
<1>3. CASE TxBegins
  BY <1>1, <1>3 DEF OneHolder, TxBegins, FreshRead, Unlocked
<1> QED
  BY <1>2, <1>3

LEMMA PlainRelies ==
  ASSUME FinanceTypeOK, Kept, NoNewCounter, bank' = bank, NEW x \in TxType, Relies(x)
  PROVE  Relies2(x)
<1> USE FinanceAssumption
<1>1. ASSUME x.op \in Editors \cup Reversing PROVE x.id \in Movement /\ x.id # None
  BY <1>1, TxIds
<1>2. ASSUME x.op \in Reversing, NEW c \in Movement, movement'[c].origen = x.id
      PROVE  movement'[c].estatus \notin Applied
  BY <1>1, <1>2 DEF NoNewCounter, Relies, InForce
<1> QED
  BY <1>1, <1>2, TxIds DEF Relies, Relies2, Kept

LEMMA PlainStep ==
  ASSUME LedgerInv, SettleInv', Reads \/ Fills \/ Edits
  PROVE  LedgerInv'
<1> USE FinanceAssumption
<1>1. /\ Kept /\ NoNewCounter /\ reconciled' = reconciled /\ bank' = bank
      /\ TxEnds \/ TxBegins
  BY PlainKinds
<1>2. FinanceTypeOK
  BY DEF LedgerInv, SettleInv
<1>3. ASSUME NEW s \in Session PROVE Relies(tx[s])'
  <2>1. PICK x \in TxType : tx'[s] = x /\ Relies(x)
    BY <1>1, HeldBefore
  <2>2. Relies2(x)
    BY <1>1, <1>2, <2>1, PlainRelies
  <2> QED
    BY <2>1, <2>2 DEF Relies, Relies2, InForce
<1>4. OneHolder'
  BY <1>1, <1>2, HolderStep DEF LedgerInv
<1>5. ASSUME NEW c \in Movement PROVE CounterOK(c)'
  <2>1. SUFFICES ASSUME movement'[c].origen # None PROVE CounterOK(c)'
    BY DEF CounterOK
  <2>2. movement'[c] = movement[c] /\ CounterOK(c)
    BY <1>1, <2>1 DEF NoNewCounter, LedgerInv
  <2>3. movement[c].origen \in Movement
    BY <1>2, <2>1, <2>2 DEF FinanceTypeOK, MovementType
  <2> QED
    BY <1>1, <2>1, <2>2, <2>3 DEF CounterOK, Kept
<1>6. OneInForce'
  BY <1>1 DEF LedgerInv, OneInForce, InForce, NoNewCounter
<1>7. BankOK'
  BY <1>1 DEF LedgerInv, BankOK, Kept
<1> QED
  BY <1>3, <1>4, <1>5, <1>6, <1>7 DEF LedgerInv

(* A match: the line was still pending, and no other session matches it.  *)
LEMMA MatchStep ==
  ASSUME LedgerInv, SettleInv', Matches
  PROVE  LedgerInv'
<1> USE FinanceAssumption
<1>1. PICK s \in Session : CommitReconcile(s)
  BY DEF Matches
<1> DEFINE m == tx[s].other
           b == tx[s].id
<1>2. /\ tx[s].op = "reconcile" /\ tx' = [tx EXCEPT ![s] = NoTx] /\ movement' = movement
      /\ reconciled' = reconciled \cup {<<m, b>>} /\ bank' = [bank EXCEPT ![b] = "CONCILIADA"]
  BY <1>1 DEF CommitReconcile, Close
<1>3. FinanceTypeOK /\ tx \in [Session -> TxType] /\ bank \in [BankLine -> {"PENDIENTE", "CONCILIADA"}]
      /\ reconciled \subseteq Movement \X BankLine
  BY DEF LedgerInv, SettleInv, FinanceTypeOK
<1>4. m \in Movement /\ b \in BankLine
  BY <1>2, <1>3, TxIds
<1>5. bank[b] = "PENDIENTE" /\ movement[m].estatus # "LIBRE" /\ movement[m].monto = BankAmount[b]
  BY <1>2 DEF LedgerInv, Relies
<1>6. TxEnds
  BY <1>2 DEF TxEnds
<1> HIDE DEF m
<1>7. ASSUME NEW t \in Session PROVE Relies(tx[t])'
  <2>1. CASE t = s
    <3>1. tx'[t] = NoTx
      BY <1>2, <1>3, <2>1
    <3> QED
      BY <3>1 DEF Relies, NoTx, Editors, Reversing
  <2>2. CASE t # s
    <3>1. tx'[t] = tx[t] /\ Relies(tx[t]) /\ tx[t] \in TxType
      BY <1>2, <1>3, <2>2 DEF LedgerInv
    <3>2. ASSUME tx[t].op = "reconcile" PROVE bank'[tx[t].id] = bank[tx[t].id]
      <4>1. tx[t].id \in BankLine
        BY <3>1, <3>2, TxIds
      <4>2. tx[t].id # b
        BY <1>2, <2>2, <3>2 DEF LedgerInv, OneHolder, Exclusive
      <4> QED
        BY <1>2, <1>3, <4>1, <4>2
    <3> HIDE DEF b
    <3> QED
      BY <1>2, <3>1, <3>2 DEF Relies, InForce
  <2> QED
    BY <2>1, <2>2
<1>8. OneHolder'
  BY <1>3, <1>6, HolderStep DEF LedgerInv
<1>9. \A c \in Movement : CounterOK(c)'
  BY <1>2 DEF LedgerInv, CounterOK
<1>10. OneInForce'
  BY <1>2 DEF LedgerInv, OneInForce, InForce
<1>11. \A n \in Movement : <<n, b>> \notin reconciled
  BY <1>4, <1>5 DEF LedgerInv, BankOK
<1>12. \A n \in Movement, a \in BankLine :
         <<n, a>> \in reconciled' <=> <<n, a>> \in reconciled \/ (n = m /\ a = b)
  BY <1>2
<1>13. BankOK'
  <2> HIDE DEF b
  <2> QED
    BY <1>2, <1>3, <1>4, <1>5, <1>11, <1>12 DEF LedgerInv, BankOK
<1> QED
  BY <1>7, <1>8, <1>9, <1>10, <1>13 DEF LedgerInv

(* A reversal: no counter-movement of m was in force, and no other session  *)
(* reverses m.                                                              *)
LEMMA ReverseStep ==
  ASSUME LedgerInv, SettleInv', Reverses
  PROVE  LedgerInv'
<1> USE FinanceAssumption
<1>1. PICK s \in Session, c \in Movement : CommitReverseApplied(s, c) \/ CommitReverseMovimiento(s, c)
  BY DEF Reverses
<1> DEFINE m == tx[s].id
<1>2. /\ tx[s].op \in Reversing /\ tx' = [tx EXCEPT ![s] = NoTx] /\ UNCHANGED <<reconciled, bank>>
      /\ \E estatus \in {"APLICADO", "VALIDADO"} : \E comprobante, d :
           /\ Reverse(m, c, estatus, d, comprobante)
           /\ estatus = "VALIDADO" => tx[s].op = "reverseMovimiento"
  BY <1>1 DEF CommitReverseApplied, CommitReverseMovimiento, Close, Reversing
<1>2a. PICK estatus \in {"APLICADO", "VALIDADO"} : \E comprobante, d :
         /\ Reverse(m, c, estatus, d, comprobante)
         /\ estatus = "VALIDADO" => tx[s].op = "reverseMovimiento"
  BY <1>2
<1>3. PICK comprobante, d :
        /\ Reverse(m, c, estatus, d, comprobante)
        /\ estatus = "VALIDADO" => tx[s].op = "reverseMovimiento"
  BY <1>2a
<1>4. /\ FinanceTypeOK /\ tx \in [Session -> TxType] /\ movement \in [Movement -> MovementType]
      /\ \A t \in Session : Relies(tx[t])
      /\ \A k \in Movement : CounterOK(k)
  BY DEF LedgerInv, SettleInv, FinanceTypeOK
<1>5. m \in Movement /\ m # None
  BY <1>2, <1>4, TxIds
<1>6. /\ movement[m].estatus # "LIBRE"
      /\ movement[m].expediente = (tx[s].op = "reverseMovimiento")
      /\ \A k \in Movement : movement[k].origen = m => ~InForce(k)
  BY <1>2, <1>4 DEF Relies
<1> DEFINE counter == [estatus |-> estatus, naturaleza |-> Opposite(movement[m].naturaleza),
              monto |-> movement[m].monto, distribuido |-> d, comprobante |-> comprobante,
              origen |-> m, expediente |-> movement[m].expediente, clave |-> None]
           reversed == [movement[m] EXCEPT !.estatus = "REVERTIDO"]
<1>7. movement' = [movement EXCEPT ![c] = counter, ![m] = reversed] /\ movement[c].estatus = "LIBRE"
  BY <1>3, <1>4, <1>5, <1>6 DEF Reverse
<1>8. movement[c].origen = None
  BY <1>4, <1>7 DEF CounterOK
<1>9. /\ counter.estatus = estatus /\ counter.naturaleza = Opposite(movement[m].naturaleza)
      /\ counter.monto = movement[m].monto /\ counter.origen = m
      /\ counter.expediente = movement[m].expediente
  OBVIOUS
<1>10. /\ reversed.estatus = "REVERTIDO" /\ reversed.naturaleza = movement[m].naturaleza
       /\ reversed.monto = movement[m].monto /\ reversed.origen = movement[m].origen
       /\ reversed.expediente = movement[m].expediente
  BY <1>4, <1>5 DEF MovementType
<1> HIDE DEF counter, reversed
<1>11. /\ c # m /\ movement'[c] = counter /\ movement'[m] = reversed
       /\ \A k \in Movement : k # c /\ k # m => movement'[k] = movement[k]
  BY <1>4, <1>5, <1>6, <1>7
<1> HIDE DEF m
<1>12. Kept
  BY <1>7, <1>10, <1>11 DEF Kept
<1>13. ASSUME NEW t \in Session PROVE Relies(tx[t])'
  <2>1. CASE t = s
    <3>1. tx'[t] = NoTx
      BY <1>2, <1>4, <2>1
    <3> QED
      BY <3>1 DEF Relies, NoTx, Editors, Reversing
  <2>2. CASE t # s
    <3>1. PICK x \in TxType : x = tx[t] /\ tx'[t] = x /\ Relies(x)
      BY <1>2, <1>4, <2>2
    <3>2. ASSUME x.op \in Reversing PROVE x.id # m
      <4>1. movement[x.id].expediente = (x.op = "reverseMovimiento")
        BY <3>1, <3>2 DEF Relies
      <4>2. x.id = m => x.op = tx[s].op
        BY <1>2, <1>6, <3>2, <4>1 DEF Reversing
      <4> QED
        BY <1>2, <2>2, <3>1, <3>2, <4>2 DEF LedgerInv, OneHolder, Exclusive, m
    <3>3. ASSUME x.op \in Reversing, NEW k \in Movement, movement'[k].origen = x.id
          PROVE  movement'[k].estatus \notin Applied
      <4>1. k # c
        BY <1>9, <1>11, <3>2, <3>3
      <4>2. CASE k = m
        BY <1>10, <1>11, <4>2 DEF Applied
      <4>3. CASE k # m
        BY <1>11, <3>1, <3>3, <4>1, <4>3 DEF Relies, InForce
      <4> QED
        BY <4>2, <4>3
    <3>4. Relies2(x)
      BY <1>2, <1>12, <3>1, <3>3, TxIds DEF Relies, Relies2, Kept
    <3> QED
      BY <3>1, <3>4 DEF Relies, Relies2, InForce
  <2> QED
    BY <2>1, <2>2
<1>14. OneHolder'
  <2>1. TxEnds
    BY <1>2 DEF TxEnds
  <2> QED
    BY <1>4, <2>1, HolderStep DEF LedgerInv
<1>15. ASSUME NEW k \in Movement PROVE CounterOK(k)'
  <2>1. CASE k = c
    BY <1>3, <1>5, <1>6, <1>9, <1>10, <1>11, <2>1 DEF CounterOK
  <2>2. CASE k # c /\ movement[k].origen # None
    <3>1. movement[k].origen \in Movement /\ CounterOK(k)
      BY <1>4, <2>2 DEF MovementType
    <3>2. movement[k].estatus # "LIBRE" /\ movement[movement[k].origen].estatus # "LIBRE"
      BY <2>2, <3>1 DEF CounterOK
    <3>3. /\ movement'[k].origen = movement[k].origen /\ movement'[k].monto = movement[k].monto
          /\ movement'[k].naturaleza = movement[k].naturaleza
          /\ movement'[k].expediente = movement[k].expediente
      BY <1>12, <3>2 DEF Kept
    <3>4. LET o == movement[k].origen IN
          /\ movement'[o].estatus # "LIBRE" /\ movement'[o].monto = movement[o].monto
          /\ movement'[o].naturaleza = movement[o].naturaleza
          /\ movement'[o].expediente = movement[o].expediente
      BY <1>12, <3>1, <3>2 DEF Kept
    <3>5. movement'[k].estatus \in {movement[k].estatus, "REVERTIDO"}
      BY <1>10, <1>11, <2>2
    <3> QED
      BY <2>2, <3>1, <3>3, <3>4, <3>5 DEF CounterOK
  <2>3. CASE k # c /\ movement[k].origen = None
    <3>1. movement'[k].origen = None
      BY <1>10, <1>11, <2>3
    <3> QED
      BY <3>1 DEF CounterOK
  <2> QED
    BY <2>1, <2>2, <2>3
<1>16. OneInForce'
  <2>1. ASSUME NEW k \in Movement, k # c, InForce(k)'
        PROVE  movement'[k] = movement[k] /\ InForce(k) /\ movement[k].origen # m
    <3>1. k # m
      BY <1>10, <1>11, <2>1 DEF InForce, Applied
    <3>2. movement'[k] = movement[k]
      BY <1>11, <2>1, <3>1
    <3> QED
      BY <1>6, <2>1, <3>2 DEF InForce
  <2> QED
    BY <1>9, <1>11, <2>1 DEF LedgerInv, OneInForce, InForce
<1>17. BankOK'
  BY <1>2, <1>12 DEF LedgerInv, BankOK, Kept
<1> QED
  BY <1>13, <1>14, <1>15, <1>16, <1>17 DEF LedgerInv

-----------------------------------------------------------------------------
LEMMA LedgerInvInit == FinanceInit => LedgerInv
<1> SUFFICES ASSUME FinanceInit PROVE LedgerInv
  OBVIOUS
<1>1. SettleInv
  BY SettleInit
<1>2. \A s \in Session : Relies(tx[s])
  BY DEF FinanceInit, LedgerInit, Relies, NoTx, Editors, Reversing
<1>3. OneHolder
  BY DEF FinanceInit, LedgerInit, OneHolder, NoTx, Exclusive, Reversing
<1>4. \A c \in Movement : movement[c].origen = None
  BY DEF FinanceInit, LedgerInit, Free
<1>5. (\A c \in Movement : CounterOK(c)) /\ OneInForce
  BY <1>4 DEF CounterOK, OneInForce
<1>6. BankOK
  BY DEF FinanceInit, LedgerInit, BankOK
<1> QED
  BY <1>1, <1>2, <1>3, <1>5, <1>6 DEF LedgerInv

LEMMA LedgerInvStep == LedgerInv /\ [FinanceNext]_vars => LedgerInv'
<1> SUFFICES ASSUME LedgerInv, [FinanceNext]_vars PROVE LedgerInv'
  OBVIOUS
<1>1. SettleInv'
  BY SettleStep DEF LedgerInv
<1> QED
  BY <1>1, Kinds, PlainStep, ReverseStep, MatchStep

LEMMA LedgerInvariant == FinanceSpec => []LedgerInv
BY LedgerInvInit, LedgerInvStep, PTL DEF FinanceSpec

(* At most one element: at most one in number.  *)
LEMMA AtMostOne ==
  ASSUME NEW S, \A x, y \in S : x = y
  PROVE  IsFiniteSet(S) /\ Cardinality(S) \in {0, 1} /\ (Cardinality(S) = 0 <=> S = {})
<1>1. CASE S = {}
  BY <1>1, FS_EmptySet
<1>2. CASE S # {}
  <2>1. PICK x \in S : S = {x}
    BY <1>2
  <2>2. IsFiniteSet(S) /\ Cardinality(S) = 1
    BY <2>1, FS_Singleton
  <2> QED
    BY <1>2, <2>2
<1> QED
  BY <1>1, <1>2

-----------------------------------------------------------------------------
(* For any number of sessions reversing, editing and applying at once, a    *)
(* movement has one counter-movement in force, of its amount and of the     *)
(* opposite nature.                                                         *)
THEOREM OneReversalCorrect == FinanceSpec => []OneActiveReversal
<1>1. ASSUME LedgerInv PROVE OneActiveReversal
  <2>1. SUFFICES ASSUME NEW m \in Movement
        PROVE  /\ Cardinality({c \in Reversals(m) : movement[c].estatus \in Applied}) <= 1
               /\ \A c \in Reversals(m) : movement[c].monto = movement[m].monto
                                          /\ movement[c].naturaleza = Opposite(movement[m].naturaleza)
    BY DEF OneActiveReversal
  <2>2. m # None
    BY FinanceAssumption
  <2> DEFINE S == {c \in Reversals(m) : movement[c].estatus \in Applied}
  <2>3. \A c, d \in S : c = d
    BY <1>1, <2>2 DEF LedgerInv, OneInForce, InForce, Reversals
  <2> HIDE DEF S
  <2>4. Cardinality(S) <= 1
    BY <2>3, AtMostOne
  <2> QED
    BY <1>1, <2>2, <2>4 DEF LedgerInv, CounterOK, Reversals, S
<1> QED
  BY <1>1, LedgerInvariant, PTL

(* Of any number of operators matching one bank line at the same time, one  *)
(* does, with a movement of its amount.                                     *)
THEOREM BankMatchedCorrect == FinanceSpec => []BankMatchedOnce
<1>1. ASSUME LedgerInv PROVE BankMatchedOnce
  <2>1. SUFFICES ASSUME NEW b \in BankLine
        PROVE  LET matched == {m \in Movement : <<m, b>> \in reconciled} IN
               /\ Cardinality(matched) = IF bank[b] = "CONCILIADA" THEN 1 ELSE 0
               /\ \A m \in matched : movement[m].monto = BankAmount[b]
    BY DEF BankMatchedOnce
  <2> DEFINE matched == {m \in Movement : <<m, b>> \in reconciled}
  <2>2. /\ \A x, y \in matched : x = y
        /\ \A m \in matched : movement[m].monto = BankAmount[b]
        /\ bank[b] = "CONCILIADA" <=> matched # {}
    BY <1>1 DEF LedgerInv, BankOK
  <2> HIDE DEF matched
  <2>3. Cardinality(matched) = IF bank[b] = "CONCILIADA" THEN 1 ELSE 0
    BY <2>2, AtMostOne
  <2> QED
    BY <2>2, <2>3 DEF matched
<1> QED
  BY <1>1, LedgerInvariant, PTL

=============================================================================
