------------------------------ MODULE Invoicing ------------------------------
(***************************************************************************)
(* FinanceFiscalService: fiscal documents (CFDI) from draft to prefactura, *)
(* or imported from an XML, the income whose amount the drafts share, the  *)
(* account and the payments of each, and the files behind them.            *)
(*                                                                         *)
(* Each method is a READ COMMITTED transaction under advisory locks of its *)
(* own, which are held to its end: a Read takes them and checks, a Commit  *)
(* writes by id.  updateDraft reads the row and its account once more than *)
(* that, before its transaction; a change of the row in between is found   *)
(* by its updated_at, which payments and versions change too, so the two   *)
(* reads count as one.  Accounts receivable and payable are one table: a   *)
(* document has the one of its direction.  An id of Cfdi stands for the    *)
(* idempotency key a draft is created under, or the UUID of an XML, and a  *)
(* Pago for the key of a payment.                                          *)
(***************************************************************************)
EXTENDS Totals, Sequences

CONSTANTS
  Cfdi,        \* ids of fiscal documents
  Manual,      \* those that are imported from an XML
  Ingreso,     \* ids of reported incomes
  Pago,        \* ids of payments
  File,        \* object keys
  Amount,      \* amounts that are entered
  Session,     \* database sessions of the server
  Metodo,      \* the payment methods that are entered for each document
  MaxVersions, \* bound: versions of a prefactura
  MaxCfdi,     \* bound: documents there are at once
  None

ASSUME InvoicingAssumption ==
  /\ Manual \subseteq Cfdi
  /\ Amount \subseteq Nat \ {0}
  /\ Metodo \in [Cfdi -> SUBSET {"PUE", "PPD"}]
  /\ MaxVersions \in Nat /\ MaxCfdi \in Nat
  /\ None \notin Cfdi \cup Ingreso \cup Pago \cup File

VARIABLES
  ingreso,     \* what invoicing reads of each expediente_ingresos_reportados row
  cfdi,        \* documentos_cfdi, with its prefactura_representaciones
  cuenta,      \* the account receivable or payable of each document
  pago,        \* aplicaciones_pago_cfdi
  store,       \* the keys under which the store has an object
  tope,        \* history: the largest amount each income has had
  perdida,     \* history: files of attempts that were committed and reported failed
  tx           \* the open transaction of each session

vars == <<ingreso, cfdi, cuenta, pago, store, tope, perdida, tx>>

incomeVars == <<ingreso, tope>>
fileVars == <<store, perdida>>

-----------------------------------------------------------------------------
Reserving == {"DRAFT", "PREFACTURA"}

NoCfdi == [estado |-> "LIBRE", metodo |-> "PPD", ingreso |-> None, total |-> 0, saldo |-> 0,
           versiones |-> <<>>, archivo |-> None]

NoCuenta == [estado |-> "NINGUNA", total |-> 0, cobrado |-> 0, saldo |-> 0]

NoPago == [cfdi |-> None, monto |-> 0]

NoTx == [op |-> "none", locks |-> {}, cfdi |-> None, importe |-> 0, metodo |-> "PPD",
         ingreso |-> None, pago |-> None, archivo |-> None, cuenta |-> NoCuenta, version |-> 0]

DraftsOf(i) == {c \in Cfdi : cfdi[c].ingreso = i /\ cfdi[c].estado \in Reserving}

Drafted(S) == Total([c \in Cfdi |-> IF c \in S THEN cfdi[c].total ELSE 0])

PaidOf(c) == Total([p \in Pago |-> IF pago[p].cfdi = c THEN pago[p].monto ELSE 0])

(* cfdiIncomeBalance: no document of an income is ever issued here, so the  *)
(* drafts alone use its amount up, if no invoice of it was loaded.          *)
Remaining(i, except) ==
  LET used == (IF ingreso[i].cargada THEN ingreso[i].monto ELSE 0) + Drafted(DraftsOf(i) \ except)
  IN  IF used > ingreso[i].monto THEN 0 ELSE ingreso[i].monto - used

(* ck_cuentas_cobrar_cfdi_balance, ck_cuentas_pagar_cfdi_balance.  *)
AccountOK(a) == a.total > 0 /\ a.saldo = a.total - a.cobrado /\ a.saldo >= 0

(* ck_documentos_cfdi_totales *)
DocumentOK(d) == d.saldo <= d.total /\ (d.total > 0 \/ d.estado = "DRAFT")

CuentaOf(total) ==
  IF total = 0 THEN NoCuenta
  ELSE [estado |-> "PENDIENTE", total |-> total, cobrado |-> 0, saldo |-> total]

-----------------------------------------------------------------------------
(* Mutant: the locks are not waited for.  *)
BeginUnlocked(s, t) == tx[s] = NoTx /\ tx' = [tx EXCEPT ![s] = t]

(* Locks are taken in one order everywhere: the document, then the income.  *)
Begin(s, t) ==
  /\ tx[s] = NoTx
  /\ \A u \in Session : tx[u].locks \cap t.locks = {}
  /\ tx' = [tx EXCEPT ![s] = t]

End(s, op) == tx[s].op = op /\ tx' = [tx EXCEPT ![s] = NoTx]

IncomeLock(i) == IF i = None THEN {} ELSE {<<"cfdi-income", i>>}

(* randomUUID: the key of a new file is like no other.  *)
FreshFile(f) ==
  /\ f \notin store \cup perdida
  /\ \A s \in Session : tx[s].archivo # f
  /\ \A c \in Cfdi : cfdi[c].archivo # f /\ \A n \in DOMAIN cfdi[c].versiones : cfdi[c].versiones[n] # f

(* There may be one more document.  *)
InBound(c) ==
  Cardinality({d \in Cfdi \ {c} : cfdi[d].estado # "LIBRE" \/ \E s \in Session : tx[s].cfdi = d}) < MaxCfdi

-----------------------------------------------------------------------------
(* ExpedienteFinanceService, without its own interleavings: the amount an   *)
(* income may be invoiced for is the one reported, then the validated one.  *)
SetIncome(i, estado, monto, cargada) ==
  /\ ingreso' = [ingreso EXCEPT ![i] = [estado |-> estado, monto |-> monto, cargada |-> cargada]]
  /\ tope' = [tope EXCEPT ![i] = IF monto > @ THEN monto ELSE @]
  /\ UNCHANGED <<cfdi, cuenta, pago, fileVars, tx>>

ValidateProposal(i, monto) ==
  /\ ingreso[i].estado = "PENDIENTE_APLICACION"
  /\ SetIncome(i, "PENDIENTE_APLICACION", monto, ingreso[i].cargada)

ApplyIncome(i, monto) ==
  /\ ingreso[i].estado = "PENDIENTE_APLICACION"
  /\ SetIncome(i, "APLICADO", monto, ingreso[i].cargada)

VoidRecord(i) ==
  /\ ingreso[i].estado = "PENDIENTE_APLICACION"
  /\ SetIncome(i, "ANULADO", ingreso[i].monto, ingreso[i].cargada)

(* The PDF and the XML of an invoice that was made elsewhere are there.  *)
CompleteIncomeInvoice(i) ==
  /\ ~ingreso[i].cargada
  /\ SetIncome(i, ingreso[i].estado, ingreso[i].monto, TRUE)

-----------------------------------------------------------------------------
(* What createDraft and updateDraft ask of the income of a draft: all but   *)
(* an incomplete draft, of total 0, must fit and be payable as it says.     *)
FitsIncome(i, except, metodo, total) ==
  /\ ingreso[i].estado # "ANULADO" /\ ingreso[i].monto > 0 /\ ~ingreso[i].cargada
  /\ total <= Remaining(i, except)
  /\ (metodo = "PUE" /\ total > 0) => ingreso[i].estado = "APLICADO"

ReadCreateDraft(s, c, i, metodo, total) ==
  /\ cfdi[c].estado = "LIBRE" /\ c \notin Manual /\ InBound(c)
  /\ i # None => FitsIncome(i, {}, metodo, total)
  /\ Begin(s, [NoTx EXCEPT !.op = "createDraft", !.cfdi = c, !.ingreso = i, !.metodo = metodo,
                           !.importe = total, !.locks = {<<"cfdi-draft", c>>} \cup IncomeLock(i)])
  /\ UNCHANGED <<incomeVars, cfdi, cuenta, pago, fileVars>>

(* The account of a draft of an income waits for its invoice.  *)
CommitCreateDraft(s) ==
  LET t == tx[s] IN
  /\ End(s, "createDraft")
  /\ cfdi' = [cfdi EXCEPT ![t.cfdi] =
       [NoCfdi EXCEPT !.estado = "DRAFT", !.metodo = t.metodo, !.ingreso = t.ingreso,
                      !.total = t.importe, !.saldo = t.importe]]
  /\ cuenta' = [cuenta EXCEPT ![t.cfdi] = IF t.ingreso = None THEN CuentaOf(t.importe) ELSE NoCuenta]
  /\ UNCHANGED <<incomeVars, pago, fileVars>>

ReadUpdateDraft(s, c, metodo, total) ==
  LET i == cfdi[c].ingreso IN
  /\ cfdi[c].estado \in Reserving
  /\ cuenta[c].cobrado <= total
  /\ i # None => FitsIncome(i, {c}, metodo, total)
  /\ Begin(s, [NoTx EXCEPT !.op = "updateDraft", !.cfdi = c, !.ingreso = i, !.metodo = metodo,
                           !.importe = total, !.cuenta = cuenta[c],
                           !.locks = {<<"cfdi-draft-id", c>>} \cup IncomeLock(i)])
  /\ UNCHANGED <<incomeVars, cfdi, cuenta, pago, fileVars>>

(* The account is rebalanced with the paid amount that was read; its paid   *)
(* amount and its state are not written.                                    *)
CommitUpdateDraft(s) ==
  LET t == tx[s]
      row == [cfdi[t.cfdi] EXCEPT !.estado = "DRAFT", !.metodo = t.metodo, !.total = t.importe,
                                  !.saldo = t.importe]
      rebalanced == [cuenta[t.cfdi] EXCEPT !.total = t.importe, !.saldo = t.importe - t.cuenta.cobrado]
  IN
  /\ End(s, "updateDraft")
  /\ cfdi' = [cfdi EXCEPT ![t.cfdi] = row]
  /\ \/ t.cuenta # NoCuenta /\ AccountOK(rebalanced)
        /\ cuenta' = [cuenta EXCEPT ![t.cfdi] = rebalanced]
     \/ t.cuenta = NoCuenta
        /\ cuenta' = [cuenta EXCEPT ![t.cfdi] = IF t.ingreso = None THEN CuentaOf(t.importe) ELSE @]
  /\ UNCHANGED <<incomeVars, pago, fileVars>>

ReadDeleteDraft(s, c) ==
  LET i == cfdi[c].ingreso IN
  /\ cfdi[c].estado \in Reserving
  /\ i # None => ingreso[i].estado # "ANULADO" /\ ingreso[i].monto > 0
  /\ cuenta[c].cobrado = 0 /\ cfdi[c].versiones = <<>>
  /\ Begin(s, [NoTx EXCEPT !.op = "deleteDraft", !.cfdi = c, !.ingreso = i,
                           !.locks = {<<"cfdi-draft-id", c>>} \cup IncomeLock(i)])
  /\ UNCHANGED <<incomeVars, cfdi, cuenta, pago, fileVars>>

(* ON DELETE RESTRICT of payments and versions.  *)
Unreferenced(c) == cfdi[c].versiones = <<>> /\ \A p \in Pago : pago[p].cfdi # c

CommitDeleteDraft(s) ==
  /\ End(s, "deleteDraft")
  /\ Unreferenced(tx[s].cfdi)
  /\ cfdi' = [cfdi EXCEPT ![tx[s].cfdi] = NoCfdi]
  /\ cuenta' = [cuenta EXCEPT ![tx[s].cfdi] = NoCuenta]
  /\ UNCHANGED <<incomeVars, pago, fileVars>>

-----------------------------------------------------------------------------
(* The PDF is rendered and uploaded inside the transaction.  *)
ReadGeneratePrefactura(s, c, f) ==
  /\ cfdi[c].estado \in Reserving /\ cfdi[c].total > 0
  /\ Len(cfdi[c].versiones) < MaxVersions
  /\ FreshFile(f)
  /\ Begin(s, [NoTx EXCEPT !.op = "generatePrefactura", !.cfdi = c, !.archivo = f,
                           !.version = Len(cfdi[c].versiones) + 1,
                           !.locks = {<<"prefactura-pdf", c>>}])
  /\ store' = store \cup {f}
  /\ UNCHANGED <<incomeVars, cfdi, cuenta, pago, perdida>>

(* A version needs its document, and a number of its own.  *)
AddVersion(s) ==
  LET t == tx[s]
      row == [cfdi[t.cfdi] EXCEPT !.estado = "PREFACTURA", !.versiones = Append(@, t.archivo)] IN
  /\ End(s, "generatePrefactura")
  /\ cfdi[t.cfdi].estado # "LIBRE" /\ t.version = Len(cfdi[t.cfdi].versiones) + 1
  /\ DocumentOK(row)
  /\ cfdi' = [cfdi EXCEPT ![t.cfdi] = row]
  /\ UNCHANGED <<incomeVars, cuenta, pago>>

(* The UUID is looked up and the file is uploaded before the transaction.   *)
ReadUploadManual(s, c, f) ==
  /\ c \in Manual /\ cfdi[c].estado = "LIBRE" /\ InBound(c)
  /\ FreshFile(f)
  /\ Begin(s, [NoTx EXCEPT !.op = "uploadManual", !.cfdi = c, !.archivo = f])
  /\ store' = store \cup {f}
  /\ UNCHANGED <<incomeVars, cfdi, cuenta, pago, perdida>>

(* The first attempt creates the document, with the data of its XML.  *)
AddManual(s) ==
  LET c == tx[s].cfdi IN
  /\ End(s, "uploadManual")
  /\ cfdi[c].estado = "LIBRE"
  /\ \E metodo \in Metodo[c], total \in Amount :
       /\ cfdi' = [cfdi EXCEPT ![c] =
            [NoCfdi EXCEPT !.estado = "VIGENTE", !.metodo = metodo, !.total = total,
                           !.saldo = total, !.archivo = tx[s].archivo]]
       /\ cuenta' = [cuenta EXCEPT ![c] = CuentaOf(total)]
  /\ UNCHANGED <<incomeVars, pago>>

CommitFile(s) ==
  /\ AddVersion(s) \/ AddManual(s)
  /\ UNCHANGED fileVars

(* Committed, but the answer is lost: the caller cleans up what it uploaded.*)
CommitFileUnheard(s) ==
  /\ AddVersion(s) \/ AddManual(s)
  /\ store' = store \ {tx[s].archivo}
  /\ perdida' = perdida \cup {tx[s].archivo}

(* Mutant: the loser removes the files of the document it found.  *)
DiscardDuplicateWinner(s) ==
  /\ End(s, "uploadManual")
  /\ cfdi[tx[s].cfdi].estado # "LIBRE"
  /\ store' = store \ {cfdi[tx[s].cfdi].archivo}
  /\ UNCHANGED <<incomeVars, cfdi, cuenta, pago, perdida>>

(* A later attempt finds the document, and removes its own files.  *)
DiscardDuplicate(s) ==
  /\ End(s, "uploadManual")
  /\ cfdi[tx[s].cfdi].estado # "LIBRE"
  /\ store' = store \ {tx[s].archivo}
  /\ UNCHANGED <<incomeVars, cfdi, cuenta, pago, perdida>>

(* The transaction fails, or the process ends; only the former cleans up.   *)
Fail(s) ==
  /\ tx[s] # NoTx
  /\ tx' = [tx EXCEPT ![s] = NoTx]
  /\ store' \in {store, store \ {tx[s].archivo}}
  /\ UNCHANGED <<incomeVars, cfdi, cuenta, pago, perdida>>

-----------------------------------------------------------------------------
PayReads(c, amount) ==
  /\ cuenta[c] # NoCuenta
  /\ amount <= cuenta[c].saldo
  /\ cfdi[c].metodo = "PUE" => amount = cuenta[c].saldo

PayTx(c, p, amount) ==
  [NoTx EXCEPT !.op = "applyPayment", !.cfdi = c, !.pago = p, !.importe = amount,
               !.cuenta = cuenta[c], !.locks = {<<"cfdi-payment", c>>}]

(* Mutant: payments of a document do not wait for each other.  *)
ReadApplyPaymentUnlocked(s, c, p, amount) ==
  /\ pago[p] = NoPago /\ PayReads(c, amount)
  /\ BeginUnlocked(s, PayTx(c, p, amount))
  /\ UNCHANGED <<incomeVars, cfdi, cuenta, pago, fileVars>>

(* The state of the document is not asked for.  *)
ReadApplyPayment(s, c, p, amount) ==
  /\ pago[p] = NoPago /\ PayReads(c, amount)
  /\ Begin(s, PayTx(c, p, amount))
  /\ UNCHANGED <<incomeVars, cfdi, cuenta, pago, fileVars>>

(* All that is written derives from the account that was read.  *)
CommitApplyPayment(s) ==
  LET t == tx[s]
      remaining == t.cuenta.saldo - t.importe
      paid == [cuenta[t.cfdi] EXCEPT !.cobrado = t.cuenta.cobrado + t.importe, !.saldo = remaining,
                                     !.estado = IF remaining = 0 THEN "LIQUIDADA" ELSE "PARCIAL"]
      row == [cfdi[t.cfdi] EXCEPT !.saldo = remaining]
  IN
  /\ End(s, "applyPayment")
  /\ cuenta[t.cfdi] # NoCuenta /\ AccountOK(paid) /\ DocumentOK(row)
  /\ pago[t.pago] = NoPago
  /\ pago' = [pago EXCEPT ![t.pago] = [cfdi |-> t.cfdi, monto |-> t.importe]]
  /\ cuenta' = [cuenta EXCEPT ![t.cfdi] = paid]
  /\ cfdi' = [cfdi EXCEPT ![t.cfdi] = row]
  /\ UNCHANGED <<incomeVars, fileVars>>

-----------------------------------------------------------------------------
InvoicingInit ==
  /\ ingreso = [i \in Ingreso |-> [estado |-> "PENDIENTE_APLICACION", monto |-> 0, cargada |-> FALSE]]
  /\ cfdi = [c \in Cfdi |-> NoCfdi]
  /\ cuenta = [c \in Cfdi |-> NoCuenta]
  /\ pago = [p \in Pago |-> NoPago]
  /\ store = {} /\ perdida = {}
  /\ tope = [i \in Ingreso |-> 0]
  /\ tx = [s \in Session |-> NoTx]

IncomeStep(i) ==
  \/ \E monto \in Amount : ValidateProposal(i, monto) \/ ApplyIncome(i, monto)
  \/ VoidRecord(i) \/ CompleteIncomeInvoice(i)

CfdiStep(s, c) ==
  \/ \E i \in Ingreso \cup {None}, metodo \in Metodo[c], total \in Amount \cup {0} :
       ReadCreateDraft(s, c, i, metodo, total)
  \/ \E metodo \in Metodo[c], total \in Amount \cup {0} : ReadUpdateDraft(s, c, metodo, total)
  \/ ReadDeleteDraft(s, c)
  \/ \E f \in File : ReadGeneratePrefactura(s, c, f) \/ ReadUploadManual(s, c, f)
  \/ \E p \in Pago, amount \in 1..cuenta[c].saldo : ReadApplyPayment(s, c, p, amount)

CommitStep(s) ==
  \/ CommitCreateDraft(s) \/ CommitUpdateDraft(s) \/ CommitDeleteDraft(s)
  \/ CommitFile(s) \/ CommitFileUnheard(s) \/ DiscardDuplicate(s)
  \/ CommitApplyPayment(s) \/ Fail(s)

InvoicingNext ==
  \/ \E i \in Ingreso : IncomeStep(i)
  \/ \E s \in Session : CommitStep(s) \/ \E c \in Cfdi : CfdiStep(s, c)

InvoicingSpec == InvoicingInit /\ [][InvoicingNext]_vars

-----------------------------------------------------------------------------
(* The account of a document has been paid exactly what its payments sum    *)
(* up to, owes the rest of the document's total, and is never overpaid;     *)
(* payments have an account.                                                *)
AccountsFollowPayments ==
  \A c \in Cfdi :
    /\ cuenta[c].cobrado = PaidOf(c)
    /\ cuenta[c] # NoCuenta => cuenta[c].total = cfdi[c].total
    /\ cuenta[c].saldo = cuenta[c].total - cuenta[c].cobrado /\ cuenta[c].saldo >= 0

(* However drafts are created and edited at once, they never reserve more   *)
(* of an income than the largest amount it has had.                         *)
ReservedWithinIncome == \A i \in Ingreso : Drafted(DraftsOf(i)) <= tope[i]

(* Of two imports of one XML, and of all versions of a prefactura, each     *)
(* that was committed keeps its own file, unless its own caller never heard *)
(* of the commit.                                                           *)
CommittedKeepsFiles ==
  \A c \in Cfdi :
    \A f \in {cfdi[c].archivo} \cup {cfdi[c].versiones[n] : n \in DOMAIN cfdi[c].versiones} :
      f # None => f \in store \cup perdida
=============================================================================
