-------------------------- MODULE Invoicing_proofs --------------------------
(***************************************************************************)
(* Accounts follow their payments, drafts stay within their income, and    *)
(* what was committed keeps its files, although every method of invoicing  *)
(* reads under locks of its own and writes later by id.                    *)
(***************************************************************************)
EXTENDS Invoicing, Totals_proofs

(* Types *)

CfdiType ==
  [estado : {"LIBRE", "DRAFT", "PREFACTURA", "VIGENTE"}, metodo : {"PUE", "PPD"},
   ingreso : Ingreso \cup {None}, total : Nat, saldo : Int,
   versiones : Seq(File), archivo : File \cup {None}]

CuentaType ==
  [estado : {"NINGUNA", "PENDIENTE", "PARCIAL", "LIQUIDADA"}, total : Nat, cobrado : Nat, saldo : Int]

PagoType == [cfdi : Cfdi \cup {None}, monto : Nat]

IngresoType ==
  [estado : {"PENDIENTE_APLICACION", "APLICADO", "ANULADO"}, monto : Nat, cargada : BOOLEAN]

Lock ==
  {"cfdi-draft", "cfdi-draft-id", "cfdi-income", "prefactura-pdf", "cfdi-payment"}
    \X (Cfdi \cup Ingreso)

TxType ==
  [op : {"none", "createDraft", "updateDraft", "deleteDraft", "generatePrefactura",
         "uploadManual", "applyPayment"},
   locks : SUBSET Lock, cfdi : Cfdi \cup {None}, importe : Nat, metodo : {"PUE", "PPD"},
   ingreso : Ingreso \cup {None}, pago : Pago \cup {None}, archivo : File \cup {None},
   cuenta : CuentaType, version : Nat]

InvoicingTypeOK ==
  /\ ingreso \in [Ingreso -> IngresoType]
  /\ cfdi \in [Cfdi -> CfdiType]
  /\ cuenta \in [Cfdi -> CuentaType]
  /\ pago \in [Pago -> PagoType]
  /\ tope \in [Ingreso -> Nat]
  /\ tx \in [Session -> TxType]

(* The columns that the invariants add up.  *)
Payments(c) == [p \in Pago |-> IF pago[p].cfdi = c THEN pago[p].monto ELSE 0]

DraftRow(i) ==
  [c \in Cfdi |-> IF cfdi[c].ingreso = i /\ cfdi[c].estado \in Reserving THEN cfdi[c].total ELSE 0]

ColumnsFinite ==
  /\ \A c \in Cfdi : IsFiniteSet(Units(Payments(c)))
  /\ \A i \in Ingreso : IsFiniteSet(Units(DraftRow(i)))

-----------------------------------------------------------------------------
(* What an open transaction read still holds, because the changes that      *)
(* would break it take one of its locks.                                    *)

Drafting == {"createDraft", "updateDraft", "deleteDraft"}

LocksOf(t) ==
  CASE t.op = "createDraft" -> {<<"cfdi-draft", t.cfdi>>} \cup IncomeLock(t.ingreso)
    [] t.op \in {"updateDraft", "deleteDraft"} ->
         {<<"cfdi-draft-id", t.cfdi>>} \cup IncomeLock(t.ingreso)
    [] t.op = "generatePrefactura" -> {<<"prefactura-pdf", t.cfdi>>}
    [] t.op = "applyPayment" -> {<<"cfdi-payment", t.cfdi>>}
    [] OTHER -> {}

OneHolder == \A s, u \in Session : s # u => tx[s].locks \cap tx[u].locks = {}

Relies(t) ==
  /\ t.locks = LocksOf(t)
  /\ t.op # "none" => t.cfdi \in Cfdi
  /\ t.op = "createDraft" => t.cfdi \notin Manual /\ cfdi[t.cfdi].estado = "LIBRE"
  /\ t.op = "uploadManual" => t.cfdi \in Manual
  /\ t.op \in {"generatePrefactura", "uploadManual"} => t.archivo # None
  /\ t.op \in {"updateDraft", "deleteDraft"} =>
       cfdi[t.cfdi].estado \in Reserving /\ cfdi[t.cfdi].ingreso = t.ingreso
  /\ t.op = "updateDraft" => (t.cuenta = NoCuenta <=> cuenta[t.cfdi] = NoCuenta)
  /\ t.op = "applyPayment" =>
       t.pago \in Pago /\ t.cuenta.cobrado = cuenta[t.cfdi].cobrado

(* The amount that a draft is about to take of its income fits.  *)
Fits(t) ==
  t.op \in {"createDraft", "updateDraft"} /\ t.ingreso # None =>
    t.importe + (Total(DraftRow(t.ingreso)) - DraftRow(t.ingreso)[t.cfdi]) <= tope[t.ingreso]

(* A document that is gone has left nothing behind, and only drafts have an *)
(* income.                                                                  *)
DocumentsOK ==
  \A c \in Cfdi :
    /\ cfdi[c].estado = "LIBRE" => cfdi[c] = NoCfdi /\ cuenta[c] = NoCuenta
    /\ cfdi[c].estado \notin Reserving => cfdi[c].ingreso = None

InvoicingInv ==
  /\ InvoicingTypeOK /\ ColumnsFinite /\ OneHolder /\ DocumentsOK
  /\ \A s \in Session : Relies(tx[s]) /\ Fits(tx[s])
  /\ \A i \in Ingreso : ingreso[i].monto <= tope[i]
  /\ AccountsFollowPayments /\ ReservedWithinIncome

-----------------------------------------------------------------------------
RowFiles(r) == {r.archivo} \cup {r.versiones[n] : n \in DOMAIN r.versiones}

FilesOf(c) == RowFiles(cfdi[c])

(* The file of an open transaction is in the store, and nobody else's.  *)
OwnFile(s) ==
  tx[s].archivo # None =>
    /\ tx[s].archivo \in store
    /\ \A c \in Cfdi : tx[s].archivo \notin FilesOf(c)
    /\ \A u \in Session : u # s => tx[u].archivo # tx[s].archivo

FileInv == (\A s \in Session : OwnFile(s)) /\ CommittedKeepsFiles

-----------------------------------------------------------------------------
(* The model's sums are the totals of these columns.  *)
LEMMA SumsAreTotals ==
  /\ \A c : PaidOf(c) = Total(Payments(c))
  /\ \A i : Drafted(DraftsOf(i)) = Total(DraftRow(i))
<1>1. \A c : PaidOf(c) = Total(Payments(c))
  BY DEF PaidOf, Payments
<1>2. ASSUME NEW i PROVE Drafted(DraftsOf(i)) = Total(DraftRow(i))
  <2>1. DraftRow(i) = [c \in Cfdi |-> IF c \in DraftsOf(i) THEN cfdi[c].total ELSE 0]
    BY DEF DraftRow, DraftsOf
  <2> QED
    BY <2>1 DEF Drafted
<1> QED
  BY <1>1, <1>2

LEMMA ColumnTypes ==
  ASSUME InvoicingTypeOK
  PROVE  /\ \A c : Payments(c) \in [Pago -> Nat]
         /\ \A i : DraftRow(i) \in [Cfdi -> Nat]
BY DEF InvoicingTypeOK, Payments, DraftRow, PagoType, CfdiType

LEMMA RowsTyped ==
  /\ NoTx \in TxType /\ NoCfdi \in CfdiType /\ NoCuenta \in CuentaType /\ NoPago \in PagoType
  /\ \A total \in Nat : CuentaOf(total) \in CuentaType
<1>1. NoCuenta \in CuentaType
  BY DEF NoCuenta, CuentaType
<1>2. \A total \in Nat : CuentaOf(total) \in CuentaType
  BY <1>1 DEF CuentaOf, CuentaType
<1>3. NoPago \in PagoType
  BY DEF NoPago, PagoType
<1>4. NoCfdi \in CfdiType
  <2>1. <<>> \in Seq(File)
    OBVIOUS
  <2> QED
    BY <2>1 DEF NoCfdi, CfdiType
<1>5. NoTx \in TxType
  BY <1>1 DEF NoTx, TxType
<1> QED
  BY <1>1, <1>2, <1>3, <1>4, <1>5

LEMMA NoneApart ==
  None \notin Cfdi /\ None \notin Ingreso /\ None \notin Pago /\ None \notin File
BY InvoicingAssumption

LEMMA NoTxRelies ==
  Relies(NoTx) /\ Fits(NoTx) /\ NoTx.op = "none" /\ NoTx.locks = {} /\ NoTx.archivo = None
BY DEF NoTx, Relies, Fits, LocksOf

(* Initially.  *)
LEMMA InvoicingInvInit == InvoicingInit => InvoicingInv
<1> SUFFICES ASSUME InvoicingInit PROVE InvoicingInv
  OBVIOUS
<1>1. InvoicingTypeOK
  BY RowsTyped DEF InvoicingInit, InvoicingTypeOK, IngresoType
<1>2. /\ \A s \in Session : tx[s] = NoTx
      /\ \A c \in Cfdi : cfdi[c] = NoCfdi /\ cuenta[c] = NoCuenta
  BY DEF InvoicingInit
<1>3. OneHolder /\ \A s \in Session : Relies(tx[s]) /\ Fits(tx[s])
  BY <1>2, NoTxRelies DEF OneHolder
<1>4. DocumentsOK
  BY <1>2 DEF DocumentsOK, NoCfdi
<1>5. \A c \in Cfdi : Payments(c) = [p \in Pago |-> 0]
  BY DEF InvoicingInit, Payments, NoPago
<1>6. \A i \in Ingreso : DraftRow(i) = [c \in Cfdi |-> 0]
  BY DEF InvoicingInit, DraftRow, NoCfdi, Reserving
<1>7. /\ \A c \in Cfdi : IsFiniteSet(Units(Payments(c))) /\ Total(Payments(c)) = 0
      /\ \A i \in Ingreso : IsFiniteSet(Units(DraftRow(i))) /\ Total(DraftRow(i)) = 0
  BY <1>5, <1>6, TotalZero
<1>8. AccountsFollowPayments
  BY <1>2, <1>7, SumsAreTotals DEF AccountsFollowPayments, NoCuenta, NoCfdi
<1>9. ReservedWithinIncome /\ \A i \in Ingreso : ingreso[i].monto <= tope[i]
  BY <1>7, SumsAreTotals DEF ReservedWithinIncome, InvoicingInit
<1> QED
  BY <1>1, <1>3, <1>4, <1>7, <1>8, <1>9 DEF InvoicingInv, ColumnsFinite

-----------------------------------------------------------------------------
(* Reading: a transaction opens, and changes nothing.  *)
Opens(s, t) ==
  /\ Begin(s, t)
  /\ UNCHANGED <<incomeVars, cfdi, cuenta, pago, perdida>>
  /\ \/ t.archivo = None /\ UNCHANGED store
     \/ FreshFile(t.archivo) /\ store' = store \cup {t.archivo}

LEMMA UpdatedTx ==
  ASSUME InvoicingTypeOK, NEW s \in Session, NEW t, tx' = [tx EXCEPT ![s] = t]
  PROVE  tx'[s] = t /\ \A u \in Session \ {s} : tx'[u] = tx[u]
BY DEF InvoicingTypeOK

LEMMA TxKeeps ==
  ASSUME InvoicingInv, NEW s \in Session, NEW t \in TxType, Relies(t), Fits(t),
         tx' = [tx EXCEPT ![s] = t], \A u \in Session : tx[u].locks \cap t.locks = {},
         UNCHANGED <<incomeVars, cfdi, cuenta, pago>>
  PROVE  InvoicingInv'
<1>1. /\ tx' = [tx EXCEPT ![s] = t] /\ \A u \in Session : tx[u].locks \cap t.locks = {}
      /\ UNCHANGED <<ingreso, tope, cfdi, cuenta, pago>>
  BY DEF incomeVars
<1>2. tx'[s] = t /\ \A u \in Session \ {s} : tx'[u] = tx[u]
  BY <1>1, UpdatedTx DEF InvoicingInv
<1>3. InvoicingTypeOK'
  BY <1>1 DEF InvoicingInv, InvoicingTypeOK
<1>4. OneHolder'
  BY <1>1, <1>2 DEF InvoicingInv, OneHolder
<1>5. \A i : DraftRow(i)' = DraftRow(i) /\ Total(DraftRow(i))' = Total(DraftRow(i))
              /\ Units(DraftRow(i))' = Units(DraftRow(i))
  BY <1>1 DEF DraftRow, Total, Units
<1>6. \A c : PaidOf(c)' = PaidOf(c) /\ Units(Payments(c))' = Units(Payments(c))
  BY <1>1 DEF Payments, PaidOf, Total, Units
<1>7. \A i : Drafted(DraftsOf(i))' = Drafted(DraftsOf(i))
  BY <1>1 DEF Drafted, DraftsOf, Total, Units
<1>8. \A u \in Session : Relies(tx[u])' /\ Fits(tx[u])'
  BY <1>1, <1>2, <1>5 DEF InvoicingInv, Relies, Fits
<1>9. AccountsFollowPayments'
  BY <1>1, <1>6 DEF InvoicingInv, AccountsFollowPayments
<1>10. ColumnsFinite' /\ DocumentsOK' /\ ReservedWithinIncome'
       /\ \A i \in Ingreso : ingreso'[i].monto <= tope'[i]
  BY <1>1, <1>5, <1>6, <1>7 DEF InvoicingInv, ColumnsFinite, DocumentsOK, ReservedWithinIncome
<1> QED
  BY <1>3, <1>4, <1>8, <1>9, <1>10 DEF InvoicingInv

LEMMA OpensKeeps ==
  ASSUME InvoicingInv, NEW s \in Session, NEW t \in TxType, Relies(t), Fits(t), Opens(s, t)
  PROVE  InvoicingInv'
BY TxKeeps DEF Opens, Begin

(* A draft that fits its income leaves room for all the others.  *)
LEMMA FitsLeavesRoom ==
  ASSUME InvoicingInv, NEW i \in Ingreso, NEW c \in Cfdi, NEW metodo, NEW total \in Nat,
         NEW except, FitsIncome(i, except, metodo, total),
         DraftsOf(i) \ except = DraftsOf(i) \ {c}
  PROVE  total + (Total(DraftRow(i)) - DraftRow(i)[c]) <= tope[i]
<1> DEFINE others == [d \in Cfdi |-> IF d \in DraftsOf(i) \ except THEN cfdi[d].total ELSE 0]
<1>1. DraftRow(i) \in [Cfdi -> Nat] /\ IsFiniteSet(Units(DraftRow(i)))
  BY ColumnTypes DEF InvoicingInv, ColumnsFinite
<1>2. others \in [Cfdi -> Nat]
  BY DEF InvoicingInv, InvoicingTypeOK, CfdiType
<1>3. others[c] = 0 /\ \A d \in Cfdi \ {c} : others[d] = DraftRow(i)[d]
  BY DEF DraftsOf, DraftRow
<1>4. Total(others) = Drafted(DraftsOf(i) \ except)
  BY DEF Drafted
<1> HIDE DEF others
<1>5. Total(others) = Total(DraftRow(i)) - DraftRow(i)[c] /\ IsFiniteSet(Units(others))
  <2>1. Total(others) = (Total(DraftRow(i)) - DraftRow(i)[c]) + 0 /\ IsFiniteSet(Units(others))
    BY <1>1, <1>2, <1>3, TotalUpdate
  <2>2. Total(DraftRow(i)) \in Nat /\ DraftRow(i)[c] \in Nat
    BY <1>1, TotalType
  <2> QED
    BY <2>1, <2>2
<1>6. /\ Total(others) \in Nat /\ Total(DraftRow(i)) \in Nat /\ DraftRow(i)[c] \in Nat
      /\ ingreso[i].monto \in Nat /\ tope[i] \in Nat /\ ingreso[i].monto <= tope[i]
  BY <1>1, <1>5, TotalType DEF InvoicingInv, InvoicingTypeOK, IngresoType
<1>7. Total(DraftRow(i)) <= tope[i]
  BY SumsAreTotals DEF InvoicingInv, ReservedWithinIncome
<1>8. total <= IF 0 + Total(others) > ingreso[i].monto THEN 0
               ELSE ingreso[i].monto - (0 + Total(others))
  BY <1>4 DEF FitsIncome, Remaining
<1> QED
  BY <1>5, <1>6, <1>7, <1>8

LEMMA LockTypes ==
  /\ \A c \in Cfdi \cup Ingreso, kind \in {"cfdi-draft", "cfdi-draft-id", "cfdi-income",
                                           "prefactura-pdf", "cfdi-payment"} : <<kind, c>> \in Lock
  /\ \A i \in Ingreso \cup {None} : IncomeLock(i) \subseteq Lock
BY DEF Lock, IncomeLock

LEMMA ReadsOpen ==
  ASSUME InvoicingInv, NEW s \in Session, NEW c \in Cfdi, CfdiStep(s, c)
  PROVE  \E t \in TxType : Relies(t) /\ Fits(t) /\ Opens(s, t)
<1> USE NoneApart
<1>0. /\ cfdi[c] \in CfdiType /\ cuenta[c] \in CuentaType
      /\ Amount \cup {0} \subseteq Nat /\ Metodo[c] \subseteq {"PUE", "PPD"}
      /\ NoCuenta \in CuentaType
  BY InvoicingAssumption, RowsTyped DEF InvoicingInv, InvoicingTypeOK
<1>1. ASSUME NEW i \in Ingreso \cup {None}, NEW metodo \in Metodo[c], NEW total \in Amount \cup {0},
             ReadCreateDraft(s, c, i, metodo, total)
      PROVE  \E t \in TxType : Relies(t) /\ Fits(t) /\ Opens(s, t)
  <2> DEFINE t == [NoTx EXCEPT !.op = "createDraft", !.cfdi = c, !.ingreso = i, !.metodo = metodo,
                     !.importe = total, !.locks = {<<"cfdi-draft", c>>} \cup IncomeLock(i)]
  <2>1. /\ t.op = "createDraft" /\ t.cfdi = c /\ t.ingreso = i /\ t.importe = total
        /\ t.locks = {<<"cfdi-draft", c>>} \cup IncomeLock(i) /\ t.archivo = None
    BY DEF NoTx
  <2>2. t \in TxType
    BY <1>0, LockTypes DEF NoTx, TxType
  <2>3. /\ Begin(s, t) /\ UNCHANGED <<incomeVars, cfdi, cuenta, pago, fileVars>>
        /\ cfdi[c].estado = "LIBRE" /\ c \notin Manual
        /\ i # None => FitsIncome(i, {}, metodo, total)
    BY <1>1 DEF ReadCreateDraft
  <2> HIDE DEF t
  <2>4. Relies(t)
    BY <2>1, <2>3 DEF Relies, LocksOf
  <2>5. ASSUME i # None PROVE total + (Total(DraftRow(i)) - DraftRow(i)[c]) <= tope[i]
    <3>1. DraftsOf(i) \ {} = DraftsOf(i) \ {c}
      BY <2>3 DEF DraftsOf, Reserving
    <3>2. i \in Ingreso /\ FitsIncome(i, {}, metodo, total) /\ total \in Nat
      BY <1>0, <2>3, <2>5
    <3> QED
      BY <3>1, <3>2, FitsLeavesRoom
  <2>6. Fits(t)
    BY <2>1, <2>5 DEF Fits
  <2>7. Opens(s, t)
    BY <2>1, <2>3 DEF Opens, fileVars
  <2> QED
    BY <2>2, <2>4, <2>6, <2>7
<1>2. ASSUME NEW metodo \in Metodo[c], NEW total \in Amount \cup {0}, ReadUpdateDraft(s, c, metodo, total)
      PROVE  \E t \in TxType : Relies(t) /\ Fits(t) /\ Opens(s, t)
  <2>0. PICK i \in Ingreso \cup {None} : i = cfdi[c].ingreso
    BY <1>0 DEF CfdiType
  <2> DEFINE t == [NoTx EXCEPT !.op = "updateDraft", !.cfdi = c, !.ingreso = i, !.metodo = metodo,
                     !.importe = total, !.cuenta = cuenta[c],
                     !.locks = {<<"cfdi-draft-id", c>>} \cup IncomeLock(i)]
  <2>1. /\ t.op = "updateDraft" /\ t.cfdi = c /\ t.ingreso = i /\ t.importe = total
        /\ t.locks = {<<"cfdi-draft-id", c>>} \cup IncomeLock(i) /\ t.archivo = None
        /\ t.cuenta = cuenta[c]
    BY DEF NoTx
  <2>2. t \in TxType
    BY <1>0, LockTypes DEF NoTx, TxType
  <2>3. /\ Begin(s, t) /\ UNCHANGED <<incomeVars, cfdi, cuenta, pago, fileVars>>
        /\ cfdi[c].estado \in Reserving
        /\ i # None => FitsIncome(i, {c}, metodo, total)
    BY <1>2, <2>0 DEF ReadUpdateDraft
  <2> HIDE DEF t
  <2>4. Relies(t)
    BY <2>0, <2>1, <2>3 DEF Relies, LocksOf
  <2>5. ASSUME i # None PROVE total + (Total(DraftRow(i)) - DraftRow(i)[c]) <= tope[i]
    BY <1>0, <2>3, <2>5, FitsLeavesRoom
  <2>6. Fits(t)
    BY <2>1, <2>5 DEF Fits
  <2>7. Opens(s, t)
    BY <2>1, <2>3 DEF Opens, fileVars
  <2> QED
    BY <2>2, <2>4, <2>6, <2>7
<1>3. ASSUME ReadDeleteDraft(s, c)
      PROVE  \E t \in TxType : Relies(t) /\ Fits(t) /\ Opens(s, t)
  <2>0. PICK i \in Ingreso \cup {None} : i = cfdi[c].ingreso
    BY <1>0 DEF CfdiType
  <2> DEFINE t == [NoTx EXCEPT !.op = "deleteDraft", !.cfdi = c, !.ingreso = i,
                     !.locks = {<<"cfdi-draft-id", c>>} \cup IncomeLock(i)]
  <2>1. /\ t.op = "deleteDraft" /\ t.cfdi = c /\ t.ingreso = i
        /\ t.locks = {<<"cfdi-draft-id", c>>} \cup IncomeLock(i) /\ t.archivo = None
    BY DEF NoTx
  <2>2. t \in TxType
    BY <1>0, LockTypes DEF NoTx, TxType
  <2>3. Begin(s, t) /\ UNCHANGED <<incomeVars, cfdi, cuenta, pago, fileVars>>
        /\ cfdi[c].estado \in Reserving
    BY <1>3, <2>0 DEF ReadDeleteDraft
  <2> HIDE DEF t
  <2>4. Relies(t) /\ Fits(t)
    BY <2>0, <2>1, <2>3 DEF Relies, LocksOf, Fits
  <2>5. Opens(s, t)
    BY <2>1, <2>3 DEF Opens, fileVars
  <2> QED
    BY <2>2, <2>4, <2>5
<1>4. ASSUME NEW f \in File, ReadGeneratePrefactura(s, c, f)
      PROVE  \E t \in TxType : Relies(t) /\ Fits(t) /\ Opens(s, t)
  <2>0. Len(cfdi[c].versiones) + 1 \in Nat
    <3>1. cfdi[c].versiones \in Seq(File)
      BY <1>0 DEF CfdiType
    <3> QED
      BY <3>1
  <2>9. PICK n \in Nat : n = Len(cfdi[c].versiones) + 1
    BY <2>0
  <2> DEFINE t == [NoTx EXCEPT !.op = "generatePrefactura", !.cfdi = c, !.archivo = f,
                     !.version = n, !.locks = {<<"prefactura-pdf", c>>}]
  <2>1. /\ t.op = "generatePrefactura" /\ t.cfdi = c /\ t.archivo = f
        /\ t.locks = {<<"prefactura-pdf", c>>}
    BY DEF NoTx
  <2>2. t \in TxType
    BY <1>0, LockTypes DEF NoTx, TxType
  <2>3. Begin(s, t) /\ UNCHANGED <<incomeVars, cfdi, cuenta, pago, perdida>>
        /\ FreshFile(f) /\ store' = store \cup {f}
    BY <1>4, <2>9 DEF ReadGeneratePrefactura
  <2> HIDE DEF t
  <2>4. Relies(t) /\ Fits(t)
    BY <2>1 DEF Relies, LocksOf, Fits
  <2>5. Opens(s, t)
    BY <2>1, <2>3 DEF Opens
  <2> QED
    BY <2>2, <2>4, <2>5
<1>5. ASSUME NEW f \in File, ReadUploadManual(s, c, f)
      PROVE  \E t \in TxType : Relies(t) /\ Fits(t) /\ Opens(s, t)
  <2> DEFINE t == [NoTx EXCEPT !.op = "uploadManual", !.cfdi = c, !.archivo = f]
  <2>1. t.op = "uploadManual" /\ t.cfdi = c /\ t.archivo = f /\ t.locks = {}
    BY DEF NoTx
  <2>2. t \in TxType
    BY <1>0 DEF NoTx, TxType
  <2>3. Begin(s, t) /\ UNCHANGED <<incomeVars, cfdi, cuenta, pago, perdida>>
        /\ FreshFile(f) /\ store' = store \cup {f} /\ c \in Manual
    BY <1>5 DEF ReadUploadManual
  <2> HIDE DEF t
  <2>4. Relies(t) /\ Fits(t)
    BY <2>1, <2>3 DEF Relies, LocksOf, Fits
  <2>5. Opens(s, t)
    BY <2>1, <2>3 DEF Opens
  <2> QED
    BY <2>2, <2>4, <2>5
<1>6. ASSUME NEW p \in Pago, NEW amount \in 1..cuenta[c].saldo, ReadApplyPayment(s, c, p, amount)
      PROVE  \E t \in TxType : Relies(t) /\ Fits(t) /\ Opens(s, t)
  <2> DEFINE t == PayTx(c, p, amount)
  <2>1. /\ t.op = "applyPayment" /\ t.cfdi = c /\ t.pago = p /\ t.cuenta = cuenta[c]
        /\ t.locks = {<<"cfdi-payment", c>>} /\ t.archivo = None
    BY DEF PayTx, NoTx
  <2>2. t \in TxType
    <3>1. amount \in Nat
      BY <1>0 DEF CuentaType
    <3> QED
      BY <1>0, <3>1, LockTypes DEF PayTx, NoTx, TxType
  <2>3. Begin(s, t) /\ UNCHANGED <<incomeVars, cfdi, cuenta, pago, fileVars>>
    BY <1>6 DEF ReadApplyPayment
  <2> HIDE DEF t
  <2>4. Relies(t) /\ Fits(t)
    BY <2>1 DEF Relies, LocksOf, Fits
  <2>5. Opens(s, t)
    BY <2>1, <2>3 DEF Opens, fileVars
  <2> QED
    BY <2>2, <2>4, <2>5
<1> QED
  BY <1>1, <1>2, <1>3, <1>4, <1>5, <1>6 DEF CfdiStep

-----------------------------------------------------------------------------
(* Writing: a transaction ends, and what it writes of its document changes  *)
(* nothing that another one has read under a lock.                          *)
Ends(s) == tx' = [tx EXCEPT ![s] = NoTx]

Draws(d, i) == IF d.ingreso = i /\ d.estado \in Reserving THEN d.total ELSE 0

Pays(p, c, monto) ==
  pago[p] = NoPago /\ pago' = [pago EXCEPT ![p] = [cfdi |-> c, monto |-> monto]]

(* Its document becomes d with the account a.  *)
Writes(s, c, d, a) ==
  /\ Ends(s) /\ UNCHANGED incomeVars
  /\ cfdi' = [cfdi EXCEPT ![c] = d] /\ cuenta' = [cuenta EXCEPT ![c] = a]
  /\ cfdi[c].estado = "LIBRE" => c \in Manual \/ <<"cfdi-draft", c>> \in tx[s].locks
  /\ cfdi[c].estado \in Reserving =>
       \/ <<"cfdi-draft-id", c>> \in tx[s].locks
       \/ /\ d.estado \in Reserving /\ d.ingreso = cfdi[c].ingreso
          /\ a = NoCuenta <=> cuenta[c] = NoCuenta
  /\ \/ UNCHANGED pago /\ a.cobrado = cuenta[c].cobrado
     \/ /\ <<"cfdi-payment", c>> \in tx[s].locks
        /\ \E p \in Pago, monto \in Nat :
             Pays(p, c, monto) /\ a.cobrado = cuenta[c].cobrado + monto

(* The income of the document, if what it draws changes, is locked and has  *)
(* room for it.                                                             *)
KeepsRoom(s, c, d) ==
  \A i \in Ingreso : Draws(d, i) # Draws(cfdi[c], i) =>
    /\ <<"cfdi-income", i>> \in tx[s].locks
    /\ Draws(d, i) + (Total(DraftRow(i)) - DraftRow(i)[c]) <= tope[i]

RowOK(d, a) ==
  /\ d \in CfdiType /\ a \in CuentaType
  /\ d.estado = "LIBRE" => d = NoCfdi /\ a = NoCuenta
  /\ d.estado \notin Reserving => d.ingreso = None
  /\ a # NoCuenta => a.total = d.total
  /\ a.saldo = a.total - a.cobrado /\ a.saldo >= 0

(* A payment adds to what its document has been paid, and to nothing else.  *)
LEMMA PaymentsMove ==
  ASSUME InvoicingInv, NEW c \in Cfdi, NEW p \in Pago, NEW monto \in Nat, Pays(p, c, monto)
  PROVE  /\ \A d \in Cfdi : IsFiniteSet(Units(Payments(d)))'
         /\ \A d \in Cfdi \ {c} : PaidOf(d)' = PaidOf(d)
         /\ PaidOf(c)' = PaidOf(c) + monto
         /\ pago' \in [Pago -> PagoType]
<1> USE NoneApart
<1>1. /\ pago \in [Pago -> PagoType] /\ pago[p] = NoPago
      /\ pago' = [pago EXCEPT ![p] = [cfdi |-> c, monto |-> monto]]
      /\ \A d \in Cfdi : IsFiniteSet(Units(Payments(d)))
  BY DEF Pays, InvoicingInv, InvoicingTypeOK, ColumnsFinite
<1>2. pago' \in [Pago -> PagoType]
  BY <1>1 DEF PagoType
<1>3. \A d \in Cfdi \ {c} : Payments(d)' = Payments(d)
  BY <1>1 DEF Payments, NoPago
<1>4. \A d : /\ PaidOf(d)' = Total(Payments(d)') /\ PaidOf(d) = Total(Payments(d))
             /\ Units(Payments(d))' = Units(Payments(d)')
  BY DEF PaidOf, Payments, Total, Units
<1>5. \A d \in Cfdi \ {c} : PaidOf(d)' = PaidOf(d) /\ Units(Payments(d))' = Units(Payments(d))
  BY <1>3, <1>4
<1>6. /\ Payments(c) \in [Pago -> Nat] /\ Payments(c)[p] = 0
      /\ Payments(c)' \in [Pago -> Nat] /\ Payments(c)'[p] = monto
      /\ \A q \in Pago \ {p} : Payments(c)'[q] = Payments(c)[q]
  BY <1>1, <1>2 DEF Payments, PagoType, NoPago
<1>7. /\ IsFiniteSet(Units(Payments(c)'))
      /\ Total(Payments(c)') = (Total(Payments(c)) - Payments(c)[p]) + monto
  <2>1. IsFiniteSet(Units(Payments(c)))
    BY <1>1
  <2> QED
    BY <1>6, <2>1, TotalUpdate
<1>8. Total(Payments(c)') = Total(Payments(c)) + monto
  BY <1>1, <1>6, <1>7, TotalType
<1> QED
  BY <1>1, <1>2, <1>5, <1>7, <1>8, <1>4

LEMMA AccountsKept ==
  ASSUME InvoicingInv, NEW s \in Session, NEW c \in Cfdi, NEW d, NEW a,
         Writes(s, c, d, a), RowOK(d, a)
  PROVE  /\ AccountsFollowPayments'
         /\ \A e \in Cfdi : IsFiniteSet(Units(Payments(e)))'
         /\ pago' \in [Pago -> PagoType]
<1>1. /\ \A e \in Cfdi : IsFiniteSet(Units(Payments(e)))'
      /\ \A e \in Cfdi \ {c} : PaidOf(e)' = PaidOf(e)
      /\ PaidOf(c)' = a.cobrado
      /\ pago' \in [Pago -> PagoType]
  <2>0. /\ cuenta[c].cobrado = PaidOf(c) /\ pago \in [Pago -> PagoType]
        /\ \A e \in Cfdi : IsFiniteSet(Units(Payments(e)))
    BY DEF InvoicingInv, AccountsFollowPayments, InvoicingTypeOK, ColumnsFinite
  <2>1. CASE UNCHANGED pago /\ a.cobrado = cuenta[c].cobrado
    <3>1. \A e \in Cfdi : PaidOf(e)' = PaidOf(e) /\ Units(Payments(e))' = Units(Payments(e))
      BY <2>1 DEF Payments, PaidOf, Total, Units
    <3> QED
      BY <2>0, <2>1, <3>1
  <2>2. ASSUME NEW p \in Pago, NEW monto \in Nat, Pays(p, c, monto),
               a.cobrado = cuenta[c].cobrado + monto
        PROVE  <1>1!1 /\ <1>1!2 /\ <1>1!3 /\ <1>1!4
    BY <2>0, <2>2, PaymentsMove
  <2> QED
    BY <2>1, <2>2 DEF Writes
<1>2. /\ cfdi'[c] = d /\ cuenta'[c] = a
      /\ \A e \in Cfdi \ {c} : cfdi'[e] = cfdi[e] /\ cuenta'[e] = cuenta[e]
  BY DEF Writes, InvoicingInv, InvoicingTypeOK
<1>3. AccountsFollowPayments'
  BY <1>1, <1>2 DEF InvoicingInv, AccountsFollowPayments, RowOK
<1> QED
  BY <1>1, <1>3

LEMMA RoomKept ==
  ASSUME InvoicingInv, NEW s \in Session, NEW c \in Cfdi, NEW d, NEW a,
         Writes(s, c, d, a), RowOK(d, a), KeepsRoom(s, c, d), NEW i \in Ingreso
  PROVE  /\ IsFiniteSet(Units(DraftRow(i)))'
         /\ (Drafted(DraftsOf(i)) <= tope[i])'
         /\ \/ <<"cfdi-income", i>> \in tx[s].locks
            \/ DraftRow(i)' = DraftRow(i) /\ Total(DraftRow(i))' = Total(DraftRow(i))
<1>1. /\ DraftRow(i) \in [Cfdi -> Nat] /\ IsFiniteSet(Units(DraftRow(i)))
      /\ Total(DraftRow(i)) <= tope[i] /\ tope' = tope
  BY ColumnTypes, SumsAreTotals
     DEF InvoicingInv, ColumnsFinite, ReservedWithinIncome, Writes, incomeVars
<1>2. cfdi'[c] = d /\ \A e \in Cfdi \ {c} : cfdi'[e] = cfdi[e]
  BY DEF Writes, InvoicingInv, InvoicingTypeOK
<1>3. /\ DraftRow(i)' \in [Cfdi -> Nat] /\ DraftRow(i)'[c] = Draws(d, i)
      /\ \A e \in Cfdi \ {c} : DraftRow(i)'[e] = DraftRow(i)[e]
      /\ DraftRow(i)[c] = Draws(cfdi[c], i) /\ Draws(d, i) \in Nat
  <2>1. \A e \in Cfdi : cfdi'[e].total \in Nat
    BY <1>2 DEF RowOK, CfdiType, InvoicingInv, InvoicingTypeOK
  <2>2. DraftRow(i)' \in [Cfdi -> Nat]
    BY <2>1 DEF DraftRow
  <2>3. DraftRow(i)'[c] = Draws(d, i) /\ DraftRow(i)[c] = Draws(cfdi[c], i)
    BY <1>2 DEF DraftRow, Draws
  <2>4. \A e \in Cfdi \ {c} : DraftRow(i)'[e] = DraftRow(i)[e]
    BY <1>2 DEF DraftRow
  <2> QED
    BY <2>2, <2>3, <2>4
<1>4. /\ IsFiniteSet(Units(DraftRow(i)'))
      /\ Total(DraftRow(i)') = (Total(DraftRow(i)) - DraftRow(i)[c]) + Draws(d, i)
  BY <1>1, <1>3, TotalUpdate
<1>5. /\ Units(DraftRow(i))' = Units(DraftRow(i)') /\ Total(DraftRow(i))' = Total(DraftRow(i)')
      /\ Drafted(DraftsOf(i))' = Total(DraftRow(i)')
  <2>1. Units(DraftRow(i))' = Units(DraftRow(i)') /\ Total(DraftRow(i))' = Total(DraftRow(i)')
    BY DEF DraftRow, Total, Units
  <2>2. Drafted(DraftsOf(i))' = Total(DraftRow(i)')
    <3>1. DraftRow(i)' = [e \in Cfdi |-> IF e \in DraftsOf(i)' THEN cfdi'[e].total ELSE 0]
      BY DEF DraftRow, DraftsOf
    <3>2. Drafted(DraftsOf(i))'
            = Total([e \in Cfdi |-> IF e \in DraftsOf(i)' THEN cfdi'[e].total ELSE 0])
      BY DEF Drafted, Total, Units
    <3> QED
      BY <3>1, <3>2
  <2> QED
    BY <2>1, <2>2
<1>6. Total(DraftRow(i)) \in Nat /\ DraftRow(i)[c] \in Nat
  BY <1>1, TotalType
<1>7. CASE Draws(d, i) = Draws(cfdi[c], i)
  <2>1. DraftRow(i)' = DraftRow(i)
    BY <1>1, <1>3, <1>7
  <2> QED
    BY <1>1, <1>4, <1>5, <2>1
<1>8. CASE Draws(d, i) # Draws(cfdi[c], i)
  <2>1. /\ <<"cfdi-income", i>> \in tx[s].locks
        /\ Draws(d, i) + (Total(DraftRow(i)) - DraftRow(i)[c]) <= tope[i]
    BY <1>8 DEF KeepsRoom
  <2>2. Total(DraftRow(i)') <= tope'[i]
    BY <1>1, <1>3, <1>4, <1>6, <2>1
  <2> QED
    BY <1>4, <1>5, <2>1, <2>2
<1> QED
  BY <1>7, <1>8

(* What the other open transactions rely on is under their locks.  *)
LEMMA OthersKept ==
  ASSUME InvoicingInv, NEW s \in Session, NEW c \in Cfdi, NEW d, NEW a,
         Writes(s, c, d, a), RowOK(d, a), KeepsRoom(s, c, d),
         NEW u \in Session \ {s}
  PROVE  Relies(tx[u])' /\ Fits(tx[u])'
<1> USE NoneApart
<1>1. /\ tx'[u] = tx[u] /\ tope' = tope /\ tx[u] \in TxType
      /\ cfdi'[c] = d /\ cuenta'[c] = a
      /\ \A e \in Cfdi \ {c} : cfdi'[e] = cfdi[e] /\ cuenta'[e] = cuenta[e]
  BY DEF Writes, Ends, incomeVars, InvoicingInv, InvoicingTypeOK
<1>2. PICK t \in TxType : t = tx[u]
  BY <1>1
<1>3. /\ Relies(t) /\ Fits(t) /\ tx[s].locks \cap t.locks = {}
      /\ tx'[u] = t
  BY <1>1, <1>2 DEF InvoicingInv, OneHolder
<1>4. ASSUME t.op = "createDraft" PROVE cfdi'[t.cfdi].estado = "LIBRE"
  <2>1. /\ t.cfdi \in Cfdi \ Manual /\ cfdi[t.cfdi].estado = "LIBRE"
        /\ <<"cfdi-draft", t.cfdi>> \in t.locks
    BY <1>3, <1>4 DEF Relies, LocksOf
  <2>2. t.cfdi # c
    BY <1>3, <2>1 DEF Writes
  <2> QED
    BY <1>1, <2>1, <2>2
<1>5. ASSUME t.op \in {"updateDraft", "deleteDraft"}
      PROVE  /\ cfdi'[t.cfdi].estado \in Reserving /\ cfdi'[t.cfdi].ingreso = t.ingreso
             /\ cuenta'[t.cfdi] = NoCuenta <=> cuenta[t.cfdi] = NoCuenta
  <2>1. /\ t.cfdi \in Cfdi /\ cfdi[t.cfdi].estado \in Reserving /\ cfdi[t.cfdi].ingreso = t.ingreso
        /\ <<"cfdi-draft-id", t.cfdi>> \in t.locks
    BY <1>3, <1>5 DEF Relies, LocksOf
  <2>2. CASE t.cfdi = c
    BY <1>1, <1>3, <2>1, <2>2 DEF Writes
  <2>3. CASE t.cfdi # c
    BY <1>1, <2>1, <2>3
  <2> QED
    BY <2>2, <2>3
<1>6. ASSUME t.op = "applyPayment" PROVE t.cuenta.cobrado = cuenta'[t.cfdi].cobrado
  <2>1. /\ t.cfdi \in Cfdi /\ t.cuenta.cobrado = cuenta[t.cfdi].cobrado
        /\ <<"cfdi-payment", t.cfdi>> \in t.locks
    BY <1>3, <1>6 DEF Relies, LocksOf
  <2>2. CASE t.cfdi = c
    BY <1>1, <1>3, <2>1, <2>2 DEF Writes
  <2>3. CASE t.cfdi # c
    BY <1>1, <2>1, <2>3
  <2> QED
    BY <2>2, <2>3
<1>7. Relies(t)'
  BY <1>3, <1>4, <1>5, <1>6 DEF Relies
<1>8. ASSUME t.op \in {"createDraft", "updateDraft"}, t.ingreso # None
      PROVE  t.importe + (Total(DraftRow(t.ingreso))' - DraftRow(t.ingreso)'[t.cfdi]) <= tope'[t.ingreso]
  <2>1. t.ingreso \in Ingreso
    BY <1>8 DEF TxType
  <2>2. <<"cfdi-income", t.ingreso>> \notin tx[s].locks
    BY <1>3, <1>8 DEF Relies, LocksOf, IncomeLock
  <2>3. /\ DraftRow(t.ingreso)' = DraftRow(t.ingreso)
        /\ Total(DraftRow(t.ingreso))' = Total(DraftRow(t.ingreso))
    BY <2>1, <2>2, RoomKept
  <2> QED
    BY <1>1, <1>3, <1>8, <2>3 DEF Fits
<1>9. Fits(t)'
  BY <1>8 DEF Fits
<1> QED
  BY <1>3, <1>7, <1>9

LEMMA WritesKeeps ==
  ASSUME InvoicingInv, NEW s \in Session, NEW c \in Cfdi, NEW d, NEW a,
         Writes(s, c, d, a), RowOK(d, a), KeepsRoom(s, c, d)
  PROVE  InvoicingInv'
<1>1. /\ tx'[s] = NoTx /\ \A u \in Session \ {s} : tx'[u] = tx[u]
      /\ tx' \in [Session -> TxType] /\ tope' = tope /\ ingreso' = ingreso
      /\ cfdi'[c] = d /\ cuenta'[c] = a
      /\ \A e \in Cfdi \ {c} : cfdi'[e] = cfdi[e] /\ cuenta'[e] = cuenta[e]
  BY RowsTyped DEF Writes, Ends, incomeVars, InvoicingInv, InvoicingTypeOK
<1>2. cfdi' \in [Cfdi -> CfdiType] /\ cuenta' \in [Cfdi -> CuentaType]
  BY DEF Writes, RowOK, InvoicingInv, InvoicingTypeOK
<1>3. AccountsFollowPayments' /\ (\A e \in Cfdi : IsFiniteSet(Units(Payments(e)))')
      /\ pago' \in [Pago -> PagoType]
  BY AccountsKept
<1>4. InvoicingTypeOK'
  BY <1>1, <1>2, <1>3 DEF InvoicingInv, InvoicingTypeOK
<1>5. \A i \in Ingreso : IsFiniteSet(Units(DraftRow(i)))' /\ (Drafted(DraftsOf(i)) <= tope[i])'
  BY RoomKept
<1>6. ColumnsFinite' /\ ReservedWithinIncome'
  BY <1>3, <1>5 DEF ColumnsFinite, ReservedWithinIncome
<1>7. OneHolder'
  BY <1>1, NoTxRelies DEF InvoicingInv, OneHolder
<1>8. DocumentsOK'
  BY <1>1 DEF InvoicingInv, DocumentsOK, RowOK
<1>9. Relies(tx[s])' /\ Fits(tx[s])'
  BY <1>1 DEF NoTx, Relies, Fits, LocksOf
<1>10. \A u \in Session : Relies(tx[u])' /\ Fits(tx[u])'
  BY <1>9, OthersKept
<1>11. \A i \in Ingreso : ingreso'[i].monto <= tope'[i]
  BY <1>1 DEF InvoicingInv
<1> QED
  BY <1>3, <1>4, <1>6, <1>7, <1>8, <1>10, <1>11 DEF InvoicingInv

LEMMA TxTyped ==
  ASSUME InvoicingInv, NEW s \in Session
  PROVE  tx[s] \in TxType /\ Relies(tx[s]) /\ Fits(tx[s])
BY DEF InvoicingInv, InvoicingTypeOK

(* Rows with the columns that are written.  *)
NewDraft(metodo, i, total) ==
  [NoCfdi EXCEPT !.estado = "DRAFT", !.metodo = metodo, !.ingreso = i, !.total = total,
                 !.saldo = total]

Updated(r, metodo, total) ==
  [r EXCEPT !.estado = "DRAFT", !.metodo = metodo, !.total = total, !.saldo = total]

Rebalanced(r, total, saldo) == [r EXCEPT !.total = total, !.saldo = saldo]

LEMMA NewDraftTyped ==
  ASSUME NEW metodo \in {"PUE", "PPD"}, NEW total \in Nat, NEW i \in Ingreso \cup {None}
  PROVE  NewDraft(metodo, i, total) \in CfdiType
<1>1. total \in Int
  OBVIOUS
<1> QED
  BY <1>1, RowsTyped DEF CfdiType, NewDraft

LEMMA CfdiWritten ==
  ASSUME NEW r \in CfdiType, NEW metodo \in {"PUE", "PPD"}, NEW total \in Nat
  PROVE  /\ Updated(r, metodo, total) \in CfdiType
         /\ Updated(r, metodo, total).estado = "DRAFT"
         /\ Updated(r, metodo, total).ingreso = r.ingreso /\ Updated(r, metodo, total).total = total
<1>1. total \in Int
  OBVIOUS
<1>2. Updated(r, metodo, total) \in CfdiType
  BY <1>1 DEF CfdiType, Updated
<1>3. /\ Updated(r, metodo, total).estado = "DRAFT"
      /\ Updated(r, metodo, total).ingreso = r.ingreso /\ Updated(r, metodo, total).total = total
  BY DEF CfdiType, Updated
<1> QED
  BY <1>2, <1>3

LEMMA CuentaWritten ==
  ASSUME NEW r \in CuentaType, NEW total \in Nat, NEW saldo \in Int
  PROVE  /\ Rebalanced(r, total, saldo) \in CuentaType
         /\ Rebalanced(r, total, saldo).cobrado = r.cobrado
         /\ Rebalanced(r, total, saldo).total = total
         /\ Rebalanced(r, total, saldo).saldo = saldo
BY DEF CuentaType, Rebalanced

LEMMA CreateKeeps ==
  ASSUME InvoicingInv, NEW s \in Session, CommitCreateDraft(s)
  PROVE  InvoicingInv'
<1> USE NoneApart
<1>1. PICK t \in TxType : t = tx[s] /\ Relies(t) /\ Fits(t)
  BY TxTyped
<1>2. /\ t.op = "createDraft" /\ Ends(s) /\ UNCHANGED <<incomeVars, pago>>
      /\ t.importe \in Nat /\ t.metodo \in {"PUE", "PPD"} /\ t.ingreso \in Ingreso \cup {None}
  BY <1>1 DEF CommitCreateDraft, End, Ends, TxType
<1>3. PICK c \in Cfdi : c = t.cfdi
  BY <1>1, <1>2 DEF Relies
<1>4. /\ cfdi[c].estado = "LIBRE" /\ cfdi[c] = NoCfdi /\ cuenta[c] = NoCuenta
      /\ t.locks = {<<"cfdi-draft", c>>} \cup IncomeLock(t.ingreso)
  BY <1>1, <1>2, <1>3 DEF Relies, LocksOf, InvoicingInv, DocumentsOK
<1> DEFINE d == NewDraft(t.metodo, t.ingreso, t.importe)
           a == IF t.ingreso = None THEN CuentaOf(t.importe) ELSE NoCuenta
<1>5. cfdi' = [cfdi EXCEPT ![c] = d] /\ cuenta' = [cuenta EXCEPT ![c] = a]
  BY <1>1, <1>3 DEF CommitCreateDraft, NewDraft
<1>6. d.estado = "DRAFT" /\ d.ingreso = t.ingreso /\ d.total = t.importe
  BY DEF NewDraft, NoCfdi
<1>7. d \in CfdiType
  BY <1>2, NewDraftTyped
<1>8. /\ a \in CuentaType /\ a.cobrado = 0 /\ a.saldo = a.total /\ a.total >= 0
      /\ a # NoCuenta => a.total = t.importe
  BY <1>2, RowsTyped DEF CuentaOf, NoCuenta, CuentaType
<1> HIDE DEF d, a
<1>9. RowOK(d, a)
  BY <1>6, <1>7, <1>8 DEF RowOK, Reserving, CuentaType
<1>10. Writes(s, c, d, a)
  <2>1. a.cobrado = cuenta[c].cobrado
    BY <1>4, <1>8 DEF NoCuenta
  <2> QED
    BY <1>1, <1>2, <1>4, <1>5, <2>1 DEF Writes, Reserving
<1>11. KeepsRoom(s, c, d)
  <2> SUFFICES ASSUME NEW i \in Ingreso, Draws(d, i) # Draws(cfdi[c], i)
               PROVE  /\ <<"cfdi-income", i>> \in tx[s].locks
                      /\ Draws(d, i) + (Total(DraftRow(i)) - DraftRow(i)[c]) <= tope[i]
    BY DEF KeepsRoom
  <2>1. i = t.ingreso /\ Draws(d, i) = t.importe
    BY <1>4, <1>6 DEF Draws, Reserving
  <2> QED
    BY <1>1, <1>2, <1>3, <1>4, <2>1 DEF Fits, IncomeLock
<1> QED
  BY <1>9, <1>10, <1>11, WritesKeeps

LEMMA UpdateKeeps ==
  ASSUME InvoicingInv, NEW s \in Session, CommitUpdateDraft(s)
  PROVE  InvoicingInv'
<1> USE NoneApart
<1>1. PICK t \in TxType : t = tx[s] /\ Relies(t) /\ Fits(t)
  BY TxTyped
<1>2. /\ t.op = "updateDraft" /\ Ends(s) /\ UNCHANGED <<incomeVars, pago>>
      /\ t.importe \in Nat /\ t.metodo \in {"PUE", "PPD"} /\ t.ingreso \in Ingreso \cup {None}
      /\ t.cuenta \in CuentaType
  BY <1>1 DEF CommitUpdateDraft, End, Ends, TxType
<1>3. PICK c \in Cfdi : c = t.cfdi
  BY <1>1, <1>2 DEF Relies
<1>4. /\ cfdi[c].estado \in Reserving /\ cfdi[c].ingreso = t.ingreso
      /\ t.cuenta = NoCuenta <=> cuenta[c] = NoCuenta
      /\ t.locks = {<<"cfdi-draft-id", c>>} \cup IncomeLock(t.ingreso)
      /\ cfdi[c] \in CfdiType /\ cuenta[c] \in CuentaType
  BY <1>1, <1>2, <1>3 DEF Relies, LocksOf, InvoicingInv, InvoicingTypeOK
<1>5. PICK saldo \in Int : saldo = t.importe - t.cuenta.cobrado
  BY <1>2 DEF CuentaType
<1>6. PICK r \in CfdiType, b \in CuentaType, metodo \in {"PUE", "PPD"}, total \in Nat :
         r = cfdi[c] /\ b = cuenta[c] /\ metodo = t.metodo /\ total = t.importe
  BY <1>2, <1>4
<1> DEFINE d == Updated(r, metodo, total)
           rebalanced == Rebalanced(b, total, saldo)
<1>7. PICK a : /\ cfdi' = [cfdi EXCEPT ![c] = d] /\ cuenta' = [cuenta EXCEPT ![c] = a]
               /\ \/ AccountOK(rebalanced) /\ a = rebalanced
                  \/ /\ t.cuenta = NoCuenta
                     /\ a = IF t.ingreso = None THEN CuentaOf(t.importe) ELSE cuenta[c]
  BY <1>1, <1>3, <1>5, <1>6 DEF CommitUpdateDraft, Updated, Rebalanced
<1>8. d.estado = "DRAFT" /\ d.ingreso = t.ingreso /\ d.total = t.importe /\ d \in CfdiType
  <2>1. d.estado = "DRAFT" /\ d.ingreso = r.ingreso /\ d.total = total /\ d \in CfdiType
    BY CfdiWritten
  <2> QED
    BY <1>4, <1>6, <2>1
<1>9. /\ a \in CuentaType /\ a.cobrado = cuenta[c].cobrado
      /\ a.saldo = a.total - a.cobrado /\ a.saldo >= 0
      /\ a # NoCuenta => a.total = t.importe
  <2>1. CASE AccountOK(rebalanced) /\ a = rebalanced
    <3>1. /\ rebalanced \in CuentaType /\ rebalanced.cobrado = b.cobrado
          /\ rebalanced.total = total
      BY CuentaWritten
    <3> QED
      BY <1>6, <2>1, <3>1 DEF AccountOK
  <2>2. CASE t.cuenta = NoCuenta /\ a = IF t.ingreso = None THEN CuentaOf(t.importe) ELSE cuenta[c]
    BY <1>2, <1>4, <2>2, RowsTyped DEF CuentaOf, NoCuenta, CuentaType
  <2> QED
    BY <1>7, <2>1, <2>2
<1> HIDE DEF d
<1>10. RowOK(d, a)
  BY <1>8, <1>9 DEF RowOK, Reserving
<1>11. Writes(s, c, d, a)
  BY <1>1, <1>2, <1>4, <1>7, <1>9 DEF Writes, Reserving
<1>12. KeepsRoom(s, c, d)
  <2> SUFFICES ASSUME NEW i \in Ingreso, Draws(d, i) # Draws(cfdi[c], i)
               PROVE  /\ <<"cfdi-income", i>> \in tx[s].locks
                      /\ Draws(d, i) + (Total(DraftRow(i)) - DraftRow(i)[c]) <= tope[i]
    BY DEF KeepsRoom
  <2>1. i = t.ingreso /\ Draws(d, i) = t.importe
    BY <1>4, <1>8 DEF Draws, Reserving
  <2> QED
    BY <1>1, <1>2, <1>3, <1>4, <2>1 DEF Fits, IncomeLock
<1> QED
  BY <1>10, <1>11, <1>12, WritesKeeps

LEMMA DeleteKeeps ==
  ASSUME InvoicingInv, NEW s \in Session, CommitDeleteDraft(s)
  PROVE  InvoicingInv'
<1> USE NoneApart
<1>1. PICK t \in TxType : t = tx[s] /\ Relies(t)
  BY TxTyped
<1>2. t.op = "deleteDraft" /\ Ends(s) /\ UNCHANGED <<incomeVars, pago>>
  BY <1>1 DEF CommitDeleteDraft, End, Ends
<1>3. PICK c \in Cfdi : c = t.cfdi
  BY <1>1, <1>2 DEF Relies
<1>4. /\ cfdi[c].estado \in Reserving /\ cfdi[c].ingreso = t.ingreso
      /\ t.locks = {<<"cfdi-draft-id", c>>} \cup IncomeLock(t.ingreso)
  BY <1>1, <1>2, <1>3 DEF Relies, LocksOf
<1>5. cfdi' = [cfdi EXCEPT ![c] = NoCfdi] /\ cuenta' = [cuenta EXCEPT ![c] = NoCuenta]
  BY <1>1, <1>3 DEF CommitDeleteDraft
<1>6. cuenta[c].cobrado = 0
  <2>1. Payments(c) = [p \in Pago |-> 0]
    BY <1>1, <1>3 DEF CommitDeleteDraft, Unreferenced, Payments
  <2>2. PaidOf(c) = 0
    BY <2>1, SumsAreTotals, TotalZero
  <2> QED
    BY <2>2 DEF InvoicingInv, AccountsFollowPayments
<1>7. RowOK(NoCfdi, NoCuenta)
  BY RowsTyped DEF RowOK, NoCfdi, NoCuenta
<1>8. Writes(s, c, NoCfdi, NoCuenta)
  <2>1. NoCuenta.cobrado = cuenta[c].cobrado
    BY <1>6 DEF NoCuenta
  <2> QED
    BY <1>1, <1>2, <1>4, <1>5, <2>1 DEF Writes, Reserving
<1>9. KeepsRoom(s, c, NoCfdi)
  <2> SUFFICES ASSUME NEW i \in Ingreso, Draws(NoCfdi, i) # Draws(cfdi[c], i)
               PROVE  /\ <<"cfdi-income", i>> \in tx[s].locks
                      /\ Draws(NoCfdi, i) + (Total(DraftRow(i)) - DraftRow(i)[c]) <= tope[i]
    BY DEF KeepsRoom
  <2>1. i = t.ingreso /\ Draws(NoCfdi, i) = 0
    BY <1>4 DEF Draws, NoCfdi, Reserving
  <2>2. DraftRow(i) \in [Cfdi -> Nat] /\ IsFiniteSet(Units(DraftRow(i))) /\ tope[i] \in Nat
    BY ColumnTypes DEF InvoicingInv, ColumnsFinite, InvoicingTypeOK
  <2>3. DraftRow(i)[c] \in Nat /\ Total(DraftRow(i)) \in Nat /\ Total(DraftRow(i)) <= tope[i]
    BY <2>2, TotalType, SumsAreTotals DEF InvoicingInv, ReservedWithinIncome
  <2> QED
    BY <1>1, <1>4, <2>1, <2>2, <2>3 DEF IncomeLock
<1> QED
  BY <1>7, <1>8, <1>9, WritesKeeps

(* The version a document gets, and the amount it still owes.  *)
Versioned(r, f) == [r EXCEPT !.estado = "PREFACTURA", !.versiones = Append(@, f)]

Owing(r, saldo) == [r EXCEPT !.saldo = saldo]

Paid(a, cobrado, saldo) ==
  [a EXCEPT !.cobrado = cobrado, !.saldo = saldo,
            !.estado = IF saldo = 0 THEN "LIQUIDADA" ELSE "PARCIAL"]

LEMMA VersionWritten ==
  ASSUME NEW r \in CfdiType, NEW f \in File
  PROVE  /\ Versioned(r, f) \in CfdiType /\ Versioned(r, f).estado = "PREFACTURA"
         /\ Versioned(r, f).ingreso = r.ingreso /\ Versioned(r, f).total = r.total
<1>1. Append(r.versiones, f) \in Seq(File)
  BY DEF CfdiType
<1>2. Versioned(r, f) = [r EXCEPT !.estado = "PREFACTURA", !.versiones = Append(r.versiones, f)]
  BY DEF Versioned, CfdiType
<1>3. Versioned(r, f) \in CfdiType
  BY <1>1, <1>2 DEF CfdiType
<1>4. /\ Versioned(r, f).estado = "PREFACTURA"
      /\ Versioned(r, f).ingreso = r.ingreso /\ Versioned(r, f).total = r.total
  BY DEF Versioned, CfdiType
<1> QED
  BY <1>3, <1>4

LEMMA OwingWritten ==
  ASSUME NEW r \in CfdiType, NEW saldo \in Int
  PROVE  /\ Owing(r, saldo) \in CfdiType /\ Owing(r, saldo).estado = r.estado
         /\ Owing(r, saldo).ingreso = r.ingreso /\ Owing(r, saldo).total = r.total
BY DEF Owing, CfdiType

LEMMA PaidWritten ==
  ASSUME NEW a \in CuentaType, NEW cobrado \in Nat, NEW saldo \in Int
  PROVE  /\ Paid(a, cobrado, saldo) \in CuentaType /\ Paid(a, cobrado, saldo) # NoCuenta
         /\ Paid(a, cobrado, saldo).cobrado = cobrado /\ Paid(a, cobrado, saldo).total = a.total
<1>1. Paid(a, cobrado, saldo) \in CuentaType
  BY DEF Paid, CuentaType
<1>2. Paid(a, cobrado, saldo).cobrado = cobrado /\ Paid(a, cobrado, saldo).total = a.total
  BY DEF Paid, CuentaType
<1>3. Paid(a, cobrado, saldo) # NoCuenta
  <2>1. Paid(a, cobrado, saldo).estado \in {"LIQUIDADA", "PARCIAL"} /\ NoCuenta.estado = "NINGUNA"
    BY DEF Paid, CuentaType, NoCuenta
  <2> QED
    BY <2>1
<1> QED
  BY <1>1, <1>2, <1>3

LEMMA VersionKeeps ==
  ASSUME InvoicingInv, NEW s \in Session, AddVersion(s)
  PROVE  InvoicingInv'
<1> USE NoneApart
<1>1. PICK t \in TxType : t = tx[s] /\ Relies(t)
  BY TxTyped
<1>2. /\ t.op = "generatePrefactura" /\ Ends(s) /\ UNCHANGED <<incomeVars, pago, cuenta>>
      /\ cfdi[t.cfdi].estado # "LIBRE"
  BY <1>1 DEF AddVersion, End, Ends
<1>3. PICK c \in Cfdi : c = t.cfdi
  BY <1>1, <1>2 DEF Relies
<1>4. PICK f \in File : f = t.archivo
  BY <1>1, <1>2 DEF Relies, TxType
<1>5. /\ cfdi[c] \in CfdiType /\ cuenta[c] \in CuentaType
      /\ cuenta \in [Cfdi -> CuentaType]
  BY DEF InvoicingInv, InvoicingTypeOK
<1> DEFINE d == Versioned(cfdi[c], f)
<1>6. cfdi' = [cfdi EXCEPT ![c] = d] /\ cuenta' = [cuenta EXCEPT ![c] = cuenta[c]]
  BY <1>1, <1>2, <1>3, <1>4, <1>5 DEF AddVersion, Versioned
<1>7. /\ d \in CfdiType /\ d.estado = "PREFACTURA"
      /\ d.ingreso = cfdi[c].ingreso /\ d.total = cfdi[c].total
  <2>1. cfdi[c] \in CfdiType
    BY <1>5
  <2>2. d \in CfdiType
    BY <2>1, VersionWritten
  <2>3. d.estado = "PREFACTURA"
    BY <2>1, VersionWritten
  <2>4. d.ingreso = cfdi[c].ingreso
    BY <2>1, VersionWritten
  <2>5. d.total = cfdi[c].total
    BY <2>1, VersionWritten
  <2> QED
    BY <2>2, <2>3, <2>4, <2>5
<1> HIDE DEF d
<1>8. RowOK(d, cuenta[c])
  <2>1. /\ cuenta[c] # NoCuenta => cuenta[c].total = cfdi[c].total
        /\ cuenta[c].saldo = cuenta[c].total - cuenta[c].cobrado /\ cuenta[c].saldo >= 0
    BY DEF InvoicingInv, AccountsFollowPayments
  <2> QED
    BY <1>5, <1>7, <2>1 DEF RowOK, Reserving
<1>9. Writes(s, c, d, cuenta[c])
  BY <1>2, <1>3, <1>6, <1>7 DEF Writes, Reserving
<1>10. KeepsRoom(s, c, d)
  <2>1. cfdi[c].estado \notin Reserving => cfdi[c].ingreso = None
    BY DEF InvoicingInv, DocumentsOK
  <2> QED
    BY <1>7, <2>1 DEF KeepsRoom, Draws, Reserving
<1> QED
  BY <1>8, <1>9, <1>10, WritesKeeps

LEMMA ManualKeeps ==
  ASSUME InvoicingInv, NEW s \in Session, AddManual(s)
  PROVE  InvoicingInv'
<1> USE NoneApart
<1>1. PICK t \in TxType : t = tx[s] /\ Relies(t)
  BY TxTyped
<1>2. t.op = "uploadManual" /\ Ends(s) /\ UNCHANGED <<incomeVars, pago>>
  BY <1>1 DEF AddManual, End, Ends
<1>3. PICK c \in Cfdi : c = t.cfdi /\ c \in Manual /\ cfdi[c].estado = "LIBRE"
  BY <1>1, <1>2 DEF Relies, AddManual
<1>4. PICK metodo \in {"PUE", "PPD"}, total \in Nat \ {0}, f \in File :
        /\ cfdi' = [cfdi EXCEPT ![c] =
             [NoCfdi EXCEPT !.estado = "VIGENTE", !.metodo = metodo, !.total = total,
                            !.saldo = total, !.archivo = f]]
        /\ cuenta' = [cuenta EXCEPT ![c] = CuentaOf(total)]
  <2>1. Metodo[c] \subseteq {"PUE", "PPD"} /\ Amount \subseteq Nat \ {0}
    BY InvoicingAssumption
  <2>2. t.archivo \in File
    BY <1>1, <1>2 DEF Relies, TxType
  <2> QED
    BY <1>1, <1>3, <2>1, <2>2 DEF AddManual
<1> DEFINE d == [NoCfdi EXCEPT !.estado = "VIGENTE", !.metodo = metodo, !.total = total,
                               !.saldo = total, !.archivo = f]
           a == CuentaOf(total)
<1>5. d \in CfdiType
  <2>1. NoCfdi \in CfdiType /\ total \in Int
    BY RowsTyped
  <2> QED
    BY <2>1 DEF CfdiType
<1>6. d.estado = "VIGENTE" /\ d.ingreso = None /\ d.total = total
  BY DEF NoCfdi
<1>7. a \in CuentaType /\ a.cobrado = 0 /\ a.saldo = a.total /\ a.total = total
  BY RowsTyped DEF CuentaOf
<1>8. cfdi[c] = NoCfdi /\ cuenta[c] = NoCuenta
  BY <1>3 DEF InvoicingInv, DocumentsOK
<1> HIDE DEF d, a
<1>9. RowOK(d, a)
  BY <1>5, <1>6, <1>7 DEF RowOK, Reserving
<1>10. Writes(s, c, d, a)
  <2>1. a.cobrado = cuenta[c].cobrado
    BY <1>7, <1>8 DEF NoCuenta
  <2>2. cfdi' = [cfdi EXCEPT ![c] = d] /\ cuenta' = [cuenta EXCEPT ![c] = a]
    BY <1>4 DEF d, a
  <2> QED
    BY <1>2, <1>3, <2>1, <2>2 DEF Writes, Reserving
<1>11. KeepsRoom(s, c, d)
  BY <1>6, <1>8 DEF KeepsRoom, Draws, NoCfdi, Reserving
<1> QED
  BY <1>9, <1>10, <1>11, WritesKeeps

LEMMA PaymentKeeps ==
  ASSUME InvoicingInv, NEW s \in Session, CommitApplyPayment(s)
  PROVE  InvoicingInv'
<1> USE NoneApart
<1>1. PICK t \in TxType : t = tx[s] /\ Relies(t)
  BY TxTyped
<1>2. t.op = "applyPayment" /\ Ends(s) /\ UNCHANGED incomeVars
  BY <1>1 DEF CommitApplyPayment, End, Ends
<1>3. PICK c \in Cfdi : c = t.cfdi
  BY <1>1, <1>2 DEF Relies
<1>4. /\ t.pago \in Pago /\ t.importe \in Nat /\ t.locks = {<<"cfdi-payment", c>>}
      /\ t.cuenta.cobrado = cuenta[c].cobrado /\ cuenta[c] # NoCuenta
      /\ cfdi[c] \in CfdiType /\ cuenta[c] \in CuentaType
  BY <1>1, <1>2, <1>3
     DEF Relies, LocksOf, TxType, CommitApplyPayment, InvoicingInv, InvoicingTypeOK
<1>5. PICK saldo \in Int : saldo = t.cuenta.saldo - t.importe
  BY DEF TxType, CuentaType
<1>6. PICK cobrado \in Nat : cobrado = t.cuenta.cobrado + t.importe
  BY DEF TxType, CuentaType
<1> DEFINE d == Owing(cfdi[c], saldo)
           a == Paid(cuenta[c], cobrado, saldo)
<1>7. /\ cfdi' = [cfdi EXCEPT ![c] = d] /\ cuenta' = [cuenta EXCEPT ![c] = a]
      /\ AccountOK(a) /\ Pays(t.pago, c, t.importe)
  BY <1>1, <1>3, <1>5, <1>6 DEF CommitApplyPayment, Owing, Paid, Pays
<1>8. /\ d \in CfdiType /\ d.estado = cfdi[c].estado
      /\ d.ingreso = cfdi[c].ingreso /\ d.total = cfdi[c].total
  <2>1. cfdi[c] \in CfdiType
    BY <1>4
  <2>2. d \in CfdiType
    BY <2>1, OwingWritten
  <2>3. d.estado = cfdi[c].estado
    BY <2>1, OwingWritten
  <2>4. d.ingreso = cfdi[c].ingreso
    BY <2>1, OwingWritten
  <2>5. d.total = cfdi[c].total
    BY <2>1, OwingWritten
  <2> QED
    BY <2>2, <2>3, <2>4, <2>5
<1>9. /\ a \in CuentaType /\ a # NoCuenta
      /\ a.cobrado = cobrado /\ a.total = cuenta[c].total
  <2>1. cuenta[c] \in CuentaType
    BY <1>4
  <2>2. a \in CuentaType /\ a # NoCuenta
    BY <2>1, PaidWritten
  <2>3. a.cobrado = cobrado
    BY <2>1, PaidWritten
  <2>4. a.total = cuenta[c].total
    BY <2>1, PaidWritten
  <2> QED
    BY <2>2, <2>3, <2>4
<1> HIDE DEF d, a
<1>10. /\ cfdi[c].estado # "LIBRE" /\ cuenta[c].total = cfdi[c].total
       /\ cfdi[c].estado \notin Reserving => cfdi[c].ingreso = None
  BY <1>4 DEF InvoicingInv, DocumentsOK, AccountsFollowPayments
<1>11. RowOK(d, a)
  BY <1>7, <1>8, <1>9, <1>10 DEF RowOK, AccountOK
<1>12. Writes(s, c, d, a)
  <2>1. a.cobrado = cuenta[c].cobrado + t.importe
    BY <1>4, <1>6, <1>9
  <2>2. <<"cfdi-payment", c>> \in tx[s].locks
    BY <1>1, <1>4
  <2>3. \E p \in Pago, monto \in Nat : Pays(p, c, monto) /\ a.cobrado = cuenta[c].cobrado + monto
    BY <1>4, <1>7, <2>1
  <2> QED
    BY <1>2, <1>4, <1>7, <1>8, <1>9, <1>10, <2>2, <2>3 DEF Writes
<1>13. KeepsRoom(s, c, d)
  BY <1>8 DEF KeepsRoom, Draws
<1> QED
  BY <1>11, <1>12, <1>13, WritesKeeps

(* A transaction that ends without a change of the database.  *)
LEMMA EndsKeeps ==
  ASSUME InvoicingInv, NEW s \in Session, Ends(s), UNCHANGED <<incomeVars, cfdi, cuenta, pago>>
  PROVE  InvoicingInv'
<1>1. \A u \in Session : tx[u].locks \cap NoTx.locks = {}
  BY NoTxRelies
<1> QED
  BY <1>1, RowsTyped, NoTxRelies, TxKeeps DEF Ends

(* The amount of an income may become smaller, what it once had does not.  *)
LEMMA LimitsKeep ==
  ASSUME InvoicingInv, UNCHANGED <<cfdi, cuenta, pago, tx>>,
         tope' \in [Ingreso -> Nat], ingreso' \in [Ingreso -> IngresoType],
         \A j \in Ingreso : tope'[j] >= tope[j] /\ ingreso'[j].monto <= tope'[j]
  PROVE  InvoicingInv'
<1>1. /\ UNCHANGED <<cfdi, cuenta, pago, tx>> /\ tope \in [Ingreso -> Nat]
      /\ tope' \in [Ingreso -> Nat] /\ ingreso' \in [Ingreso -> IngresoType]
      /\ \A j \in Ingreso : tope'[j] >= tope[j] /\ ingreso'[j].monto <= tope'[j]
  BY DEF InvoicingInv, InvoicingTypeOK
<1>2. InvoicingTypeOK'
  BY <1>1 DEF InvoicingInv, InvoicingTypeOK
<1>3. \A j : DraftRow(j)' = DraftRow(j) /\ Total(DraftRow(j))' = Total(DraftRow(j))
              /\ Units(DraftRow(j))' = Units(DraftRow(j))
  BY <1>1 DEF DraftRow, Total, Units
<1>4. \A c : PaidOf(c)' = PaidOf(c) /\ Units(Payments(c))' = Units(Payments(c))
  BY <1>1 DEF Payments, PaidOf, Total, Units
<1>5. \A j : Drafted(DraftsOf(j))' = Drafted(DraftsOf(j))
  BY <1>1 DEF Drafted, DraftsOf, Total, Units
<1>6. \A u \in Session : Relies(tx[u])'
  BY <1>1 DEF InvoicingInv, Relies
<1>7. \A u \in Session : Fits(tx[u])'
  <2> SUFFICES ASSUME NEW u \in Session PROVE Fits(tx[u])'
    OBVIOUS
  <2>1. PICK t \in TxType : t = tx[u] /\ Fits(t)
    BY TxTyped
  <2>2. Fits(t)'
    <3> SUFFICES ASSUME t.op \in {"createDraft", "updateDraft"}, t.ingreso # None
                 PROVE  t.importe + (Total(DraftRow(t.ingreso))' - DraftRow(t.ingreso)'[t.cfdi])
                          <= tope'[t.ingreso]
      BY DEF Fits
    <3>1. PICK j \in Ingreso : j = t.ingreso
      BY DEF TxType
    <3>2. PICK c \in Cfdi : c = t.cfdi
      BY <2>1, TxTyped DEF Relies
    <3>3. DraftRow(j) \in [Cfdi -> Nat] /\ IsFiniteSet(Units(DraftRow(j)))
      BY ColumnTypes DEF InvoicingInv, ColumnsFinite
    <3>4. Total(DraftRow(j)) \in Nat /\ DraftRow(j)[c] \in Nat /\ t.importe \in Nat
          /\ tope[j] \in Nat /\ tope'[j] \in Nat
      BY <1>1, <3>3, TotalType DEF TxType
    <3>5. t.importe + (Total(DraftRow(j)) - DraftRow(j)[c]) <= tope[j]
      BY <2>1, <3>1, <3>2 DEF Fits
    <3> QED
      BY <1>1, <1>3, <3>1, <3>2, <3>4, <3>5
  <2> QED
    BY <1>1, <2>1, <2>2
<1>8. OneHolder' /\ AccountsFollowPayments' /\ ColumnsFinite' /\ DocumentsOK'
  BY <1>1, <1>3, <1>4
     DEF InvoicingInv, OneHolder, AccountsFollowPayments, ColumnsFinite, DocumentsOK
<1>9. ReservedWithinIncome'
  <2>1. \A j \in Ingreso : Drafted(DraftsOf(j)) <= tope[j]
    BY DEF InvoicingInv, ReservedWithinIncome
  <2>2. \A j \in Ingreso : Drafted(DraftsOf(j)) \in Nat
    BY SumsAreTotals, TotalType DEF InvoicingInv, ColumnsFinite
  <2>3. \A j \in Ingreso : tope[j] \in Nat /\ tope'[j] \in Nat
    BY <1>1
  <2> QED
    BY <1>1, <1>5, <2>1, <2>2, <2>3 DEF ReservedWithinIncome
<1> QED
  BY <1>1, <1>2, <1>6, <1>7, <1>8, <1>9 DEF InvoicingInv

LEMMA IncomeKeeps ==
  ASSUME InvoicingInv, NEW i \in Ingreso, IncomeStep(i)
  PROVE  InvoicingInv'
<1>1. ingreso[i] \in IngresoType /\ tope \in [Ingreso -> Nat] /\ ingreso \in [Ingreso -> IngresoType]
  BY DEF InvoicingInv, InvoicingTypeOK
<1>2. PICK estado \in {"PENDIENTE_APLICACION", "APLICADO", "ANULADO"}, monto \in Nat,
           cargada \in BOOLEAN : SetIncome(i, estado, monto, cargada)
  <2>1. Amount \subseteq Nat
    BY InvoicingAssumption
  <2> QED
    BY <1>1, <2>1, ZenonT(60)
       DEF IncomeStep, ValidateProposal, ApplyIncome, VoidRecord, CompleteIncomeInvoice, IngresoType
<1>3. /\ UNCHANGED <<cfdi, cuenta, pago, tx>>
      /\ tope' \in [Ingreso -> Nat] /\ ingreso' \in [Ingreso -> IngresoType]
      /\ \A j \in Ingreso : tope'[j] >= tope[j] /\ ingreso'[j].monto <= tope'[j]
  <2>1. \A j \in Ingreso : ingreso[j].monto \in Nat /\ tope[j] \in Nat /\ ingreso[j].monto <= tope[j]
    BY <1>1 DEF InvoicingInv, IngresoType
  <2>2. ingreso' \in [Ingreso -> IngresoType]
    BY <1>1, <1>2 DEF SetIncome, IngresoType
  <2>3. tope' = [tope EXCEPT ![i] = IF monto > tope[i] THEN monto ELSE tope[i]]
    BY <1>2 DEF SetIncome
  <2>4. ingreso'[i].monto = monto /\ \A j \in Ingreso \ {i} : ingreso'[j] = ingreso[j]
    BY <1>1, <1>2 DEF SetIncome
  <2>5. tope' \in [Ingreso -> Nat]
    BY <1>1, <2>3
  <2>6. \A j \in Ingreso : tope'[j] >= tope[j] /\ ingreso'[j].monto <= tope'[j]
    BY <1>1, <2>1, <2>3, <2>4
  <2> QED
    BY <1>2, <2>2, <2>5, <2>6 DEF SetIncome
<1> QED
  BY <1>3, LimitsKeep

LEMMA InvoicingInvStep == InvoicingInv /\ [InvoicingNext]_vars => InvoicingInv'
<1> SUFFICES ASSUME InvoicingInv, [InvoicingNext]_vars PROVE InvoicingInv'
  OBVIOUS
<1>1. CASE UNCHANGED vars
  <2>1. /\ UNCHANGED <<cfdi, cuenta, pago, tx>>
        /\ tope' \in [Ingreso -> Nat] /\ ingreso' \in [Ingreso -> IngresoType]
        /\ \A j \in Ingreso : tope'[j] >= tope[j] /\ ingreso'[j].monto <= tope'[j]
    BY <1>1 DEF vars, InvoicingInv, InvoicingTypeOK
  <2> QED
    BY <2>1, LimitsKeep
<1>2. ASSUME NEW i \in Ingreso, IncomeStep(i) PROVE InvoicingInv'
  BY <1>2, IncomeKeeps
<1>3. ASSUME NEW s \in Session, NEW c \in Cfdi, CfdiStep(s, c) PROVE InvoicingInv'
  BY <1>3, ReadsOpen, OpensKeeps
<1>4. ASSUME NEW s \in Session, CommitStep(s) PROVE InvoicingInv'
  <2>1. CASE AddVersion(s) \/ AddManual(s)
    BY <2>1, VersionKeeps, ManualKeeps
  <2>2. CASE DiscardDuplicate(s) \/ Fail(s)
    BY <2>2, EndsKeeps DEF DiscardDuplicate, Fail, End, Ends
  <2> QED
    BY <1>4, <2>1, <2>2, CreateKeeps, UpdateKeeps, DeleteKeeps, PaymentKeeps
       DEF CommitStep, CommitFile, CommitFileUnheard
<1> QED
  BY <1>1, <1>2, <1>3, <1>4 DEF InvoicingNext

LEMMA InvoicingInvInvariant == InvoicingSpec => []InvoicingInv
BY InvoicingInvInit, InvoicingInvStep, PTL DEF InvoicingSpec

(* However payments, edits and deletions of a document interleave, its      *)
(* account has been paid what its payments sum up to and owes the rest of   *)
(* its total: updateDraft and applyPayment take different locks, and the    *)
(* constraint of the account refuses the one that read too early.           *)
THEOREM AccountsCorrect == InvoicingSpec => []AccountsFollowPayments
<1>1. InvoicingInv => AccountsFollowPayments
  BY DEF InvoicingInv
<1> QED
  BY <1>1, InvoicingInvInvariant, PTL

(* However drafts are created, edited and deleted at once, they reserve no  *)
(* more of an income than the largest amount it has had.                    *)
THEOREM ReservedCorrect == InvoicingSpec => []ReservedWithinIncome
<1>1. InvoicingInv => ReservedWithinIncome
  BY DEF InvoicingInv
<1> QED
  BY <1>1, InvoicingInvInvariant, PTL

-----------------------------------------------------------------------------
(* Files.  *)
LEMMA FileInvInit == InvoicingInit => FileInv
<1> SUFFICES ASSUME InvoicingInit PROVE FileInv
  OBVIOUS
<1>1. \A s \in Session : OwnFile(s)
  BY NoTxRelies DEF InvoicingInit, OwnFile
<1>2. \A c \in Cfdi : cfdi[c].archivo = None /\ cfdi[c].versiones = <<>>
  BY DEF InvoicingInit, NoCfdi
<1>3. CommittedKeepsFiles
  BY <1>2 DEF CommittedKeepsFiles
<1> QED
  BY <1>1, <1>3 DEF FileInv

LEMMA KeepsFilesOf ==
  CommittedKeepsFiles
    <=> \A c \in Cfdi : \A f \in FilesOf(c) : f # None => f \in store \cup perdida
BY DEF CommittedKeepsFiles, FilesOf, RowFiles

(* The key of a new file is like no other.  *)
LEMMA OpensFiles ==
  ASSUME InvoicingInv, FileInv, NEW s \in Session, NEW t \in TxType, Opens(s, t)
  PROVE  FileInv'
<1>1. /\ tx'[s] = t /\ \A u \in Session \ {s} : tx'[u] = tx[u]
      /\ UNCHANGED <<cfdi, perdida>> /\ store \subseteq store'
  BY UpdatedTx DEF InvoicingInv, Opens, Begin
<1>2. \A c \in Cfdi : FilesOf(c)' = FilesOf(c)
  BY <1>1 DEF FilesOf, RowFiles
<1>3. ASSUME t.archivo # None
      PROVE  /\ t.archivo \in store' /\ \A c \in Cfdi : t.archivo \notin FilesOf(c)
             /\ \A u \in Session : tx[u].archivo # t.archivo
  BY <1>3 DEF Opens, FreshFile, FilesOf, RowFiles
<1>4. \A u \in Session : OwnFile(u)'
  BY <1>1, <1>2, <1>3 DEF FileInv, OwnFile
<1>5. \A c \in Cfdi : \A f \in FilesOf(c)' : f # None => f \in store' \cup perdida'
  BY <1>1, <1>2, KeepsFilesOf DEF FileInv
<1>6. CommittedKeepsFiles'
  BY <1>5 DEF CommittedKeepsFiles, FilesOf, RowFiles
<1> QED
  BY <1>4, <1>6 DEF FileInv

(* A transaction that ends gives its file to a document of its own, or may  *)
(* remove it; every other file stays where it is.                           *)
LEMMA EndsFiles ==
  ASSUME InvoicingInv, FileInv, NEW s \in Session, Ends(s), NEW given,
         \A c \in Cfdi : FilesOf(c)' \subseteq FilesOf(c) \cup {None} \cup given,
         given \subseteq {tx[s].archivo} \cap (store' \cup perdida'),
         store \ {tx[s].archivo} \subseteq store', perdida \subseteq perdida'
  PROVE  FileInv'
<1>1. tx'[s] = NoTx /\ \A u \in Session \ {s} : tx'[u] = tx[u]
  BY UpdatedTx DEF InvoicingInv, Ends
<1>2. ASSUME NEW u \in Session, tx'[u].archivo # None
      PROVE  /\ u # s /\ tx[u].archivo # None
             /\ tx[u].archivo \in store' /\ \A c \in Cfdi : tx[u].archivo \notin FilesOf(c)'
             /\ \A v \in Session : v # u => tx'[v].archivo # tx[u].archivo
  <2>1. u # s /\ tx'[u] = tx[u]
    BY <1>1, <1>2, NoTxRelies
  <2>2. OwnFile(u) /\ tx[u].archivo # None
    BY <1>2, <2>1 DEF FileInv
  <2>3. tx[s].archivo # tx[u].archivo
    BY <2>1, <2>2 DEF OwnFile
  <2> QED
    BY <1>1, <2>1, <2>2, <2>3, NoTxRelies DEF OwnFile
<1>3. \A u \in Session : OwnFile(u)'
  BY <1>1, <1>2 DEF OwnFile
<1>4. ASSUME NEW c \in Cfdi, NEW f \in FilesOf(c)', f # None PROVE f \in store' \cup perdida'
  <2>1. CASE f \in FilesOf(c)
    <3>1. f \in store \cup perdida
      BY <1>4, <2>1, KeepsFilesOf DEF FileInv
    <3>2. f # tx[s].archivo
      BY <1>4, <2>1 DEF FileInv, OwnFile
    <3> QED
      BY <3>1, <3>2
  <2>2. CASE f \in given
    BY <2>2
  <2> QED
    BY <1>4, <2>1, <2>2
<1>5. CommittedKeepsFiles'
  BY <1>4 DEF CommittedKeepsFiles, FilesOf, RowFiles
<1> QED
  BY <1>3, <1>5 DEF FileInv

LEMMA RowFilesWritten ==
  /\ RowFiles(NoCfdi) = {None}
  /\ \A metodo, i, total : RowFiles(NewDraft(metodo, i, total)) = {None}
  /\ \A r \in CfdiType : \A metodo, total : RowFiles(Updated(r, metodo, total)) = RowFiles(r)
  /\ \A r \in CfdiType : \A saldo : RowFiles(Owing(r, saldo)) = RowFiles(r)
  /\ \A r \in CfdiType, f \in File : RowFiles(Versioned(r, f)) \subseteq RowFiles(r) \cup {f}
<1>1. RowFiles(NoCfdi) = {None}
  BY DEF RowFiles, NoCfdi
<1>2. \A metodo, i, total : RowFiles(NewDraft(metodo, i, total)) = {None}
  BY DEF RowFiles, NoCfdi, NewDraft
<1>3. \A r \in CfdiType : \A metodo, total : RowFiles(Updated(r, metodo, total)) = RowFiles(r)
  BY DEF RowFiles, Updated, CfdiType
<1>4. \A r \in CfdiType : \A saldo : RowFiles(Owing(r, saldo)) = RowFiles(r)
  BY DEF RowFiles, Owing, CfdiType
<1>5. ASSUME NEW r \in CfdiType, NEW f \in File
      PROVE  RowFiles(Versioned(r, f)) \subseteq RowFiles(r) \cup {f}
  <2>1. Versioned(r, f).archivo = r.archivo /\ Versioned(r, f).versiones = Append(r.versiones, f)
    BY DEF Versioned, CfdiType
  <2>2. r.versiones \in Seq(File)
    BY DEF CfdiType
  <2>3. \A n \in DOMAIN Append(r.versiones, f) :
          Append(r.versiones, f)[n] \in {r.versiones[m] : m \in DOMAIN r.versiones} \cup {f}
    BY <2>2
  <2> QED
    BY <2>1, <2>3 DEF RowFiles
<1> QED
  BY <1>1, <1>2, <1>3, <1>4, <1>5

(* The other documents keep the files they have.  *)
LEMMA OneRowFiles ==
  ASSUME InvoicingInv, NEW c \in Cfdi, NEW d, cfdi' = [cfdi EXCEPT ![c] = d]
  PROVE  FilesOf(c)' = RowFiles(d) /\ \A e \in Cfdi \ {c} : FilesOf(e)' = FilesOf(e)
<1>1. cfdi'[c] = d /\ \A e \in Cfdi \ {c} : cfdi'[e] = cfdi[e]
  BY DEF InvoicingInv, InvoicingTypeOK
<1> QED
  BY <1>1 DEF FilesOf, RowFiles

(* A commit that gives no file.  *)
LEMMA PlainCommitFiles ==
  ASSUME InvoicingInv, FileInv, NEW s \in Session,
         CommitCreateDraft(s) \/ CommitUpdateDraft(s) \/ CommitDeleteDraft(s) \/ CommitApplyPayment(s)
  PROVE  FileInv'
<1>1. Ends(s) /\ UNCHANGED fileVars
  BY DEF CommitCreateDraft, CommitUpdateDraft, CommitDeleteDraft, CommitApplyPayment, End, Ends
<1>2. PICK t \in TxType : t = tx[s] /\ Relies(t)
  BY TxTyped
<1>3. PICK c \in Cfdi : c = t.cfdi
  BY <1>2 DEF CommitCreateDraft, CommitUpdateDraft, CommitDeleteDraft, CommitApplyPayment, End, Relies
<1>4. PICK r \in CfdiType : r = cfdi[c]
  BY DEF InvoicingInv, InvoicingTypeOK
<1>5. PICK d : cfdi' = [cfdi EXCEPT ![c] = d] /\ RowFiles(d) \subseteq RowFiles(r) \cup {None}
  <2>1. CASE CommitCreateDraft(s)
    <3>1. cfdi' = [cfdi EXCEPT ![c] = NewDraft(t.metodo, t.ingreso, t.importe)]
      BY <1>2, <1>3, <2>1 DEF CommitCreateDraft, NewDraft
    <3>2. RowFiles(NewDraft(t.metodo, t.ingreso, t.importe)) = {None}
      BY RowFilesWritten
    <3> QED
      BY <3>1, <3>2
  <2>2. CASE CommitUpdateDraft(s)
    <3>1. cfdi' = [cfdi EXCEPT ![c] = Updated(r, t.metodo, t.importe)]
      BY <1>2, <1>3, <1>4, <2>2 DEF CommitUpdateDraft, Updated
    <3>2. RowFiles(Updated(r, t.metodo, t.importe)) = RowFiles(r)
      BY RowFilesWritten
    <3> QED
      BY <3>1, <3>2
  <2>3. CASE CommitDeleteDraft(s)
    <3>1. cfdi' = [cfdi EXCEPT ![c] = NoCfdi]
      BY <1>2, <1>3, <2>3 DEF CommitDeleteDraft
    <3> QED
      BY <3>1, RowFilesWritten
  <2>4. CASE CommitApplyPayment(s)
    <3>1. cfdi' = [cfdi EXCEPT ![c] = Owing(r, t.cuenta.saldo - t.importe)]
      BY <1>2, <1>3, <1>4, <2>4 DEF CommitApplyPayment, Owing
    <3>2. RowFiles(Owing(r, t.cuenta.saldo - t.importe)) = RowFiles(r)
      BY RowFilesWritten
    <3> QED
      BY <3>1, <3>2
  <2> QED
    BY <2>1, <2>2, <2>3, <2>4
<1>6. \A e \in Cfdi : FilesOf(e)' \subseteq FilesOf(e) \cup {None} \cup {}
  BY <1>4, <1>5, OneRowFiles DEF FilesOf
<1> QED
  BY <1>1, <1>6, EndsFiles DEF fileVars

(* A commit that gives its file to its document.  *)
LEMMA FileCommitFiles ==
  ASSUME InvoicingInv, FileInv, NEW s \in Session, CommitFile(s) \/ CommitFileUnheard(s)
  PROVE  FileInv'
<1>1. AddVersion(s) \/ AddManual(s)
  BY DEF CommitFile, CommitFileUnheard
<1>2. PICK t \in TxType : t = tx[s] /\ Relies(t)
  BY TxTyped
<1>3. Ends(s) /\ t.op \in {"generatePrefactura", "uploadManual"}
  BY <1>1, <1>2 DEF AddVersion, AddManual, End, Ends
<1>4. PICK c \in Cfdi : c = t.cfdi
  BY <1>2, <1>3 DEF Relies
<1>5. PICK f \in File : f = t.archivo
  BY <1>2, <1>3 DEF Relies, TxType
<1>6. PICK r \in CfdiType : r = cfdi[c]
  BY DEF InvoicingInv, InvoicingTypeOK
<1>7. PICK d : cfdi' = [cfdi EXCEPT ![c] = d] /\ RowFiles(d) \subseteq RowFiles(r) \cup {None, f}
  <2>1. CASE AddVersion(s)
    <3>1. cfdi' = [cfdi EXCEPT ![c] = Versioned(r, f)]
      BY <1>2, <1>4, <1>5, <1>6, <2>1 DEF AddVersion, Versioned
    <3>2. RowFiles(Versioned(r, f)) \subseteq RowFiles(r) \cup {f}
      BY RowFilesWritten
    <3> QED
      BY <3>1, <3>2
  <2>2. CASE AddManual(s)
    <3>1. PICK metodo, total :
            cfdi' = [cfdi EXCEPT ![c] =
              [NoCfdi EXCEPT !.estado = "VIGENTE", !.metodo = metodo, !.total = total,
                             !.saldo = total, !.archivo = f]]
      BY <1>2, <1>4, <1>5, <2>2 DEF AddManual
    <3>2. RowFiles([NoCfdi EXCEPT !.estado = "VIGENTE", !.metodo = metodo, !.total = total,
                                  !.saldo = total, !.archivo = f]) = {f}
      BY DEF RowFiles, NoCfdi
    <3> QED
      BY <3>1, <3>2
  <2> QED
    BY <1>1, <2>1, <2>2
<1>8. \A e \in Cfdi : FilesOf(e)' \subseteq FilesOf(e) \cup {None} \cup {f}
  BY <1>6, <1>7, OneRowFiles DEF FilesOf
<1>9. f \in store
  BY <1>2, <1>5, NoneApart DEF FileInv, OwnFile
<1>10. /\ f \in store' \cup perdida' /\ store \ {f} \subseteq store' /\ perdida \subseteq perdida'
  BY <1>2, <1>5, <1>9 DEF CommitFile, CommitFileUnheard, fileVars
<1>11. {f} \subseteq {tx[s].archivo} \cap (store' \cup perdida')
  BY <1>2, <1>5, <1>10
<1> QED
  BY <1>2, <1>3, <1>5, <1>8, <1>10, <1>11, EndsFiles

LEMMA FileInvStep == InvoicingInv /\ FileInv /\ [InvoicingNext]_vars => FileInv'
<1> SUFFICES ASSUME InvoicingInv, FileInv, [InvoicingNext]_vars PROVE FileInv'
  OBVIOUS
<1>1. ASSUME UNCHANGED <<cfdi, store, perdida, tx>> PROVE FileInv'
  BY <1>1 DEF FileInv, OwnFile, CommittedKeepsFiles, FilesOf, RowFiles
<1>2. ASSUME NEW i \in Ingreso, IncomeStep(i) PROVE FileInv'
  BY <1>1, <1>2
     DEF IncomeStep, ValidateProposal, ApplyIncome, VoidRecord, CompleteIncomeInvoice, SetIncome, fileVars
<1>3. ASSUME NEW s \in Session, NEW c \in Cfdi, CfdiStep(s, c) PROVE FileInv'
  BY <1>3, ReadsOpen, OpensFiles
<1>4. ASSUME NEW s \in Session, CommitStep(s) PROVE FileInv'
  <2>1. CASE DiscardDuplicate(s) \/ Fail(s)
    <3>1. /\ Ends(s) /\ UNCHANGED <<cfdi, perdida>> /\ store \ {tx[s].archivo} \subseteq store'
      BY <2>1 DEF DiscardDuplicate, Fail, End, Ends
    <3>2. \A e \in Cfdi : FilesOf(e)' \subseteq FilesOf(e) \cup {None} \cup {}
      BY <3>1 DEF FilesOf, RowFiles
    <3> QED
      BY <3>1, <3>2, EndsFiles
  <2> QED
    BY <1>4, <2>1, PlainCommitFiles, FileCommitFiles DEF CommitStep
<1>5. CASE UNCHANGED vars
  BY <1>1, <1>5 DEF vars
<1> QED
  BY <1>2, <1>3, <1>4, <1>5 DEF InvoicingNext

(* What was committed keeps its file: the loser of two imports of one XML,  *)
(* or an attempt that fails, removes only what it uploaded itself, except a *)
(* commit whose answer was lost.                                            *)
THEOREM FilesKeptCorrect == InvoicingSpec => []CommittedKeepsFiles
<1>1. InvoicingInit => InvoicingInv /\ FileInv
  BY InvoicingInvInit, FileInvInit
<1>2. (InvoicingInv /\ FileInv) /\ [InvoicingNext]_vars => (InvoicingInv /\ FileInv)'
  BY InvoicingInvStep, FileInvStep
<1>3. FileInv => CommittedKeepsFiles
  BY DEF FileInv
<1> QED
  BY <1>1, <1>2, <1>3, PTL DEF InvoicingSpec
=============================================================================
