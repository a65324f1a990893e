---------------------------- MODULE Quotes_proofs ----------------------------
(***************************************************************************)
(* What becomes of a quote is backed by what its client accepted, although *)
(* its budget, its proposals and its acts change under other locks; and    *)
(* documents show the budget version they name.                            *)
(***************************************************************************)
EXTENDS Quotes, SequenceTheorems, TLAPS

(* Types *)

Concepto == Captura \cup Propuesta \cup {Heredado}

ProspectoType ==
  [etapa : EtapaProspecto, anterior : EtapaProspecto, actos : SUBSET Acto, archivado : BOOLEAN]

CotType ==
  [etapa : EtapaCotizacion \cup {None}, actos : SUBSET Acto, confirmados : SUBSET Acto,
   conceptos : SUBSET Concepto, total : SUBSET Concepto]

VersionType == [conceptos : SUBSET Concepto, aprobada : BOOLEAN]

EventoType ==
  [accion : Accion \cup {"CREAR", "CONVERTIR"}, anterior : EtapaCotizacion \cup {None}, nueva : EtapaCotizacion,
   version : Nat]

DocumentoType ==
  [clave : ClavePdf, version : Nat, contenido : SUBSET Concepto, archivo : Archivo,
   eliminado : BOOLEAN, oido : BOOLEAN]

TxType ==
  {Idle}
    \cup [tipo : {"COT001"}, accion : Accion \cup {"CONVERTIR"}, etapa : EtapaCotizacion,
          actos : SUBSET Acto, conceptos : SUBSET Concepto]
    \cup [tipo : {"ACTO"}, acto : Acto]
    \cup [tipo : {"PRESUPUESTO"}, borra : SUBSET Concepto, crea : Captura]
    \cup [tipo : {"GENERAR"}, propuesta : Propuesta]
    \cup [tipo : {"IA"}, accion : {"APLICAR", "DESCARTAR"}, borra : SUBSET Concepto, crea : Propuesta]
    \cup [tipo : {"PDF"}, clave : ClavePdf, version : Nat]
    \cup [tipo : {"SUBIDO"}, clave : ClavePdf, version : Nat, contenido : SUBSET Concepto,
          archivo : Archivo]

QuoteTypeOK ==
  /\ prospecto \in ProspectoType
  /\ cot \in CotType
  /\ versiones \in Seq(VersionType)
  /\ eventos \in Seq(EventoType)
  /\ propuesta \in [Propuesta -> {"NINGUNA", "PENDIENTE", "APLICADA", "DESCARTADA", "SUPERADA"}]
  /\ expediente \in {None} \cup [actos : SUBSET Acto, origen : Nat]
  /\ historial \in Seq(SUBSET Concepto)
  /\ documentos \subseteq DocumentoType
  /\ almacen \subseteq Archivo
  /\ tx \in [Sesion -> TxType]

-----------------------------------------------------------------------------
(* No two requests hold the lock of one kind.  *)
OneHolder ==
  \A s, u \in Sesion : tx[s].tipo \in {"COT001", "IA"} /\ tx[s].tipo = tx[u].tipo => s = u

(* What a request read under its lock still holds when it commits.  *)
Relies(t) ==
  /\ t.tipo = "COT001" =>
       /\ t.etapa = cot.etapa /\ t.accion \in AllowedQuoteActions(t.etapa)
       /\ t.accion = "CONVERTIR" => t.actos # {} /\ t.actos \subseteq cot.confirmados
  /\ t.tipo = "IA" => propuesta[t.crea] = "PENDIENTE"
  /\ t.tipo = "PDF" => historial # <<>>

Linked ==
  /\ (cot.etapa # None) <=> (prospecto.etapa = "CONVERTIDO_EN_COTIZACION")
  /\ (expediente # None) <=> (cot.etapa = "CONVERTIDA_EXPEDIENTE")
  /\ expediente = None => historial = <<>>

Approved == \A n \in DOMAIN versiones : versiones[n].aprobada <=> n = Len(versiones)

Backed ==
  expediente # None =>
    /\ expediente.actos # {} /\ expediente.actos \subseteq cot.confirmados
    /\ expediente.origen = Len(versiones) /\ Len(versiones) > 0 /\ Len(eventos) > 0
    /\ eventos[Len(eventos)].accion = "CONVERTIR"
    /\ eventos[Len(eventos)].version = expediente.origen
    /\ Len(historial) > 0
    /\ historial[1] = versiones[expediente.origen].conceptos

ConversionInv ==
  /\ QuoteTypeOK
  /\ \A s \in Sesion : Relies(tx[s])
  /\ OneHolder
  /\ Linked
  /\ Approved
  /\ Backed

(* The file a request has stored is its own, and what it rendered is a      *)
(* version that was the last one since it began.                            *)
Rendered(s) ==
  tx[s].tipo = "SUBIDO" =>
    /\ tx[s].archivo \in almacen
    /\ \A d \in documentos : d.archivo # tx[s].archivo
    /\ \A u \in Sesion : u # s /\ tx[u].tipo = "SUBIDO" => tx[u].archivo # tx[s].archivo
    /\ \E n \in tx[s].version..Len(historial) : n > 0 /\ tx[s].contenido = historial[n]

PdfInv ==
  /\ \A s \in Sesion : Rendered(s)
  /\ \A s \in Sesion : tx[s].tipo = "PDF" => tx[s].version \in 1..Len(historial)
  /\ \A d \in documentos : /\ d.version \in 1..Len(historial)
                           /\ d.contenido = historial[d.version]
                           /\ d.oido => d.archivo \in almacen
  /\ \A d, e \in documentos : d.clave = e.clave => d = e

-----------------------------------------------------------------------------
(* Requests begin on what they have just read, go on, or end.  *)
TxMoves ==
  \/ tx' = tx
  \/ \E s \in Sesion, x \in TxType :
       /\ tx' = [tx EXCEPT ![s] = x]
       /\ x.tipo \in {"COT001", "IA"} => LockFree(x.tipo)
       /\ x.tipo \in {"COT001", "IA", "PDF"} => Relies(x)

LEMMA NoneApart == None \notin EtapaCotizacion /\ None # "CONVERTIDO_EN_COTIZACION"
BY NoneAssumption

LEMMA IdleTyped == Idle \in TxType /\ Idle.tipo = "LIBRE"
BY DEF Idle, TxType

LEMMA Moves ==
  ASSUME NEW s \in Sesion, NEW x \in TxType, tx' = [tx EXCEPT ![s] = x],
         x.tipo \in {"COT001", "IA"} => LockFree(x.tipo),
         x.tipo \in {"COT001", "IA", "PDF"} => Relies(x)
  PROVE  TxMoves
BY DEF TxMoves

LEMMA Ends ==
  ASSUME NEW s \in Sesion, tx' = [tx EXCEPT ![s] = Idle]
  PROVE  TxMoves
BY IdleTyped DEF TxMoves

LEMMA TxTyped == tx \in [Sesion -> TxType] /\ TxMoves => tx' \in [Sesion -> TxType]
BY DEF TxMoves

LEMMA HolderStep == tx \in [Sesion -> TxType] /\ OneHolder /\ TxMoves => OneHolder'
BY DEF OneHolder, TxMoves, LockFree

LEMMA HeldBefore ==
  ASSUME tx \in [Sesion -> TxType], \A s \in Sesion : Relies(tx[s]), TxMoves, NEW s \in Sesion
  PROVE  \E x \in TxType : tx'[s] = x /\ Relies(x)
<1>1. tx[s] \in TxType /\ Relies(tx[s])
  OBVIOUS
<1>2. ASSUME NEW x \in TxType, x.tipo \notin {"COT001", "IA", "PDF"} PROVE Relies(x)
  BY <1>2 DEF Relies
<1> QED
  BY <1>1, <1>2 DEF TxMoves

(* The fields of a request by its kind.  *)
LEMMA TxFields ==
  ASSUME NEW x \in TxType
  PROVE  /\ x.tipo = "COT001" => /\ x.accion \in Accion \cup {"CONVERTIR"} /\ x.etapa \in EtapaCotizacion
                                 /\ x.actos \in SUBSET Acto /\ x.conceptos \in SUBSET Concepto
         /\ x.tipo = "ACTO" => x.acto \in Acto
         /\ x.tipo = "PRESUPUESTO" => x.borra \in SUBSET Concepto /\ x.crea \in Captura
         /\ x.tipo = "GENERAR" => x.propuesta \in Propuesta
         /\ x.tipo = "IA" => /\ x.accion \in {"APLICAR", "DESCARTAR"}
                             /\ x.borra \in SUBSET Concepto /\ x.crea \in Propuesta
         /\ x.tipo = "PDF" => x.clave \in ClavePdf /\ x.version \in Nat
         /\ x.tipo = "SUBIDO" => /\ x.clave \in ClavePdf /\ x.version \in Nat
                                 /\ x.contenido \in SUBSET Concepto /\ x.archivo \in Archivo
BY DEF TxType, Idle

(* Whatever leaves the stage, the confirmed acts and the proposals alone    *)
(* leaves the requests what they rely on.                                   *)
LEMMA QuietTx ==
  ASSUME ConversionInv, TxMoves, cot'.etapa = cot.etapa, cot'.confirmados = cot.confirmados,
         propuesta' = propuesta, historial' = <<>> => historial = <<>>
  PROVE  tx' \in [Sesion -> TxType] /\ (\A s \in Sesion : Relies(tx[s])') /\ OneHolder'
<1>1. tx \in [Sesion -> TxType]
  BY DEF ConversionInv, QuoteTypeOK
<1>2. ASSUME NEW s \in Sesion PROVE Relies(tx[s])'
  <2>1. PICK x \in TxType : tx'[s] = x /\ Relies(x)
    BY <1>1, HeldBefore DEF ConversionInv
  <2> QED
    BY <2>1 DEF Relies
<1> QED
  BY <1>1, <1>2, TxTyped, HolderStep DEF ConversionInv

-----------------------------------------------------------------------------
(* A stage with a quote is kept by the prospect's own actions.  *)
LEMMA ProspectTyped ==
  ASSUME ConversionInv, ProspectStep
  PROVE  /\ prospecto' \in ProspectoType
         /\ prospecto'.etapa = "CONVERTIDO_EN_COTIZACION" <=>
              prospecto.etapa = "CONVERTIDO_EN_COTIZACION"
<1> USE ActosFichaAssumption
<1>0. prospecto \in ProspectoType
  BY DEF ConversionInv, QuoteTypeOK
<1>1. ASSUME NEW actos \in ActosFicha, CreateProspect(actos) \/ UpdateProspect(actos)
      PROVE  /\ prospecto' \in ProspectoType
             /\ prospecto'.etapa = "CONVERTIDO_EN_COTIZACION" <=>
                  prospecto.etapa = "CONVERTIDO_EN_COTIZACION"
  <2>1. actos \in SUBSET Acto
    OBVIOUS
  <2>2. CASE CreateProspect(actos)
    <3>1. prospecto' = [prospecto EXCEPT !.etapa = "NUEVO", !.actos = actos] /\ prospecto.etapa = None
      BY <2>2 DEF CreateProspect
    <3>2. "NUEVO" \in EtapaProspecto
      BY DEF EtapaProspecto, EtapaOperativa
    <3> QED
      BY <1>0, <2>1, <3>1, <3>2, NoneApart DEF ProspectoType
  <2>3. CASE UpdateProspect(actos)
    BY <1>0, <2>1, <2>3 DEF UpdateProspect, ProspectoType
  <2> QED
    BY <1>1, <2>2, <2>3
<1>2. ASSUME NEW accion \in {"COMENZAR_INTEGRACION", "MARCAR_LISTO_PARA_COTIZAR",
                             "SUSPENDER", "CANCELAR", "REACTIVAR"}, ActOnProspect(accion)
      PROVE  /\ prospecto' \in ProspectoType
             /\ prospecto'.etapa # "CONVERTIDO_EN_COTIZACION"
             /\ prospecto.etapa # "CONVERTIDO_EN_COTIZACION"
  <2>1. prospecto.etapa # "CONVERTIDO_EN_COTIZACION"
    BY <1>2 DEF ActOnProspect, MayAct, AllowedProspectActions
  <2>2. NextProspectStage(prospecto, accion) \in EtapaProspecto \ {"CONVERTIDO_EN_COTIZACION"}
    BY <1>2 DEF ActOnProspect, MayAct, NextProspectStage, EtapaProspecto, EtapaOperativa
  <2>3. prospecto' = [prospecto EXCEPT !.etapa = NextProspectStage(prospecto, accion),
                                       !.anterior = prospecto.etapa]
    BY <1>2 DEF ActOnProspect, Event
  <2> QED
    BY <1>0, <2>1, <2>2, <2>3 DEF ProspectoType
<1>3. CASE DeleteProspect
  BY <1>0, <1>3 DEF DeleteProspect, ProspectoType
<1> QED
  BY <1>1, <1>2, <1>3 DEF ProspectStep

LEMMA ProspectSteps ==
  ASSUME ConversionInv, ProspectStep
  PROVE  ConversionInv'
<1>1. UNCHANGED <<historial, documentos, almacen, tx, cot, versiones, eventos, propuesta, expediente>>
  BY DEF ProspectStep, caseVars, quoteVars
<1>2. tx' \in [Sesion -> TxType] /\ (\A s \in Sesion : Relies(tx[s])') /\ OneHolder'
  BY <1>1, QuietTx DEF TxMoves
<1>3. QuoteTypeOK'
  BY <1>1, ProspectTyped DEF ConversionInv, QuoteTypeOK
<1>4. Linked' /\ Approved' /\ Backed'
  BY <1>1, ProspectTyped DEF ConversionInv, Linked, Approved, Backed
<1> QED
  BY <1>2, <1>3, <1>4 DEF ConversionInv

(* The prospect becomes a quote: there was none, and so no request on one.  *)
LEMMA ConvertSteps ==
  ASSUME ConversionInv, NEW heredados \in {{}, {Heredado}}, ConvertProspect(heredados)
  PROVE  ConversionInv'
<1>1. /\ prospecto.etapa = "LISTO_PARA_COTIZAR"
      /\ prospecto' = [prospecto EXCEPT !.etapa = "CONVERTIDO_EN_COTIZACION",
                                        !.anterior = prospecto.etapa]
      /\ cot' = [etapa |-> "BORRADOR", actos |-> prospecto.actos, confirmados |-> {},
                 conceptos |-> heredados, total |-> heredados]
      /\ eventos' = <<[accion |-> "CREAR", anterior |-> None, nueva |-> "BORRADOR", version |-> 0]>>
      /\ UNCHANGED <<historial, documentos, almacen, tx, versiones, propuesta, expediente>>
  BY DEF ConvertProspect, MayAct, AllowedProspectActions, Event, NextProspectStage, caseVars
<1>2. QuoteTypeOK /\ Linked
  BY DEF ConversionInv
<1>3. cot.etapa = None /\ expediente = None
  BY <1>1, <1>2, NoneApart DEF Linked, EtapaCotizacion
<1>4. QuoteTypeOK'
  <2>1. prospecto' \in ProspectoType
    BY <1>1, <1>2 DEF QuoteTypeOK, ProspectoType, EtapaProspecto
  <2>2. cot' \in CotType
    BY <1>1, <1>2 DEF QuoteTypeOK, ProspectoType, CotType, EtapaCotizacion, Concepto
  <2>3. eventos' \in Seq(EventoType)
    BY <1>1 DEF EventoType, EtapaCotizacion
  <2> QED
    BY <1>1, <1>2, <2>1, <2>2, <2>3 DEF QuoteTypeOK
<1>5. ASSUME NEW s \in Sesion PROVE Relies(tx[s])'
  <2>1. tx[s] \in TxType /\ Relies(tx[s])
    BY DEF ConversionInv, QuoteTypeOK
  <2>2. tx[s].tipo # "COT001"
    BY <1>3, <2>1, TxFields, NoneApart DEF Relies
  <2> QED
    BY <1>1, <2>1, <2>2 DEF Relies
<1>6. OneHolder' /\ Approved' /\ Backed'
  BY <1>1, <1>3 DEF ConversionInv, OneHolder, Approved, Backed
<1>7. prospecto'.etapa = "CONVERTIDO_EN_COTIZACION"
  BY <1>1, <1>2 DEF QuoteTypeOK, ProspectoType
<1>8. Linked'
  BY <1>1, <1>2, <1>3, <1>7, NoneApart DEF Linked, EtapaCotizacion
<1> QED
  BY <1>4, <1>5, <1>6, <1>8 DEF ConversionInv

(* What requests do to the expediente's budget and its documents.  *)
LEMMA CaseTyped ==
  ASSUME ConversionInv, CaseStep
  PROVE  /\ historial' \in Seq(SUBSET Concepto)
         /\ historial' = <<>> <=> historial = <<>>
         /\ Len(historial) > 0 => Len(historial') > 0 /\ historial'[1] = historial[1]
         /\ documentos' \subseteq DocumentoType
         /\ almacen' \subseteq Archivo
         /\ TxMoves
<1> QuoteTypeOK
  BY DEF ConversionInv
<1>1. ASSUME NEW c \in Captura, SaveBudget(c)
      PROVE  /\ historial' \in Seq(SUBSET Concepto)
             /\ historial' # <<>> /\ historial # <<>>
             /\ Len(historial) > 0 => Len(historial') > 0 /\ historial'[1] = historial[1]
             /\ UNCHANGED <<documentos, almacen, tx>>
  <2>1. {c} \in SUBSET Concepto
    BY DEF Concepto
  <2> QED
    BY <1>1, <2>1 DEF SaveBudget, QuoteTypeOK
<1>2. ASSUME NEW s \in Sesion, NEW k \in ClavePdf, ReadBudgetRow(s, k)
      PROVE  TxMoves /\ UNCHANGED <<historial, documentos, almacen>>
  <2>1. [tipo |-> "PDF", clave |-> k, version |-> Len(historial)] \in TxType
    BY DEF TxType, QuoteTypeOK
  <2> QED
    BY <1>2, <2>1, Moves DEF ReadBudgetRow, Relies
<1>3. ASSUME NEW s \in Sesion, NEW f \in Archivo, RenderBudget(s, f)
      PROVE  TxMoves /\ almacen' \subseteq Archivo /\ UNCHANGED <<historial, documentos>>
  <2> DEFINE x == [tipo |-> "SUBIDO", clave |-> tx[s].clave, version |-> tx[s].version,
                   contenido |-> historial[Len(historial)], archivo |-> f]
  <2>1. tx[s] \in TxType /\ tx[s].tipo = "PDF"
    BY <1>3 DEF RenderBudget, QuoteTypeOK
  <2>2. tx[s].clave \in ClavePdf /\ tx[s].version \in Nat
    BY <2>1, TxFields
  <2>3. historial[Len(historial)] \in SUBSET Concepto
    <3>1. historial # <<>>
      BY <2>1 DEF ConversionInv, Relies
    <3> QED
      BY <3>1 DEF QuoteTypeOK
  <2>4. x \in TxType
    BY <2>2, <2>3 DEF TxType
  <2>5. tx' = [tx EXCEPT ![s] = x] /\ almacen' = almacen \cup {f} /\ UNCHANGED <<historial, documentos>>
    BY <1>3 DEF RenderBudget
  <2>6. x.tipo = "SUBIDO"
    OBVIOUS
  <2> HIDE DEF x
  <2> QED
    BY <2>4, <2>5, <2>6, Moves DEF QuoteTypeOK
<1>4. ASSUME NEW s \in Sesion, RecordDocument(s) \/ RecordUnheard(s)
      PROVE  /\ TxMoves /\ documentos' \subseteq DocumentoType
             /\ almacen' \subseteq almacen /\ UNCHANGED historial
  <2>0. PICK oido \in BOOLEAN : Records(s, oido) /\ almacen' \subseteq almacen
    BY <1>4 DEF RecordDocument, RecordUnheard, DeletesFile
  <2>1. tx[s] \in TxType /\ tx[s].tipo = "SUBIDO"
    BY <2>0 DEF Records, QuoteTypeOK
  <2>2. Document(tx[s], oido) \in DocumentoType
    BY <2>1, TxFields DEF Document, DocumentoType
  <2>3. documentos' = documentos \cup {Document(tx[s], oido)} /\ UNCHANGED historial /\ TxMoves
    BY <2>0, Ends DEF Records
  <2> QED
    BY <2>0, <2>2, <2>3 DEF QuoteTypeOK
<1>5. ASSUME NEW s \in Sesion, DiscardUpload(s) \/ Stop(s)
      PROVE  TxMoves /\ almacen' \subseteq almacen /\ UNCHANGED <<historial, documentos>>
  BY <1>5, Ends DEF DiscardUpload, DeletesFile, Stop
<1>6. ASSUME NEW d \in documentos, DeletePdf(d)
      PROVE  documentos' \subseteq DocumentoType /\ UNCHANGED <<historial, almacen, tx>>
  BY <1>6 DEF DeletePdf, QuoteTypeOK, DocumentoType
<1> QED
  BY <1>1, <1>2, <1>3, <1>4, <1>5, <1>6 DEF CaseStep, QuoteTypeOK, TxMoves

LEMMA CaseSteps ==
  ASSUME ConversionInv, CaseStep
  PROVE  ConversionInv'
<1>1. UNCHANGED <<prospecto, cot, versiones, eventos, propuesta, expediente>>
  BY DEF CaseStep, quoteVars
<1>2. tx' \in [Sesion -> TxType] /\ (\A s \in Sesion : Relies(tx[s])') /\ OneHolder'
  BY <1>1, CaseTyped, QuietTx
<1>3. QuoteTypeOK' /\ Linked' /\ Approved' /\ Backed'
  BY <1>1, <1>2, CaseTyped DEF ConversionInv, QuoteTypeOK, Linked, Approved, Backed
<1> QED
  BY <1>2, <1>3 DEF ConversionInv

(* A request reads the quote.  *)
LEMMA BeginSteps ==
  ASSUME ConversionInv, NEW s \in Sesion,
         \/ \E accion \in Accion : BeginAct(s, accion)
         \/ BeginConvert(s)
         \/ \E a \in Acto : BeginAttach(s, a)
         \/ \E c \in Captura : BeginSave(s, c)
         \/ \E g \in Propuesta : BeginGenerate(s, g)
         \/ \E g \in Propuesta, accion \in {"APLICAR", "DESCARTAR"} : BeginDecide(s, g, accion)
  PROVE  ConversionInv'
<1> QuoteTypeOK
  BY DEF ConversionInv
<1>0. UNCHANGED <<prospecto, historial, documentos, almacen, cot, versiones, eventos, propuesta, expediente>>
  BY DEF BeginAct, BeginConvert, BeginAttach, BeginSave, BeginGenerate, BeginDecide, quoteVars
<1>c. cot \in CotType
  BY DEF QuoteTypeOK
<1>1. ASSUME NEW accion \in Accion \cup {"CONVERTIR"}, Begins(s, accion),
             accion = "CONVERTIR" => MayConvert
      PROVE  TxMoves
  <2> DEFINE x == [tipo |-> "COT001", accion |-> accion, etapa |-> cot.etapa,
                   actos |-> cot.actos, conceptos |-> cot.conceptos]
  <2>1. accion \in AllowedQuoteActions(cot.etapa) /\ LockFree("COT001") /\ tx' = [tx EXCEPT ![s] = x]
    BY <1>1 DEF Begins, MayActOnQuote
  <2>2. cot.etapa \in EtapaCotizacion
    BY <1>c, <2>1, NoneApart DEF AllowedQuoteActions, CotType, EtapaCotizacion
  <2>3. x \in TxType
    BY <1>c, <2>2 DEF CotType, TxType
  <2>4. Relies(x)
    BY <1>1, <2>1 DEF Relies, MayConvert
  <2>5. x.tipo = "COT001"
    OBVIOUS
  <2> HIDE DEF x
  <2> QED
    BY <2>1, <2>3, <2>4, <2>5, Moves
<1>2. ASSUME NEW a \in Acto, BeginAttach(s, a) PROVE TxMoves
  <2>1. [tipo |-> "ACTO", acto |-> a] \in TxType
    BY DEF TxType
  <2> QED
    BY <1>2, <2>1, Moves DEF BeginAttach
<1>3. ASSUME NEW c \in Captura, BeginSave(s, c) PROVE TxMoves
  <2>1. [tipo |-> "PRESUPUESTO", borra |-> cot.conceptos, crea |-> c] \in TxType
    BY <1>c DEF TxType, CotType
  <2> QED
    BY <1>3, <2>1, Moves DEF BeginSave
<1>4. ASSUME NEW g \in Propuesta, BeginGenerate(s, g) PROVE TxMoves
  <2>1. [tipo |-> "GENERAR", propuesta |-> g] \in TxType
    BY DEF TxType
  <2> QED
    BY <1>4, <2>1, Moves DEF BeginGenerate
<1>5. ASSUME NEW g \in Propuesta, NEW accion \in {"APLICAR", "DESCARTAR"}, BeginDecide(s, g, accion)
      PROVE  TxMoves
  <2> DEFINE x == [tipo |-> "IA", accion |-> accion, borra |-> cot.conceptos, crea |-> g]
  <2>1. x \in TxType
    BY <1>c DEF TxType, CotType
  <2>2. Relies(x) /\ x.tipo = "IA"
    BY <1>5 DEF BeginDecide, MayDecide, Relies
  <2>3. LockFree("IA") /\ tx' = [tx EXCEPT ![s] = x]
    BY <1>5 DEF BeginDecide, MayDecide
  <2> HIDE DEF x
  <2> QED
    BY <2>1, <2>2, <2>3, Moves
<1>6. TxMoves
  <2>1. ASSUME NEW accion \in Accion, BeginAct(s, accion) PROVE TxMoves
    <3>1. Begins(s, accion) /\ accion # "CONVERTIR" /\ accion \in Accion \cup {"CONVERTIR"}
      BY <2>1 DEF BeginAct, Accion
    <3> QED
      BY <3>1, <1>1
  <2>2. CASE BeginConvert(s)
    <3>1. Begins(s, "CONVERTIR") /\ MayConvert
      BY <2>2 DEF BeginConvert
    <3> QED
      BY <3>1, <1>1
  <2> QED
    BY <1>2, <1>3, <1>4, <1>5, <2>1, <2>2
<1>7. tx' \in [Sesion -> TxType] /\ (\A u \in Sesion : Relies(tx[u])') /\ OneHolder'
  BY <1>0, <1>6, QuietTx
<1>8. QuoteTypeOK' /\ Linked' /\ Approved' /\ Backed'
  BY <1>0, <1>7 DEF ConversionInv, QuoteTypeOK, Linked, Approved, Backed
<1> QED
  BY <1>7, <1>8 DEF ConversionInv

(* An act or a budget is committed: the stage and what was confirmed stay.  *)
LEMMA WriteSteps ==
  ASSUME ConversionInv, NEW s \in Sesion, CommitAttach(s) \/ CommitSave(s)
  PROVE  ConversionInv'
<1> QuoteTypeOK
  BY DEF ConversionInv
<1>0. UNCHANGED <<prospecto, historial, documentos, almacen, versiones, eventos, propuesta, expediente>>
  BY DEF CommitAttach, CommitSave
<1>1. cot' \in CotType /\ cot'.etapa = cot.etapa /\ cot'.confirmados = cot.confirmados
  <2>0. cot \in CotType /\ tx[s] \in TxType
    BY DEF QuoteTypeOK
  <2>1. CASE CommitAttach(s)
    <3>1. tx[s].acto \in Acto
      BY <2>0, <2>1, TxFields DEF CommitAttach
    <3>2. cot' = [cot EXCEPT !.actos = @ \cup {tx[s].acto}]
      BY <2>1 DEF CommitAttach
    <3> QED
      BY <2>0, <3>1, <3>2 DEF CotType
  <2>2. CASE CommitSave(s)
    <3>1. tx[s].crea \in Concepto
      BY <2>0, <2>2, TxFields DEF CommitSave, Concepto
    <3>2. cot' = [cot EXCEPT !.conceptos = Replaced(tx[s]), !.total = {tx[s].crea}]
      BY <2>2 DEF CommitSave
    <3>3. Replaced(tx[s]) \in SUBSET Concepto
      BY <2>0, <3>1 DEF Replaced, CotType
    <3> QED
      BY <2>0, <3>1, <3>2, <3>3 DEF CotType
  <2> QED
    BY <2>1, <2>2
<1>2. TxMoves
  BY Ends DEF CommitAttach, CommitSave
<1>3. tx' \in [Sesion -> TxType] /\ (\A u \in Sesion : Relies(tx[u])') /\ OneHolder'
  BY <1>0, <1>1, <1>2, QuietTx
<1>4. QuoteTypeOK' /\ Linked' /\ Approved' /\ Backed'
  BY <1>0, <1>1, <1>3 DEF ConversionInv, QuoteTypeOK, Linked, Approved, Backed
<1> QED
  BY <1>3, <1>4 DEF ConversionInv

(* A proposal is stored: no request decides one that did not exist.  *)
LEMMA GenerateSteps ==
  ASSUME ConversionInv, NEW s \in Sesion, CommitGenerate(s)
  PROVE  ConversionInv'
<1> QuoteTypeOK
  BY DEF ConversionInv
<1>0. UNCHANGED <<prospecto, historial, documentos, almacen, cot, versiones, eventos, expediente>>
  BY DEF CommitGenerate
<1>1. tx[s] \in TxType /\ tx[s].tipo = "GENERAR"
  BY DEF CommitGenerate, QuoteTypeOK
<1>2. /\ propuesta[tx[s].propuesta] = "NINGUNA"
      /\ propuesta' = [propuesta EXCEPT ![tx[s].propuesta] = "PENDIENTE"]
      /\ tx[s].propuesta \in Propuesta
  BY <1>1, TxFields DEF CommitGenerate
<1>3. TxMoves /\ tx' \in [Sesion -> TxType] /\ OneHolder'
  BY Ends, TxTyped, HolderStep DEF CommitGenerate, QuoteTypeOK, ConversionInv
<1>4. ASSUME NEW u \in Sesion PROVE Relies(tx[u])'
  <2>1. PICK x \in TxType : tx'[u] = x /\ Relies(x)
    BY <1>3, HeldBefore DEF ConversionInv, QuoteTypeOK
  <2>2. x.tipo = "IA" => x.crea \in Propuesta
    BY TxFields
  <2>3. x.tipo = "IA" => propuesta'[x.crea] = "PENDIENTE"
    BY <1>2, <2>1, <2>2 DEF Relies, QuoteTypeOK
  <2> QED
    BY <1>0, <2>1, <2>3 DEF Relies
<1>5. QuoteTypeOK' /\ Linked' /\ Approved' /\ Backed'
  BY <1>0, <1>2, <1>3 DEF ConversionInv, QuoteTypeOK, Linked, Approved, Backed
<1> QED
  BY <1>3, <1>4, <1>5 DEF ConversionInv

(* The holder of a lock ends: no other request has its kind.  *)
LEMMA HolderEnds ==
  ASSUME ConversionInv, NEW s \in Sesion, NEW k \in {"COT001", "IA"}, tx[s].tipo = k,
         tx' = [tx EXCEPT ![s] = Idle], NEW u \in Sesion
  PROVE  tx'[u] \in TxType /\ tx'[u].tipo # k /\ (tx'[u].tipo = "LIBRE" \/ Relies(tx'[u]))
BY IdleTyped DEF ConversionInv, QuoteTypeOK, OneHolder

(* The decision of a proposal is committed by who holds its lock.  *)
LEMMA DecideSteps ==
  ASSUME ConversionInv, NEW s \in Sesion, CommitDiscard(s) \/ CommitApply(s)
  PROVE  ConversionInv'
<1> QuoteTypeOK
  BY DEF ConversionInv
<1>0. UNCHANGED <<prospecto, historial, documentos, almacen, versiones, eventos, expediente>>
  BY DEF CommitDiscard, CommitApply
<1>1. tx[s] \in TxType /\ tx[s].tipo = "IA" /\ tx' = [tx EXCEPT ![s] = Idle]
  BY DEF CommitDiscard, CommitApply, QuoteTypeOK
<1>2. tx[s].crea \in Propuesta
  BY <1>1, TxFields
<1>3. cot' \in CotType /\ cot'.etapa = cot.etapa /\ cot'.confirmados = cot.confirmados
  <2>0. cot \in CotType
    BY DEF QuoteTypeOK
  <2>1. CASE CommitDiscard(s)
    BY <2>0, <2>1 DEF CommitDiscard
  <2>2. CASE CommitApply(s)
    <3>1. tx[s].crea \in Concepto
      BY <1>2 DEF Concepto
    <3>2. cot' = [cot EXCEPT !.conceptos = Replaced(tx[s]), !.total = {tx[s].crea}]
      BY <2>2 DEF CommitApply
    <3>3. Replaced(tx[s]) \in SUBSET Concepto
      BY <2>0, <3>1 DEF Replaced, CotType
    <3> QED
      BY <2>0, <3>1, <3>2, <3>3 DEF CotType
  <2> QED
    BY <2>1, <2>2
<1>4. propuesta' \in [Propuesta -> {"NINGUNA", "PENDIENTE", "APLICADA", "DESCARTADA", "SUPERADA"}]
  BY <1>2 DEF CommitDiscard, CommitApply, QuoteTypeOK
<1>5. TxMoves /\ tx' \in [Sesion -> TxType] /\ OneHolder'
  BY <1>1, Ends, TxTyped, HolderStep DEF QuoteTypeOK, ConversionInv
<1>6. ASSUME NEW u \in Sesion PROVE Relies(tx[u])'
  <2>1. tx'[u].tipo # "IA" /\ (tx'[u].tipo = "LIBRE" \/ Relies(tx'[u]))
    BY <1>1, HolderEnds
  <2> QED
    BY <1>0, <1>3, <2>1 DEF Relies
<1>7. QuoteTypeOK' /\ Linked' /\ Approved' /\ Backed'
  BY <1>0, <1>3, <1>4, <1>5 DEF ConversionInv, QuoteTypeOK, Linked, Approved, Backed
<1> QED
  BY <1>5, <1>6, <1>7 DEF ConversionInv

-----------------------------------------------------------------------------
(* A snapshot is one more version, the only one approved, and the last.  *)
LEMMA Snapshots ==
  ASSUME versiones \in Seq(VersionType), NEW c \in SUBSET Concepto
  PROVE  /\ Snapshot(c) \in Seq(VersionType)
         /\ Len(Snapshot(c)) = Len(versiones) + 1
         /\ Snapshot(c)[Len(Snapshot(c))].conceptos = c
         /\ \A n \in DOMAIN Snapshot(c) : Snapshot(c)[n].aprobada <=> n = Len(Snapshot(c))
<1> DEFINE old == [n \in DOMAIN versiones |-> [versiones[n] EXCEPT !.aprobada = FALSE]]
           v == [conceptos |-> c, aprobada |-> TRUE]
<1>1. old \in Seq(VersionType) /\ Len(old) = Len(versiones)
  <2>1. ASSUME NEW n \in 1..Len(versiones)
        PROVE  [versiones[n] EXCEPT !.aprobada = FALSE] \in VersionType
    <3>1. versiones[n] \in VersionType
      OBVIOUS
    <3> QED
      BY <3>1 DEF VersionType
  <2>2. old = [n \in 1..Len(versiones) |-> [versiones[n] EXCEPT !.aprobada = FALSE]]
    OBVIOUS
  <2> QED
    BY <2>1, <2>2
<1>2. \A n \in 1..Len(old) : old[n].aprobada = FALSE
  BY <1>1 DEF VersionType
<1>3. v \in VersionType /\ v.aprobada = TRUE /\ v.conceptos = c
  BY DEF VersionType
<1>4. Snapshot(c) = Append(old, v)
  BY DEF Snapshot
<1> HIDE DEF old, v
<1> QED
  BY <1>1, <1>2, <1>3, <1>4

(* A transition is one more event, its own.  *)
LEMMA Recorded ==
  ASSUME eventos \in Seq(EventoType), NEW t \in TxType, t.tipo = "COT001", NEW w \in Seq(VersionType),
         t.accion \in AllowedQuoteActions(t.etapa)
  PROVE  /\ RecordTransition(t, w) \in Seq(EventoType)
         /\ Len(RecordTransition(t, w)) > 0
         /\ RecordTransition(t, w)[Len(RecordTransition(t, w))].accion = t.accion
         /\ t.accion = "CONVERTIR" =>
              RecordTransition(t, w)[Len(RecordTransition(t, w))].version = Len(w)
<1> DEFINE e == [accion |-> t.accion, anterior |-> t.etapa, nueva |-> QuoteActionResult(t.etapa, t.accion),
                 version |-> IF t.accion \in TakesSnapshot THEN Len(w) ELSE 0]
<1>1. t.accion \in Accion \cup {"CONVERTIR"} /\ t.etapa \in EtapaCotizacion
  BY TxFields
<1>2. QuoteActionResult(t.etapa, t.accion) \in EtapaCotizacion
  BY <1>1 DEF QuoteActionResult, Accion, EtapaCotizacion
<1>3. (IF t.accion \in TakesSnapshot THEN Len(w) ELSE 0) \in Nat
  OBVIOUS
<1>4. e \in EventoType
  BY <1>1, <1>2, <1>3 DEF EventoType
<1>5. e.accion = t.accion /\ (t.accion = "CONVERTIR" => e.version = Len(w))
  BY DEF TakesSnapshot
<1>6. RecordTransition(t, w) = Append(eventos, e)
  BY DEF RecordTransition
<1> HIDE DEF e
<1> QED
  BY <1>4, <1>5, <1>6

(* A commercial action is committed by who holds the quote's lock; it       *)
(* neither leaves nor reaches the last stage.                               *)
LEMMA ActSteps ==
  ASSUME ConversionInv, NEW s \in Sesion, CommitAct(s)
  PROVE  ConversionInv'
<1> DEFINE t == tx[s]
<1> QuoteTypeOK
  BY DEF ConversionInv
<1>1. /\ t \in TxType /\ t.tipo = "COT001" /\ t.accion # "CONVERTIR"
      /\ tx' = [tx EXCEPT ![s] = Idle]
      /\ versiones' = IF t.accion \in TakesSnapshot THEN Snapshot(t.conceptos) ELSE versiones
      /\ eventos' = RecordTransition(t, versiones')
      /\ cot' = Moved(t)
      /\ UNCHANGED <<prospecto, historial, documentos, almacen, propuesta, expediente>>
  BY DEF CommitAct, QuoteTypeOK
<1>2. t.etapa = cot.etapa /\ t.accion \in AllowedQuoteActions(t.etapa)
  BY <1>1 DEF ConversionInv, Relies
<1>3. /\ t.accion \in Accion /\ t.etapa \in EtapaCotizacion
      /\ t.actos \in SUBSET Acto /\ t.conceptos \in SUBSET Concepto
  BY <1>1, TxFields
<1>4. t.etapa # "CONVERTIDA_EXPEDIENTE"
  BY <1>2 DEF AllowedQuoteActions
<1>5. QuoteActionResult(t.etapa, t.accion) \in EtapaCotizacion \ {"CONVERTIDA_EXPEDIENTE"}
  BY <1>3, <1>4 DEF QuoteActionResult, Accion, EtapaCotizacion
<1>6. /\ cot' \in CotType
      /\ cot'.etapa = QuoteActionResult(t.etapa, t.accion)
  <2>1. cot \in CotType
    BY DEF QuoteTypeOK
  <2>2. cot' = [cot EXCEPT !.etapa = QuoteActionResult(t.etapa, t.accion),
                 !.confirmados = IF t.accion = "ACEPTAR" THEN @ \cup t.actos ELSE @,
                 !.total = IF t.accion \in TakesSnapshot THEN t.conceptos ELSE @]
    BY <1>1 DEF Moved
  <2> HIDE DEF t
  <2> QED
    BY <1>3, <1>5, <2>1, <2>2 DEF CotType
<1>7. versiones' \in Seq(VersionType) /\ Approved'
  <2>1. versiones \in Seq(VersionType) /\ Approved
    BY DEF QuoteTypeOK, ConversionInv
  <2>2. CASE t.accion \in TakesSnapshot
    BY <1>1, <1>3, <2>1, <2>2, Snapshots DEF Approved
  <2>3. CASE t.accion \notin TakesSnapshot
    BY <1>1, <2>1, <2>3 DEF Approved
  <2> QED
    BY <2>2, <2>3
<1>8. eventos' \in Seq(EventoType)
  BY <1>1, <1>2, <1>7, Recorded DEF QuoteTypeOK
<1>9. TxMoves /\ tx' \in [Sesion -> TxType] /\ OneHolder'
  BY <1>1, Ends, TxTyped, HolderStep DEF QuoteTypeOK, ConversionInv
<1>10. ASSUME NEW u \in Sesion PROVE Relies(tx[u])'
  <2>1. tx'[u].tipo # "COT001" /\ (tx'[u].tipo = "LIBRE" \/ Relies(tx'[u]))
    BY <1>1, HolderEnds
  <2> QED
    BY <1>1, <2>1 DEF Relies
<1>11. QuoteTypeOK'
  BY <1>1, <1>6, <1>7, <1>8, <1>9 DEF QuoteTypeOK
<1>12. cot.etapa # None /\ cot'.etapa # None /\ cot'.etapa # "CONVERTIDA_EXPEDIENTE" /\ expediente = None
  BY <1>2, <1>3, <1>4, <1>5, <1>6, NoneApart DEF ConversionInv, Linked
<1>13. Linked' /\ Backed'
  BY <1>1, <1>12 DEF ConversionInv, Linked, Backed
<1> QED
  BY <1>7, <1>9, <1>10, <1>11, <1>13 DEF ConversionInv

(* The conversion: the acts are the ones read with the confirmation, the    *)
(* budget is the one of the snapshot, and the transition names it.          *)
LEMMA ConvertQuoteSteps ==
  ASSUME ConversionInv, NEW s \in Sesion, CommitConvert(s)
  PROVE  ConversionInv'
<1> DEFINE t == tx[s]
<1> QuoteTypeOK
  BY DEF ConversionInv
<1>1. /\ t \in TxType /\ t.tipo = "COT001" /\ t.accion = "CONVERTIR"
      /\ tx' = [tx EXCEPT ![s] = Idle]
      /\ versiones' = Snapshot(t.conceptos)
      /\ expediente' = [actos |-> t.actos, origen |-> Len(versiones')]
      /\ historial' = <<versiones'[Len(versiones')].conceptos>>
      /\ eventos' = RecordTransition(t, versiones')
      /\ cot' = Moved(t)
      /\ UNCHANGED <<prospecto, documentos, almacen, propuesta>>
  BY DEF CommitConvert, QuoteTypeOK
<1>2. /\ t.etapa = cot.etapa /\ t.accion \in AllowedQuoteActions(t.etapa)
      /\ t.actos # {} /\ t.actos \subseteq cot.confirmados
  BY <1>1 DEF ConversionInv, Relies
<1>3. t.etapa \in EtapaCotizacion /\ t.actos \in SUBSET Acto /\ t.conceptos \in SUBSET Concepto
  BY <1>1, TxFields
<1>4. QuoteActionResult(t.etapa, t.accion) = "CONVERTIDA_EXPEDIENTE"
  BY <1>1 DEF QuoteActionResult
<1>5. /\ cot' \in CotType /\ cot'.etapa = "CONVERTIDA_EXPEDIENTE"
      /\ cot'.confirmados = cot.confirmados
  <2>1. cot \in CotType
    BY DEF QuoteTypeOK
  <2>2. cot' = [cot EXCEPT !.etapa = QuoteActionResult(t.etapa, t.accion),
                 !.confirmados = IF t.accion = "ACEPTAR" THEN @ \cup t.actos ELSE @,
                 !.total = IF t.accion \in TakesSnapshot THEN t.conceptos ELSE @]
    BY <1>1 DEF Moved
  <2>3. t.accion = "CONVERTIR"
    BY <1>1
  <2> HIDE DEF t
  <2> QED
    BY <1>3, <1>4, <2>1, <2>2, <2>3 DEF CotType, EtapaCotizacion
<1>6. /\ versiones' \in Seq(VersionType) /\ Approved'
      /\ Len(versiones') \in Nat /\ Len(versiones') > 0
      /\ versiones'[Len(versiones')].conceptos = t.conceptos
  <2>1. versiones \in Seq(VersionType)
    BY DEF QuoteTypeOK
  <2> QED
    BY <1>1, <1>3, <2>1, Snapshots DEF Approved
<1>7. /\ eventos' \in Seq(EventoType) /\ Len(eventos') > 0
      /\ eventos'[Len(eventos')].accion = "CONVERTIR"
      /\ eventos'[Len(eventos')].version = Len(versiones')
  BY <1>1, <1>2, <1>6, Recorded DEF QuoteTypeOK
<1>8. historial' \in Seq(SUBSET Concepto) /\ Len(historial') = 1 /\ historial'[1] = t.conceptos
  BY <1>1, <1>3, <1>6
<1>9. TxMoves /\ tx' \in [Sesion -> TxType] /\ OneHolder'
  BY <1>1, Ends, TxTyped, HolderStep DEF QuoteTypeOK, ConversionInv
<1>10. ASSUME NEW u \in Sesion PROVE Relies(tx[u])'
  <2>1. tx'[u].tipo # "COT001" /\ (tx'[u].tipo = "LIBRE" \/ Relies(tx'[u]))
    BY <1>1, HolderEnds
  <2>2. historial' # <<>>
    BY <1>8, SMTT(30)
  <2> QED
    BY <1>1, <2>1, <2>2 DEF Relies
<1>11. expediente' \in [actos : SUBSET Acto, origen : Nat] /\ expediente' # None
  BY <1>1, <1>3, <1>6, NoneAssumption
<1>12. QuoteTypeOK'
  BY <1>1, <1>5, <1>6, <1>7, <1>8, <1>9, <1>11 DEF QuoteTypeOK
<1>13. cot.etapa # None
  BY <1>2, <1>3, NoneApart
<1>14. Linked'
  BY <1>1, <1>5, <1>11, <1>13, NoneApart DEF ConversionInv, Linked, EtapaCotizacion
<1>15. expediente'.actos = t.actos /\ expediente'.origen = Len(versiones')
  BY <1>1
<1>16. Backed'
  <2> HIDE DEF t
  <2> QED
    BY <1>2, <1>5, <1>6, <1>7, <1>8, <1>15 DEF Backed
<1> QED
  BY <1>6, <1>9, <1>10, <1>12, <1>14, <1>16 DEF ConversionInv

-----------------------------------------------------------------------------
LEMMA ConversionInit == Init => ConversionInv
<1> SUFFICES ASSUME Init PROVE ConversionInv
  OBVIOUS
<1>1. QuoteTypeOK
  BY DEF Init, ProspectInit, CaseInit, QuoteInit, QuoteTypeOK, ProspectoType, EtapaProspecto,
         CotType, TxType
<1>2. \A s \in Sesion : tx[s].tipo = "LIBRE"
  BY DEF Init, CaseInit, Idle
<1>3. (\A s \in Sesion : Relies(tx[s])) /\ OneHolder
  BY <1>2 DEF Relies, OneHolder
<1>4. Linked /\ Approved /\ Backed
  BY NoneApart DEF Init, ProspectInit, CaseInit, QuoteInit, Linked, Approved, Backed, EtapaCotizacion
<1> QED
  BY <1>1, <1>3, <1>4 DEF ConversionInv

LEMMA ConversionStep == ConversionInv /\ [Next]_vars => ConversionInv'
<1> SUFFICES ASSUME ConversionInv, [Next]_vars PROVE ConversionInv'
  OBVIOUS
<1>1. ASSUME NEW s \in Sesion,
             \/ \E accion \in Accion : BeginAct(s, accion)
             \/ CommitAct(s)
             \/ BeginConvert(s)
             \/ CommitConvert(s)
             \/ \E a \in Acto : BeginAttach(s, a)
             \/ CommitAttach(s)
             \/ \E c \in Captura : BeginSave(s, c)
             \/ CommitSave(s)
             \/ \E g \in Propuesta : BeginGenerate(s, g)
             \/ CommitGenerate(s)
             \/ \E g \in Propuesta, accion \in {"APLICAR", "DESCARTAR"} : BeginDecide(s, g, accion)
             \/ CommitDiscard(s)
             \/ CommitApply(s)
      PROVE  ConversionInv'
  BY <1>1, BeginSteps, ActSteps, ConvertQuoteSteps, WriteSteps, GenerateSteps, DecideSteps
<1>2. CASE UNCHANGED vars
  BY <1>2 DEF vars, caseVars, quoteVars, ConversionInv, QuoteTypeOK, Relies, OneHolder, Linked, Approved,
              Backed
<1> QED
  BY <1>1, <1>2, ProspectSteps, ConvertSteps, CaseSteps DEF Next

LEMMA ConversionHolds == Spec => []ConversionInv
BY ConversionInit, ConversionStep, PTL DEF Spec

(* Every link from prospect to expediente is backed by the one before,      *)
(* though acts and budgets change under no lock or another one.             *)
THEOREM ConversionIsBackedCorrect == Spec => []ConversionIsBacked
<1>1. ConversionInv => ConversionIsBacked
  BY DEF ConversionInv, Linked, Approved, Backed, ConversionIsBacked
<1> QED
  BY <1>1, ConversionHolds, PTL

(* A decision is of a pending proposal, still pending when it commits.  *)
THEOREM DecisionStaysCorrect == Spec => DecisionStays
<1> DEFINE Kept == \A g \in Propuesta :
                     propuesta[g] \in {"APLICADA", "DESCARTADA", "SUPERADA"} => propuesta'[g] = propuesta[g]
<1>1. ASSUME ConversionInv, Next PROVE Kept
  <2>0. /\ propuesta \in [Propuesta -> {"NINGUNA", "PENDIENTE", "APLICADA", "DESCARTADA", "SUPERADA"}]
        /\ tx \in [Sesion -> TxType] /\ \A s \in Sesion : Relies(tx[s])
    BY <1>1 DEF ConversionInv, QuoteTypeOK
  <2>1. ASSUME NEW s \in Sesion, CommitGenerate(s) PROVE Kept
    BY <2>0, <2>1 DEF CommitGenerate
  <2>2. ASSUME NEW s \in Sesion, CommitDiscard(s) PROVE Kept
    BY <2>0, <2>2 DEF CommitDiscard, Relies
  <2>3. ASSUME NEW s \in Sesion, CommitApply(s) PROVE Kept
    BY <2>0, <2>3 DEF CommitApply, Relies
  <2>4. CASE propuesta' = propuesta
    BY <2>4
  <2> QED
    BY <1>1, <2>1, <2>2, <2>3, <2>4 DEF Next, ProspectStep, ConvertProspect, CaseStep, BeginAct, CommitAct,
         BeginConvert, CommitConvert, BeginAttach, CommitAttach, BeginSave, CommitSave, BeginGenerate,
         BeginDecide, quoteVars
<1>2. ConversionInv /\ [Next]_vars => [Kept]_vars
  BY <1>1
<1> QED
  BY <1>2, ConversionHolds, PTL DEF Spec, DecisionStays

-----------------------------------------------------------------------------
(* Steps of the quote leave documents, and what renders them, alone.  *)
QuoteOnly ==
  /\ UNCHANGED <<historial, documentos, almacen>>
  /\ \A s \in Sesion : tx'[s] = tx[s] \/ tx'[s].tipo \notin {"PDF", "SUBIDO"}

LEMMA QuoteOnlySteps ==
  ASSUME ConversionInv, Next, ~CaseStep, \A s \in Sesion : ~CommitConvert(s)
  PROVE  QuoteOnly
<1>0. tx \in [Sesion -> TxType] /\ Idle.tipo = "LIBRE"
  BY IdleTyped DEF ConversionInv, QuoteTypeOK
<1>1. CASE ProspectStep \/ \E heredados \in {{}, {Heredado}} : ConvertProspect(heredados)
  BY <1>1 DEF ProspectStep, ConvertProspect, caseVars, QuoteOnly
<1>2. ASSUME NEW s \in Sesion, NEW accion \in Accion \cup {"CONVERTIR"}, Begins(s, accion)
      PROVE  \A u \in Sesion : tx'[u] = tx[u] \/ tx'[u].tipo \notin {"PDF", "SUBIDO"}
  BY <1>0, <1>2 DEF Begins
<1>3. ASSUME NEW s \in Sesion,
             \/ \E accion \in Accion : BeginAct(s, accion)
             \/ BeginConvert(s)
      PROVE  QuoteOnly
  BY <1>2, <1>3 DEF BeginAct, BeginConvert, QuoteOnly
<1>4. ASSUME NEW s \in Sesion, \E a \in Acto : BeginAttach(s, a) PROVE QuoteOnly
  BY <1>0, <1>4 DEF BeginAttach, QuoteOnly
<1>5. ASSUME NEW s \in Sesion, \E c \in Captura : BeginSave(s, c) PROVE QuoteOnly
  BY <1>0, <1>5 DEF BeginSave, QuoteOnly
<1>6. ASSUME NEW s \in Sesion, \E g \in Propuesta : BeginGenerate(s, g) PROVE QuoteOnly
  BY <1>0, <1>6 DEF BeginGenerate, QuoteOnly
<1>7. ASSUME NEW s \in Sesion, NEW g \in Propuesta, NEW accion \in {"APLICAR", "DESCARTAR"},
             BeginDecide(s, g, accion)
      PROVE  QuoteOnly
  BY <1>0, <1>7 DEF BeginDecide, MayDecide, QuoteOnly
<1>8. ASSUME NEW s \in Sesion,
             CommitAct(s) \/ CommitAttach(s) \/ CommitSave(s) \/ CommitGenerate(s)
               \/ CommitDiscard(s) \/ CommitApply(s)
      PROVE  QuoteOnly
  BY <1>0, <1>8 DEF CommitAct, CommitAttach, CommitSave, CommitGenerate, CommitDiscard, CommitApply,
                    QuoteOnly
<1> QED
  BY <1>1, <1>3, <1>4, <1>5, <1>6, <1>7, <1>8 DEF Next

LEMMA PdfQuiet == PdfInv /\ QuoteOnly => PdfInv'
<1> SUFFICES ASSUME PdfInv, QuoteOnly PROVE PdfInv'
  OBVIOUS
<1>1. ASSUME NEW s \in Sesion PROVE Rendered(s)'
  BY DEF PdfInv, Rendered, QuoteOnly
<1>2. ASSUME NEW s \in Sesion, tx'[s].tipo = "PDF" PROVE tx'[s].version \in 1..Len(historial)
  BY <1>2 DEF PdfInv, QuoteOnly
<1> QED
  BY <1>1, <1>2 DEF PdfInv, QuoteOnly

(* Before the conversion there is no version, and so nothing shows one.  *)
LEMMA PdfConvert ==
  ASSUME ConversionInv, PdfInv, NEW s \in Sesion, CommitConvert(s)
  PROVE  PdfInv'
<1>1. UNCHANGED <<documentos, almacen>> /\ tx' = [tx EXCEPT ![s] = Idle]
  BY DEF CommitConvert
<1>2. historial = <<>>
  <2>1. tx[s] \in TxType /\ tx[s].tipo = "COT001" /\ Relies(tx[s])
    BY DEF ConversionInv, QuoteTypeOK, CommitConvert
  <2>2. cot.etapa # "CONVERTIDA_EXPEDIENTE"
    BY <2>1 DEF Relies, AllowedQuoteActions
  <2> QED
    BY <2>2 DEF ConversionInv, Linked
<1>3. documentos = {} /\ \A u \in Sesion : tx[u].tipo \notin {"PDF", "SUBIDO"}
  <2>1. \A u \in Sesion : tx[u].tipo = "SUBIDO" => tx[u].version \in Nat
    BY TxFields DEF ConversionInv, QuoteTypeOK
  <2> QED
    BY <1>2, <2>1 DEF PdfInv, Rendered
<1>4. \A u \in Sesion : tx'[u].tipo \notin {"PDF", "SUBIDO"}
  BY <1>1, <1>3, IdleTyped DEF ConversionInv, QuoteTypeOK
<1> QED
  BY <1>1, <1>3, <1>4 DEF PdfInv, Rendered

(* A save: the versions there were keep their concepts.  *)
LEMMA PdfSave ==
  ASSUME ConversionInv, PdfInv, NEW c \in Captura, SaveBudget(c)
  PROVE  PdfInv'
<1>1. historial \in Seq(SUBSET Concepto) /\ {c} \in SUBSET Concepto
  BY DEF ConversionInv, QuoteTypeOK, Concepto
<1>2. /\ Len(historial') = Len(historial) + 1 /\ Len(historial) \in Nat
      /\ \A n \in 1..Len(historial) : historial'[n] = historial[n]
      /\ UNCHANGED <<documentos, almacen, tx>>
  BY <1>1 DEF SaveBudget
<1>3. ASSUME NEW s \in Sesion PROVE Rendered(s)'
  <2>1. tx[s].tipo = "SUBIDO" => tx[s].version \in Nat
    BY TxFields DEF ConversionInv, QuoteTypeOK
  <2>2. Rendered(s)
    BY DEF PdfInv
  <2>3. ASSUME tx[s].tipo = "SUBIDO"
        PROVE  \E n \in tx[s].version..Len(historial') : n > 0 /\ tx[s].contenido = historial'[n]
    <3>1. PICK n \in tx[s].version..Len(historial) : n > 0 /\ tx[s].contenido = historial[n]
      BY <2>2, <2>3 DEF Rendered
    <3>2. n \in 1..Len(historial) /\ n \in tx[s].version..Len(historial')
      BY <1>2, <2>1, <2>3, <3>1
    <3> QED
      BY <1>2, <3>1, <3>2
  <2> QED
    BY <1>2, <2>2, <2>3 DEF Rendered
<1>4. \A n \in 1..Len(historial) : n \in 1..Len(historial')
  BY <1>2
<1> QED
  BY <1>2, <1>3, <1>4 DEF PdfInv

LEMMA PdfRead ==
  ASSUME ConversionInv, PdfInv, NEW s \in Sesion, NEW k \in ClavePdf, ReadBudgetRow(s, k)
  PROVE  PdfInv'
<1>1. /\ historial \in Seq(SUBSET Concepto) /\ historial # <<>> /\ tx \in [Sesion -> TxType]
      /\ tx' = [tx EXCEPT ![s] = [tipo |-> "PDF", clave |-> k, version |-> Len(historial)]]
      /\ UNCHANGED <<historial, documentos, almacen>>
  BY DEF ReadBudgetRow, ConversionInv, QuoteTypeOK
<1>2. Len(historial) \in 1..Len(historial)
  BY <1>1
<1>3. \A u \in Sesion : IF u = s THEN tx'[u].tipo = "PDF" /\ tx'[u].version = Len(historial)
                                 ELSE tx'[u] = tx[u]
  BY <1>1
<1>4. ASSUME NEW u \in Sesion PROVE Rendered(u)'
  BY <1>1, <1>3 DEF PdfInv, Rendered
<1> QED
  BY <1>1, <1>2, <1>3, <1>4 DEF PdfInv

(* The file of a rendering has a key no file in storage has.  *)
LEMMA PdfRender ==
  ASSUME ConversionInv, PdfInv, NEW s \in Sesion, NEW f \in Archivo, RenderBudget(s, f)
  PROVE  PdfInv'
<1> DEFINE n == Len(historial)
<1>1. /\ tx \in [Sesion -> TxType] /\ tx[s].tipo = "PDF"
      /\ f \notin almacen /\ \A d \in documentos : d.archivo # f
      /\ tx' = [tx EXCEPT ![s] =
                  [tipo |-> "SUBIDO", clave |-> tx[s].clave, version |-> tx[s].version,
                   contenido |-> historial[n], archivo |-> f]]
      /\ almacen' = almacen \cup {f} /\ UNCHANGED <<historial, documentos>>
  BY DEF RenderBudget, ConversionInv, QuoteTypeOK
<1>2. n \in tx[s].version..n /\ n > 0
  BY <1>1 DEF PdfInv, ConversionInv, QuoteTypeOK
<1>3. /\ tx'[s].tipo = "SUBIDO" /\ tx'[s].version = tx[s].version
      /\ tx'[s].contenido = historial[n] /\ tx'[s].archivo = f
      /\ \A u \in Sesion : u # s => tx'[u] = tx[u]
  BY <1>1
<1>4. \A u \in Sesion : u # s /\ tx[u].tipo = "SUBIDO" => tx[u].archivo # f /\ tx[u].archivo \in almacen
  BY <1>1 DEF PdfInv, Rendered
<1>5. Rendered(s)'
  <2>1. \E m \in tx'[s].version..Len(historial') : m > 0 /\ tx'[s].contenido = historial'[m]
    BY <1>1, <1>2, <1>3
  <2> QED
    BY <1>1, <1>3, <1>4, <2>1 DEF Rendered
<1>6. ASSUME NEW u \in Sesion, u # s PROVE Rendered(u)'
  BY <1>1, <1>3, <1>4, <1>6 DEF PdfInv, Rendered
<1>7. ASSUME NEW u \in Sesion, tx'[u].tipo = "PDF" PROVE tx'[u].version \in 1..Len(historial')
  BY <1>1, <1>3, <1>7 DEF PdfInv
<1> QED
  BY <1>1, <1>5, <1>6, <1>7 DEF PdfInv

(* What is recorded was rendered from the version it names: it is the last  *)
(* one, and nothing was saved since it was first read.  Only its own file   *)
(* is at stake when the answer of the commit is lost.                       *)
LEMMA PdfRecord ==
  ASSUME ConversionInv, PdfInv, NEW s \in Sesion, RecordDocument(s) \/ RecordUnheard(s)
  PROVE  PdfInv'
<1>0. PICK oido \in BOOLEAN :
        /\ Records(s, oido) /\ almacen' \in {almacen, almacen \ {tx[s].archivo}}
        /\ oido => almacen' = almacen
  BY DEF RecordDocument, RecordUnheard, DeletesFile
<1> DEFINE d0 == Document(tx[s], oido)
<1>1. /\ tx \in [Sesion -> TxType] /\ tx[s].tipo = "SUBIDO" /\ tx[s].version = Len(historial)
      /\ \A d \in documentos : d.clave # tx[s].clave
      /\ documentos' = documentos \cup {d0} /\ tx' = [tx EXCEPT ![s] = Idle]
      /\ UNCHANGED historial
  BY <1>0 DEF Records, Duplicate, SameVersion, ConversionInv, QuoteTypeOK
<1>2. Len(historial) \in Nat
  BY DEF ConversionInv, QuoteTypeOK
<1>3. PICK n \in Len(historial)..Len(historial) : n > 0 /\ tx[s].contenido = historial[n]
  BY <1>1 DEF PdfInv, Rendered
<1>4. n = Len(historial) /\ Len(historial) \in 1..Len(historial)
  BY <1>2, <1>3
<1>5. /\ d0.version \in 1..Len(historial) /\ d0.contenido = historial[d0.version]
      /\ d0.archivo = tx[s].archivo /\ d0.clave = tx[s].clave
      /\ d0.oido => d0.archivo \in almacen'
  BY <1>0, <1>1, <1>3, <1>4 DEF Document, PdfInv, Rendered
<1> HIDE DEF d0
<1>6. tx'[s].tipo = "LIBRE" /\ \A u \in Sesion : u # s => tx'[u] = tx[u]
  BY <1>1, IdleTyped
<1>7. ASSUME NEW u \in Sesion PROVE Rendered(u)'
  <2>1. CASE u = s
    BY <1>6, <2>1 DEF Rendered
  <2>2. CASE u # s
    <3>1. Rendered(u) /\ Rendered(s)
      BY DEF PdfInv
    <3> QED
      BY <1>0, <1>1, <1>5, <1>6, <2>2, <3>1 DEF Rendered
  <2> QED
    BY <2>1, <2>2
<1>8. ASSUME NEW u \in Sesion, tx'[u].tipo = "PDF" PROVE tx'[u].version \in 1..Len(historial')
  BY <1>1, <1>6, <1>8 DEF PdfInv
<1>9. \A d \in documentos : d.archivo # tx[s].archivo
  BY <1>1 DEF PdfInv, Rendered
<1>10. \A d \in documentos' : /\ d.version \in 1..Len(historial')
                              /\ d.contenido = historial'[d.version]
                              /\ d.oido => d.archivo \in almacen'
  BY <1>0, <1>1, <1>5, <1>9 DEF PdfInv
<1>11. \A d, e \in documentos' : d.clave = e.clave => d = e
  BY <1>1, <1>5 DEF PdfInv
<1> QED
  BY <1>7, <1>8, <1>10, <1>11 DEF PdfInv

(* Who deletes a file deletes its own.  *)
LEMMA PdfEnd ==
  ASSUME ConversionInv, PdfInv, NEW s \in Sesion, DiscardUpload(s) \/ Stop(s)
  PROVE  PdfInv'
<1>1. /\ tx \in [Sesion -> TxType] /\ tx' = [tx EXCEPT ![s] = Idle]
      /\ UNCHANGED <<historial, documentos>>
      /\ \/ almacen' = almacen
         \/ tx[s].tipo = "SUBIDO" /\ almacen' = almacen \ {tx[s].archivo}
  BY DEF DiscardUpload, DeletesFile, Stop, ConversionInv, QuoteTypeOK
<1>2. tx'[s].tipo = "LIBRE" /\ \A u \in Sesion : u # s => tx'[u] = tx[u]
  BY <1>1, IdleTyped
<1>3. ASSUME NEW u \in Sesion PROVE Rendered(u)'
  <2>1. CASE u = s
    BY <1>2, <2>1 DEF Rendered
  <2>2. CASE u # s
    <3>1. Rendered(u) /\ Rendered(s)
      BY DEF PdfInv
    <3> QED
      BY <1>1, <1>2, <2>2, <3>1 DEF Rendered
  <2> QED
    BY <2>1, <2>2
<1>4. ASSUME NEW u \in Sesion, tx'[u].tipo = "PDF" PROVE tx'[u].version \in 1..Len(historial')
  BY <1>1, <1>2, <1>4 DEF PdfInv
<1>5. \A d \in documentos : d.oido => d.archivo \in almacen'
  BY <1>1 DEF PdfInv, Rendered
<1> QED
  BY <1>1, <1>3, <1>4, <1>5 DEF PdfInv

LEMMA PdfDelete ==
  ASSUME ConversionInv, PdfInv, NEW d \in documentos, DeletePdf(d)
  PROVE  PdfInv'
<1> DEFINE e == [d EXCEPT !.eliminado = TRUE]
<1>1. d \in DocumentoType
  BY DEF ConversionInv, QuoteTypeOK
<1>2. /\ e.clave = d.clave /\ e.version = d.version /\ e.contenido = d.contenido
      /\ e.archivo = d.archivo /\ e.oido = d.oido
  BY <1>1 DEF DocumentoType
<1>3. documentos' = (documentos \ {d}) \cup {e} /\ UNCHANGED <<historial, almacen, tx>>
  BY DEF DeletePdf
<1> HIDE DEF e
<1>4. ASSUME NEW u \in Sesion PROVE Rendered(u)'
  <2>1. Rendered(u)
    BY DEF PdfInv
  <2> QED
    BY <1>2, <1>3, <2>1 DEF Rendered
<1>5. \A x, y \in documentos' : x.clave = y.clave => x = y
  BY <1>2, <1>3 DEF PdfInv
<1> QED
  BY <1>2, <1>3, <1>4, <1>5 DEF PdfInv

LEMMA PdfInitially == Init => PdfInv
BY IdleTyped DEF Init, CaseInit, PdfInv, Rendered

LEMMA PdfStep == ConversionInv /\ PdfInv /\ [Next]_vars => PdfInv'
<1> SUFFICES ASSUME ConversionInv, PdfInv, [Next]_vars PROVE PdfInv'
  OBVIOUS
<1>1. CASE CaseStep
  BY <1>1, PdfSave, PdfRead, PdfRender, PdfRecord, PdfEnd, PdfDelete DEF CaseStep
<1>2. CASE \E s \in Sesion : CommitConvert(s)
  BY <1>2, PdfConvert
<1>3. CASE Next /\ ~CaseStep /\ \A s \in Sesion : ~CommitConvert(s)
  BY <1>3, QuoteOnlySteps, PdfQuiet
<1>4. CASE UNCHANGED vars
  BY <1>4, PdfQuiet DEF vars, caseVars, QuoteOnly
<1> QED
  BY <1>1, <1>2, <1>3, <1>4

(* A document shows the concepts of the version it names, no two have one   *)
(* key, and one whose request heard its commit keeps its file, whatever the *)
(* requests that lost a race or an answer delete.                           *)
THEOREM PdfShowsItsVersionCorrect == Spec => []PdfShowsItsVersion
<1>1. PdfInv => PdfShowsItsVersion
  BY DEF PdfInv, PdfShowsItsVersion
<1> QED
  BY <1>1, ConversionHolds, PdfInitially, PdfStep, PTL DEF Spec

=============================================================================
