------------------------------- MODULE Quotes -------------------------------
(***************************************************************************)
(* A quote (COT-001) from the prospect it comes from to the expediente it  *)
(* is converted into.  Its stages move under one advisory lock, the budget *)
(* editor has a second lock, the assistant's proposals a third, and an act *)
(* is attached under none: each operation on the quote reads first and     *)
(* writes when it commits, and the ones with different locks interleave.   *)
(*                                                                         *)
(* The rows of a budget are deleted and created again by who saves it.     *)
(* A writer deletes the rows it can see: rows another writer commits in    *)
(* between stay.  "conceptos" is the set of captures whose rows are in the *)
(* table, and "total" the set of captures the stored total adds.           *)
(*                                                                         *)
(* Requests sent again under their key, or with a version that is not the  *)
(* current one, are answered without an effect and are stuttering steps.   *)
(***************************************************************************)
EXTENDS Prospects, CaseBudget

CONSTANTS
  Heredado,    \* the capture the prospect's estimates amount to
  Propuesta,   \* proposals of the assistant, each with its concepts
  MaxEventos   \* bound: transitions of the quote

(* The stages of COT-001; ACEPTO_ANTICIPO is of old rows and none is      *)
(* moved into it.                                                          *)
EtapaCotizacion ==
  {"BORRADOR", "EN_ELABORACION", "ENVIADA_CLIENTE", "EN_SEGUIMIENTO", "ACEPTADA", "RECHAZADA",
   "SUSPENDIDA", "CANCELADA", "CONVERTIDA_EXPEDIENTE"}

ASSUME NoneAssumption ==
  /\ None \notin EtapaCotizacion \cup {"CONVERTIDO_EN_COTIZACION"}
  /\ None \notin [actos : SUBSET Acto, origen : Nat]

VARIABLES
  cot,         \* the quote: etapa, acts, confirmed acts, concepts, total
  versiones,   \* cotizacion_versiones, by number
  eventos,     \* cotizacion_transiciones, by version
  propuesta,   \* status of each proposal
  expediente   \* None, or the acts and the quote version it was opened with

quoteVars == <<cot, versiones, eventos, propuesta, expediente>>
vars == <<prospecto, caseVars, quoteVars>>

-----------------------------------------------------------------------------
(* Stages and actions *)

(* The stages whose budget is frozen. *)
Frozen == {"ACEPTADA", "CONVERTIDA_EXPEDIENTE"}

(* The actions each stage allows. *)
AllowedQuoteActions(etapa) ==
  CASE etapa = "BORRADOR" -> {"COMENZAR_ELABORACION", "SUSPENDER", "CANCELAR"}
    [] etapa = "EN_ELABORACION" -> {"ENVIAR_CLIENTE", "SUSPENDER", "CANCELAR"}
    [] etapa = "ENVIADA_CLIENTE" ->
         {"INICIAR_SEGUIMIENTO", "REENVIAR_CLIENTE", "ACEPTAR", "RECHAZAR", "SUSPENDER", "CANCELAR"}
    [] etapa = "EN_SEGUIMIENTO" ->
         {"REENVIAR_CLIENTE", "ACEPTAR", "RECHAZAR", "SUSPENDER", "CANCELAR"}
    [] etapa = "ACEPTADA" -> {"CONVERTIR"}
    [] OTHER -> {}

(* The actions of the commercial workflow; the conversion has its own path. *)
Accion == {"COMENZAR_ELABORACION", "ENVIAR_CLIENTE", "INICIAR_SEGUIMIENTO",
           "REENVIAR_CLIENTE", "ACEPTAR", "RECHAZAR", "SUSPENDER", "CANCELAR"}

(* The stage an action leads to; sending again stays where it is. *)
QuoteActionResult(etapa, accion) ==
  CASE accion = "COMENZAR_ELABORACION" -> "EN_ELABORACION"
    [] accion = "ENVIAR_CLIENTE" -> "ENVIADA_CLIENTE"
    [] accion = "INICIAR_SEGUIMIENTO" -> "EN_SEGUIMIENTO"
    [] accion = "REENVIAR_CLIENTE" -> etapa
    [] accion = "ACEPTAR" -> "ACEPTADA"
    [] accion = "RECHAZAR" -> "RECHAZADA"
    [] accion = "SUSPENDER" -> "SUSPENDIDA"
    [] accion = "CANCELAR" -> "CANCELADA"
    [] accion = "CONVERTIR" -> "CONVERTIDA_EXPEDIENTE"

(* The actions that take a snapshot of the budget. *)
TakesSnapshot == {"ENVIAR_CLIENTE", "REENVIAR_CLIENTE", "ACEPTAR", "CONVERTIR"}

(* A snapshot: the versions so far are no longer approved, and the concepts *)
(* read become the next version, approved.                                  *)
Snapshot(conceptos) ==
  Append([n \in DOMAIN versiones |-> [versiones[n] EXCEPT !.aprobada = FALSE]],
         [conceptos |-> conceptos, aprobada |-> TRUE])

(* The transition is recorded with the version its snapshot made. *)
RecordTransition(t, ahora) ==
  Append(eventos,
         [accion |-> t.accion, anterior |-> t.etapa,
          nueva |-> QuoteActionResult(t.etapa, t.accion),
          version |-> IF t.accion \in TakesSnapshot THEN Len(ahora) ELSE 0])

QuoteInit ==
  /\ cot = [etapa |-> None, actos |-> {}, confirmados |-> {}, conceptos |-> {}, total |-> {}]
  /\ versiones = <<>>
  /\ eventos = <<>>
  /\ propuesta = [g \in Propuesta |-> "NINGUNA"]
  /\ expediente = None

Init == ProspectInit /\ CaseInit /\ QuoteInit

-----------------------------------------------------------------------------
(* The prospect *)

(* What the prospect does alone. *)
ProspectStep ==
  /\ \/ \E actos \in ActosFicha : CreateProspect(actos)
     \/ \E actos \in ActosFicha : UpdateProspect(actos)
     \/ \E accion \in {"COMENZAR_INTEGRACION", "MARCAR_LISTO_PARA_COTIZAR",
                       "SUSPENDER", "CANCELAR", "REACTIVAR"} : ActOnProspect(accion)
     \/ DeleteProspect
  /\ UNCHANGED <<caseVars, quoteVars>>

(* The conversion of the prospect creates the quote in BORRADOR, with the  *)
(* prospect's acts and the concepts of its estimates, if both are known.   *)
ConvertProspect(heredados) ==
  /\ MayAct(prospecto, "CONVERTIR")
  /\ prospecto' = Event(prospecto, "CONVERTIR")
  /\ cot' = [etapa |-> "BORRADOR", actos |-> prospecto.actos, confirmados |-> {},
             conceptos |-> heredados, total |-> heredados]
  /\ eventos' = <<[accion |-> "CREAR", anterior |-> None, nueva |-> "BORRADOR", version |-> 0]>>
  /\ UNCHANGED <<caseVars, versiones, propuesta, expediente>>

-----------------------------------------------------------------------------
(* The commercial workflow, under the quote's lock *)

(* The guards of an action on what it reads: the stage allows it, a        *)
(* snapshot has concepts, and an acceptance confirms the acts there are.   *)
MayActOnQuote(accion) ==
  /\ accion \in AllowedQuoteActions(cot.etapa)
  /\ accion \in TakesSnapshot => cot.conceptos # {}
  /\ accion = "ACEPTAR" => cot.actos # {}

(* The request takes the lock and reads the quote. *)
Begins(s, accion) ==
  /\ tx[s] = Idle /\ LockFree("COT001")
  /\ Len(eventos) < MaxEventos
  /\ MayActOnQuote(accion)
  /\ tx' = [tx EXCEPT ![s] = [tipo |-> "COT001", accion |-> accion, etapa |-> cot.etapa,
                              actos |-> cot.actos, conceptos |-> cot.conceptos]]

BeginAct(s, accion) ==
  /\ Begins(s, accion)
  /\ UNCHANGED <<prospecto, historial, documentos, almacen, quoteVars>>

(* The quote as the transition leaves it: its stage, the acts the          *)
(* acceptance confirms, and the total of the snapshot.                     *)
Moved(t) ==
  [cot EXCEPT !.etapa = QuoteActionResult(t.etapa, t.accion),
              !.confirmados = IF t.accion = "ACEPTAR" THEN @ \cup t.actos ELSE @,
              !.total = IF t.accion \in TakesSnapshot THEN t.conceptos ELSE @]

(* The action commits. *)
CommitAct(s) ==
  LET t == tx[s] IN
  /\ t.tipo = "COT001" /\ t.accion # "CONVERTIR"
  /\ versiones' = IF t.accion \in TakesSnapshot THEN Snapshot(t.conceptos) ELSE versiones
  /\ eventos' = RecordTransition(t, versiones')
  /\ cot' = Moved(t)
  /\ tx' = [tx EXCEPT ![s] = Idle]
  /\ UNCHANGED <<prospecto, historial, documentos, almacen, propuesta, expediente>>

(* Mutant: the conversion does not ask that every act be confirmed. *)
MayConvertUnconfirmed ==
  /\ expediente = None
  /\ \E n \in DOMAIN versiones : versiones[n].aprobada
  /\ cot.actos # {}

(* An accepted quote may be converted: no expediente yet, an approved      *)
(* version, and every act confirmed when it was accepted.                  *)
MayConvert ==
  /\ expediente = None
  /\ \E n \in DOMAIN versiones : versiones[n].aprobada
  /\ cot.actos # {} /\ cot.actos \subseteq cot.confirmados

BeginConvert(s) ==
  /\ Begins(s, "CONVERTIR")
  /\ MayConvert
  /\ UNCHANGED <<prospecto, historial, documentos, almacen, quoteVars>>

(* The conversion: one more snapshot, the expediente with the acts of the  *)
(* quote, its budget from the snapshot, and the transition.                *)
CommitConvert(s) ==
  LET t == tx[s] IN
  /\ t.tipo = "COT001" /\ t.accion = "CONVERTIR"
  /\ versiones' = Snapshot(t.conceptos)
  /\ expediente' = [actos |-> t.actos, origen |-> Len(versiones')]
  /\ historial' = <<versiones'[Len(versiones')].conceptos>>
  /\ eventos' = RecordTransition(t, versiones')
  /\ cot' = Moved(t)
  /\ tx' = [tx EXCEPT ![s] = Idle]
  /\ UNCHANGED <<prospecto, documentos, almacen, propuesta>>

-----------------------------------------------------------------------------
(* The acts, the budget and the proposals *)

(* An act is attached while the quote is prepared; no lock is taken. *)
BeginAttach(s, a) ==
  /\ tx[s] = Idle
  /\ cot.etapa \in {"BORRADOR", "EN_ELABORACION"} /\ a \notin cot.actos
  /\ tx' = [tx EXCEPT ![s] = [tipo |-> "ACTO", acto |-> a]]
  /\ UNCHANGED <<prospecto, historial, documentos, almacen, quoteVars>>

(* The act is committed, if no other request attached it. *)
CommitAttach(s) ==
  /\ tx[s].tipo = "ACTO" /\ tx[s].acto \notin cot.actos
  /\ cot' = [cot EXCEPT !.actos = @ \cup {tx[s].acto}]
  /\ tx' = [tx EXCEPT ![s] = Idle]
  /\ UNCHANGED <<prospecto, historial, documentos, almacen,
                 versiones, eventos, propuesta, expediente>>

(* The budget editor takes its own lock, finds the stage open and deletes  *)
(* the rows it sees.                                                       *)
BeginSave(s, c) ==
  /\ tx[s] = Idle /\ LockFree("PRESUPUESTO")
  /\ cot.etapa \notin Frozen \cup {None}
  /\ tx' = [tx EXCEPT ![s] = [tipo |-> "PRESUPUESTO", borra |-> cot.conceptos, crea |-> c]]
  /\ UNCHANGED <<prospecto, historial, documentos, almacen, quoteVars>>

(* The rows a writer leaves: the ones it did not see, and its own. *)
Replaced(t) == (cot.conceptos \ t.borra) \cup {t.crea}

(* The budget is committed: its rows, and its own total. *)
CommitSave(s) ==
  /\ tx[s].tipo = "PRESUPUESTO"
  /\ cot' = [cot EXCEPT !.conceptos = Replaced(tx[s]), !.total = {tx[s].crea}]
  /\ tx' = [tx EXCEPT ![s] = Idle]
  /\ UNCHANGED <<prospecto, historial, documentos, almacen,
                 versiones, eventos, propuesta, expediente>>

(* The assistant is asked for a proposal: the stage is read here... *)
BeginGenerate(s, g) ==
  /\ tx[s] = Idle /\ propuesta[g] = "NINGUNA"
  /\ cot.etapa \notin Frozen \cup {None}
  /\ tx' = [tx EXCEPT ![s] = [tipo |-> "GENERAR", propuesta |-> g]]
  /\ UNCHANGED <<prospecto, historial, documentos, almacen, quoteVars>>

(* ...and the proposal is stored once it is computed, under a key no other *)
(* proposal of the quote has.                                              *)
CommitGenerate(s) ==
  /\ tx[s].tipo = "GENERAR" /\ propuesta[tx[s].propuesta] = "NINGUNA"
  /\ propuesta' = [propuesta EXCEPT ![tx[s].propuesta] = "PENDIENTE"]
  /\ tx' = [tx EXCEPT ![s] = Idle]
  /\ UNCHANGED <<prospecto, historial, documentos, almacen, cot, versiones, eventos, expediente>>

(* Mutant: the decision takes no lock. *)
MayDecideUnlocked(s, g, accion) ==
  /\ tx[s] = Idle
  /\ propuesta[g] = "PENDIENTE"
  /\ accion = "APLICAR" => cot.etapa \notin Frozen

(* A decision takes the proposals' lock; only a pending proposal is        *)
(* decided, and none is applied to a frozen quote.                         *)
MayDecide(s, g, accion) ==
  /\ tx[s] = Idle /\ LockFree("IA")
  /\ propuesta[g] = "PENDIENTE"
  /\ accion = "APLICAR" => cot.etapa \notin Frozen

BeginDecide(s, g, accion) ==
  /\ MayDecide(s, g, accion)
  /\ tx' = [tx EXCEPT ![s] = [tipo |-> "IA", accion |-> accion,
                              borra |-> cot.conceptos, crea |-> g]]
  /\ UNCHANGED <<prospecto, historial, documentos, almacen, quoteVars>>

(* The proposal is discarded. *)
CommitDiscard(s) ==
  /\ tx[s].tipo = "IA" /\ tx[s].accion = "DESCARTAR"
  /\ propuesta' = [propuesta EXCEPT ![tx[s].crea] = "DESCARTADA"]
  /\ tx' = [tx EXCEPT ![s] = Idle]
  /\ UNCHANGED <<prospecto, historial, documentos, almacen, cot, versiones, eventos, expediente>>

(* The proposal is applied: its concepts and total become the quote's, and *)
(* every other pending proposal is superseded.                             *)
CommitApply(s) ==
  /\ tx[s].tipo = "IA" /\ tx[s].accion = "APLICAR"
  /\ cot' = [cot EXCEPT !.conceptos = Replaced(tx[s]), !.total = {tx[s].crea}]
  /\ propuesta' = [g \in Propuesta |->
                     IF g = tx[s].crea THEN "APLICADA"
                     ELSE IF propuesta[g] = "PENDIENTE" THEN "SUPERADA" ELSE propuesta[g]]
  /\ tx' = [tx EXCEPT ![s] = Idle]
  /\ UNCHANGED <<prospecto, historial, documentos, almacen, versiones, eventos, expediente>>

-----------------------------------------------------------------------------
(* What a request does to the expediente's budget. *)
CaseStep ==
  /\ \/ \E c \in Captura : SaveBudget(c)
     \/ \E s \in Sesion, k \in ClavePdf : ReadBudgetRow(s, k)
     \/ \E s \in Sesion, f \in Archivo : RenderBudget(s, f)
     \/ \E s \in Sesion :
          RecordDocument(s) \/ RecordUnheard(s) \/ DiscardUpload(s) \/ Stop(s)
     \/ \E d \in documentos : DeletePdf(d)
  /\ UNCHANGED <<prospecto, quoteVars>>

Next ==
  \/ ProspectStep
  \/ \E heredados \in {{}, {Heredado}} : ConvertProspect(heredados)
  \/ CaseStep
  \/ \E s \in Sesion :
       \/ \E accion \in Accion : BeginAct(s, accion)
       \/ CommitAct(s)
       \/ BeginConvert(s)
       \/ CommitConvert(s)
       \/ \E a \in Acto : BeginAttach(s, a)
       \/ CommitAttach(s)
       \/ \E c \in Captura : BeginSave(s, c)
       \/ CommitSave(s)
       \/ \E g \in Propuesta : BeginGenerate(s, g)
       \/ CommitGenerate(s)
       \/ \E g \in Propuesta, accion \in {"APLICAR", "DESCARTAR"} : BeginDecide(s, g, accion)
       \/ CommitDiscard(s)
       \/ CommitApply(s)

Spec == Init /\ [][Next]_vars

-----------------------------------------------------------------------------
(* Properties *)

(* Every link from prospect to expediente is backed by the one before: a   *)
(* quote exists exactly when its prospect was converted, the expediente    *)
(* exactly when the quote was, its first budget is the approved version    *)
(* its transition names, the only one and the last, and every act it was   *)
(* opened with was confirmed by the client -- though acts are attached     *)
(* under no lock while the quote is sent, accepted and converted.          *)
ConversionIsBacked ==
  /\ (cot.etapa # None) <=> (prospecto.etapa = "CONVERTIDO_EN_COTIZACION")
  /\ (expediente # None) <=> (cot.etapa = "CONVERTIDA_EXPEDIENTE")
  /\ \A m \in DOMAIN versiones : versiones[m].aprobada <=> m = Len(versiones)
  /\ expediente # None =>
       /\ expediente.actos # {} /\ expediente.actos \subseteq cot.confirmados
       /\ expediente.origen = Len(versiones)
       /\ eventos[Len(eventos)].accion = "CONVERTIR"
       /\ eventos[Len(eventos)].version = expediente.origen
       /\ historial[1] = versiones[expediente.origen].conceptos

(* A proposal is decided once: what a person applied, discarded or         *)
(* superseded is never decided again by a request that read it pending.    *)
DecisionStays ==
  [][\A g \in Propuesta :
       propuesta[g] \in {"APLICADA", "DESCARTADA", "SUPERADA"} => propuesta'[g] = propuesta[g]]_vars

(* "La cotizacion aceptada o convertida conserva su presupuesto y          *)
(* documentos historicos" (quoteBudget.service.ts:167): no step changes    *)
(* the concepts of a quote that is accepted.                               *)
AcceptedBudgetKept ==
  [][cot.etapa \in Frozen => cot'.conceptos = cot.conceptos]_vars

=============================================================================
