------------------------------ MODULE Prospects ------------------------------
(***************************************************************************)
(* A prospect and its stages (PRO-001): the ficha is edited, moves through *)
(* its stages, may be suspended, cancelled and reactivated, and ends when  *)
(* it is converted into a quote.  Every action but the archive runs whole  *)
(* under one advisory lock per prospect, so each is one step here; the     *)
(* archive only sets columns no action reads after its first query.        *)
(*                                                                         *)
(* A request sent again under its idempotency key, and one whose expected  *)
(* version is no longer the current one, are answered under the lock and   *)
(* change nothing: they are stuttering steps.                              *)
(***************************************************************************)
EXTENDS Naturals, FiniteSets

CONSTANTS
  None,        \* no value
  Acto,        \* acts of the catalogue
  ActosFicha   \* the sets of acts the ficha may name

ASSUME ActosFichaAssumption == ActosFicha \subseteq SUBSET Acto

VARIABLES
  prospecto    \* the row: etapa, the stage its last transition left, its acts,
               \* whether it is archived

(* The stages work is done in: the ones a suspension may resume. *)
EtapaOperativa == {"NUEVO", "EN_INTEGRACION", "LISTO_PARA_COTIZAR"}

(* The stages of PRO-001; None until the prospect is created. *)
EtapaProspecto ==
  EtapaOperativa \cup {"SUSPENDIDO", "CANCELADO", "CONVERTIDO_EN_COTIZACION", None}

(* The actions a stage allows; a prospect with a quote allows none, and the *)
(* only stage with a quote, CONVERTIDO_EN_COTIZACION, has no action.        *)
AllowedProspectActions(etapa) ==
  CASE etapa = "NUEVO" -> {"COMENZAR_INTEGRACION", "SUSPENDER", "CANCELAR"}
    [] etapa = "EN_INTEGRACION" -> {"MARCAR_LISTO_PARA_COTIZAR", "SUSPENDER", "CANCELAR"}
    [] etapa = "LISTO_PARA_COTIZAR" -> {"CONVERTIR", "SUSPENDER", "CANCELAR"}
    [] etapa \in {"SUSPENDIDO", "CANCELADO"} -> {"REACTIVAR"}
    [] OTHER -> {}

(* The stage an action leads to; a reactivation resumes the stage the      *)
(* current transition left.                                                *)
NextProspectStage(p, accion) ==
  CASE accion = "COMENZAR_INTEGRACION" -> "EN_INTEGRACION"
    [] accion = "MARCAR_LISTO_PARA_COTIZAR" -> "LISTO_PARA_COTIZAR"
    [] accion = "CONVERTIR" -> "CONVERTIDO_EN_COTIZACION"
    [] accion = "SUSPENDER" -> "SUSPENDIDO"
    [] accion = "CANCELAR" -> "CANCELADO"
    [] accion = "REACTIVAR" -> p.anterior

(* The guards of an action: its stage allows it, a reactivation has an     *)
(* operative stage to resume, and an act is chosen before quoting.         *)
MayAct(p, accion) ==
  /\ ~p.archivado
  /\ accion \in AllowedProspectActions(p.etapa)
  /\ accion = "REACTIVAR" => p.anterior \in EtapaOperativa
  /\ accion \in {"MARCAR_LISTO_PARA_COTIZAR", "CONVERTIR"} => p.actos # {}

(* The transition is recorded: the stage changes and the event becomes the *)
(* current one.                                                            *)
Event(p, accion) ==
  [p EXCEPT !.etapa = NextProspectStage(p, accion), !.anterior = p.etapa]

ProspectInit ==
  prospecto = [etapa |-> None, anterior |-> None, actos |-> {}, archivado |-> FALSE]

(* The ficha is opened, with the acts it names and in stage NUEVO. *)
CreateProspect(actos) ==
  /\ prospecto.etapa = None
  /\ prospecto' = [prospecto EXCEPT !.etapa = "NUEVO", !.actos = actos]

(* The ficha is edited, at any stage: its acts are replaced.  The other     *)
(* fields it may change are not modelled; the estimates among them, so the *)
(* conversion finds them known or not.                                      *)
UpdateProspect(actos) ==
  /\ prospecto.etapa # None /\ ~prospecto.archivado
  /\ prospecto' = [prospecto EXCEPT !.actos = actos]

(* An action other than the conversion. *)
ActOnProspect(accion) ==
  /\ accion # "CONVERTIR"
  /\ MayAct(prospecto, accion)
  /\ prospecto' = Event(prospecto, accion)

(* The archive: neither the lock nor the version is asked for, and the     *)
(* stage is left as it is.                                                 *)
DeleteProspect ==
  /\ prospecto.etapa # None
  /\ prospecto' = [prospecto EXCEPT !.archivado = TRUE]

=============================================================================
