-------------------------------- MODULE Outbox --------------------------------
(***************************************************************************)
(* DomainEventOutboxService: processes that claim batches of rows of       *)
(* domain_event_outbox and run, one event after the other, the handlers    *)
(* registered for its type, each guarded by a processing log.  A process   *)
(* runs one batch at a time (h3OutboxBusy).                                *)
(*                                                                         *)
(* Backoff delays (available_at) are taken to have passed whenever an      *)
(* event is looked at, and a claim takes any of the events it may take.    *)
(* The history field overrun marks the events whose lock grew stale while  *)
(* a live process had them in hand.                                        *)
(***************************************************************************)
EXTENDS Integers, FiniteSets

CONSTANTS
  Event,          \* rows that business transactions left in the outbox
  Handler,        \* handler names
  HandlersOf,     \* handlers registered for the type of an event
  Polled,         \* events of a type that the processes ask for
  Process,        \* server processes, each with the 2 s timer
  BatchSize,      \* 10
  MaxAttempts,    \* 5
  None

ASSUME OutboxAssumption ==
  /\ HandlersOf \in [Event -> SUBSET Handler]
  /\ Polled \subseteq Event
  /\ BatchSize \in Nat \ {0} /\ MaxAttempts \in Nat \ {0}
  /\ None \notin Event \cup Handler

VARIABLES
  event,    \* domain_event_outbox
  log,      \* domain_event_processing_logs by event and handler
  effects,  \* how often a handler took effect for an event (history)
  process   \* local state of each process

outboxVars == <<event, log, effects, process>>

-----------------------------------------------------------------------------
EventRow ==
  [status : {"PENDIENTE", "PROCESANDO", "PROCESADO", "FALLIDO"},
   attempts : 0..MaxAttempts,
   stale : BOOLEAN,      \* locked_at is more than 5 minutes old
   overrun : BOOLEAN]    \* it grew so in the hands of a live process

LogStatus == {"NONE", "PROCESANDO", "COMPLETADO", "FALLIDO"}

ProcessState ==
  [pc : {"idle", "next", "check", "start", "run", "done", "settle"},
   batch : SUBSET Event,          \* claimed events not yet begun
   event : Event \cup {None},
   todo : SUBSET Handler,         \* handlers not yet looked at
   handler : Handler \cup {None},
   logged : BOOLEAN,              \* the log row was found
   ok : BOOLEAN]                  \* allHandlersSucceeded

Idle == [pc |-> "idle", batch |-> {}, event |-> None, todo |-> {},
         handler |-> None, logged |-> FALSE, ok |-> FALSE]

Goto(p, pc) == process' = [process EXCEPT ![p].pc = pc]

(* The events a process has claimed and not let go.  *)
InHand(p) == process[p].batch \cup ({process[p].event} \ {None})

-----------------------------------------------------------------------------
(* Mutant: a locked event is claimed again without waiting for the lock.  *)
ClaimableLocked(e) ==
  /\ e \in Polled
  /\ event[e].attempts < MaxAttempts
  /\ event[e].status \in {"PENDIENTE", "FALLIDO", "PROCESANDO"}

(* Mutant: an event locked by a process that died is not claimed again.  *)
ClaimableUnlocked(e) ==
  /\ e \in Polled
  /\ event[e].attempts < MaxAttempts
  /\ event[e].status \in {"PENDIENTE", "FALLIDO"}

(* Mutant: attempts are not limited.  *)
ClaimableAlways(e) ==
  /\ e \in Polled
  /\ \/ event[e].status \in {"PENDIENTE", "FALLIDO"}
     \/ event[e].status = "PROCESANDO" /\ event[e].stale

Claimable(e) ==
  /\ e \in Polled
  /\ event[e].attempts < MaxAttempts
  /\ \/ event[e].status \in {"PENDIENTE", "FALLIDO"}
     \/ event[e].status = "PROCESANDO" /\ event[e].stale

(* One UPDATE claims up to BatchSize events.  *)
ClaimBatch(p) ==
  /\ process[p].pc = "idle"
  /\ \E batch \in SUBSET {e \in Event : Claimable(e)} :
       /\ batch # {} /\ Cardinality(batch) <= BatchSize
       /\ event' = [e \in Event |-> IF e \in batch
             THEN [event[e] EXCEPT !.status = "PROCESANDO", !.attempts = @ + 1, !.stale = FALSE]
             ELSE event[e]]
       /\ process' = [process EXCEPT ![p] = [Idle EXCEPT !.pc = "next", !.batch = batch]]
  /\ UNCHANGED <<log, effects>>

(* The loop reaches the next event of the batch, or its end.  *)
BeginEvent(p) ==
  /\ process[p].pc = "next"
  /\ \/ /\ process[p].batch = {}
        /\ process' = [process EXCEPT ![p] = Idle]
     \/ \E e \in process[p].batch :
          process' = [process EXCEPT
            ![p].pc = IF HandlersOf[e] = {} THEN "settle" ELSE "check",
            ![p].batch = @ \ {e}, ![p].event = e,
            ![p].todo = HandlersOf[e], ![p].ok = HandlersOf[e] # {}]
  /\ UNCHANGED <<event, log, effects>>

(* The loop over the handlers reads the log: a COMPLETADO one is skipped.  *)
CheckLog(p) ==
  /\ process[p].pc = "check"
  /\ \/ process[p].todo = {} /\ Goto(p, "settle")
     \/ \E h \in process[p].todo :
          LET status == log[process[p].event][h] IN
          process' = IF status = "COMPLETADO"
            THEN [process EXCEPT ![p].todo = @ \ {h}]
            ELSE [process EXCEPT ![p].todo = @ \ {h}, ![p].pc = "start",
                                 ![p].handler = h, ![p].logged = status # "NONE"]
  /\ UNCHANGED <<event, log, effects>>

(* The next turn of the loop over the handlers.  *)
NextHandler(p, ok) ==
  process' = [process EXCEPT ![p].pc = "check", ![p].ok = ok,
                             ![p].handler = None, ![p].logged = FALSE]

SetLog(p, status) ==
  log' = [log EXCEPT ![process[p].event][process[p].handler] = status]

(* The log is updated, or created: the unique index refuses the second of   *)
(* two creators, and the error ends the whole batch.                        *)
StartLog(p) ==
  /\ process[p].pc = "start"
  /\ IF ~process[p].logged /\ log[process[p].event][process[p].handler] # "NONE"
     THEN process' = [process EXCEPT ![p] = Idle] /\ UNCHANGED log
     ELSE SetLog(p, "PROCESANDO") /\ Goto(p, "run")
  /\ UNCHANGED <<event, effects>>

(* The handler returns.  *)
RunHandler(p) ==
  /\ process[p].pc = "run"
  /\ effects' = [effects EXCEPT ![process[p].event][process[p].handler] = @ + 1]
  /\ Goto(p, "done")
  /\ UNCHANGED <<event, log>>

(* Mutant: a handler that fails is called again on the spot.  *)
HandlerRetried(p) ==
  /\ process[p].pc \in {"run", "done"}
  /\ SetLog(p, "FALLIDO")
  /\ process' = [process EXCEPT ![p].pc = "run", ![p].ok = FALSE]
  /\ UNCHANGED <<event, effects>>

(* The handler throws, or its success could not be logged.  *)
HandlerFails(p) ==
  /\ process[p].pc \in {"run", "done"}
  /\ SetLog(p, "FALLIDO")
  /\ NextHandler(p, FALSE)
  /\ UNCHANGED <<event, effects>>

(* Its success is logged.  *)
LogDone(p) ==
  /\ process[p].pc = "done"
  /\ SetLog(p, "COMPLETADO")
  /\ NextHandler(p, process[p].ok)
  /\ UNCHANGED <<event, effects>>

(* Mutant: a failed handler does not keep its event from being settled.  *)
SettleAnyway(p) ==
  /\ process[p].pc = "settle"
  /\ event' = [event EXCEPT ![process[p].event].status = "PROCESADO"]
  /\ process' = [process EXCEPT ![p] = [Idle EXCEPT !.pc = "next", !.batch = process[p].batch]]
  /\ UNCHANGED <<log, effects>>

(* The outcome is written by the event's id alone, whoever holds it now.  *)
SettleEvent(p) ==
  /\ process[p].pc = "settle"
  /\ event' = [event EXCEPT ![process[p].event] =
       [@ EXCEPT !.status = IF process[p].ok THEN "PROCESADO" ELSE "FALLIDO", !.stale = FALSE]]
  /\ process' = [process EXCEPT ![p] = [Idle EXCEPT !.pc = "next", !.batch = process[p].batch]]
  /\ UNCHANGED <<log, effects>>

(* Five minutes pass since an event was locked.  *)
LockAges(e) ==
  /\ event[e].status = "PROCESANDO" /\ ~event[e].stale
  /\ event' = [event EXCEPT ![e].stale = TRUE,
                            ![e].overrun = @ \/ \E p \in Process : e \in InHand(p)]
  /\ UNCHANGED <<log, effects, process>>

(* The process dies, or an error of the database ends its batch.  *)
Crash(p) ==
  /\ process[p].pc # "idle"
  /\ process' = [process EXCEPT ![p] = Idle]
  /\ UNCHANGED <<event, log, effects>>

-----------------------------------------------------------------------------
OutboxInit ==
  /\ event = [e \in Event |->
       [status |-> "PENDIENTE", attempts |-> 0, stale |-> FALSE, overrun |-> FALSE]]
  /\ log = [e \in Event |-> [h \in Handler |-> "NONE"]]
  /\ effects = [e \in Event |-> [h \in Handler |-> 0]]
  /\ process = [p \in Process |-> Idle]

Step(p) ==
  \/ ClaimBatch(p) \/ BeginEvent(p) \/ CheckLog(p) \/ StartLog(p)
  \/ RunHandler(p) \/ HandlerFails(p) \/ LogDone(p) \/ SettleEvent(p)

OutboxNext ==
  \/ \E p \in Process : Step(p) \/ Crash(p)
  \/ \E e \in Event : LockAges(e)

OutboxSpec == OutboxInit /\ [][OutboxNext]_outboxVars

(* The timer keeps calling, handlers end, and time passes.  *)
FairOutboxSpec ==
  /\ OutboxSpec
  /\ \A p \in Process : WF_outboxVars(Step(p))
  /\ \A e \in Event : WF_outboxVars(LockAges(e))

-----------------------------------------------------------------------------
(* Every column and every local variable holds a value of its domain.  *)
OutboxTypeOK ==
  /\ event \in [Event -> EventRow]
  /\ log \in [Event -> [Handler -> LogStatus]]
  /\ effects \in [Event -> [Handler -> Nat]]
  /\ process \in [Process -> ProcessState]

(* An event marked PROCESADO had handlers, and each of them took effect,    *)
(* whatever crashed, failed or ran twice in between.                        *)
ProcessedIsHandled ==
  \A e \in Event : event[e].status = "PROCESADO" =>
    HandlersOf[e] # {} /\ \A h \in HandlersOf[e] : effects[e][h] > 0

(* A handler takes effect at most once per claim of its event, and so at    *)
(* most MaxAttempts times.                                                  *)
EffectsBounded ==
  \A e \in Event, h \in Handler : effects[e][h] <= event[e].attempts

(* Only a process slower than its lock shares an event with another: the    *)
(* claim promises that workers never process the same event, and keeps it   *)
(* as long as a batch takes less than five minutes.                         *)
SharedByOverrun ==
  \A p, q \in Process : p # q => \A e \in InHand(p) \cap InHand(q) : event[e].overrun

(* Every event is processed, or claimed as often as it may be.  *)
EventsSettle ==
  \A e \in Event : <>(event[e].status = "PROCESADO" \/ event[e].attempts = MaxAttempts)
=============================================================================
