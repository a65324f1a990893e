----------------------------- MODULE Outbox_proofs -----------------------------
(***************************************************************************)
(* The outbox never marks an event PROCESADO that was not handled.         *)
(***************************************************************************)
EXTENDS Outbox, FiniteSetTheorems, TLAPS

LEMMA OutboxCases ==
  ASSUME OutboxNext
  PROVE  \/ \E p \in Process : ClaimBatch(p)
         \/ \E p \in Process : BeginEvent(p)
         \/ \E p \in Process : CheckLog(p)
         \/ \E p \in Process : StartLog(p)
         \/ \E p \in Process : RunHandler(p)
         \/ \E p \in Process : HandlerFails(p)
         \/ \E p \in Process : LogDone(p)
         \/ \E p \in Process : SettleEvent(p)
         \/ \E p \in Process : Crash(p)
         \/ \E e \in Event : LockAges(e)
BY DEF OutboxNext, Step

(* Where a process stands in its loops.  *)
InLoop(p) ==
  /\ process[p].pc \in {"check", "start", "run", "done", "settle"} => process[p].event \in Event
  /\ process[p].pc \in {"start", "run", "done"} => process[p].handler \in Handler

LoopOK == \A p \in Process : InLoop(p)

(* A process that moves to state r, with what r says of its loops.  *)
LEMMA ProcessMoves ==
  ASSUME OutboxTypeOK, LoopOK, NEW p \in Process, NEW r \in ProcessState,
         process' = [process EXCEPT ![p] = r],
         r.pc \in {"check", "start", "run", "done", "settle"} => r.event \in Event,
         r.pc \in {"start", "run", "done"} => r.handler \in Handler
  PROVE  process' \in [Process -> ProcessState] /\ LoopOK'
BY DEF OutboxTypeOK, LoopOK, InLoop

(* A process that only moves on to pc within its loops.  *)
LEMMA GotoMoves ==
  ASSUME OutboxTypeOK, LoopOK, NEW p \in Process, NEW pc, Goto(p, pc),
         \/ process[p].pc \in {"check", "settle"} /\ pc = "settle"
         \/ process[p].pc \in {"start", "run", "done"} /\ pc \in {"run", "done"}
  PROVE  process' \in [Process -> ProcessState] /\ LoopOK'
<1> DEFINE r == [process[p] EXCEPT !.pc = pc]
<1>1. r \in ProcessState
  BY DEF OutboxTypeOK, ProcessState
<1>2. /\ r.pc \in {"check", "start", "run", "done", "settle"} => r.event \in Event
      /\ r.pc \in {"start", "run", "done"} => r.handler \in Handler
  BY DEF OutboxTypeOK, ProcessState, LoopOK, InLoop
<1>3. process' = [process EXCEPT ![p] = r]
  BY DEF Goto, OutboxTypeOK, ProcessState
<1> HIDE DEF r
<1> QED
  BY <1>1, <1>2, <1>3, ProcessMoves

LEMMA NextHandlerMoves ==
  ASSUME OutboxTypeOK, LoopOK, NEW p \in Process, NEW ok \in BOOLEAN, NextHandler(p, ok),
         process[p].pc \in {"start", "run", "done"}
  PROVE  process' \in [Process -> ProcessState] /\ LoopOK'
<1> DEFINE r == [process[p] EXCEPT !.pc = "check", !.ok = ok, !.handler = None, !.logged = FALSE]
<1>1. r \in ProcessState /\ r.event \in Event /\ r.pc = "check"
  BY DEF OutboxTypeOK, ProcessState, LoopOK, InLoop
<1>2. process' = [process EXCEPT ![p] = r]
  BY DEF NextHandler, OutboxTypeOK, ProcessState
<1> HIDE DEF r
<1> QED
  BY <1>1, <1>2, ProcessMoves

(* The log row of the handler a process is at.  *)
LEMMA LogMoves ==
  ASSUME OutboxTypeOK, LoopOK, NEW p \in Process, NEW status \in LogStatus, SetLog(p, status),
         process[p].pc \in {"start", "run", "done"}
  PROVE  log' \in [Event -> [Handler -> LogStatus]]
<1>1. process[p].event \in Event /\ process[p].handler \in Handler
  BY DEF LoopOK, InLoop
<1> QED
  BY <1>1 DEF SetLog, OutboxTypeOK

LEMMA OutboxTypeInit == OutboxInit => OutboxTypeOK /\ LoopOK
BY OutboxAssumption DEF OutboxInit, OutboxTypeOK, LoopOK, InLoop, EventRow, LogStatus,
   ProcessState, Idle

LEMMA IdleType == Idle \in ProcessState /\ \A b \in SUBSET Event :
                    [Idle EXCEPT !.pc = "next", !.batch = b] \in ProcessState
BY DEF Idle, ProcessState

LEMMA OutboxTypeStep ==
  OutboxTypeOK /\ LoopOK /\ [OutboxNext]_outboxVars => OutboxTypeOK' /\ LoopOK'
<1> SUFFICES ASSUME OutboxTypeOK, LoopOK, [OutboxNext]_outboxVars
             PROVE  OutboxTypeOK' /\ LoopOK'
  OBVIOUS
<1> USE OutboxAssumption
<1>1. ASSUME NEW p \in Process, ClaimBatch(p) PROVE OutboxTypeOK' /\ LoopOK'
  <2>1. PICK batch \in SUBSET {e \in Event : Claimable(e)} :
          /\ event' = [e \in Event |-> IF e \in batch
               THEN [event[e] EXCEPT !.status = "PROCESANDO", !.attempts = @ + 1, !.stale = FALSE]
               ELSE event[e]]
          /\ process' = [process EXCEPT ![p] = [Idle EXCEPT !.pc = "next", !.batch = batch]]
    BY <1>1 DEF ClaimBatch
  <2>2. event' \in [Event -> EventRow]
    <3>1. \A e \in batch : event[e].attempts + 1 \in 0..MaxAttempts
      BY DEF Claimable, OutboxTypeOK, EventRow
    <3> QED
      BY <2>1, <3>1 DEF OutboxTypeOK, EventRow
  <2>3. process' \in [Process -> ProcessState]
    BY <2>1, IdleType DEF OutboxTypeOK
  <2>4. LoopOK'
    BY <2>1 DEF LoopOK, InLoop, Idle, OutboxTypeOK
  <2> QED
    BY <1>1, <2>2, <2>3, <2>4 DEF ClaimBatch, OutboxTypeOK
<1>2. ASSUME NEW p \in Process, BeginEvent(p) PROVE OutboxTypeOK' /\ LoopOK'
  <2>1. CASE process[p].batch = {} /\ process' = [process EXCEPT ![p] = Idle]
    BY <1>2, <2>1, IdleType, ProcessMoves DEF BeginEvent, OutboxTypeOK, Idle
  <2>2. ASSUME NEW e \in process[p].batch,
               process' = [process EXCEPT
                 ![p].pc = IF HandlersOf[e] = {} THEN "settle" ELSE "check",
                 ![p].batch = @ \ {e}, ![p].event = e,
                 ![p].todo = HandlersOf[e], ![p].ok = HandlersOf[e] # {}]
        PROVE  OutboxTypeOK' /\ LoopOK'
    <3> DEFINE r == [process[p] EXCEPT
                 !.pc = IF HandlersOf[e] = {} THEN "settle" ELSE "check",
                 !.batch = @ \ {e}, !.event = e,
                 !.todo = HandlersOf[e], !.ok = HandlersOf[e] # {}]
    <3>1. r \in ProcessState /\ r.event \in Event /\ r.pc \in {"check", "settle"}
      BY DEF OutboxTypeOK, ProcessState
    <3>2. process' = [process EXCEPT ![p] = r]
      BY <2>2 DEF OutboxTypeOK, ProcessState
    <3> HIDE DEF r
    <3> QED
      BY <1>2, <3>1, <3>2, ProcessMoves DEF BeginEvent, OutboxTypeOK
  <2> QED
    BY <1>2, <2>1, <2>2 DEF BeginEvent
<1>3. ASSUME NEW p \in Process, CheckLog(p) PROVE OutboxTypeOK' /\ LoopOK'
  <2>1. CASE Goto(p, "settle")
    BY <1>3, <2>1, GotoMoves DEF CheckLog, OutboxTypeOK
  <2>3. ASSUME NEW h \in process[p].todo, process' = [process EXCEPT ![p].todo = @ \ {h}]
        PROVE  OutboxTypeOK' /\ LoopOK'
    <3> DEFINE r == [process[p] EXCEPT !.todo = @ \ {h}]
    <3>0. process[p] \in ProcessState /\ process[p].event \in Event /\ process[p].pc = "check"
      BY <1>3 DEF CheckLog, OutboxTypeOK, LoopOK, InLoop
    <3>1. r \in ProcessState /\ r.event \in Event /\ r.pc = "check"
      BY <3>0 DEF ProcessState
    <3>2. process' = [process EXCEPT ![p] = r]
      BY <2>3 DEF OutboxTypeOK, ProcessState
    <3> HIDE DEF r
    <3> QED
      BY <1>3, <3>1, <3>2, ProcessMoves DEF CheckLog, OutboxTypeOK
  <2>2. ASSUME NEW h \in process[p].todo, NEW found \in BOOLEAN,
               process' = [process EXCEPT ![p].todo = @ \ {h}, ![p].pc = "start",
                                          ![p].handler = h, ![p].logged = found]
        PROVE  OutboxTypeOK' /\ LoopOK'
    <3> DEFINE r == [process[p] EXCEPT !.todo = @ \ {h}, !.pc = "start",
                                       !.handler = h, !.logged = found]
    <3>0. process[p] \in ProcessState /\ process[p].event \in Event /\ process[p].pc = "check"
      BY <1>3 DEF CheckLog, OutboxTypeOK, LoopOK, InLoop
    <3>1. r \in ProcessState /\ r.event \in Event /\ r.handler \in Handler
      <4>1. h \in Handler
        BY <2>2, <3>0 DEF ProcessState
      <4>2. r \in ProcessState
        BY <3>0, <4>1 DEF ProcessState
      <4> QED
        BY <3>0, <4>1, <4>2 DEF ProcessState
    <3>2. process' = [process EXCEPT ![p] = r]
      BY <2>2 DEF OutboxTypeOK, ProcessState
    <3> HIDE DEF r
    <3> QED
      BY <1>3, <3>1, <3>2, ProcessMoves DEF CheckLog, OutboxTypeOK
  <2> QED
    BY <1>3, <2>1, <2>2, <2>3 DEF CheckLog
<1>4. ASSUME NEW p \in Process, StartLog(p) PROVE OutboxTypeOK' /\ LoopOK'
  <2>1. CASE process' = [process EXCEPT ![p] = Idle] /\ UNCHANGED log
    BY <1>4, <2>1, IdleType, ProcessMoves DEF StartLog, OutboxTypeOK, Idle
  <2>2. CASE SetLog(p, "PROCESANDO") /\ Goto(p, "run")
    BY <1>4, <2>2, GotoMoves, LogMoves DEF StartLog, OutboxTypeOK, LogStatus
  <2> QED
    BY <1>4, <2>1, <2>2 DEF StartLog
<1>5. ASSUME NEW p \in Process, RunHandler(p) PROVE OutboxTypeOK' /\ LoopOK'
  <2>1. process' \in [Process -> ProcessState] /\ LoopOK'
    BY <1>5, GotoMoves DEF RunHandler
  <2>2. effects' \in [Event -> [Handler -> Nat]]
    BY <1>5 DEF RunHandler, OutboxTypeOK, LoopOK, InLoop
  <2> QED
    BY <1>5, <2>1, <2>2 DEF RunHandler, OutboxTypeOK
<1>6. ASSUME NEW p \in Process, HandlerFails(p) PROVE OutboxTypeOK' /\ LoopOK'
  BY <1>6, NextHandlerMoves, LogMoves DEF HandlerFails, OutboxTypeOK, LogStatus
<1>7. ASSUME NEW p \in Process, LogDone(p) PROVE OutboxTypeOK' /\ LoopOK'
  <2>1. process[p].ok \in BOOLEAN
    BY DEF OutboxTypeOK, ProcessState
  <2> QED
    BY <1>7, <2>1, NextHandlerMoves, LogMoves DEF LogDone, OutboxTypeOK, LogStatus
<1>8. ASSUME NEW p \in Process, SettleEvent(p) PROVE OutboxTypeOK' /\ LoopOK'
  <2> DEFINE e == process[p].event
             s == IF process[p].ok THEN "PROCESADO" ELSE "FALLIDO"
             r == [event[e] EXCEPT !.status = s, !.stale = FALSE]
  <2>4. e \in Event /\ s \in {"PROCESADO", "FALLIDO"} /\ event' = [event EXCEPT ![e] = r]
    BY <1>8 DEF SettleEvent, LoopOK, InLoop
  <2> HIDE DEF e, s
  <2>6. event[e] \in EventRow
    BY <2>4 DEF OutboxTypeOK
  <2>5. r \in EventRow
    BY <2>4, <2>6 DEF EventRow
  <2> HIDE DEF r
  <2>1. event' \in [Event -> EventRow]
    BY <2>4, <2>5 DEF OutboxTypeOK
  <2>2. process' \in [Process -> ProcessState]
    <3>1. process[p].batch \in SUBSET Event
      BY DEF OutboxTypeOK, ProcessState
    <3> QED
      BY <1>8, <3>1, IdleType DEF SettleEvent, OutboxTypeOK
  <2>3. LoopOK'
    BY <1>8 DEF SettleEvent, OutboxTypeOK, LoopOK, InLoop, Idle
  <2> QED
    BY <1>8, <2>1, <2>2, <2>3 DEF SettleEvent, OutboxTypeOK
<1>9. ASSUME NEW p \in Process, Crash(p) PROVE OutboxTypeOK' /\ LoopOK'
  BY <1>9, IdleType DEF Crash, OutboxTypeOK, LoopOK, InLoop, Idle
<1>10. ASSUME NEW e \in Event, LockAges(e) PROVE OutboxTypeOK' /\ LoopOK'
  <2> DEFINE late == \E p \in Process : e \in InHand(p)
             r == [event[e] EXCEPT !.stale = TRUE, !.overrun = @ \/ late]
  <2>1. late \in BOOLEAN /\ event' = [event EXCEPT ![e] = r]
    BY <1>10 DEF LockAges, OutboxTypeOK, EventRow
  <2> HIDE DEF late
  <2>2. r \in EventRow
    <3>1. event[e] \in EventRow
      BY DEF OutboxTypeOK
    <3> QED
      BY <2>1, <3>1 DEF EventRow
  <2> HIDE DEF r
  <2>3. event' \in [Event -> EventRow]
    BY <2>1, <2>2 DEF OutboxTypeOK
  <2>4. UNCHANGED <<log, effects, process>>
    BY <1>10 DEF LockAges
  <2> QED
    BY <2>3, <2>4 DEF OutboxTypeOK, LoopOK, InLoop
<1>11. CASE UNCHANGED outboxVars
  BY <1>11 DEF outboxVars, OutboxTypeOK, LoopOK, InLoop
<1> QED
  BY <1>1, <1>2, <1>3, <1>4, <1>5, <1>6, <1>7, <1>8, <1>9, <1>10, <1>11, OutboxCases

(* Rows and local variables stay within their domains, for any number of    *)
(* events, handlers and processes: no event is claimed more than            *)
(* MaxAttempts times.                                                       *)
THEOREM OutboxTypeCorrect == OutboxSpec => []OutboxTypeOK
<1>1. OutboxInit => OutboxTypeOK /\ LoopOK
  BY OutboxTypeInit
<1>2. OutboxTypeOK /\ LoopOK /\ [OutboxNext]_outboxVars => (OutboxTypeOK /\ LoopOK)'
  BY OutboxTypeStep
<1> QED
  BY <1>1, <1>2, PTL DEF OutboxSpec

-----------------------------------------------------------------------------
(* Why a processed event was handled: a handler that is logged COMPLETADO   *)
(* took effect, and a process that still counts on success has, for every   *)
(* handler, an effect or a place in its loop.                               *)

LoggedIsDone ==
  \A e \in Event, h \in Handler : log[e][h] = "COMPLETADO" => effects[e][h] > 0

Accounts(p) ==
  /\ process[p].pc = "done" => effects[process[p].event][process[p].handler] > 0
  /\ process[p].pc = "settle" /\ process[p].ok => process[p].todo = {}
  /\ process[p].pc \in {"check", "start", "run", "done", "settle"} /\ process[p].ok =>
       /\ HandlersOf[process[p].event] # {}
       /\ \A h \in HandlersOf[process[p].event] :
            \/ h \in process[p].todo
            \/ effects[process[p].event][h] > 0
            \/ process[p].pc \in {"start", "run", "done"} /\ process[p].handler = h

AccountsOK == \A p \in Process : Accounts(p)

HandledInv == LoggedIsDone /\ AccountsOK /\ ProcessedIsHandled

Grows == \A e \in Event, h \in Handler : effects[e][h] > 0 => effects'[e][h] > 0

LEMMA HandledInit == OutboxInit => HandledInv
BY DEF OutboxInit, HandledInv, LoggedIsDone, AccountsOK, Accounts, ProcessedIsHandled, Idle

LEMMA EffectsGrow ==
  ASSUME OutboxTypeOK, LoopOK, OutboxNext
  PROVE  Grows
<1>1. ASSUME NEW p \in Process, RunHandler(p) PROVE Grows
  <2>1. process[p].event \in Event /\ process[p].handler \in Handler
    BY <1>1 DEF RunHandler, LoopOK, InLoop
  <2> QED
    BY <1>1, <2>1 DEF RunHandler, Grows, OutboxTypeOK
<1> QED
  BY <1>1, OutboxCases DEF Grows, ClaimBatch, BeginEvent, CheckLog, StartLog, HandlerFails,
     LogDone, SettleEvent, Crash, LockAges

(* Effects only grow, so a process that does not move still accounts.  *)
LEMMA OthersAccount ==
  ASSUME OutboxTypeOK, LoopOK, AccountsOK, Grows, NEW p \in Process,
         \A q \in Process \ {p} : process'[q] = process[q],
         Accounts(p)'
  PROVE  AccountsOK'
<1>1. ASSUME NEW q \in Process, q # p PROVE Accounts(q)'
  <2>1. process'[q] = process[q] /\ Accounts(q) /\ InLoop(q)
    BY <1>1 DEF AccountsOK, LoopOK
  <2>2. process[q].event \in Event => HandlersOf[process[q].event] \subseteq Handler
    BY OutboxAssumption
  <2> QED
    BY <2>1, <2>2 DEF Accounts, InLoop, Grows
<1> QED
  BY <1>1 DEF AccountsOK

LEMMA HandledStep ==
  OutboxTypeOK /\ LoopOK /\ HandledInv /\ [OutboxNext]_outboxVars => HandledInv'
<1> SUFFICES ASSUME OutboxTypeOK, LoopOK, HandledInv, [OutboxNext]_outboxVars
             PROVE  HandledInv'
  OBVIOUS
<1>1. CASE UNCHANGED outboxVars
  BY <1>1 DEF outboxVars, HandledInv, LoggedIsDone, AccountsOK, Accounts, ProcessedIsHandled
<1>2. CASE OutboxNext
  <2>0. Grows /\ \A e \in Event : HandlersOf[e] \subseteq Handler
    BY <1>2, EffectsGrow, OutboxAssumption
  <2>1. ASSUME UNCHANGED log PROVE LoggedIsDone'
    BY <2>0, <2>1 DEF HandledInv, LoggedIsDone, Grows
  <2>2. ASSUME \A e \in Event : event'[e].status = "PROCESADO" => event[e].status = "PROCESADO"
        PROVE  ProcessedIsHandled'
    BY <2>0, <2>2 DEF HandledInv, ProcessedIsHandled, Grows
  <2>3. ASSUME NEW p \in Process, ClaimBatch(p) PROVE HandledInv'
    <3>1. Accounts(p)' /\ \A q \in Process \ {p} : process'[q] = process[q]
      BY <2>3 DEF ClaimBatch, Accounts, Idle, OutboxTypeOK
    <3>2. \A e \in Event : event'[e].status = "PROCESADO" => event[e].status = "PROCESADO"
      <4>1. PICK batch \in SUBSET {e \in Event : Claimable(e)} :
              event' = [e \in Event |-> IF e \in batch
                   THEN [event[e] EXCEPT !.status = "PROCESANDO", !.attempts = @ + 1, !.stale = FALSE]
                   ELSE event[e]]
        BY <2>3 DEF ClaimBatch
      <4>2. \A e \in Event : event[e] \in EventRow
        BY DEF OutboxTypeOK
      <4> QED
        BY <4>1, <4>2 DEF EventRow
    <3> QED
      BY <2>0, <2>1, <2>2, <2>3, <3>1, <3>2, OthersAccount DEF HandledInv, ClaimBatch
  <2>4. ASSUME NEW p \in Process, BeginEvent(p) PROVE HandledInv'
    <3>1. Accounts(p)'
      <4>1. CASE process' = [process EXCEPT ![p] = Idle]
        BY <4>1 DEF Accounts, Idle, OutboxTypeOK
      <4>2. ASSUME NEW e \in process[p].batch,
                   process' = [process EXCEPT
                     ![p].pc = IF HandlersOf[e] = {} THEN "settle" ELSE "check",
                     ![p].batch = @ \ {e}, ![p].event = e,
                     ![p].todo = HandlersOf[e], ![p].ok = HandlersOf[e] # {}]
            PROVE  Accounts(p)'
        <5>1. /\ process'[p].pc = IF HandlersOf[e] = {} THEN "settle" ELSE "check"
              /\ process'[p].event = e /\ process'[p].todo = HandlersOf[e]
              /\ process'[p].ok = (HandlersOf[e] # {})
          BY <4>2, ZenonT(60) DEF OutboxTypeOK, ProcessState
        <5> QED
          BY <5>1 DEF Accounts
      <4> QED
        BY <2>4, <4>1, <4>2 DEF BeginEvent
    <3>2. \A q \in Process \ {p} : process'[q] = process[q]
      BY <2>4 DEF BeginEvent, OutboxTypeOK
    <3> QED
      BY <2>0, <2>1, <2>2, <2>4, <3>1, <3>2, OthersAccount DEF HandledInv, BeginEvent
  <2>5. ASSUME NEW p \in Process, CheckLog(p) PROVE HandledInv'
    <3>0. Accounts(p) /\ process[p].event \in Event /\ process[p] \in ProcessState
      BY <2>5 DEF HandledInv, AccountsOK, CheckLog, LoopOK, InLoop, OutboxTypeOK
    <3>1. Accounts(p)'
      <4>1. CASE process[p].todo = {} /\ Goto(p, "settle")
        <5>1. process'[p] = [process[p] EXCEPT !.pc = "settle"]
          BY <4>1 DEF Goto, OutboxTypeOK
        <5> QED
          BY <2>0, <2>5, <3>0, <4>1, <5>1 DEF Accounts, Grows, CheckLog, ProcessState
      <4>2. ASSUME NEW h \in process[p].todo,
                   \/ /\ log[process[p].event][h] = "COMPLETADO"
                      /\ process' = [process EXCEPT ![p].todo = @ \ {h}]
                   \/ process' = [process EXCEPT
                        ![p].todo = @ \ {h}, ![p].pc = "start",
                        ![p].handler = h, ![p].logged = log[process[p].event][h] # "NONE"]
            PROVE  Accounts(p)'
        <5>1. /\ process'[p].event = process[p].event /\ process'[p].todo = process[p].todo \ {h}
              /\ process'[p].ok = process[p].ok
              /\ \/ process'[p].pc = "check" /\ log[process[p].event][h] = "COMPLETADO"
                 \/ process'[p].pc = "start" /\ process'[p].handler = h
          <6>1. p \in DOMAIN process /\ process[p].pc = "check"
            BY <2>5 DEF CheckLog, OutboxTypeOK
          <6>2. CASE /\ log[process[p].event][h] = "COMPLETADO"
                     /\ process' = [process EXCEPT ![p].todo = @ \ {h}]
            BY <3>0, <6>1, <6>2 DEF ProcessState
          <6>3. CASE process' = [process EXCEPT
                        ![p].todo = @ \ {h}, ![p].pc = "start",
                        ![p].handler = h, ![p].logged = log[process[p].event][h] # "NONE"]
            BY <3>0, <6>1, <6>3 DEF ProcessState
          <6> QED
            BY <4>2, <6>2, <6>3
        <5>2. log[process[p].event][h] = "COMPLETADO" => effects[process[p].event][h] > 0
          BY <3>0 DEF HandledInv, LoggedIsDone, ProcessState
        <5>3. effects' = effects /\ process[p].pc = "check"
          BY <2>5 DEF CheckLog
        <5> QED
          BY <3>0, <5>1, <5>2, <5>3 DEF Accounts
      <4> QED
        BY <2>5, <4>1, <4>2 DEF CheckLog
    <3>2. \A q \in Process \ {p} : process'[q] = process[q]
      BY <2>5 DEF CheckLog, Goto, OutboxTypeOK
    <3> QED
      BY <2>0, <2>1, <2>2, <2>5, <3>1, <3>2, OthersAccount DEF HandledInv, CheckLog
  <2>6. ASSUME NEW p \in Process, StartLog(p) PROVE HandledInv'
    <3>0. Accounts(p) /\ InLoop(p) /\ process[p] \in ProcessState
      BY DEF HandledInv, AccountsOK, LoopOK, OutboxTypeOK
    <3>1. Accounts(p)' /\ \A q \in Process \ {p} : process'[q] = process[q]
      <4>1. CASE process' = [process EXCEPT ![p] = Idle]
        BY <4>1 DEF Accounts, Idle, OutboxTypeOK
      <4>2. CASE Goto(p, "run")
        <5>1. process'[p] = [process[p] EXCEPT !.pc = "run"]
          BY <4>2 DEF Goto, OutboxTypeOK
        <5> QED
          BY <2>6, <3>0, <4>2, <5>1 DEF StartLog, Goto, Accounts, ProcessState, OutboxTypeOK
      <4> QED
        BY <2>6, <4>1, <4>2 DEF StartLog
    <3>2. LoggedIsDone'
      <4>1. \A e \in Event, h \in Handler : log'[e][h] = "COMPLETADO" => log[e][h] = "COMPLETADO"
        BY <2>6 DEF StartLog, SetLog, OutboxTypeOK
      <4> QED
        BY <2>6, <4>1 DEF StartLog, HandledInv, LoggedIsDone
    <3> QED
      BY <2>0, <2>2, <2>6, <3>1, <3>2, OthersAccount DEF HandledInv, StartLog
  <2>7. ASSUME NEW p \in Process, RunHandler(p) PROVE HandledInv'
    <3>0. /\ Accounts(p) /\ process[p] \in ProcessState
          /\ process[p].event \in Event /\ process[p].handler \in Handler
      BY <2>7 DEF HandledInv, AccountsOK, LoopOK, InLoop, OutboxTypeOK, RunHandler
    <3>1. Accounts(p)'
      <4>1. process'[p] = [process[p] EXCEPT !.pc = "done"]
        BY <2>7 DEF RunHandler, Goto, OutboxTypeOK
      <4>2. effects'[process[p].event][process[p].handler] > 0
        BY <2>7, <3>0 DEF RunHandler, OutboxTypeOK
      <4> QED
        BY <2>0, <2>7, <3>0, <4>1, <4>2 DEF RunHandler, Accounts, Grows, ProcessState
    <3>2. \A q \in Process \ {p} : process'[q] = process[q]
      BY <2>7 DEF RunHandler, Goto, OutboxTypeOK
    <3> QED
      BY <2>0, <2>1, <2>2, <2>7, <3>1, <3>2, OthersAccount DEF HandledInv, RunHandler
  <2>8. ASSUME NEW p \in Process, HandlerFails(p) PROVE HandledInv'
    <3>1. Accounts(p)' /\ \A q \in Process \ {p} : process'[q] = process[q]
      BY <2>8 DEF HandlerFails, NextHandler, Accounts, OutboxTypeOK, ProcessState
    <3>2. LoggedIsDone'
      <4>1. \A e \in Event, h \in Handler : log'[e][h] = "COMPLETADO" => log[e][h] = "COMPLETADO"
        BY <2>8 DEF HandlerFails, SetLog, OutboxTypeOK
      <4> QED
        BY <2>8, <4>1 DEF HandlerFails, HandledInv, LoggedIsDone
    <3> QED
      BY <2>0, <2>2, <2>8, <3>1, <3>2, OthersAccount DEF HandledInv, HandlerFails
  <2>9. ASSUME NEW p \in Process, LogDone(p) PROVE HandledInv'
    <3>0. /\ Accounts(p) /\ process[p] \in ProcessState /\ process[p].pc = "done"
          /\ process[p].event \in Event /\ process[p].handler \in Handler
      BY <2>9 DEF HandledInv, AccountsOK, LoopOK, InLoop, OutboxTypeOK, LogDone
    <3>1. Accounts(p)'
      <4>1. /\ process'[p].pc = "check" /\ process'[p].ok = process[p].ok
            /\ process'[p].event = process[p].event /\ process'[p].todo = process[p].todo
        BY <2>9, <3>0 DEF LogDone, NextHandler, OutboxTypeOK, ProcessState
      <4> QED
        BY <2>9, <3>0, <4>1 DEF LogDone, Accounts, ProcessState
    <3>2. \A q \in Process \ {p} : process'[q] = process[q]
      BY <2>9 DEF LogDone, NextHandler, OutboxTypeOK
    <3>3. LoggedIsDone'
      <4>1. effects[process[p].event][process[p].handler] > 0
        BY <3>0 DEF Accounts
      <4>2. \A e \in Event, h \in Handler :
              log'[e][h] = "COMPLETADO" =>
                log[e][h] = "COMPLETADO" \/ (e = process[p].event /\ h = process[p].handler)
        BY <2>9, <3>0 DEF LogDone, SetLog, OutboxTypeOK
      <4> QED
        BY <2>9, <4>1, <4>2 DEF LogDone, HandledInv, LoggedIsDone
    <3> QED
      BY <2>0, <2>2, <2>9, <3>1, <3>2, <3>3, OthersAccount DEF HandledInv, LogDone
  <2>10. ASSUME NEW p \in Process, SettleEvent(p) PROVE HandledInv'
    <3>0. /\ Accounts(p) /\ process[p].event \in Event /\ process[p].pc = "settle"
      BY <2>10 DEF HandledInv, AccountsOK, LoopOK, InLoop, SettleEvent
    <3>1. Accounts(p)' /\ \A q \in Process \ {p} : process'[q] = process[q]
      BY <2>10 DEF SettleEvent, Accounts, Idle, OutboxTypeOK
    <3>2. ProcessedIsHandled'
      <4>1. \A e \in Event : event'[e].status = "PROCESADO" =>
              event[e].status = "PROCESADO" \/ (e = process[p].event /\ process[p].ok)
        BY <2>10, <3>0 DEF SettleEvent, OutboxTypeOK, EventRow
      <4>2. process[p].ok =>
              /\ HandlersOf[process[p].event] # {}
              /\ \A h \in HandlersOf[process[p].event] : effects[process[p].event][h] > 0
        BY <3>0 DEF Accounts
      <4> QED
        BY <2>10, <4>1, <4>2 DEF SettleEvent, HandledInv, ProcessedIsHandled
    <3> QED
      BY <2>0, <2>1, <2>10, <3>1, <3>2, OthersAccount DEF HandledInv, SettleEvent
  <2>11. ASSUME NEW p \in Process, Crash(p) PROVE HandledInv'
    <3>1. Accounts(p)' /\ \A q \in Process \ {p} : process'[q] = process[q]
      BY <2>11 DEF Crash, Accounts, Idle, OutboxTypeOK
    <3> QED
      BY <2>0, <2>1, <2>2, <2>11, <3>1, OthersAccount DEF HandledInv, Crash
  <2>12. ASSUME NEW e \in Event, LockAges(e) PROVE HandledInv'
    <3>1. \A f \in Event : event'[f].status = event[f].status
      BY <2>12 DEF LockAges, OutboxTypeOK, EventRow
    <3>2. UNCHANGED <<log, effects, process>>
      BY <2>12 DEF LockAges
    <3>3. LoggedIsDone' /\ AccountsOK'
      BY <3>2 DEF HandledInv, LoggedIsDone, AccountsOK, Accounts
    <3>4. ProcessedIsHandled'
      BY <3>1, <3>2 DEF HandledInv, ProcessedIsHandled
    <3> QED
      BY <3>3, <3>4 DEF HandledInv
  <2> QED
    BY <1>2, <2>3, <2>4, <2>5, <2>6, <2>7, <2>8, <2>9, <2>10, <2>11, <2>12, OutboxCases
<1> QED
  BY <1>1, <1>2

(* An event marked PROCESADO was handled by every handler of its type,      *)
(* however many processes run, die, or take over one another's batches.     *)
THEOREM ProcessedCorrect == OutboxSpec => []ProcessedIsHandled
<1>1. OutboxInit => OutboxTypeOK /\ LoopOK /\ HandledInv
  BY OutboxTypeInit, HandledInit
<1>2. OutboxTypeOK /\ LoopOK /\ HandledInv /\ [OutboxNext]_outboxVars
        => (OutboxTypeOK /\ LoopOK /\ HandledInv)'
  BY OutboxTypeStep, HandledStep
<1>3. HandledInv => ProcessedIsHandled
  BY DEF HandledInv
<1> QED
  BY <1>1, <1>2, <1>3, PTL DEF OutboxSpec

-----------------------------------------------------------------------------
(* How often a handler runs, and who shares an event.  *)

(* A process in state x has let go of what it is done with.  *)
PlaceOK(x) ==
  /\ x.pc \in {"idle", "next"} => x.event = None /\ x.todo = {}
  /\ x.pc = "idle" => x.batch = {}
  /\ x.event \notin x.batch
  /\ x.pc \in {"start", "run", "done"} => x.handler \notin x.todo

(* In state x the claim of e still entitles the process to run h for it.  *)
Entitled(x, e, h) ==
  \/ e \in x.batch
  \/ /\ x.event = e
     /\ h \in x.todo \/ (x.pc \in {"start", "run"} /\ x.handler = h)

Entitlements(e, h) == {p \in Process : Entitled(process[p], e, h)}

(* Effects and entitlements together never exceed the claims of an event.  *)
ClaimsCover ==
  \A e \in Event, h \in Handler :
    /\ IsFiniteSet(Entitlements(e, h))
    /\ effects[e][h] + Cardinality(Entitlements(e, h)) <= event[e].attempts

(* An event in the hands of a process is locked, until its lock grew stale.  *)
HandsLocked ==
  \A p \in Process : \A e \in InHand(p) :
    event[e].overrun \/ (event[e].status = "PROCESANDO" /\ ~event[e].stale)

ClaimInv ==
  (\A p \in Process : PlaceOK(process[p])) /\ ClaimsCover /\ HandsLocked /\ SharedByOverrun

LEMMA ClaimInvInit == OutboxInit => ClaimInv
<1> SUFFICES ASSUME OutboxInit PROVE ClaimInv
  OBVIOUS
<1>1. \A p \in Process : process[p] = Idle /\ InHand(p) = {}
  BY DEF OutboxInit, Idle, InHand
<1>2. ASSUME NEW e \in Event, NEW h \in Handler
      PROVE  /\ IsFiniteSet(Entitlements(e, h))
             /\ effects[e][h] + Cardinality(Entitlements(e, h)) <= event[e].attempts
  <2>1. Entitlements(e, h) = {}
    BY <1>1 DEF Entitlements, Entitled, Idle
  <2>2. IsFiniteSet({}) /\ Cardinality({}) = 0
    BY FS_EmptySet
  <2> QED
    BY <2>1, <2>2 DEF OutboxInit
<1> QED
  BY <1>1, <1>2 DEF ClaimInv, PlaceOK, Idle, ClaimsCover, HandsLocked, SharedByOverrun

(* A process that moves on takes nothing new into its hands.  *)
MovesOn(p) ==
  /\ \A q \in Process : q # p => process'[q] = process[q]
  /\ PlaceOK(process'[p])
  /\ InHand(p)' \subseteq InHand(p)
  /\ \A e \in Event, h \in Handler :
       Entitled(process'[p], e, h) => Entitled(process[p], e, h)

(* ... and writes the row of no event but one it lets go.  *)
LetsGo(p) ==
  \A e \in Event : \/ event'[e] = event[e]
                   \/ /\ event'[e].attempts = event[e].attempts
                      /\ event'[e].overrun = event[e].overrun
                      /\ e \in InHand(p) /\ e \notin InHand(p)'

LEMMA HandsKept ==
  ASSUME OutboxTypeOK, ClaimInv, NEW p \in Process, MovesOn(p), LetsGo(p)
  PROVE  /\ \A q \in Process : PlaceOK(process'[q])
         /\ HandsLocked' /\ SharedByOverrun'
<1>1. \A q \in Process : InHand(q)' \subseteq InHand(q) /\ InHand(q) \subseteq Event
  BY DEF MovesOn, InHand, OutboxTypeOK, ProcessState
<1>2. \A e \in Event : event'[e].overrun = event[e].overrun
  BY DEF LetsGo
<1>3. ASSUME NEW q \in Process, NEW e \in InHand(q)'
      PROVE  event'[e].overrun \/ (event'[e].status = "PROCESANDO" /\ ~event'[e].stale)
  <2>1. CASE event'[e] = event[e]
    BY <1>1, <1>3, <2>1 DEF ClaimInv, HandsLocked
  <2>2. CASE event'[e] # event[e]
    <3>1. e \in InHand(p) /\ e \notin InHand(p)' /\ e \in InHand(q)
      BY <1>1, <1>3, <2>2 DEF LetsGo
    <3>2. event[e].overrun
      BY <1>3, <3>1 DEF ClaimInv, SharedByOverrun
    <3> QED
      BY <1>1, <1>2, <3>1, <3>2
  <2> QED
    BY <2>1, <2>2
<1>4. ASSUME NEW q \in Process, NEW r \in Process, q # r, NEW e \in InHand(q)' \cap InHand(r)'
      PROVE  event'[e].overrun
  BY <1>1, <1>2, <1>4 DEF ClaimInv, SharedByOverrun
<1>5. \A q \in Process : PlaceOK(process'[q])
  BY DEF MovesOn, ClaimInv
<1> QED
  BY <1>3, <1>4, <1>5 DEF HandsLocked, SharedByOverrun

LEMMA CoverKept ==
  ASSUME OutboxTypeOK, ClaimInv, NEW p \in Process, MovesOn(p), LetsGo(p), UNCHANGED effects
  PROVE  ClaimsCover'
<1> SUFFICES ASSUME NEW e \in Event, NEW h \in Handler
             PROVE  /\ IsFiniteSet(Entitlements(e, h)')
                    /\ effects'[e][h] + Cardinality(Entitlements(e, h)') <= event'[e].attempts
  BY DEF ClaimsCover
<1>1. Entitlements(e, h)' \subseteq Entitlements(e, h)
  BY DEF MovesOn, Entitlements
<1>2. /\ IsFiniteSet(Entitlements(e, h))
      /\ effects[e][h] + Cardinality(Entitlements(e, h)) <= event[e].attempts
      /\ effects[e][h] \in Nat /\ event[e].attempts \in Int
  BY DEF ClaimInv, ClaimsCover, OutboxTypeOK, EventRow
<1>3. /\ IsFiniteSet(Entitlements(e, h)')
      /\ Cardinality(Entitlements(e, h)') <= Cardinality(Entitlements(e, h))
  BY <1>1, <1>2, FS_Subset
<1>4. Cardinality(Entitlements(e, h)') \in Nat /\ Cardinality(Entitlements(e, h)) \in Nat
  BY <1>2, <1>3, FS_CardinalityType
<1>5. event'[e].attempts = event[e].attempts
  BY DEF LetsGo
<1> QED
  BY <1>2, <1>3, <1>4, <1>5

LEMMA ClaimedRow ==
  ASSUME NEW row \in EventRow, NEW new,
         new = [row EXCEPT !.status = "PROCESANDO", !.attempts = @ + 1, !.stale = FALSE]
  PROVE  /\ new.status = "PROCESANDO" /\ ~new.stale
         /\ new.attempts = row.attempts + 1 /\ new.overrun = row.overrun
BY DEF EventRow

LEMMA ClaimInvStep ==
  OutboxTypeOK /\ LoopOK /\ ClaimInv /\ [OutboxNext]_outboxVars => ClaimInv'
<1> SUFFICES ASSUME OutboxTypeOK, LoopOK, ClaimInv, [OutboxNext]_outboxVars PROVE ClaimInv'
  OBVIOUS
<1> USE OutboxAssumption
<1>0. \A p \in Process : process[p] \in ProcessState /\ PlaceOK(process[p]) /\ InLoop(p)
  BY DEF OutboxTypeOK, ClaimInv, LoopOK
<1>a. ASSUME NEW p \in Process, MovesOn(p), LetsGo(p), UNCHANGED effects
      PROVE  ClaimInv'
  BY <1>a, HandsKept, CoverKept DEF ClaimInv
<1>b. ASSUME NEW p, UNCHANGED event PROVE LetsGo(p)
  BY <1>b DEF LetsGo
<1>1. ASSUME NEW p \in Process, process' = [process EXCEPT ![p] = Idle] PROVE MovesOn(p)
  BY <1>1 DEF MovesOn, PlaceOK, InHand, Entitled, Idle, OutboxTypeOK, ProcessState
<1>2. ASSUME NEW p \in Process, ClaimBatch(p) PROVE ClaimInv'
  <2>1. PICK batch \in SUBSET {e \in Event : Claimable(e)} :
          /\ event' = [e \in Event |-> IF e \in batch
               THEN [event[e] EXCEPT !.status = "PROCESANDO", !.attempts = @ + 1, !.stale = FALSE]
               ELSE event[e]]
          /\ process' = [process EXCEPT ![p] = [Idle EXCEPT !.pc = "next", !.batch = batch]]
    BY <1>2 DEF ClaimBatch
  <2>2. /\ process'[p].pc = "next" /\ process'[p].batch = batch /\ process'[p].event = None
        /\ process'[p].todo = {} /\ \A q \in Process : q # p => process'[q] = process[q]
    BY <2>1 DEF OutboxTypeOK, Idle
  <2>3. InHand(p)' = batch /\ InHand(p) = {}
    BY <1>0, <1>2, <2>2 DEF InHand, ClaimBatch, PlaceOK
  <2>4. ASSUME NEW e \in Event
        PROVE  /\ e \in batch => /\ event'[e].status = "PROCESANDO" /\ ~event'[e].stale
                                 /\ event'[e].attempts = event[e].attempts + 1
               /\ e \notin batch => event'[e] = event[e]
               /\ event'[e].overrun = event[e].overrun
               /\ event[e].attempts \in Nat
    <3>1. event[e] \in EventRow /\ event[e].attempts \in Nat
      BY DEF OutboxTypeOK, EventRow
    <3>2. CASE e \in batch
      <4>1. event'[e] = [event[e] EXCEPT !.status = "PROCESANDO", !.attempts = @ + 1, !.stale = FALSE]
        BY <2>1, <3>2
      <4> QED
        BY <3>1, <3>2, <4>1, ClaimedRow
    <3>3. CASE e \notin batch
      <4>1. event'[e] = event[e]
        BY <2>1, <3>3
      <4> QED
        BY <3>1, <3>3, <4>1
    <3> QED
      BY <3>2, <3>3
  <2>5. \A q \in Process : PlaceOK(process'[q])
    BY <1>0, <2>2 DEF PlaceOK
  <2>6. \A q \in Process : InHand(q) \subseteq Event
    BY DEF InHand, OutboxTypeOK, ProcessState
  <2>7. \A q \in Process : q # p => InHand(q)' = InHand(q)
    BY <2>2 DEF InHand
  <2>8. ASSUME NEW q \in Process, NEW e \in InHand(q)'
        PROVE  event'[e].overrun \/ (event'[e].status = "PROCESANDO" /\ ~event'[e].stale)
    <3>1. e \in Event /\ (e \in batch \/ e \in InHand(q))
      BY <2>3, <2>6, <2>7, <2>8
    <3>2. CASE e \in batch
      BY <2>4, <3>1, <3>2
    <3>3. CASE e \notin batch
      BY <2>4, <3>1, <3>3 DEF ClaimInv, HandsLocked
    <3> QED
      BY <3>2, <3>3
  <2>9. ASSUME NEW q \in Process, q # p, NEW e \in batch \cap InHand(q)
        PROVE  event'[e].overrun
    <3>1. e \in Event /\ Claimable(e)
      BY <2>1
    <3>2. event[e].overrun
      BY <3>1 DEF Claimable, ClaimInv, HandsLocked
    <3> QED
      BY <2>4, <3>1, <3>2
  <2>10. SharedByOverrun'
    <3> SUFFICES ASSUME NEW q \in Process, NEW r \in Process, q # r,
                        NEW e \in InHand(q)' \cap InHand(r)'
                 PROVE  event'[e].overrun
      BY DEF SharedByOverrun
    <3>1. CASE q = p \/ r = p
      BY <2>3, <2>7, <2>9, <3>1
    <3>2. CASE q # p /\ r # p
      BY <2>4, <2>6, <2>7, <3>2 DEF ClaimInv, SharedByOverrun
    <3> QED
      BY <3>1, <3>2
  <2>11. ASSUME NEW e \in Event, NEW h \in Handler
         PROVE  /\ IsFiniteSet(Entitlements(e, h)')
                /\ effects'[e][h] + Cardinality(Entitlements(e, h)') <= event'[e].attempts
    <3>1. /\ IsFiniteSet(Entitlements(e, h))
          /\ effects[e][h] + Cardinality(Entitlements(e, h)) <= event[e].attempts
          /\ effects[e][h] \in Nat /\ UNCHANGED effects
      <4>1. ClaimsCover
        BY DEF ClaimInv
      <4>2. effects[e][h] \in Nat
        BY DEF OutboxTypeOK
      <4>3. UNCHANGED effects
        BY <1>2 DEF ClaimBatch
      <4> QED
        BY <4>1, <4>2, <4>3 DEF ClaimsCover
    <3>2. p \notin Entitlements(e, h)
      BY <1>0, <1>2 DEF Entitlements, Entitled, ClaimBatch, PlaceOK
    <3>3. Cardinality(Entitlements(e, h)) \in Nat
      BY <3>1, FS_CardinalityType
    <3>4. CASE e \in batch
      <4>1. Entitlements(e, h)' = Entitlements(e, h) \cup {p}
        BY <2>2, <3>4 DEF Entitlements, Entitled
      <4>2. /\ IsFiniteSet(Entitlements(e, h) \cup {p})
            /\ Cardinality(Entitlements(e, h) \cup {p}) = Cardinality(Entitlements(e, h)) + 1
        BY <3>1, <3>2, FS_AddElement
      <4> QED
        BY <2>4, <3>1, <3>3, <3>4, <4>1, <4>2
    <3>5. CASE e \notin batch
      <4>1. Entitlements(e, h)' = Entitlements(e, h)
        BY <2>2, <3>2, <3>5 DEF Entitlements, Entitled
      <4> QED
        BY <2>4, <3>1, <3>5, <4>1
    <3> QED
      BY <3>4, <3>5
  <2> QED
    BY <2>5, <2>8, <2>10, <2>11 DEF ClaimInv, HandsLocked, ClaimsCover
<1>3. ASSUME NEW p \in Process, BeginEvent(p) PROVE ClaimInv'
  <2>1. ASSUME NEW e \in process[p].batch,
               process' = [process EXCEPT
                 ![p].pc = IF HandlersOf[e] = {} THEN "settle" ELSE "check",
                 ![p].batch = @ \ {e}, ![p].event = e,
                 ![p].todo = HandlersOf[e], ![p].ok = HandlersOf[e] # {}]
        PROVE  MovesOn(p)
    <3>1. /\ process'[p].pc \in {"settle", "check"} /\ process'[p].event = e
          /\ process'[p].batch = process[p].batch \ {e}
          /\ \A q \in Process : q # p => process'[q] = process[q]
      BY <1>0, <2>1, ZenonT(60) DEF OutboxTypeOK, ProcessState
    <3> QED
      BY <3>1 DEF MovesOn, PlaceOK, InHand, Entitled
  <2> QED
    BY <1>a, <1>b, <1>1, <1>3, <2>1 DEF BeginEvent
<1>4. ASSUME NEW p \in Process, CheckLog(p) PROVE ClaimInv'
  <2> DEFINE Looked ==
        /\ process'[p].event = process[p].event /\ process'[p].batch = process[p].batch
        /\ process'[p].todo \subseteq process[p].todo
        /\ \/ process'[p].pc \in {"check", "settle"}
           \/ /\ process'[p].pc = "start" /\ process'[p].handler \in process[p].todo
              /\ process'[p].handler \notin process'[p].todo
        /\ \A q \in Process : q # p => process'[q] = process[q]
  <2>1. Looked
    <3>1. process \in [Process -> ProcessState] /\ process[p].pc = "check"
      BY <1>4 DEF OutboxTypeOK, CheckLog
    <3>2. CASE Goto(p, "settle")
      BY <3>1, <3>2 DEF Goto, ProcessState
    <3>3. ASSUME NEW h \in process[p].todo,
                 process' = [process EXCEPT ![p].todo = @ \ {h}]
          PROVE  Looked
      BY <3>1, <3>3 DEF ProcessState
    <3>4. ASSUME NEW h \in process[p].todo, NEW logged,
                 process' = [process EXCEPT ![p].todo = @ \ {h}, ![p].pc = "start",
                                            ![p].handler = h, ![p].logged = logged]
          PROVE  Looked
      BY <3>1, <3>4 DEF ProcessState
    <3> QED
      BY <1>4, <3>2, <3>3, <3>4 DEF CheckLog
  <2>2. MovesOn(p)
    BY <1>0, <2>1 DEF MovesOn, PlaceOK, InHand, Entitled
  <2> QED
    BY <1>a, <1>b, <1>4, <2>2 DEF CheckLog
(* The steps of one handler.  *)
<1>5. ASSUME NEW p \in Process, process[p].pc \in {"start", "run", "done"},
             NEW x, process'[p] = x, x.event = process[p].event, x.batch = process[p].batch,
             x.todo = process[p].todo,
             \/ x.pc \in {"check", "done"}
             \/ x.pc = "run" /\ process[p].pc = "start",
             x.pc # "check" => x.handler = process[p].handler,
             \A q \in Process : q # p => process'[q] = process[q]
      PROVE  MovesOn(p)
  BY <1>0, <1>5 DEF MovesOn, PlaceOK, InHand, Entitled
<1>6. ASSUME NEW p \in Process, StartLog(p) PROVE ClaimInv'
  <2>1. CASE Goto(p, "run")
    <3>1. MovesOn(p)
      BY <1>0, <1>5, <1>6, <2>1 DEF StartLog, Goto, OutboxTypeOK, ProcessState
    <3> QED
      BY <1>a, <1>b, <1>6, <3>1 DEF StartLog
  <2> QED
    BY <1>a, <1>b, <1>1, <1>6, <2>1 DEF StartLog
<1>7. ASSUME NEW p \in Process, RunHandler(p) PROVE ClaimInv'
  <2>1. /\ process[p].pc = "run" /\ process'[p].pc = "done"
        /\ process'[p].event = process[p].event /\ process'[p].batch = process[p].batch
        /\ process'[p].todo = process[p].todo /\ process'[p].handler = process[p].handler
        /\ \A q \in Process : q # p => process'[q] = process[q]
    BY <1>0, <1>7 DEF RunHandler, Goto, OutboxTypeOK, ProcessState
  <2>2. MovesOn(p) /\ LetsGo(p)
    BY <1>b, <1>5, <1>7, <2>1 DEF RunHandler
  <2>3. PICK e \in Event, h \in Handler : e = process[p].event /\ h = process[p].handler
    BY <1>0, <2>1 DEF InLoop
  <2>4. /\ UNCHANGED event
        /\ effects'[e][h] = effects[e][h] + 1
        /\ \A f \in Event, g \in Handler : f # e \/ g # h => effects'[f][g] = effects[f][g]
    BY <1>7, <2>3 DEF RunHandler, OutboxTypeOK
  <2>5. ASSUME NEW f \in Event, NEW g \in Handler
        PROVE  /\ IsFiniteSet(Entitlements(f, g)')
               /\ effects'[f][g] + Cardinality(Entitlements(f, g)') <= event'[f].attempts
    <3>1. /\ IsFiniteSet(Entitlements(f, g))
          /\ effects[f][g] + Cardinality(Entitlements(f, g)) <= event[f].attempts
          /\ effects[f][g] \in Nat /\ event[f].attempts \in Int
      BY DEF ClaimInv, ClaimsCover, OutboxTypeOK, EventRow
    <3>2. Cardinality(Entitlements(f, g)) \in Nat
      BY <3>1, FS_CardinalityType
    <3>3. CASE f = e /\ g = h
      <4>1. p \in Entitlements(f, g)
        BY <2>1, <2>3, <3>3 DEF Entitlements, Entitled
      <4>2. Entitlements(f, g)' = Entitlements(f, g) \ {p}
        BY <1>0, <2>1, <2>3, <3>3 DEF Entitlements, Entitled, PlaceOK
      <4>3. /\ IsFiniteSet(Entitlements(f, g) \ {p})
            /\ Cardinality(Entitlements(f, g) \ {p}) = Cardinality(Entitlements(f, g)) - 1
        BY <3>1, <4>1, FS_RemoveElement
      <4> QED
        BY <2>4, <3>1, <3>2, <3>3, <4>2, <4>3
    <3>4. CASE f # e \/ g # h
      <4>1. Entitlements(f, g)' \subseteq Entitlements(f, g)
        BY <2>2 DEF MovesOn, Entitlements
      <4>2. /\ IsFiniteSet(Entitlements(f, g)')
            /\ Cardinality(Entitlements(f, g)') <= Cardinality(Entitlements(f, g))
        BY <3>1, <4>1, FS_Subset
      <4>3. Cardinality(Entitlements(f, g)') \in Nat
        BY <4>2, FS_CardinalityType
      <4> QED
        BY <2>4, <3>1, <3>2, <3>4, <4>2, <4>3
    <3> QED
      BY <3>3, <3>4
  <2> QED
    BY <2>2, <2>5, HandsKept DEF ClaimInv, ClaimsCover
<1>8. ASSUME NEW p \in Process, HandlerFails(p) \/ LogDone(p) PROVE ClaimInv'
  <2>1. /\ process[p].pc \in {"run", "done"} /\ process'[p].pc = "check"
        /\ process'[p].event = process[p].event /\ process'[p].batch = process[p].batch
        /\ process'[p].todo = process[p].todo
        /\ \A q \in Process : q # p => process'[q] = process[q]
    BY <1>0, <1>8 DEF HandlerFails, LogDone, NextHandler, OutboxTypeOK, ProcessState
  <2>2. MovesOn(p)
    BY <1>5, <2>1
  <2> QED
    BY <1>a, <1>b, <1>8, <2>2 DEF HandlerFails, LogDone
<1>9. ASSUME NEW p \in Process, SettleEvent(p) PROVE ClaimInv'
  <2>1. PICK e \in Event : e = process[p].event
    BY <1>0, <1>9 DEF SettleEvent, InLoop
  <2>2. /\ process'[p].pc = "next" /\ process'[p].event = None /\ process'[p].todo = {}
        /\ process'[p].batch = process[p].batch
        /\ \A q \in Process : q # p => process'[q] = process[q]
    BY <1>9 DEF SettleEvent, OutboxTypeOK, Idle
  <2>3. MovesOn(p) /\ e \in InHand(p) /\ e \notin InHand(p)'
    BY <1>0, <2>1, <2>2 DEF MovesOn, PlaceOK, InHand, Entitled, ProcessState
  <2>4. /\ event'[e].attempts = event[e].attempts /\ event'[e].overrun = event[e].overrun
        /\ \A f \in Event \ {e} : event'[f] = event[f]
    BY <1>9, <2>1 DEF SettleEvent, OutboxTypeOK, EventRow
  <2>5. LetsGo(p)
    BY <2>3, <2>4 DEF LetsGo
  <2> QED
    BY <1>a, <1>9, <2>3, <2>5 DEF SettleEvent
<1>10. ASSUME NEW p \in Process, Crash(p) PROVE ClaimInv'
  BY <1>a, <1>b, <1>1, <1>10 DEF Crash
<1>11. ASSUME UNCHANGED <<process, effects>>,
              \A e \in Event : /\ event'[e].attempts = event[e].attempts
                               /\ event[e].overrun => event'[e].overrun
                               /\ \/ event'[e].status = event[e].status /\ event'[e].stale = event[e].stale
                                  \/ \A p \in Process : e \notin InHand(p)
                                  \/ event'[e].overrun
       PROVE  ClaimInv'
  <2>1. \A p \in Process : InHand(p)' = InHand(p) /\ InHand(p) \subseteq Event
    BY <1>11 DEF InHand, OutboxTypeOK, ProcessState
  <2>2. HandsLocked' /\ SharedByOverrun'
    BY <1>11, <2>1 DEF ClaimInv, HandsLocked, SharedByOverrun
  <2>3. ClaimsCover' /\ \A p \in Process : PlaceOK(process'[p])
    BY <1>11 DEF ClaimInv, ClaimsCover, Entitlements
  <2> QED
    BY <2>2, <2>3 DEF ClaimInv
<1>12. ASSUME NEW e \in Event, LockAges(e) PROVE ClaimInv'
  <2>1. /\ event'[e].attempts = event[e].attempts
        /\ event[e].overrun => event'[e].overrun
        /\ (\E p \in Process : e \in InHand(p)) => event'[e].overrun
        /\ \A f \in Event \ {e} : event'[f] = event[f]
        /\ UNCHANGED <<process, effects>>
    BY <1>12 DEF LockAges, OutboxTypeOK, EventRow
  <2> QED
    BY <1>11, <2>1
<1>13. CASE UNCHANGED outboxVars
  BY <1>11, <1>13 DEF outboxVars
<1> QED
  BY <1>2, <1>3, <1>4, <1>6, <1>7, <1>8, <1>9, <1>10, <1>12, <1>13, OutboxCases

LEMMA ClaimInvCorrect == OutboxSpec => [](OutboxTypeOK /\ ClaimInv)
<1> DEFINE CInv == OutboxTypeOK /\ LoopOK /\ ClaimInv
<1>1. OutboxInit => CInv
  BY OutboxTypeInit, ClaimInvInit
<1>2. CInv /\ [OutboxNext]_outboxVars => CInv'
  BY OutboxTypeStep, ClaimInvStep
<1>3. CInv => OutboxTypeOK /\ ClaimInv
  OBVIOUS
<1> HIDE DEF CInv
<1> QED
  BY <1>1, <1>2, <1>3, PTL DEF OutboxSpec

(* A handler takes effect at most once for each claim of its event, however *)
(* many processes share the event after its lock grew stale: a claim is     *)
(* spent by the effect, and a retry needs another one.                      *)
THEOREM EffectsBoundedCorrect == OutboxSpec => []EffectsBounded
<1>1. ASSUME OutboxTypeOK, ClaimInv, NEW e \in Event, NEW h \in Handler
      PROVE  effects[e][h] <= event[e].attempts
  <2>1. /\ IsFiniteSet(Entitlements(e, h))
        /\ effects[e][h] + Cardinality(Entitlements(e, h)) <= event[e].attempts
        /\ effects[e][h] \in Nat /\ event[e].attempts \in Int
    BY <1>1 DEF ClaimInv, ClaimsCover, OutboxTypeOK, EventRow
  <2>2. Cardinality(Entitlements(e, h)) \in Nat
    BY <2>1, FS_CardinalityType
  <2> QED
    BY <2>1, <2>2
<1>2. OutboxTypeOK /\ ClaimInv => EffectsBounded
  BY <1>1 DEF EffectsBounded
<1> QED
  BY <1>2, ClaimInvCorrect, PTL

(* Two processes have one event in hand only after a process took longer    *)
(* with its batch than the lock of the event lasts.                         *)
THEOREM SharedByOverrunCorrect == OutboxSpec => []SharedByOverrun
<1>1. ClaimInv => SharedByOverrun
  BY DEF ClaimInv
<1> QED
  BY <1>1, ClaimInvCorrect, PTL
=============================================================================
