---------------------------- MODULE JobQueue_proofs ----------------------------
(***************************************************************************)
(* A run that lost its job to a later claim never writes it as completed.  *)
(***************************************************************************)
EXTENDS JobQueue, TLAPS

LEMMA QueueCases ==
  ASSUME QueueNext
  PROVE  \/ \E j \in Job : Enqueue(j)
         \/ \E j \in Job : LeaseExpires(j)
         \/ \E w \in Worker : BeginClaim(w)
         \/ \E w \in Worker : FinishClaim(w)
         \/ \E w \in Worker : HandlerEnds(w)
         \/ \E w \in Worker : Complete(w)
         \/ \E w \in Worker : FailRead(w)
         \/ \E w \in Worker : FailWrite(w)
         \/ \E w \in Worker : Heartbeat(w)
         \/ \E w \in Worker : HeartbeatFails(w)
         \/ \E w \in Worker : Crash(w)
BY DEF QueueNext, ClaimStep, RunStep

(* A worker that holds a job knows which.  *)
Located == \A w \in Worker : Holding(w) => worker[w].job \in Job

LEMMA IdleState == Idle \in WorkerState /\ NewRow \in JobRow
BY QueueAssumption DEF Idle, NewRow, WorkerState, JobRow

(* A worker that moves to state r.  *)
LEMMA WorkerMoves ==
  ASSUME QueueTypeOK, Located, NEW w \in Worker, NEW r \in WorkerState,
         worker' = [worker EXCEPT ![w] = r],
         r.pc \in {"run", "complete", "fail", "write"} => r.job \in Job
  PROVE  worker' \in [Worker -> WorkerState] /\ Located'
BY DEF QueueTypeOK, Located, Holding

(* A row that changes to r.  *)
LEMMA RowMoves ==
  ASSUME QueueTypeOK, NEW j \in Job, NEW r \in JobRow, job' = [job EXCEPT ![j] = r]
  PROVE  job' \in [Job -> JobRow]
BY DEF QueueTypeOK

LEMMA QueueTypeInit == QueueInit => QueueTypeOK /\ Located
BY IdleState DEF QueueInit, QueueTypeOK, Located, Holding, Idle

LEMMA QueueTypeStep ==
  QueueTypeOK /\ Located /\ [QueueNext]_queueVars => QueueTypeOK' /\ Located'
<1> SUFFICES ASSUME QueueTypeOK, Located, [QueueNext]_queueVars
             PROVE  QueueTypeOK' /\ Located'
  OBVIOUS
<1> USE QueueAssumption
<1>1. ASSUME NEW j \in Job, Enqueue(j) PROVE QueueTypeOK' /\ Located'
  <2>1. job' \in [Job -> JobRow]
    BY <1>1 DEF Enqueue, QueueTypeOK, JobRow
  <2> QED
    BY <1>1, <2>1 DEF Enqueue, QueueTypeOK, Located, Holding
<1>2. ASSUME NEW j \in Job, LeaseExpires(j) PROVE QueueTypeOK' /\ Located'
  <2> DEFINE late == \E w \in Worker : Holding(w) /\ worker[w].job = j
             r == [job[j] EXCEPT !.leased = FALSE, !.overrun = @ \/ late]
  <2>0. late \in BOOLEAN /\ job' = [job EXCEPT ![j] = r]
    BY <1>2 DEF LeaseExpires, QueueTypeOK, JobRow
  <2> HIDE DEF late
  <2>2. r \in JobRow
    BY <2>0 DEF QueueTypeOK, JobRow
  <2> HIDE DEF r
  <2>1. job' \in [Job -> JobRow]
    BY <2>0, <2>2, RowMoves
  <2> QED
    BY <1>2, <2>1 DEF LeaseExpires, QueueTypeOK, Located, Holding
<1>3. ASSUME NEW w \in Worker, BeginClaim(w) PROVE QueueTypeOK' /\ Located'
  <2> DEFINE r == [Idle EXCEPT !.pc = "claim", !.seen = job]
  <2>1. r \in WorkerState /\ r.pc = "claim"
    BY IdleState DEF QueueTypeOK, WorkerState, Idle
  <2>2. worker' = [worker EXCEPT ![w] = r]
    BY <1>3 DEF BeginClaim
  <2> HIDE DEF r
  <2> QED
    BY <1>3, <2>1, <2>2, WorkerMoves DEF BeginClaim, QueueTypeOK
<1>4. ASSUME NEW w \in Worker, FinishClaim(w) PROVE QueueTypeOK' /\ Located'
  <2> DEFINE seen == worker[w].seen
  <2>1. Swept(seen) \in [Job -> JobRow]
    BY DEF Swept, QueueTypeOK, JobRow
  <2>2. CASE job' = Swept(seen) /\ worker' = [worker EXCEPT ![w] = Idle]
    BY <2>1, <2>2, IdleState, WorkerMoves DEF QueueTypeOK, Idle
  <2>3. ASSUME NEW j \in Candidate(seen),
               job' = [Swept(seen) EXCEPT ![j] = Claimed(job[j], w)],
               worker' = [worker EXCEPT ![w] =
                  [Idle EXCEPT !.pc = "run", !.job = j, !.attempt = job[j].attempts + 1]]
        PROVE  QueueTypeOK' /\ Located'
    <3> DEFINE r == [Idle EXCEPT !.pc = "run", !.job = j, !.attempt = job[j].attempts + 1]
    <3>1. j \in Job /\ job[j] \in JobRow /\ job[j].attempts + 1 \in 0..MaxAttempts
      BY DEF Candidate, Ready, QueueTypeOK, JobRow
    <3>2. Claimed(job[j], w) \in JobRow
      BY <3>1 DEF Claimed, JobRow
    <3>3. r \in WorkerState /\ r.job \in Job
      BY <3>1, IdleState DEF Idle, WorkerState
    <3>4. worker' = [worker EXCEPT ![w] = r]
      BY <2>3
    <3>5. job' \in [Job -> JobRow]
      BY <2>1, <2>3, <3>2
    <3> HIDE DEF r
    <3> QED
      BY <3>3, <3>4, <3>5, WorkerMoves DEF QueueTypeOK
  <2> QED
    BY <1>4, <2>2, <2>3 DEF FinishClaim
<1>5. ASSUME NEW w \in Worker, NEW pc \in {"complete", "fail"},
             worker[w].pc \in {"run", "complete"}, worker' = [worker EXCEPT ![w].pc = pc]
      PROVE  worker' \in [Worker -> WorkerState] /\ Located'
  <2> DEFINE r == [worker[w] EXCEPT !.pc = pc]
  <2>1. r \in WorkerState /\ r.job \in Job
    BY <1>5 DEF QueueTypeOK, WorkerState, Located, Holding
  <2>2. worker' = [worker EXCEPT ![w] = r]
    BY <1>5 DEF QueueTypeOK, WorkerState
  <2> HIDE DEF r
  <2> QED
    BY <2>1, <2>2, WorkerMoves
<1>6. ASSUME NEW w \in Worker, HandlerEnds(w) PROVE QueueTypeOK' /\ Located'
  BY <1>5, <1>6 DEF HandlerEnds, QueueTypeOK
<1>7. ASSUME NEW w \in Worker, Complete(w) PROVE QueueTypeOK' /\ Located'
  <2>1. worker' \in [Worker -> WorkerState] /\ Located'
    BY <1>5, <1>7, IdleState, WorkerMoves DEF Complete, Idle
  <2>2. job' \in [Job -> JobRow]
    BY <1>7 DEF Complete, QueueTypeOK, JobRow
  <2> QED
    BY <2>1, <2>2 DEF QueueTypeOK
<1>8. ASSUME NEW w \in Worker, FailRead(w) PROVE QueueTypeOK' /\ Located'
  <2> DEFINE final == job[worker[w].job].attempts >= MaxAttempts
             r == [worker[w] EXCEPT !.pc = "write", !.final = final]
  <2>0. final \in BOOLEAN
    OBVIOUS
  <2>2. worker' = [worker EXCEPT ![w] = r] \/ worker' = [worker EXCEPT ![w] = Idle]
    BY <1>8 DEF FailRead
  <2> HIDE DEF final
  <2>1. r \in WorkerState /\ r.job \in Job
    BY <1>8, <2>0 DEF FailRead, QueueTypeOK, WorkerState, Located, Holding
  <2> HIDE DEF r
  <2>3. worker' \in [Worker -> WorkerState] /\ Located'
    BY <2>1, <2>2, IdleState, WorkerMoves DEF Idle
  <2> QED
    BY <1>8, <2>3 DEF FailRead, QueueTypeOK
<1>9. ASSUME NEW w \in Worker, FailWrite(w) PROVE QueueTypeOK' /\ Located'
  <2>1. worker' \in [Worker -> WorkerState] /\ Located'
    BY <1>9, IdleState, WorkerMoves DEF FailWrite, Idle
  <2> DEFINE j == worker[w].job
             s == IF worker[w].final THEN "FAILED" ELSE "RETRY"
             r == [job[j] EXCEPT !.status = s, !.owner = None, !.leased = FALSE]
  <2>3. j \in Job /\ s \in {"FAILED", "RETRY"} /\ job' = [job EXCEPT ![j] = r]
    BY <1>9 DEF FailWrite, Located, Holding
  <2> HIDE DEF j, s
  <2>4. r \in JobRow
    BY <2>3 DEF QueueTypeOK, JobRow
  <2> HIDE DEF r
  <2>2. job' \in [Job -> JobRow]
    BY <2>3, <2>4, RowMoves
  <2> QED
    BY <2>1, <2>2 DEF QueueTypeOK
<1>10. ASSUME NEW w \in Worker, Holding(w), worker' = [worker EXCEPT ![w].lost = TRUE],
              UNCHANGED job
       PROVE  QueueTypeOK' /\ Located'
  <2> DEFINE r == [worker[w] EXCEPT !.lost = TRUE]
  <2>1. r \in WorkerState /\ r.job \in Job
    BY <1>10 DEF QueueTypeOK, WorkerState, Located
  <2>2. worker' = [worker EXCEPT ![w] = r]
    BY <1>10 DEF QueueTypeOK, WorkerState
  <2> HIDE DEF r
  <2> QED
    BY <1>10, <2>1, <2>2, WorkerMoves DEF QueueTypeOK
<1>11. ASSUME NEW w \in Worker, Heartbeat(w) PROVE QueueTypeOK' /\ Located'
  <2>1. CASE job' = [job EXCEPT ![worker[w].job].leased = TRUE] /\ UNCHANGED worker
    <3>1. job' \in [Job -> JobRow]
      BY <2>1, ZenonT(60) DEF QueueTypeOK, JobRow
    <3> QED
      BY <2>1, <3>1 DEF QueueTypeOK, Located, Holding
  <2> QED
    BY <1>10, <1>11, <2>1 DEF Heartbeat
<1>12. ASSUME NEW w \in Worker, HeartbeatFails(w) PROVE QueueTypeOK' /\ Located'
  BY <1>10, <1>12 DEF HeartbeatFails
<1>13. ASSUME NEW w \in Worker, Crash(w) PROVE QueueTypeOK' /\ Located'
  BY <1>13, IdleState, WorkerMoves DEF Crash, QueueTypeOK, Idle
<1>14. CASE UNCHANGED queueVars
  BY <1>14 DEF queueVars, QueueTypeOK, Located, Holding
<1> QED
  BY <1>1, <1>2, <1>3, <1>4, <1>6, <1>7, <1>8, <1>9, <1>11, <1>12, <1>13, <1>14, QueueCases

(* Rows and local variables stay within their domains, for any number of    *)
(* jobs and workers: no job is claimed more than MaxAttempts times.         *)
THEOREM QueueTypeCorrect == QueueSpec => []QueueTypeOK
<1>1. QueueInit => QueueTypeOK /\ Located
  BY QueueTypeInit
<1>2. QueueTypeOK /\ Located /\ [QueueNext]_queueVars => (QueueTypeOK /\ Located)'
  BY QueueTypeStep
<1> QED
  BY <1>1, <1>2, PTL DEF QueueSpec

-----------------------------------------------------------------------------
(* A step that gives nobody a new run, and no row a new owner.  *)
RunKept(v) ==
  Holding(v)' => /\ Holding(v)
                 /\ worker'[v].job = worker[v].job
                 /\ worker'[v].attempt = worker[v].attempt

RowKept(j) ==
  /\ job'[j].attempts = job[j].attempts
  /\ job'[j].status = "RUNNING" => job[j].status = "RUNNING" /\ job'[j].owner = job[j].owner

LEMMA OwnerStep ==
  QueueTypeOK /\ Located /\ OwnerIsCurrent /\ [QueueNext]_queueVars => OwnerIsCurrent'
<1> SUFFICES ASSUME QueueTypeOK, Located, OwnerIsCurrent, [QueueNext]_queueVars
             PROVE  OwnerIsCurrent'
  OBVIOUS
<1> USE QueueAssumption
<1>1. ASSUME \A v \in Worker : RunKept(v),
             \A j \in Job : RowKept(j)
      PROVE  OwnerIsCurrent'
  <2>1. ASSUME NEW v \in Worker, Holding(v)', Owns(v)'
        PROVE  worker'[v].attempt = job'[worker'[v].job].attempts
    <3>1. /\ Holding(v) /\ worker[v].job \in Job /\ worker'[v].job = worker[v].job
          /\ worker'[v].attempt = worker[v].attempt
      BY <1>1, <2>1 DEF Located, RunKept
    <3>2. job'[worker[v].job].status = "RUNNING" /\ job'[worker[v].job].owner = v
      BY <2>1, <3>1 DEF Owns
    <3>3. /\ job[worker[v].job].status = "RUNNING" /\ job[worker[v].job].owner = v
          /\ job'[worker[v].job].attempts = job[worker[v].job].attempts
      BY <1>1, <3>1, <3>2 DEF RowKept
    <3>4. worker[v].attempt = job[worker[v].job].attempts
      BY <3>1, <3>3 DEF OwnerIsCurrent, Owns
    <3> QED
      BY <3>1, <3>3, <3>4
  <2> QED
    BY <2>1 DEF OwnerIsCurrent
<1>2. ASSUME UNCHANGED job PROVE \A j \in Job : RowKept(j)
  BY <1>2 DEF RowKept
<1>3. ASSUME NEW w \in Worker, NEW r \in WorkerState, worker' = [worker EXCEPT ![w] = r],
             r.pc \notin {"run", "complete", "fail", "write"}
               \/ (Holding(w) /\ r.job = worker[w].job /\ r.attempt = worker[w].attempt)
      PROVE  \A v \in Worker : RunKept(v)
  BY <1>3 DEF Holding, QueueTypeOK, RunKept
<1>4. ASSUME UNCHANGED worker
      PROVE  \A v \in Worker : RunKept(v)
  BY <1>4 DEF Holding, RunKept
<1>5. Idle \in WorkerState /\ Idle.pc \notin {"run", "complete", "fail", "write"}
  BY IdleState DEF Idle
<1>6. ASSUME NEW j \in Job, Enqueue(j) \/ LeaseExpires(j) PROVE OwnerIsCurrent'
  BY <1>1, <1>4, <1>6 DEF Enqueue, LeaseExpires, QueueTypeOK, JobRow, RowKept
<1>7. ASSUME NEW w \in Worker, BeginClaim(w) PROVE OwnerIsCurrent'
  <2> DEFINE r == [Idle EXCEPT !.pc = "claim", !.seen = job]
  <2>1. r \in WorkerState /\ r.pc = "claim"
    BY IdleState DEF QueueTypeOK, WorkerState, Idle
  <2>2. worker' = [worker EXCEPT ![w] = r]
    BY <1>7 DEF BeginClaim
  <2> HIDE DEF r
  <2> QED
    BY <1>1, <1>2, <1>3, <1>7, <2>1, <2>2 DEF BeginClaim
<1>8. ASSUME NEW w \in Worker, FinishClaim(w) PROVE OwnerIsCurrent'
  <2> DEFINE seen == worker[w].seen
  <2>1. ASSUME NEW i \in Job
        PROVE  /\ Swept(seen)[i].attempts = job[i].attempts
               /\ (Swept(seen)[i].status = "RUNNING" => Swept(seen)[i] = job[i])
    BY DEF Swept, QueueTypeOK, JobRow
  <2>2. CASE job' = Swept(seen) /\ worker' = [worker EXCEPT ![w] = Idle]
    BY <1>1, <1>3, <1>5, <2>1, <2>2 DEF RowKept
  <2>3. ASSUME NEW j \in Candidate(seen),
               job' = [Swept(seen) EXCEPT ![j] = Claimed(job[j], w)],
               worker' = [worker EXCEPT ![w] =
                  [Idle EXCEPT !.pc = "run", !.job = j, !.attempt = job[j].attempts + 1]]
        PROVE  OwnerIsCurrent'
    <3>1. j \in Job /\ DOMAIN Swept(seen) = Job
      BY DEF Candidate, Swept
    <3>2. /\ job'[j].attempts = job[j].attempts + 1 /\ job'[j].owner = w
          /\ \A i \in Job \ {j} : job'[i] = Swept(seen)[i]
      BY <2>3, <3>1 DEF Claimed
    <3>3. /\ worker'[w].job = j /\ worker'[w].attempt = job[j].attempts + 1
          /\ \A v \in Worker \ {w} : worker'[v] = worker[v]
      BY <2>3, IdleState DEF QueueTypeOK, Idle
    <3>4. ASSUME NEW v \in Worker, v # w, Holding(v)', Owns(v)'
          PROVE  worker'[v].attempt = job'[worker'[v].job].attempts
      <4>1. worker[v].job \in Job /\ Holding(v) /\ worker'[v] = worker[v]
        BY <3>3, <3>4 DEF Holding, Located
      <4>2. job'[worker[v].job].status = "RUNNING" /\ job'[worker[v].job].owner = v
        BY <3>4, <4>1 DEF Owns
      <4>3. job'[worker[v].job] = Swept(seen)[worker[v].job]
        BY <3>2, <3>4, <4>1, <4>2
      <4> HIDE DEF seen
      <4>4. /\ job[worker[v].job].status = "RUNNING" /\ job[worker[v].job].owner = v
            /\ job'[worker[v].job].attempts = job[worker[v].job].attempts
        BY <2>1, <4>1, <4>2, <4>3
      <4>5. worker[v].attempt = job[worker[v].job].attempts
        BY <4>1, <4>4 DEF OwnerIsCurrent, Owns
      <4> QED
        BY <4>1, <4>4, <4>5
    <3> QED
      BY <3>2, <3>3, <3>4 DEF OwnerIsCurrent
  <2> QED
    BY <1>8, <2>2, <2>3 DEF FinishClaim
<1>9. ASSUME NEW w \in Worker, HandlerEnds(w) PROVE OwnerIsCurrent'
  <2>1. \A v \in Worker : RunKept(v)
    <3>1. PICK pc \in {"complete", "fail"} : worker' = [worker EXCEPT ![w].pc = pc]
      BY <1>9 DEF HandlerEnds
    <3>2. worker'[w] = [worker[w] EXCEPT !.pc = pc] /\ \A v \in Worker \ {w} : worker'[v] = worker[v]
      BY <3>1 DEF QueueTypeOK
    <3>3. Holding(w) /\ worker[w] \in WorkerState
      BY <1>9 DEF HandlerEnds, Holding, QueueTypeOK
    <3>4. worker'[w].job = worker[w].job /\ worker'[w].attempt = worker[w].attempt
      BY <3>2, <3>3 DEF WorkerState
    <3> QED
      BY <3>2, <3>3, <3>4 DEF Holding, RunKept
  <2> QED
    BY <1>1, <1>2, <1>9, <2>1 DEF HandlerEnds
<1>10. ASSUME NEW w \in Worker, Complete(w) PROVE OwnerIsCurrent'
  <2>1. \A v \in Worker : RunKept(v)
    BY <1>10 DEF Complete, Holding, QueueTypeOK, WorkerState, Idle, RunKept
  <2>2. \A j \in Job : RowKept(j)
    BY <1>10 DEF Complete, QueueTypeOK, JobRow, RowKept
  <2> QED
    BY <1>1, <2>1, <2>2
<1>11. ASSUME NEW w \in Worker, FailRead(w) PROVE OwnerIsCurrent'
  <2>1. \A v \in Worker : RunKept(v)
    BY <1>11 DEF FailRead, Holding, QueueTypeOK, WorkerState, Idle, RunKept
  <2> QED
    BY <1>1, <1>2, <1>11, <2>1 DEF FailRead
<1>12. ASSUME NEW w \in Worker, FailWrite(w) PROVE OwnerIsCurrent'
  <2>1. \A j \in Job : RowKept(j)
    BY <1>12 DEF FailWrite, QueueTypeOK, JobRow, RowKept
  <2> QED
    BY <1>1, <1>3, <1>5, <1>12, <2>1 DEF FailWrite
<1>13. ASSUME NEW w \in Worker, Heartbeat(w) \/ HeartbeatFails(w) PROVE OwnerIsCurrent'
  <2>1. \A v \in Worker : RunKept(v)
    BY <1>13 DEF Heartbeat, HeartbeatFails, Holding, QueueTypeOK, WorkerState, RunKept
  <2>2. \A j \in Job : RowKept(j)
    BY <1>13 DEF Heartbeat, HeartbeatFails, QueueTypeOK, JobRow, RowKept
  <2> QED
    BY <1>1, <2>1, <2>2
<1>14. ASSUME NEW w \in Worker, Crash(w) PROVE OwnerIsCurrent'
  BY <1>1, <1>2, <1>3, <1>5, <1>14 DEF Crash
<1>15. CASE UNCHANGED queueVars
  BY <1>15 DEF queueVars, OwnerIsCurrent, Holding, Owns
<1> QED
  BY <1>6, <1>7, <1>8, <1>9, <1>10, <1>11, <1>12, <1>13, <1>14, <1>15, QueueCases

(* A worker that still owns its row runs the latest claim of it, whatever   *)
(* pauses, crashes and late heartbeats lie between: complete, which checks  *)
(* the owner only, cannot end a job for a run that was superseded.          *)
THEOREM OwnerCorrect == QueueSpec => []OwnerIsCurrent
<1>1. QueueInit => QueueTypeOK /\ Located /\ OwnerIsCurrent
  BY QueueTypeInit DEF QueueInit, OwnerIsCurrent, Holding, Idle
<1>2. QueueTypeOK /\ Located /\ OwnerIsCurrent /\ [QueueNext]_queueVars
        => (QueueTypeOK /\ Located /\ OwnerIsCurrent)'
  BY QueueTypeStep, OwnerStep
<1> QED
  BY <1>1, <1>2, PTL DEF QueueSpec

-----------------------------------------------------------------------------
(* A job that was never held beyond its lease.  *)

(* While a worker holds such a job the row is its own, leased or, when the  *)
(* acknowledgement of complete was lost, completed; what fail read of the   *)
(* attempts is still true when it writes.                                   *)
HeldRow(w) ==
  LET row == job[worker[w].job] IN
  Holding(w) /\ ~row.overrun =>
    /\ row.owner = w
    /\ Active(row) \/ (row.status = "COMPLETED" /\ worker[w].pc = "fail")
    /\ worker[w].pc = "write" => (worker[w].final <=> row.attempts >= MaxAttempts)

LeaseInv ==
  /\ \A w \in Worker : HeldRow(w)
  /\ \A j \in Job : job[j].status = "NONE" => job[j].attempts = 0
  /\ StrandedByOverrun

(* A row that no worker holds within its lease may change at will; a row    *)
(* that one does may not.                                                   *)
LEMMA HeldRowKept ==
  ASSUME NEW v \in Worker, HeldRow(v), worker'[v] = worker[v],
         Holding(v) => \/ job'[worker[v].job] = job[worker[v].job]
                       \/ job'[worker[v].job].overrun
                       \/ /\ job'[worker[v].job].overrun = job[worker[v].job].overrun
                          /\ ~(/\ job[worker[v].job].owner = v
                               /\ \/ Active(job[worker[v].job])
                                  \/ job[worker[v].job].status = "COMPLETED")
  PROVE  HeldRow(v)'
BY DEF HeldRow, Holding, Active

(* What a step may do to a row without taking its future.  *)
FutureKept(j) ==
  /\ job'[j].status = "NONE" => job[j].status = "NONE" /\ job'[j].attempts = job[j].attempts
  /\ \/ job'[j].status \notin {"PENDING", "RETRY"}
     \/ job'[j].attempts < MaxAttempts
     \/ job'[j].overrun
     \/ /\ job[j].status \in {"PENDING", "RETRY"}
        /\ job'[j].attempts = job[j].attempts /\ (job[j].overrun => job'[j].overrun)

LEMMA FutureStep ==
  ASSUME LeaseInv, \A j \in Job : FutureKept(j)
  PROVE  /\ \A j \in Job : job'[j].status = "NONE" => job'[j].attempts = 0
         /\ StrandedByOverrun'
<1>1. \A j \in Job : job'[j].status = "NONE" => job'[j].attempts = 0
  BY DEF LeaseInv, FutureKept
<1>2. ASSUME NEW j \in Job PROVE Claimable(j)' \/ job'[j].overrun
  BY DEF LeaseInv, StrandedByOverrun, FutureKept, Claimable
<1> QED
  BY <1>1, <1>2 DEF StrandedByOverrun

LEMMA LeaseStep ==
  QueueTypeOK /\ Located /\ LeaseInv /\ [QueueNext]_queueVars => LeaseInv'
<1> SUFFICES ASSUME QueueTypeOK, Located, LeaseInv, [QueueNext]_queueVars
             PROVE  LeaseInv'
  OBVIOUS
<1> USE QueueAssumption
<1>0. /\ \A v \in Worker : HeldRow(v) /\ (Holding(v) => worker[v].job \in Job)
      /\ \A j \in Job : job[j] \in JobRow /\ job[j].attempts \in Nat
  BY DEF LeaseInv, Located, QueueTypeOK, JobRow
<1>a. ASSUME \A v \in Worker : HeldRow(v)', \A j \in Job : FutureKept(j)
      PROVE  LeaseInv'
  BY <1>a, FutureStep DEF LeaseInv
<1>b. ASSUME UNCHANGED job
      PROVE  \A j \in Job : FutureKept(j)
  BY <1>b DEF FutureKept
<1>c. ASSUME NEW w \in Worker, ~Holding(w)'
      PROVE  HeldRow(w)'
  BY <1>c DEF HeldRow
<1>1. ASSUME NEW j \in Job, Enqueue(j) PROVE LeaseInv'
  <2>1. /\ job[j].status = "NONE" /\ job[j].attempts = 0 /\ job'[j].attempts = 0
        /\ job'[j].status = "PENDING" /\ job'[j].overrun = job[j].overrun
        /\ \A i \in Job \ {j} : job'[i] = job[i]
    BY <1>0, <1>1 DEF Enqueue, QueueTypeOK, JobRow, LeaseInv
  <2>2. \A i \in Job : FutureKept(i)
    BY <2>1 DEF FutureKept
  <2>3. ASSUME NEW v \in Worker PROVE HeldRow(v)'
    BY <1>0, <1>1, <2>1, HeldRowKept DEF Enqueue, Active
  <2> QED
    BY <1>a, <2>2, <2>3
<1>2. ASSUME NEW j \in Job, LeaseExpires(j) PROVE LeaseInv'
  <2>1. /\ job'[j].attempts = job[j].attempts /\ job'[j].status = job[j].status
        /\ job[j].overrun => job'[j].overrun
        /\ \A w \in Worker : Holding(w) /\ worker[w].job = j => job'[j].overrun
        /\ \A i \in Job \ {j} : job'[i] = job[i]
    BY <1>0, <1>2 DEF LeaseExpires, QueueTypeOK, JobRow
  <2>2. \A i \in Job : FutureKept(i)
    BY <1>0, <2>1 DEF FutureKept
  <2>3. ASSUME NEW v \in Worker PROVE HeldRow(v)'
    BY <1>0, <1>2, <2>1, HeldRowKept DEF LeaseExpires
  <2> QED
    BY <1>a, <2>2, <2>3
<1>3. ASSUME NEW w \in Worker, NEW r \in WorkerState, worker' = [worker EXCEPT ![w] = r],
             UNCHANGED job,
             \/ r.pc \notin {"run", "complete", "fail", "write"}
             \/ /\ Holding(w) /\ r.job = worker[w].job
                /\ worker[w].pc # "fail" \/ r.pc = "fail" \/ job[worker[w].job].status # "COMPLETED"
                /\ r.pc = "write" =>
                     \/ worker[w].pc = "write" /\ r.final = worker[w].final
                     \/ r.final <=> job[worker[w].job].attempts >= MaxAttempts
      PROVE  LeaseInv'
  <2>1. worker'[w] = r /\ \A v \in Worker \ {w} : worker'[v] = worker[v]
    BY <1>3 DEF QueueTypeOK
  <2>2. HeldRow(w)'
    BY <1>0, <1>3, <2>1 DEF HeldRow, Holding, Active
  <2>3. ASSUME NEW v \in Worker, v # w PROVE HeldRow(v)'
    BY <1>0, <1>3, <2>1, <2>3, HeldRowKept
  <2> QED
    BY <1>a, <1>b, <1>3, <2>2, <2>3
<1>4. Idle \in WorkerState /\ Idle.pc \notin {"run", "complete", "fail", "write"}
  BY IdleState DEF Idle
<1>5. ASSUME NEW w \in Worker, BeginClaim(w) PROVE LeaseInv'
  <2> DEFINE r == [Idle EXCEPT !.pc = "claim", !.seen = job]
  <2>1. r \in WorkerState /\ r.pc = "claim"
    BY IdleState DEF QueueTypeOK, WorkerState, Idle
  <2>2. worker' = [worker EXCEPT ![w] = r]
    BY <1>5 DEF BeginClaim
  <2> HIDE DEF r
  <2> QED
    BY <1>3, <1>5, <2>1, <2>2 DEF BeginClaim
(* A row that is swept or taken is held by no worker within its lease.       *)
<1>6. ASSUME NEW w \in Worker, FinishClaim(w) PROVE LeaseInv'
  <2> DEFINE seen == worker[w].seen
  <2>1. ASSUME NEW i \in Job
        PROVE  \/ Swept(seen)[i] = job[i]
               \/ /\ job[i].status = "RUNNING" /\ ~job[i].leased
                  /\ Swept(seen)[i].status = "FAILED" /\ Swept(seen)[i].overrun = job[i].overrun
    BY <1>0 DEF Swept, Spent, JobRow
  <2>2. CASE job' = Swept(seen) /\ worker' = [worker EXCEPT ![w] = Idle]
    <3>1. \A i \in Job : FutureKept(i)
      BY <2>1, <2>2 DEF FutureKept
    <3>2. HeldRow(w)'
      BY <1>4, <1>c, <2>2 DEF Holding, QueueTypeOK
    <3>3. ASSUME NEW v \in Worker, v # w PROVE HeldRow(v)'
      <4>1. worker'[v] = worker[v]
        BY <2>2, <3>3 DEF QueueTypeOK
      <4>2. Holding(v) => \/ job'[worker[v].job] = job[worker[v].job]
                          \/ /\ job'[worker[v].job].overrun = job[worker[v].job].overrun
                             /\ ~Active(job[worker[v].job])
                             /\ job[worker[v].job].status # "COMPLETED"
        BY <1>0, <2>1, <2>2 DEF Active
      <4> QED
        BY <1>0, <4>1, <4>2, HeldRowKept
    <3> QED
      BY <1>a, <3>1, <3>2, <3>3
  <2>3. ASSUME NEW j \in Candidate(seen),
               job' = [Swept(seen) EXCEPT ![j] = Claimed(job[j], w)],
               worker' = [worker EXCEPT ![w] =
                  [Idle EXCEPT !.pc = "run", !.job = j, !.attempt = job[j].attempts + 1]]
        PROVE  LeaseInv'
    <3>1. j \in Job /\ DOMAIN Swept(seen) = Job /\ Ready(job[j])
      BY DEF Candidate, Swept
    <3>2. /\ job'[j].status = "RUNNING" /\ job'[j].leased /\ job'[j].owner = w
          /\ job'[j].overrun = job[j].overrun
          /\ \A i \in Job \ {j} : job'[i] = Swept(seen)[i]
      BY <1>0, <2>3, <3>1 DEF Claimed, JobRow
    <3>3. /\ worker'[w].job = j /\ worker'[w].pc = "run"
          /\ \A v \in Worker \ {w} : worker'[v] = worker[v]
      BY <2>3, IdleState DEF QueueTypeOK, Idle
    <3>4. \A i \in Job : FutureKept(i)
      BY <2>1, <3>1, <3>2 DEF FutureKept
    <3>5. HeldRow(w)'
      BY <3>2, <3>3 DEF HeldRow, Active
    <3>6. ASSUME NEW v \in Worker, v # w PROVE HeldRow(v)'
      <4>1. ~Active(job[j]) /\ job[j].status # "COMPLETED"
        BY <3>1 DEF Ready, Active
      <4>2. Holding(v) => \/ job'[worker[v].job] = job[worker[v].job]
                          \/ /\ job'[worker[v].job].overrun = job[worker[v].job].overrun
                             /\ ~Active(job[worker[v].job])
                             /\ job[worker[v].job].status # "COMPLETED"
        BY <1>0, <2>1, <3>2, <4>1 DEF Active
      <4> QED
        BY <1>0, <3>3, <3>6, <4>2, HeldRowKept
    <3> QED
      BY <1>a, <3>4, <3>5, <3>6
  <2> QED
    BY <1>6, <2>2, <2>3 DEF FinishClaim
<1>7. ASSUME NEW w \in Worker, HandlerEnds(w) PROVE LeaseInv'
  <2>1. PICK pc \in {"complete", "fail"} : worker' = [worker EXCEPT ![w].pc = pc]
    BY <1>7 DEF HandlerEnds
  <2> DEFINE r == [worker[w] EXCEPT !.pc = pc]
  <2>2. worker[w] \in WorkerState /\ worker[w].pc = "run" /\ Holding(w)
    BY <1>7 DEF HandlerEnds, Holding, QueueTypeOK
  <2>3. r \in WorkerState /\ r.pc = pc /\ r.job = worker[w].job
    BY <2>2 DEF WorkerState
  <2>4. worker' = [worker EXCEPT ![w] = r]
    BY <2>1
  <2> HIDE DEF r
  <2> QED
    BY <1>3, <1>7, <2>2, <2>3, <2>4 DEF HandlerEnds
(* A write of w to the row of its job: any other holder has outlived its     *)
(* lease on it.                                                              *)
<1>8. ASSUME NEW w \in Worker, Holding(w),
             job[worker[w].job].owner = w \/ job[worker[w].job].overrun
                \/ job'[worker[w].job].overrun,
             job'[worker[w].job].overrun = job[worker[w].job].overrun,
             \A i \in Job \ {worker[w].job} : job'[i] = job[i],
             NEW v \in Worker, v # w, worker'[v] = worker[v]
      PROVE  HeldRow(v)'
  BY <1>0, <1>8, HeldRowKept
<1>9. ASSUME NEW w \in Worker, Complete(w) PROVE LeaseInv'
  <2>1. worker[w] \in WorkerState /\ worker[w].pc = "complete" /\ worker[w].job \in Job
        /\ Holding(w)
    BY <1>0, <1>9 DEF Complete, Holding, QueueTypeOK
  <2>2. CASE UNCHANGED job /\ worker' = [worker EXCEPT ![w].pc = "fail"]
    <3> DEFINE r == [worker[w] EXCEPT !.pc = "fail"]
    <3>1. r \in WorkerState /\ r.pc = "fail" /\ r.job = worker[w].job
      BY <2>1 DEF WorkerState
    <3>2. worker' = [worker EXCEPT ![w] = r]
      BY <2>2
    <3> HIDE DEF r
    <3> QED
      BY <1>3, <2>1, <2>2, <3>1, <3>2
  <2>3. CASE /\ Owns(w)
             /\ job' = [job EXCEPT ![worker[w].job].status = "COMPLETED",
                                   ![worker[w].job].leased = FALSE]
             /\ worker' \in {[worker EXCEPT ![w] = Idle], [worker EXCEPT ![w].pc = "fail"]}
    <3>1. /\ job'[worker[w].job].status = "COMPLETED" /\ job'[worker[w].job].owner = w
          /\ job'[worker[w].job].overrun = job[worker[w].job].overrun
          /\ job[worker[w].job].owner = w
          /\ \A i \in Job \ {worker[w].job} : job'[i] = job[i]
      BY <1>0, <2>1, <2>3 DEF Owns, QueueTypeOK, JobRow
    <3>2. /\ \A v \in Worker \ {w} : worker'[v] = worker[v]
          /\ \/ ~Holding(w)'
             \/ worker'[w].pc = "fail" /\ worker'[w].job = worker[w].job
      BY <1>4, <2>1, <2>3 DEF QueueTypeOK, WorkerState, Holding
    <3>3. \A i \in Job : FutureKept(i)
      BY <1>0, <2>1, <3>1 DEF FutureKept
    <3>4. HeldRow(w)'
      BY <3>1, <3>2 DEF HeldRow
    <3>5. ASSUME NEW v \in Worker, v # w PROVE HeldRow(v)'
      BY <1>8, <2>1, <3>1, <3>2, <3>5
    <3> QED
      BY <1>a, <3>3, <3>4, <3>5
  <2> QED
    BY <1>9, <2>2, <2>3 DEF Complete
<1>10. ASSUME NEW w \in Worker, FailRead(w) PROVE LeaseInv'
  <2>0. PICK f \in BOOLEAN : f <=> job[worker[w].job].attempts >= MaxAttempts
    OBVIOUS
  <2> DEFINE r == [worker[w] EXCEPT !.pc = "write", !.final = f]
  <2>1. worker[w] \in WorkerState /\ worker[w].pc = "fail" /\ Holding(w)
    BY <1>10 DEF FailRead, Holding, QueueTypeOK
  <2>2. r \in WorkerState /\ r.pc = "write" /\ r.job = worker[w].job /\ r.final = f
    BY <2>1 DEF WorkerState
  <2>3. CASE Owns(w)
    <3>1. f = (job[worker[w].job].attempts >= MaxAttempts)
      BY <2>0
    <3>2. worker' = [worker EXCEPT ![w] = r]
      BY <1>10, <2>3, <3>1 DEF FailRead
    <3> HIDE DEF r
    <3> QED
      BY <1>3, <1>10, <2>0, <2>1, <2>2, <2>3, <3>2 DEF FailRead, Owns
  <2>4. CASE ~Owns(w)
    BY <1>3, <1>4, <1>10, <2>4 DEF FailRead
  <2> QED
    BY <2>3, <2>4
<1>11. ASSUME NEW w \in Worker, FailWrite(w) PROVE LeaseInv'
  <2>1. /\ worker[w].pc = "write" /\ worker[w].job \in Job /\ Holding(w)
        /\ ~Holding(w)' /\ \A v \in Worker \ {w} : worker'[v] = worker[v]
    BY <1>0, <1>4, <1>11 DEF FailWrite, Holding, QueueTypeOK
  <2>2. /\ job'[worker[w].job].status = IF worker[w].final THEN "FAILED" ELSE "RETRY"
        /\ job'[worker[w].job].attempts = job[worker[w].job].attempts
        /\ job'[worker[w].job].overrun = job[worker[w].job].overrun
        /\ \A i \in Job \ {worker[w].job} : job'[i] = job[i]
    BY <1>0, <1>11, <2>1 DEF FailWrite, QueueTypeOK, JobRow
  <2>3. \/ job[worker[w].job].overrun
        \/ /\ job[worker[w].job].owner = w
           /\ worker[w].final <=> job[worker[w].job].attempts >= MaxAttempts
    BY <1>0, <2>1 DEF HeldRow
  <2>4. \A i \in Job : FutureKept(i)
    <3>1. FutureKept(worker[w].job)
      BY <1>0, <2>1, <2>2, <2>3 DEF FutureKept
    <3>2. \A i \in Job \ {worker[w].job} : FutureKept(i)
      BY <2>2 DEF FutureKept
    <3> QED
      BY <2>1, <3>1, <3>2
  <2>5. ASSUME NEW v \in Worker, v # w PROVE HeldRow(v)'
    BY <1>8, <2>1, <2>2, <2>3, <2>5
  <2> QED
    BY <1>a, <1>c, <2>1, <2>4, <2>5
<1>12. ASSUME NEW w \in Worker, Holding(w), worker' = [worker EXCEPT ![w].lost = TRUE],
              UNCHANGED job
       PROVE  LeaseInv'
  <2> DEFINE r == [worker[w] EXCEPT !.lost = TRUE]
  <2>1. worker[w] \in WorkerState
    BY DEF QueueTypeOK
  <2>2. /\ r \in WorkerState /\ r.pc = worker[w].pc /\ r.job = worker[w].job
        /\ r.final = worker[w].final
    BY <2>1 DEF WorkerState
  <2>3. worker' = [worker EXCEPT ![w] = r]
    BY <1>12
  <2> HIDE DEF r
  <2> QED
    BY <1>3, <1>12, <2>2, <2>3
<1>13. ASSUME NEW w \in Worker, Heartbeat(w) \/ HeartbeatFails(w) PROVE LeaseInv'
  <2>1. CASE /\ Owns(w) /\ Holding(w) /\ UNCHANGED worker
             /\ job' = [job EXCEPT ![worker[w].job].leased = TRUE]
    <3>1. /\ worker[w].job \in Job /\ job[worker[w].job].owner = w
          /\ job'[worker[w].job] = [job[worker[w].job] EXCEPT !.leased = TRUE]
          /\ job[worker[w].job] \in JobRow /\ job[worker[w].job].status = "RUNNING"
          /\ \A i \in Job \ {worker[w].job} : job'[i] = job[i]
      BY <1>0, <2>1 DEF Owns, QueueTypeOK
    <3>2. /\ job'[worker[w].job].owner = w
          /\ job'[worker[w].job].status = "RUNNING" /\ job'[worker[w].job].leased
          /\ job'[worker[w].job].attempts = job[worker[w].job].attempts
          /\ job'[worker[w].job].overrun = job[worker[w].job].overrun
      BY <3>1 DEF JobRow
    <3>3. \A i \in Job : FutureKept(i)
      BY <3>1, <3>2 DEF FutureKept
    <3>4. HeldRow(w)'
      BY <1>0, <2>1, <3>2 DEF HeldRow, Active, Holding
    <3>5. ASSUME NEW v \in Worker, v # w PROVE HeldRow(v)'
      BY <1>8, <2>1, <3>1, <3>2, <3>5
    <3> QED
      BY <1>a, <3>3, <3>4, <3>5
  <2> QED
    BY <1>12, <1>13, <2>1 DEF Heartbeat, HeartbeatFails
<1>14. ASSUME NEW w \in Worker, Crash(w) PROVE LeaseInv'
  BY <1>3, <1>4, <1>14 DEF Crash
<1>15. CASE UNCHANGED queueVars
  BY <1>15 DEF queueVars, LeaseInv, HeldRow, Holding, Active, StrandedByOverrun, Claimable
<1> QED
  BY <1>1, <1>2, <1>5, <1>6, <1>7, <1>9, <1>10, <1>11, <1>13, <1>14, <1>15, QueueCases

LEMMA LeaseInvCorrect == QueueSpec => [](Located /\ LeaseInv)
<1> DEFINE LInv == QueueTypeOK /\ Located /\ LeaseInv
<1>1. QueueInit => LInv
  BY QueueTypeInit DEF QueueInit, LeaseInv, HeldRow, Holding, Idle, NewRow, StrandedByOverrun, Claimable
<1>2. LInv /\ [QueueNext]_queueVars => LInv'
  BY QueueTypeStep, LeaseStep
<1>3. LInv => Located /\ LeaseInv
  OBVIOUS
<1> HIDE DEF LInv
<1> QED
  BY <1>1, <1>2, <1>3, PTL DEF QueueSpec

(* Two workers run one job only when a worker held it beyond its lease: the *)
(* claim, the crash of an owner, a lost acknowledgement and a late write of *)
(* fail do not bring a second run about.                                    *)
THEOREM OneRunnerCorrect == QueueSpec => []OneRunner
<1>1. LeaseInv => OneRunner
  BY DEF LeaseInv, HeldRow, OneRunner
<1> QED
  BY <1>1, LeaseInvCorrect, PTL

(* A job that waits to be claimed still has an attempt left, unless a       *)
(* worker held it beyond its lease.                                         *)
THEOREM StrandedCorrect == QueueSpec => []StrandedByOverrun
<1>1. LeaseInv => StrandedByOverrun
  BY DEF LeaseInv
<1> QED
  BY <1>1, LeaseInvCorrect, PTL
=============================================================================
