------------------------------- MODULE JobQueue -------------------------------
(***************************************************************************)
(* BackgroundJobsService over the table background_jobs, and the workers   *)
(* of PlatformWorkerService that claim a job, run its handler under a      *)
(* lease kept alive by heartbeats, and complete or fail it.                *)
(*                                                                         *)
(* A row's lease is the flag leased: lease_expires_at lies in the future.  *)
(* The clock lowers it.  Backoff delays are taken to have passed whenever  *)
(* a retried job is looked at, and a claim takes any of the jobs it may    *)
(* take: the order of priority and age is left open.                       *)
(*                                                                         *)
(* Heartbeats come every third of a lease, so that a lease outlives all    *)
(* but a worker that is paused or cut off for that long.  The history      *)
(* field overrun marks the jobs to which that has happened; most           *)
(* properties are about the others.                                        *)
(***************************************************************************)
EXTENDS Integers, FiniteSets

CONSTANTS
  Job,                  \* (organization, idempotency key) of each job
  Tenant,               \* organizations
  TenantOf,             \* organization of a job, None for a platform job
  Worker,               \* worker ids, one process each
  MaxAttempts,          \* max_attempts of every job
  GlobalConcurrency, PerTenantConcurrency,
  None                  \* no value: NULL

ASSUME QueueAssumption ==
  /\ TenantOf \in [Job -> Tenant \cup {None}]
  /\ MaxAttempts \in Nat \ {0}
  /\ GlobalConcurrency \in Nat \ {0} /\ PerTenantConcurrency \in Nat \ {0}
  /\ None \notin Job \cup Tenant \cup Worker

VARIABLES
  job,          \* background_jobs
  worker        \* local state of each worker

queueVars == <<job, worker>>

-----------------------------------------------------------------------------
JobRow ==
  [status : {"NONE", "PENDING", "RUNNING", "RETRY", "COMPLETED", "FAILED"},
   attempts : 0..MaxAttempts, owner : Worker \cup {None}, leased : BOOLEAN,
   overrun : BOOLEAN]     \* a lease expired in the hands of a live worker

NewRow == [status |-> "NONE", attempts |-> 0, owner |-> None, leased |-> FALSE,
           overrun |-> FALSE]

(* seen is the snapshot of a claim statement; attempt the value of attempts *)
(* its claim wrote (history); lost a heartbeat that was refused; final what *)
(* fail computed from the row it read.                                      *)
WorkerState ==
  [pc : {"idle", "claim", "run", "complete", "fail", "write"},
   job : Job \cup {None}, seen : [Job -> JobRow], attempt : 0..MaxAttempts,
   lost : BOOLEAN, final : BOOLEAN]

Idle == [pc |-> "idle", job |-> None, seen |-> [j \in Job |-> NewRow],
         attempt |-> 0, lost |-> FALSE, final |-> FALSE]

Holding(w) == worker[w].pc \in {"run", "complete", "fail", "write"}

(* WHERE id = .. AND status = 'RUNNING' AND lease_owner = ..  *)
Owns(w) == job[worker[w].job].status = "RUNNING" /\ job[worker[w].job].owner = w

-----------------------------------------------------------------------------
(* enqueue of a new key; a key that exists returns its row, or a conflict   *)
(* when type or payload differ.                                             *)
Enqueue(j) ==
  /\ job[j].status = "NONE"
  /\ job' = [job EXCEPT ![j].status = "PENDING"]
  /\ UNCHANGED worker

(* Mutant: attempts are not limited.  *)
ReadyAlways(row) == row.status \in {"PENDING", "RETRY"} \/ (row.status = "RUNNING" /\ ~row.leased)

(* The three conditions of the claim statement.  *)
Active(row) == row.status = "RUNNING" /\ row.leased
Spent(row)  == row.status = "RUNNING" /\ ~row.leased /\ row.attempts >= MaxAttempts
Ready(row)  == /\ row.status \in {"PENDING", "RETRY"} \/ (row.status = "RUNNING" /\ ~row.leased)
               /\ row.attempts < MaxAttempts

(* Room for job j below both caps, counted in rows.  *)
HasRoom(rows, j) ==
  /\ Cardinality({i \in Job : Active(rows[i])}) < GlobalConcurrency
  /\ TenantOf[j] # None =>
       Cardinality({i \in Job : TenantOf[i] = TenantOf[j] /\ Active(rows[i])})
         < PerTenantConcurrency

(* claimNext is one statement under READ COMMITTED: its snapshot is taken   *)
(* when it starts, before it waits for the advisory lock inside it.         *)
BeginClaim(w) ==
  /\ worker[w].pc = "idle"
  /\ worker' = [worker EXCEPT ![w] = [Idle EXCEPT !.pc = "claim", !.seen = job]]
  /\ UNCHANGED job

(* Mutant: jobs that used up their attempts in a crash are left RUNNING.  *)
NotSwept(seen) == job

(* The rows after jobs whose last attempt lost its lease were failed.  *)
Swept(seen) ==
  [j \in Job |-> IF Spent(seen[j]) /\ Spent(job[j])
                 THEN [job[j] EXCEPT !.status = "FAILED", !.owner = None]
                 ELSE job[j]]

(* Mutant: a candidate of the snapshot is not checked again as it is now.  *)
StaleCandidate(seen) == {j \in Job : Ready(seen[j]) /\ HasRoom(seen, j)}

(* Counts come from the snapshot; a row that is taken was in the snapshot   *)
(* and is checked again as it is now (FOR UPDATE SKIP LOCKED).              *)
Candidate(seen) == {j \in Job : Ready(seen[j]) /\ HasRoom(seen, j) /\ Ready(job[j])}

(* Mutant: lease_owner is set like started_at, only when it is NULL.  *)
ClaimedByFirst(row, w) ==
  [row EXCEPT !.status = "RUNNING", !.attempts = @ + 1, !.leased = TRUE,
              !.owner = IF @ = None THEN w ELSE @]

Claimed(row, w) ==
  [row EXCEPT !.status = "RUNNING", !.attempts = @ + 1, !.leased = TRUE, !.owner = w]

(* The rest of the statement, which the lock serializes.  *)
FinishClaim(w) ==
  LET seen == worker[w].seen IN
  /\ worker[w].pc = "claim"
  /\ \/ /\ Candidate(seen) = {}
        /\ job' = Swept(seen)
        /\ worker' = [worker EXCEPT ![w] = Idle]
     \/ \E j \in Candidate(seen) :
          /\ job' = [Swept(seen) EXCEPT ![j] = Claimed(job[j], w)]
          /\ worker' = [worker EXCEPT ![w] =
               [Idle EXCEPT !.pc = "run", !.job = j, !.attempt = job[j].attempts + 1]]

(* heartbeat, until the interval is cleared: it renews the lease, even an   *)
(* expired one, or is refused.                                              *)
Heartbeat(w) ==
  /\ Holding(w)
  /\ IF Owns(w)
     THEN job' = [job EXCEPT ![worker[w].job].leased = TRUE] /\ UNCHANGED worker
     ELSE worker' = [worker EXCEPT ![w].lost = TRUE] /\ UNCHANGED job

(* A heartbeat that the database did not answer.  *)
HeartbeatFails(w) ==
  /\ Holding(w)
  /\ worker' = [worker EXCEPT ![w].lost = TRUE]
  /\ UNCHANGED job

(* The handler returns, or throws; a heartbeat error counts as a throw.  *)
HandlerEnds(w) ==
  /\ worker[w].pc = "run"
  /\ \/ ~worker[w].lost /\ worker' = [worker EXCEPT ![w].pc = "complete"]
     \/ worker' = [worker EXCEPT ![w].pc = "fail"]
  /\ UNCHANGED job

(* complete: one conditional UPDATE; refused or unanswered, it ends in the  *)
(* catch block, also when it was committed.                                 *)
Complete(w) ==
  /\ worker[w].pc = "complete"
  /\ \/ /\ Owns(w)
        /\ job' = [job EXCEPT ![worker[w].job].status = "COMPLETED",
                              ![worker[w].job].leased = FALSE]
        /\ worker' \in {[worker EXCEPT ![w] = Idle], [worker EXCEPT ![w].pc = "fail"]}
     \/ /\ UNCHANGED job
        /\ worker' = [worker EXCEPT ![w].pc = "fail"]

(* fail reads the row by its owner, or throws JOB_LEASE_LOST ...  *)
FailRead(w) ==
  /\ worker[w].pc = "fail"
  /\ worker' = [worker EXCEPT ![w] =
       IF Owns(w) THEN [@ EXCEPT !.pc = "write",
                                 !.final = job[worker[w].job].attempts >= MaxAttempts]
       ELSE Idle]
  /\ UNCHANGED job

(* Mutant: a job is retried however often it failed.  *)
FailWriteRetry(w) ==
  /\ worker[w].pc = "write"
  /\ job' = [job EXCEPT ![worker[w].job] =
       [@ EXCEPT !.status = "RETRY", !.owner = None, !.leased = FALSE]]
  /\ worker' = [worker EXCEPT ![w] = Idle]

(* ... and then writes it by its id alone.  *)
FailWrite(w) ==
  /\ worker[w].pc = "write"
  /\ job' = [job EXCEPT ![worker[w].job] =
       [@ EXCEPT !.status = IF worker[w].final THEN "FAILED" ELSE "RETRY",
                 !.owner = None, !.leased = FALSE]]
  /\ worker' = [worker EXCEPT ![w] = Idle]

(* The process dies while it holds a job, and is started again.  *)
Crash(w) ==
  /\ Holding(w)
  /\ worker' = [worker EXCEPT ![w] = Idle]
  /\ UNCHANGED job

(* The clock passes lease_expires_at: the owner died, or was paused, or cut *)
(* off from the database, for longer than its lease.                        *)
LeaseExpires(j) ==
  /\ Active(job[j])
  /\ job' = [job EXCEPT ![j].leased = FALSE,
                        ![j].overrun = @ \/ \E w \in Worker : Holding(w) /\ worker[w].job = j]
  /\ UNCHANGED worker

-----------------------------------------------------------------------------
QueueInit ==
  /\ job = [j \in Job |-> NewRow]
  /\ worker = [w \in Worker |-> Idle]

RunStep(w) == HandlerEnds(w) \/ Complete(w) \/ FailRead(w) \/ FailWrite(w)

ClaimStep(w) == BeginClaim(w) \/ FinishClaim(w)

QueueNext ==
  \/ \E j \in Job : Enqueue(j) \/ LeaseExpires(j)
  \/ \E w \in Worker : \/ ClaimStep(w) \/ RunStep(w)
                       \/ Heartbeat(w) \/ HeartbeatFails(w) \/ Crash(w)

(* Workers are kept running, every handler ends, and time passes.  *)
QueueFairness ==
  /\ \A w \in Worker : WF_queueVars(ClaimStep(w)) /\ WF_queueVars(RunStep(w))
  /\ \A j \in Job : WF_queueVars(LeaseExpires(j))

QueueSpec == QueueInit /\ [][QueueNext]_queueVars

FairQueueSpec == QueueSpec /\ QueueFairness

-----------------------------------------------------------------------------
(* Every column and every local variable holds a value of its domain.  *)
QueueTypeOK == job \in [Job -> JobRow] /\ worker \in [Worker -> WorkerState]

(* The run of a worker that still owns its row is the latest claim of that  *)
(* row: a run that was superseded cannot complete the job.                  *)
OwnerIsCurrent ==
  \A w \in Worker : Holding(w) /\ Owns(w) => worker[w].attempt = job[worker[w].job].attempts

(* A job has a future until it ends: one that waits can still be claimed.   *)
Claimable(j) == job[j].status \in {"PENDING", "RETRY"} => job[j].attempts < MaxAttempts

(* Only a worker that outlived its lease can leave a job without a future.  *)
StrandedByOverrun == \A j \in Job : Claimable(j) \/ job[j].overrun

(* At most one worker runs a job that no worker held beyond its lease.  *)
OneRunner ==
  \A v, w \in Worker :
    Holding(v) /\ Holding(w) /\ worker[v].job = worker[w].job =>
      v = w \/ job[worker[v].job].overrun

(* Every job that was enqueued is completed or given up, whatever dies in   *)
(* between, unless a worker outlives its lease on it.                       *)
JobsEnd ==
  \A j \in Job :
    job[j].status = "PENDING" ~> job[j].status \in {"COMPLETED", "FAILED"} \/ job[j].overrun
=============================================================================
