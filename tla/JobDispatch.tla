----------------------------- MODULE JobDispatch -----------------------------
(***************************************************************************)
(* Who runs which job: the worker processes (worker/main.py), the runner   *)
(* of one job (worker/runner.py), the administrator's pins                 *)
(* (services/pins.py, pin_job and unpin_job of api/jobs.py), and the jobs  *)
(* table, over the Redis queue of JobQueue.                                *)
(*                                                                         *)
(* An asyncio task that executes _run_job is a record task[t]: where it    *)
(* is (pc), the worker process it lives in, its job, the status it will    *)
(* write or return (outcome; "none" until something decides it) and its    *)
(* signal watcher.  Every await on Redis or the database ends an action.   *)
(* Items, results and bills are not here: work is one state, in which the  *)
(* dispatch loop, the watcher and the biller run side by side.             *)
(***************************************************************************)
EXTENDS JobQueue

CONSTANTS
    Workers,        \* worker processes; a restarted one has a new id
    NoWorker,
    Tasks,          \* identities for the _run_job tasks alive at one time
    NoJob,
    ModelOf,        \* job_model_names: job -> real model name, or NoModel
    Capacity,       \* worker_max_concurrent_jobs
    FailingJobs,    \* jobs whose model, input or execution may turn out bad
    BilledJobs,     \* jobs billed separately: a charge may be rejected
    MaxLost,        \* bound: worker processes that crash or are stopped
    CrashPcs,       \* where in its life a task may be when its worker dies
                    \* or, its running jobs being done, exits
    FaultKinds,     \* which of "release", "handover", "runner", "stall" and,
                    \* in JobControl, "request" and "slow" may happen
    MaxFaults,      \* bound: how many of them
    MaxPins         \* bound: pin_job calls

ASSUME ModelOfType == ModelOf \in [Jobs -> Models \cup {NoModel}]
ASSUME NullsAreNew == NoWorker \notin Workers /\ NoJob \notin Jobs

VARIABLES
    status,     \* jobs.status
    pinned,     \* jobs.pinned
    workerId,   \* jobs.worker_id
    mode,       \* worker -> up, draining (asked to stop), gone
    running,    \* worker -> Worker.running, the keys
    beat,       \* worker -> jobs its heartbeat round has still to renew
    scanning,   \* workers inside _claim
    seenPins,   \* worker -> pinned_models as read at the start of _claim
    task,
    admin,      \* the pin_job request in progress
    pinOps, faults,
    req, requests   \* the users' requests: JobControl's, no step here touches them

dbVars == <<status, pinned, workerId>>
workerVars == <<mode, running, beat, scanning, seenPins>>
workerRest == <<mode, beat, scanning, seenPins>>
controlVars == <<req, requests>>
rest == <<pinOps, faults, req, requests>>
vars == <<queueVars, dbVars, workerVars, task, admin, rest>>

JobStatus == {"queued", "running", "paused", "succeeded", "completed",
              "failed", "canceled", "deleted"}
Terminal == {"succeeded", "completed", "failed", "canceled"}
PinBlockingStatuses == {"queued", "running"}

(* A task holds its job from the claim to the release of the lease; after  *)
(* the release, a job that yielded to a pinned one is handed over.         *)
HeldPcs == {"load", "check", "yield", "prepare", "work", "final", "clear", "release"}
HandoverPcs == {"handover", "settle", "land", "landed", "unsignal", "enqueue"}

TaskType == [pc : HeldPcs \cup HandoverPcs \cup {"idle"},
             host : Workers \cup {NoWorker},
             job : Jobs \cup {NoJob},
             outcome : JobStatus \cup {"none"},
             watch : {"sleep", "requeue", "stale", "off"}]

IdleTask == [pc |-> "idle", host |-> NoWorker, job |-> NoJob,
             outcome |-> "none", watch |-> "sleep"]
IdleAdmin == [pc |-> "idle", job |-> NoJob, pins |-> FALSE, preempts |-> FALSE, todo |-> {}]

AdminType == [pc : {"idle", "commit", "scan", "registered", "walk", "signal"},
              job : Jobs \cup {NoJob}, pins : BOOLEAN, preempts : BOOLEAN, todo : SUBSET Jobs]

Engaged(t) == task[t].pc # "idle"
Held(t) == task[t].pc \in HeldPcs

TypeOK ==
    /\ QueueTypeOK
    /\ status \in [Jobs -> JobStatus]
    /\ pinned \in [Jobs -> BOOLEAN]
    /\ workerId \in [Jobs -> Workers \cup {NoWorker}]
    /\ mode \in [Workers -> {"up", "draining", "gone"}]
    /\ running \in [Workers -> SUBSET Jobs]
    /\ beat \in [Workers -> SUBSET Jobs]
    /\ scanning \subseteq Workers
    /\ seenPins \in [Workers -> SUBSET Jobs]
    /\ task \in [Tasks -> TaskType]
    /\ admin \in AdminType
    /\ pinOps \in Nat /\ faults \in Nat

(* Every job has just been created and queued.                             *)
DispatchInit ==
    /\ queue = Jobs
    /\ lease = [j \in Jobs |-> "none"]
    /\ jobModel = [j \in Jobs |-> NoModel]
    /\ modelRunning = [m \in Models |-> {}]
    /\ ctrl = [j \in Jobs |-> "none"]
    /\ status = [j \in Jobs |-> "queued"]
    /\ pinned = [j \in Jobs |-> FALSE]
    /\ workerId = [j \in Jobs |-> NoWorker]
    /\ mode = [w \in Workers |-> "up"]
    /\ running = [w \in Workers |-> {}]
    /\ beat = [w \in Workers |-> {}]
    /\ scanning = {}
    /\ seenPins = [w \in Workers |-> {}]
    /\ task = [t \in Tasks |-> IdleTask]
    /\ admin = IdleAdmin
    /\ pinOps = 0 /\ faults = 0

(* ... and, in this module, nobody asks anything of it.                    *)
Init == DispatchInit /\ req = <<>> /\ requests = 0

-----------------------------------------------------------------------------
(* pins.py: the pinned jobs that occupy their models.                      *)
PinHolders == {k \in Jobs : pinned[k] /\ status[k] \in PinBlockingStatuses}

BlockedBy(pins, j) ==
    /\ ModelOf[j] # NoModel
    /\ j \notin pins
    /\ \E k \in pins : ModelOf[k] = ModelOf[j]

BlockedByPin(j) == BlockedBy(PinHolders, j)

-----------------------------------------------------------------------------
(* Worker._claim: pins are read once, then the candidates are tried one by *)
(* one.  Which candidate comes first depends on the order of the queue;    *)
(* here it may be any job of the queue.                                    *)
StartScan(w) ==
    /\ mode[w] = "up"
    /\ w \notin scanning
    /\ Cardinality(running[w]) < Capacity
    /\ queue # {}
    /\ scanning' = scanning \cup {w}
    /\ seenPins' = [seenPins EXCEPT ![w] = PinHolders]
    /\ UNCHANGED <<queueVars, dbVars, mode, running, beat, task, admin, rest>>

LeaveScan(w) ==
    /\ scanning' = scanning \ {w}
    /\ seenPins' = [seenPins EXCEPT ![w] = {}]

Claim(w, t, j) ==
    /\ w \in scanning
    /\ task[t] = IdleTask
    /\ ~BlockedBy(seenPins[w], j)
    /\ ClaimJob(j, ModelOf[j])
    /\ task' = [task EXCEPT ![t] = [IdleTask EXCEPT !.pc = "load", !.host = w, !.job = j]]
    /\ running' = [running EXCEPT ![w] = @ \cup {j}]
    /\ LeaveScan(w)
    /\ UNCHANGED <<dbVars, mode, beat, admin, rest>>

ClaimRefused(w, j) ==
    /\ w \in scanning
    /\ ~BlockedBy(seenPins[w], j)
    /\ ClaimBlocked(j, ModelOf[j])
    /\ UNCHANGED <<dbVars, workerVars, task, admin, rest>>

(* Every candidate was pinned away, over its model's limit or gone.        *)
NothingToClaim(w) ==
    /\ w \in scanning
    /\ \A j \in queue :
          \/ BlockedBy(seenPins[w], j)
          \/ ModelOf[j] # NoModel /\ ~HasRoom(ModelOf[j])
    /\ LeaveScan(w)
    /\ UNCHANGED <<queueVars, dbVars, mode, running, beat, task, admin, rest>>

-----------------------------------------------------------------------------
(* JobRunner.run.  Frames: a step of a task that touches only the task;    *)
(* one that also touches the jobs table; one that only speaks to Redis.    *)
Become(t, p) == task' = [task EXCEPT ![t].pc = p]
BecomeWith(t, p, o) == task' = [task EXCEPT ![t].pc = p, ![t].outcome = o, ![t].watch = "off"]
Idle(t) == task' = [task EXCEPT ![t] = IdleTask]

TaskOnly == UNCHANGED <<queueVars, dbVars, workerVars, admin, rest>>
DbOnly == UNCHANGED <<queueVars, workerVars, admin, rest>>
RedisOnly == UNCHANGED <<dbVars, workerVars, admin, rest>>

(* An UPDATE of a row that is gone changes nothing.                        *)
SetStatus(j, s) == status' = [status EXCEPT ![j] = IF @ = "deleted" THEN @ ELSE s]
SetWorker(j, w) == workerId' = [workerId EXCEPT ![j] = w]
Unpin(j) == pinned' = [pinned EXCEPT ![j] = FALSE]

(* When run() returns or raises, _run_job takes the job off Worker.running *)
(* before it releases the lease.                                           *)
PopRunning(t) == running' = [running EXCEPT ![task[t].host] = @ \ {task[t].job}]

Return(t, o) == BecomeWith(t, "release", o) /\ PopRunning(t)

Load_RefusesCanceledOnly(t) ==                                     \* mutant
    LET s == status[task[t].job] IN
    /\ task[t].pc = "load"
    /\ IF s \in {"canceled", "deleted"} THEN Return(t, "failed") ELSE Become(t, "check") /\ UNCHANGED running
    /\ UNCHANGED <<queueVars, dbVars, workerRest, admin, rest>>

Load_DeletedKeepsLease(t) ==                                       \* mutant
    /\ task[t].pc = "load"
    /\ IF status[task[t].job] = "deleted" THEN Idle(t) ELSE Become(t, "check")
    /\ TaskOnly

(* _load, and the refusal of a job that needs no execution.                *)
Load(t) ==
    LET s == status[task[t].job] IN
    /\ task[t].pc = "load"
    /\ IF s \in {"canceled", "succeeded", "completed"} THEN Return(t, s)
       ELSE IF s = "deleted" THEN Return(t, "failed")
       ELSE Become(t, "check") /\ UNCHANGED running
    /\ UNCHANGED <<queueVars, dbVars, workerRest, admin, rest>>

(* A pin committed after the claim's read is noticed here.                 *)
CheckPin(t) ==
    /\ task[t].pc = "check"
    /\ Become(t, IF BlockedByPin(task[t].job) THEN "yield" ELSE "prepare")
    /\ TaskOnly

YieldBeforeStart_EnqueuesFirst(t) ==                               \* mutant
    /\ task[t].pc = "yield"
    /\ Enqueue(task[t].job)
    /\ SetStatus(task[t].job, "queued")
    /\ SetWorker(task[t].job, NoWorker)
    /\ Return(t, "queued")
    /\ UNCHANGED <<pinned, workerRest, admin, rest>>

YieldBeforeStart(t) ==
    /\ task[t].pc = "yield"
    /\ SetStatus(task[t].job, "queued")
    /\ SetWorker(task[t].job, NoWorker)
    /\ Return(t, "queued")
    /\ UNCHANGED <<queueVars, pinned, workerRest, admin, rest>>

(* _pause_for_billing: earlier charges are still refused.                  *)
PauseForBilling(t) ==
    /\ task[t].pc = "prepare"
    /\ task[t].job \in BilledJobs
    /\ SetStatus(task[t].job, "paused")
    /\ SetWorker(task[t].job, NoWorker)
    /\ BecomeWith(t, "clear", "paused")
    /\ UNCHANGED pinned
    /\ DbOnly

MarkRunning(t) ==
    /\ task[t].pc = "prepare"
    /\ SetStatus(task[t].job, "running")
    /\ SetWorker(task[t].job, task[t].host)
    /\ Become(t, "work")
    /\ UNCHANGED pinned
    /\ DbOnly

(* _fail_job: no model configuration, no input file, an exception.         *)
FailJob(t) ==
    /\ task[t].pc \in {"check", "prepare", "work"}
    /\ task[t].job \in FailingJobs
    /\ SetStatus(task[t].job, "failed")
    /\ Unpin(task[t].job)
    /\ BecomeWith(t, "clear", "failed")
    /\ UNCHANGED workerId
    /\ DbOnly

PollSignal_CancelOnly(t) ==                                        \* mutant
    /\ task[t].pc = "work" /\ task[t].watch = "sleep"
    /\ RenewLease(task[t].job)
    /\ task' = [task EXCEPT ![t].outcome = IF ctrl[task[t].job] = "cancel" THEN "canceled" ELSE @]
    /\ RedisOnly

(* _watch_signals: one round of the loop reads the signal and renews the   *)
(* lease.  The loop condition is tested before the sleep, so a round       *)
(* already begun may still overrule a stop the biller has just asked for.  *)
PollSignal(t) ==
    LET j == task[t].job
        stop == task[t].outcome # "none" IN
    /\ task[t].pc = "work"
    /\ task[t].watch = "sleep"
    /\ RenewLease(j)
    /\ task' = [task EXCEPT
          ![t].outcome = CASE ctrl[j] = "cancel" -> "canceled"
                           [] ctrl[j] = "pause" -> "paused"
                           [] OTHER -> @,
          ![t].watch = CASE ctrl[j] \in {"cancel", "pause"} -> "off"
                         [] ctrl[j] = "requeue" -> "requeue"
                         [] OTHER -> IF stop THEN "off" ELSE "sleep"]
    /\ RedisOnly

(* A requeue signal counts only while a pin still blocks the job ...       *)
CheckRequeue(t) ==
    /\ task[t].pc = "work"
    /\ task[t].watch = "requeue"
    /\ task' = IF BlockedByPin(task[t].job)
               THEN [task EXCEPT ![t].outcome = "queued", ![t].watch = "off"]
               ELSE [task EXCEPT ![t].watch = "stale"]
    /\ TaskOnly

(* ... otherwise it is dropped, by deleting whatever the key holds by now. *)
DropStaleSignal(t) ==
    /\ task[t].pc = "work"
    /\ task[t].watch = "stale"
    /\ ClearSignal(task[t].job)
    /\ task' = [task EXCEPT ![t].watch = IF task[t].outcome = "none" THEN "sleep" ELSE "off"]
    /\ RedisOnly

(* _billing_loop: a refused charge stops the job.                          *)
StopForBilling(t) ==
    /\ task[t].pc = "work"
    /\ task[t].job \in BilledJobs
    /\ task[t].outcome = "none"
    /\ task' = [task EXCEPT ![t].outcome = "paused"]
    /\ TaskOnly

EndDispatch_NoDefault(t) ==                                        \* mutant
    /\ task[t].pc = "work"
    /\ \E o \in {"succeeded", "completed", task[t].outcome} : BecomeWith(t, "final", o)
    /\ TaskOnly

(* _dispatch returns, or raises _Stop.  A stop that came when every item   *)
(* had been processed is ignored.                                          *)
EndDispatch(t) ==
    /\ task[t].pc = "work"
    /\ \E o \in {"succeeded", "completed", task[t].outcome} \ {"none"} :
          BecomeWith(t, "final", o)
    /\ TaskOnly

Finalize(t) ==
    LET j == task[t].job
        o == task[t].outcome IN
    /\ task[t].pc = "final"
    /\ SetStatus(j, o)
    /\ IF o \in {"succeeded", "completed", "canceled"} THEN Unpin(j) ELSE UNCHANGED pinned
    /\ IF o \in {"paused", "queued"} THEN SetWorker(j, NoWorker) ELSE UNCHANGED workerId
    /\ IF o = "queued" THEN Become(t, "release") /\ PopRunning(t)
                       ELSE Become(t, "clear") /\ UNCHANGED running
    /\ UNCHANGED <<queueVars, workerRest, admin, rest>>

ClearOwnSignal(t) ==
    /\ task[t].pc = "clear"
    /\ ClearSignal(task[t].job)
    /\ Become(t, "release")
    /\ PopRunning(t)
    /\ UNCHANGED <<dbVars, workerRest, admin, rest>>

(* _run_job after the release: a job that yielded is handed over.          *)
AfterRelease(t) ==
    /\ IF task[t].outcome = "queued" THEN Become(t, "handover") ELSE Idle(t)
    /\ UNCHANGED <<dbVars, workerVars, admin, pinOps, controlVars>>

Release(t) ==
    /\ task[t].pc = "release"
    /\ ReleaseLease(task[t].job)
    /\ AfterRelease(t)
    /\ UNCHANGED faults

-----------------------------------------------------------------------------
(* requeue_preempted, after the release.                                   *)
Handover(t) ==
    /\ task[t].pc = "handover"
    /\ IF status[task[t].job] = "queued" THEN Become(t, "settle") ELSE Idle(t)
    /\ TaskOnly

SettleSignal(t) ==
    /\ task[t].pc = "settle"
    /\ CASE ctrl[task[t].job] = "cancel" -> BecomeWith(t, "land", "canceled")
         [] ctrl[task[t].job] = "pause" -> BecomeWith(t, "land", "paused")
         [] OTHER -> Become(t, "unsignal")
    /\ TaskOnly

(* Written by the ORM, which raises when the row is gone.                  *)
Land(t) ==
    /\ task[t].pc = "land"
    /\ SetStatus(task[t].job, task[t].outcome)
    /\ IF task[t].outcome = "canceled" THEN Unpin(task[t].job) ELSE UNCHANGED pinned
    /\ IF status[task[t].job] = "deleted" THEN Idle(t) ELSE Become(t, "landed")
    /\ UNCHANGED workerId
    /\ DbOnly

ClearLanded(t) ==
    /\ task[t].pc = "landed"
    /\ ClearSignal(task[t].job)
    /\ Idle(t)
    /\ RedisOnly

ClearBeforeEnqueue(t) ==
    /\ task[t].pc = "unsignal"
    /\ ClearSignal(task[t].job)
    /\ Become(t, "enqueue")
    /\ RedisOnly


EnqueueYielded(t) ==
    /\ task[t].pc = "enqueue"
    /\ Enqueue(task[t].job)
    /\ Idle(t)
    /\ RedisOnly

-----------------------------------------------------------------------------
(* The background loops of a worker.                                       *)
StartHeartbeat(w) ==
    /\ mode[w] \in {"up", "draining"}
    /\ beat[w] = {} /\ running[w] # {}
    /\ beat' = [beat EXCEPT ![w] = running[w]]
    /\ UNCHANGED <<queueVars, dbVars, mode, running, scanning, seenPins, task, admin, rest>>

(* The round works through its copy of the keys: the job may be over.      *)
HeartbeatRenew(w, j) ==
    /\ j \in beat[w]
    /\ RenewLease(j)
    /\ beat' = [beat EXCEPT ![w] = @ \ {j}]
    /\ UNCHANGED <<dbVars, mode, running, scanning, seenPins, task, admin, rest>>

Reap(w) ==
    /\ mode[w] = "up"
    /\ ReapExpired
    /\ UNCHANGED <<dbVars, workerVars, task, admin, rest>>

-----------------------------------------------------------------------------
(* The environment.                                                        *)

(* A lease lasts job_lease_seconds (60) and a live task's is renewed every *)
(* 2 and every 10 seconds: it lapses when no task has the job in hand.     *)
LeaseLapses(j) ==
    /\ \A t \in Tasks : Engaged(t) => task[t].job # j
    /\ LapseLease(j)
    /\ UNCHANGED <<dbVars, workerVars, task, admin, rest>>

Fault(kind) ==
    /\ kind \in FaultKinds
    /\ faults < MaxFaults
    /\ faults' = faults + 1

(* ... unless its worker is cut off or blocked for that long.              *)
LeaseLapsesInStall(j) ==
    /\ Fault("stall")
    /\ \E t \in Tasks : Engaged(t) /\ task[t].job = j
    /\ LapseLease(j)
    /\ UNCHANGED <<dbVars, workerVars, task, admin, pinOps, controlVars>>

(* Redis answers the release with an error, which is logged.               *)
ReleaseFails(t) ==
    /\ Fault("release")
    /\ task[t].pc = "release"
    /\ AfterRelease(t)
    /\ UNCHANGED queueVars

(* The database or Redis fails under run() or under its own error paths:   *)
(* it raises, the jobs table stays as it is, the lease is released.        *)
RunnerRaises(t) ==
    /\ Fault("runner")
    /\ task[t].pc \in HeldPcs \ {"release"}
    /\ Return(t, "none")
    /\ UNCHANGED <<queueVars, dbVars, workerRest, admin, pinOps, controlVars>>

(* The handover raises, which is logged.                                   *)
HandoverFails(t) ==
    /\ Fault("handover")
    /\ task[t].pc \in HandoverPcs
    /\ Idle(t)
    /\ UNCHANGED <<queueVars, dbVars, workerVars, admin, pinOps, controlVars>>

Lost == {w \in Workers : mode[w] # "up"}

(* The process is gone, with whatever its tasks were at.                   *)
Vanish(w) ==
    /\ \A t \in Tasks : task[t].host = w => task[t].pc \in CrashPcs
    /\ mode' = [mode EXCEPT ![w] = "gone"]
    /\ running' = [running EXCEPT ![w] = {}]
    /\ beat' = [beat EXCEPT ![w] = {}]
    /\ LeaveScan(w)
    /\ task' = [t \in Tasks |-> IF task[t].host = w THEN IdleTask ELSE task[t]]
    /\ UNCHANGED <<queueVars, dbVars, admin, rest>>

Crash(w) ==
    /\ mode[w] # "gone"
    /\ mode[w] = "up" => Cardinality(Lost) < MaxLost
    /\ Vanish(w)

(* request_shutdown: no more claims, the jobs in hand are finished.        *)
RequestShutdown(w) ==
    /\ mode[w] = "up"
    /\ Cardinality(Lost) < MaxLost
    /\ mode' = [mode EXCEPT ![w] = "draining"]
    /\ UNCHANGED <<queueVars, dbVars, running, beat, scanning, seenPins, task, admin, rest>>

(* _drain waits for the tasks in Worker.running only: one that releases    *)
(* its lease or hands its job over is cut off by the exit.                 *)
Drained(w) ==
    /\ mode[w] = "draining"
    /\ w \notin scanning
    /\ running[w] = {}
    /\ Vanish(w)

-----------------------------------------------------------------------------
(* pin_job and unpin_job; one administrator.                               *)
PinJob(j) ==
    /\ admin.pc = "idle"
    /\ pinOps < MaxPins
    /\ status[j] \in {"queued", "running", "paused"}
    /\ admin' = [IdleAdmin EXCEPT !.pc = "commit", !.job = j, !.pins = ~pinned[j],
                                  !.preempts = status[j] \in PinBlockingStatuses]
    /\ pinOps' = pinOps + 1
    /\ UNCHANGED <<queueVars, dbVars, workerVars, task, faults, controlVars>>

(* The commit trusts the status as it was read; meanwhile the job may have *)
(* ended, and it stays pinned then.  It raises when the row is gone.       *)
CommitPin ==
    LET j == admin.job IN
    /\ admin.pc = "commit"
    /\ pinned' = [pinned EXCEPT ![j] = @ \/ (admin.pins /\ status[j] # "deleted")]
    /\ admin' = IF admin.preempts /\ status[j] # "deleted"
                THEN [IdleAdmin EXCEPT !.pc = "scan", !.job = j] ELSE IdleAdmin
    /\ UNCHANGED <<queueVars, status, workerId, workerVars, task, rest>>

(* preempt_for: the jobs running on the model by the database, then those  *)
(* registered under it in Redis, other pinned jobs excepted ...            *)
PreemptScan ==
    LET m == ModelOf[admin.job] IN
    /\ admin.pc = "scan"
    /\ admin' = IF m = NoModel THEN IdleAdmin
                ELSE [admin EXCEPT
                        !.pc = "registered",
                        !.todo = {k \in Jobs : status[k] = "running" /\ ModelOf[k] = m}]
    /\ UNCHANGED <<queueVars, dbVars, workerVars, task, rest>>

PreemptRegistered_DbOnly ==                                        \* mutant
    /\ admin.pc = "registered"
    /\ admin' = [admin EXCEPT !.pc = "walk",
                              !.todo = {k \in @ \ {admin.job} : ~pinned[k]}]
    /\ UNCHANGED <<queueVars, dbVars, workerVars, task, rest>>

PreemptRegistered ==
    LET found == admin.todo \cup modelRunning[ModelOf[admin.job]] IN
    /\ admin.pc = "registered"
    /\ admin' = [admin EXCEPT
                   !.pc = "walk",
                   !.todo = {k \in found \ {admin.job} : ~pinned[k]}]
    /\ UNCHANGED <<queueVars, dbVars, workerVars, task, rest>>

(* ... each is told to requeue if it has a lease.                          *)
PreemptPick(k) ==
    /\ admin.pc = "walk"
    /\ k \in admin.todo
    /\ admin' = IF HasLease(k)
                THEN [admin EXCEPT !.pc = "signal", !.job = k, !.todo = @ \ {k}]
                ELSE [admin EXCEPT !.todo = @ \ {k}]
    /\ UNCHANGED <<queueVars, dbVars, workerVars, task, rest>>

PreemptSignal ==
    /\ admin.pc = "signal"
    /\ SignalIfAbsent(admin.job, "requeue")
    /\ admin' = [admin EXCEPT !.pc = "walk"]
    /\ UNCHANGED <<dbVars, workerVars, task, rest>>

PreemptDone ==
    /\ admin.pc = "walk"
    /\ admin.todo = {}
    /\ admin' = IdleAdmin
    /\ UNCHANGED <<queueVars, dbVars, workerVars, task, rest>>

UnpinJob(j) ==
    /\ admin.pc = "idle"
    /\ pinned[j]
    /\ Unpin(j)
    /\ UNCHANGED <<queueVars, status, workerId, workerVars, task, admin, rest>>

-----------------------------------------------------------------------------
Watching(t) == PollSignal(t) \/ CheckRequeue(t) \/ DropStaleSignal(t)

Running(t) ==
    \/ Load(t) \/ CheckPin(t) \/ YieldBeforeStart(t) \/ MarkRunning(t)
    \/ EndDispatch(t) \/ Finalize(t) \/ ClearOwnSignal(t) \/ Release(t)

HandingOver(t) ==
    \/ Handover(t) \/ SettleSignal(t) \/ Land(t) \/ ClearLanded(t)
    \/ ClearBeforeEnqueue(t) \/ EnqueueYielded(t)

Mishap(t) ==
    \/ PauseForBilling(t) \/ StopForBilling(t) \/ FailJob(t)
    \/ ReleaseFails(t) \/ HandoverFails(t) \/ RunnerRaises(t)

Claiming(w) ==
    \/ StartScan(w) \/ NothingToClaim(w)
    \/ \E j \in Jobs : ClaimRefused(w, j) \/ \E t \in Tasks : Claim(w, t, j)

Beating(w) == StartHeartbeat(w) \/ \E j \in Jobs : HeartbeatRenew(w, j)

Stopping(w) == Crash(w) \/ RequestShutdown(w) \/ Drained(w)

Preempting ==
    \/ CommitPin \/ PreemptScan \/ PreemptRegistered \/ PreemptSignal \/ PreemptDone
    \/ \E k \in Jobs : PreemptPick(k)

Next ==
    \/ \E t \in Tasks : Running(t) \/ Watching(t) \/ HandingOver(t) \/ Mishap(t)
    \/ \E w \in Workers : Claiming(w) \/ Beating(w) \/ Reap(w) \/ Stopping(w)
    \/ \E j \in Jobs : LeaseLapses(j) \/ LeaseLapsesInStall(j) \/ PinJob(j) \/ UnpinJob(j)
    \/ Preempting

Spec == Init /\ [][Next]_vars

(* Scheduling: the awaits of a live process return, every loop comes round *)
(* again, the dispatch loop gets through its items (each request has a     *)
(* timeout), and an administrator's request is carried through.  A queued  *)
(* job is not overtaken for ever: strong fairness of its claim, because    *)
(* NothingToClaim and other claims disable it now and then.                *)
Scheduling ==
    /\ \A t \in Tasks : WF_vars(Watching(t)) /\ WF_vars(HandingOver(t))
    /\ \A w \in Workers :
        /\ WF_vars(StartScan(w)) /\ WF_vars(NothingToClaim(w))
        /\ WF_vars(Reap(w)) /\ WF_vars(Beating(w))
    /\ \A j \in Jobs :
        /\ SF_vars(\E w \in Workers, t \in Tasks : Claim(w, t, j))
        /\ WF_vars(LeaseLapses(j))
    /\ WF_vars(Preempting)

Fairness ==
    /\ Scheduling
    /\ \A t \in Tasks : WF_vars(Running(t)) /\ WF_vars(EndDispatch(t))

FairSpec == Spec /\ Fairness

-----------------------------------------------------------------------------
(* Two live tasks never have the same job in hand, from the claim to the   *)
(* end of the handover: queue.py:12 promises that no job is held by two    *)
(* workers at once, and main.py:162 orders release and enqueue for it.     *)
SingleRunner ==
    \A t, u \in Tasks :
        Engaged(t) /\ Engaged(u) /\ task[t].job = task[u].job => t = u

(* The jobs really held on a model, registered or not.                     *)
JobsOn(m) == {j \in Jobs : ModelOf[j] = m /\ \E t \in Tasks : Held(t) /\ task[t].job = j}

(* No more jobs are held on a model than its limit allows, across workers  *)
(* and through crashes, preemptions and reaped leases (README: "cap how    *)
(* many jobs may run at once on a given model name").                      *)
ModelLimit ==
    \A m \in Models : JobLimit[m] > 0 => Cardinality(JobsOn(m)) <= JobLimit[m]

(* A job the database calls queued or running is in the queue, under a     *)
(* lease that will be reaped, or in the hands of a live task: no crash     *)
(* loses it (README: "a crashed worker's job is automatically requeued").  *)
NoLostJob ==
    \A j \in Jobs :
        status[j] \in {"queued", "running"} =>
            j \in queue \/ HasLease(j) \/ \E t \in Tasks : Engaged(t) /\ task[t].job = j

(* A job that has run to its end is never started or rewritten again, even *)
(* if a late heartbeat renews its lease and the reaper requeues it: the    *)
(* next runner refuses it (runner.py:68).                                  *)
FinishedStaysFinished ==
    [][\A j \in Jobs : status[j] \in {"succeeded", "completed"}
                         => status'[j] = status[j]]_vars

(* Once pin_job has finished preempting, every job it has to displace has  *)
(* been told to: its runner has seen the requeue signal or will see some   *)
(* signal (pins.py:3-6).                                                   *)
PinReachesRunners ==
    \A t \in Tasks :
        LET j == task[t].job IN
        task[t].pc = "work" /\ task[t].outcome = "none" /\ ~pinned[j] /\ BlockedByPin(j)
            => ctrl[j] # "none" \/ task[t].watch = "requeue" \/ admin.pc # "idle"

(* Every job is brought to an end, or paused by the biller, as long as one *)
(* worker process survives.                                                *)
EveryJobSettles == \A j \in Jobs : <>(status[j] \in Terminal \cup {"paused"})
=============================================================================
