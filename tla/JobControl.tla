----------------------------- MODULE JobControl -----------------------------
(***************************************************************************)
(* What users do to their jobs while the workers of JobDispatch run them:  *)
(* cancel, pause, resume, retry-failed, change of priority and delete, in  *)
(* api/jobs.py.  A handler reads the job once, then works through a fixed  *)
(* list of writes to Redis and to the database with an await between any   *)
(* two of them; whatever it read may be out of date by then.               *)
(*                                                                         *)
(* req[r] is a request: the operation, the job as it was read (status,     *)
(* pinned, worker) and the writes it still has to do.  pause-all is the    *)
(* pause of one job after another, all of them read at the start.          *)
(***************************************************************************)
EXTENDS JobDispatch, Sequences

CONSTANTS
    Requests,       \* identities for the requests in progress at one time
    Ops,            \* the operations offered
    MaxRequests     \* bound: requests accepted

dispatchVars == <<queueVars, dbVars, workerVars, task, admin, pinOps, faults>>

OpNames == {"cancel", "pause", "resume", "retry", "reprioritize", "delete"}
StepNames == {"ask", "signal", "remove", "settle", "unsignal", "commit", "enqueue", "preempt"}

ASSUME OpsType == Ops \subseteq OpNames

IdleReq == [op |-> "none", job |-> NoJob, status |-> "queued", pinned |-> FALSE,
            worker |-> NoWorker, todo |-> <<>>]

ReqType == [op : OpNames \cup {"none"}, job : Jobs \cup {NoJob}, status : JobStatus, pinned : BOOLEAN,
            worker : Workers \cup {NoWorker}, todo : Seq(StepNames)]

ControlTypeOK ==
    /\ TypeOK
    /\ req \in [Requests -> ReqType]
    /\ \A r \in Requests : req[r].todo # <<>> => req[r].job \in Jobs
    /\ requests \in Nat

ControlInit == DispatchInit /\ req = [r \in Requests |-> IdleReq] /\ requests = 0

-----------------------------------------------------------------------------
(* The statuses from which a handler does not refuse.  A retry also needs  *)
(* failed items, which a succeeded job has not.                            *)
Accepts(op) ==
    CASE op = "cancel"       -> {"queued", "running", "paused"}
      [] op = "pause"        -> {"queued", "running"}
      [] op = "resume"       -> {"paused", "failed", "canceled"}
      [] op = "retry"        -> {"completed", "failed", "canceled"}
      [] op = "reprioritize" -> {"queued"}
      [] op = "delete"       -> {"paused", "succeeded", "completed", "failed", "canceled"}

Plan_NotEnqueued(op, s, isPinned) ==                               \* mutant
    CASE op \in {"cancel", "pause"} ->
             IF s = "running" THEN <<"ask">> ELSE <<"signal", "remove", "settle", "unsignal">>
      [] op \in {"resume", "retry"} -> <<"unsignal", "commit">>
      [] op = "reprioritize" -> <<"remove", "enqueue">>
      [] op = "delete" -> <<"commit", "remove", "unsignal">>

(* What a handler does after its read, in the order of its awaits.         *)
Plan(op, s, isPinned) ==
    CASE op \in {"cancel", "pause"} ->
             IF s = "running" THEN <<"ask">> ELSE <<"signal", "remove", "settle", "unsignal">>
      [] op = "resume" ->
             <<"unsignal", "commit", "enqueue">> \o IF isPinned THEN <<"preempt">> ELSE <<>>
      [] op = "retry" -> <<"commit", "unsignal", "enqueue">>
      [] op = "reprioritize" -> <<"remove", "enqueue">>
      [] op = "delete" -> <<"commit", "remove", "unsignal">>

Submit(r, op, j) ==
    /\ req[r] = IdleReq
    /\ requests < MaxRequests
    /\ status[j] \in Accepts(op)
    /\ req' = [req EXCEPT ![r] = [op |-> op, job |-> j, status |-> status[j], pinned |-> pinned[j],
                                  worker |-> workerId[j],
                                  todo |-> Plan(op, status[j], pinned[j])]]
    /\ requests' = requests + 1
    /\ UNCHANGED dispatchVars

Doing(r, step) == req[r].todo # <<>> /\ Head(req[r].todo) = step

Finish(r) == req' = [req EXCEPT ![r] = IdleReq] /\ UNCHANGED requests

Proceed(r) ==
    IF Len(req[r].todo) = 1 THEN Finish(r)
    ELSE req' = [req EXCEPT ![r].todo = Tail(@)] /\ UNCHANGED requests

(* _worker_gone: no heartbeat for WORKER_STALE_SECONDS (45).  A dead       *)
(* worker is known to be dead before the leases of its jobs lapse (60).    *)
MaySeemAlive(w, j) ==
    /\ w # NoWorker
    /\ mode[w] = "gone" =>
        /\ j \notin queue /\ lease[j] # "expired"
        /\ \A t \in Tasks : Engaged(t) => task[t].job # j

(* A living worker seems gone when its heartbeats are late, blocked or     *)
(* failing for that long: the slow worker of jobs.py:869.                  *)
MaySeemGone(w) == IF w # NoWorker /\ mode[w] # "gone" THEN Fault("slow") ELSE UNCHANGED faults

AskWorker_ClearsSignal(r) ==                                       \* mutant
    /\ Doing(r, "ask")
    /\ \/ /\ MaySeemAlive(req[r].worker, req[r].job)
          /\ req' = [req EXCEPT ![r].todo = <<"signal", "remove">>]
          /\ UNCHANGED faults
       \/ /\ MaySeemGone(req[r].worker)
          /\ req' = [req EXCEPT ![r].todo = <<"signal", "remove", "settle", "unsignal">>]
    /\ UNCHANGED <<queueVars, dbVars, workerVars, task, admin, pinOps, requests>>

AskWorker(r) ==
    /\ Doing(r, "ask")
    /\ \/ /\ MaySeemAlive(req[r].worker, req[r].job)
          /\ req' = [req EXCEPT ![r].todo = <<"signal", "remove">>]
          /\ UNCHANGED faults
       \/ /\ MaySeemGone(req[r].worker)
          /\ req' = [req EXCEPT ![r].todo = <<"signal", "remove", "settle">>]
    /\ UNCHANGED <<queueVars, dbVars, workerVars, task, admin, pinOps, requests>>

SendSignal(r) ==
    /\ Doing(r, "signal")
    /\ Signal(req[r].job, req[r].op)
    /\ Proceed(r)
    /\ UNCHANGED <<dbVars, workerVars, task, admin, pinOps, faults>>

RemoveJob(r) ==
    /\ Doing(r, "remove")
    /\ Remove(req[r].job)
    /\ Proceed(r)
    /\ UNCHANGED <<dbVars, workerVars, task, admin, pinOps, faults>>

ClearJobSignal(r) ==
    /\ Doing(r, "unsignal")
    /\ ClearSignal(req[r].job)
    /\ Proceed(r)
    /\ UNCHANGED <<dbVars, workerVars, task, admin, pinOps, faults>>

EnqueueJob(r) ==
    /\ Doing(r, "enqueue")
    /\ Enqueue(req[r].job)
    /\ Proceed(r)
    /\ UNCHANGED <<dbVars, workerVars, task, admin, pinOps, faults>>

(* The ORM writes the columns that differ from what it read.  _settle_     *)
(* orphan and the branch for a queued or paused job.                       *)
SettleJob(r) ==
    LET j == req[r].job IN
    /\ Doing(r, "settle")
    /\ status[j] # "deleted"
    /\ SetStatus(j, IF req[r].op = "cancel" THEN "canceled" ELSE "paused")
    /\ IF req[r].op = "cancel" /\ req[r].pinned THEN Unpin(j) ELSE UNCHANGED pinned
    /\ IF req[r].status = "running" THEN SetWorker(j, NoWorker) ELSE UNCHANGED workerId
    /\ Proceed(r)
    /\ UNCHANGED <<queueVars, workerVars, task, admin, pinOps, faults>>


CommitJob(r) ==
    /\ Doing(r, "commit")
    /\ status[req[r].job] # "deleted"
    /\ SetStatus(req[r].job, IF req[r].op = "delete" THEN "deleted" ELSE "queued")
    /\ Proceed(r)
    /\ UNCHANGED <<pinned, workerId>>
    /\ UNCHANGED <<queueVars, workerVars, task, admin, pinOps, faults>>

(* Another request has deleted the row: the write raises.                  *)
RowIsGone(r) ==
    /\ Doing(r, "settle") \/ Doing(r, "commit")
    /\ status[req[r].job] = "deleted"
    /\ Finish(r)
    /\ UNCHANGED dispatchVars

(* The resume of a pinned job preempts as pin_job does; one preemption is  *)
(* in progress at a time.                                                  *)
PreemptAgain(r) ==
    /\ Doing(r, "preempt")
    /\ admin.pc = "idle"
    /\ admin' = [IdleAdmin EXCEPT !.pc = "scan", !.job = req[r].job]
    /\ Proceed(r)
    /\ UNCHANGED <<queueVars, dbVars, workerVars, task, pinOps, faults>>

(* The API process dies, or Redis answers with an error, between two steps. *)
RequestDies(r) ==
    /\ req[r].todo # <<>>
    /\ Fault("request")
    /\ Finish(r)
    /\ UNCHANGED <<queueVars, dbVars, workerVars, task, admin, pinOps>>

Serving(r) ==
    \/ AskWorker(r) \/ SendSignal(r) \/ RemoveJob(r) \/ ClearJobSignal(r) \/ EnqueueJob(r)
    \/ SettleJob(r) \/ CommitJob(r) \/ RowIsGone(r) \/ PreemptAgain(r)

ControlNext ==
    \/ Next
    \/ \E r \in Requests :
        \/ \E op \in Ops, j \in Jobs : Submit(r, op, j)
        \/ Serving(r)
        \/ RequestDies(r)

ControlSpec == ControlInit /\ [][ControlNext]_vars

(* As Fairness, and the API carries its requests through; but a job may    *)
(* have items for ever, so that a dispatch is sure to end only when it was *)
(* told to.                                                                *)
ToldToStop(t) == task[t].pc = "work" => task[t].outcome # "none"

ControlFairness ==
    /\ Scheduling
    /\ \A r \in Requests : WF_vars(Serving(r))
    /\ \A t \in Tasks : WF_vars(Running(t) /\ ToldToStop(t))

FairControlSpec == ControlSpec /\ ControlFairness

(* The same, of jobs that have an end.                                     *)
FairFiniteSpec ==
    /\ FairControlSpec
    /\ \A t \in Tasks : WF_vars(EndDispatch(t))

-----------------------------------------------------------------------------
(* A cancel or pause that finds its job running stops it: whatever the     *)
(* runner was at when the signal and the removal arrived, the job comes to *)
(* a stop, by the watcher or by the end of its items (cancel_job and       *)
(* _pause leave the rest to the worker, jobs.py:886), unless the worker    *)
(* that is to hear of it dies first.                                       *)
StopAccepted(j) == \E r \in Requests : req[r].job = j /\ req[r].todo = <<"ask">>

OwnerLost(j) == workerId[j] # NoWorker /\ mode[workerId[j]] = "gone"

StopIsHeard ==
    \A j \in Jobs : StopAccepted(j) ~> status[j] \in Terminal \cup {"paused"} \/ OwnerLost(j)

(* A job whose worker seems gone, and which the API settles as canceled in *)
(* its stead, comes to an end for good: neither the worker, should it have *)
(* been no more than slow, nor another one to which the reaper has         *)
(* meanwhile given the job goes on with it, as the signal is left behind   *)
(* for them (jobs.py:869).                                                 *)
OrphanCanceled(j) ==
    \E r \in Requests :
        /\ req[r].job = j /\ req[r].op = "cancel"
        /\ req[r].status = "running" /\ Doing(r, "settle")

OrphanStaysCanceled ==
    \A j \in Jobs : OrphanCanceled(j) ~> [](status[j] \in Terminal)

(* What a deleted job leaves behind in Redis goes away again: its queue    *)
(* entry, its lease and its place in a running set, even if the runner, a  *)
(* late heartbeat, the reaper or a claim brought them back after the       *)
(* delete.  (A heartbeat that overlaps the refusal of the deleted job can  *)
(* bring the lease back once more; hence no "for ever".)                   *)
NoTrace(j) == j \notin queue /\ ~HasLease(j) /\ \A m \in Models : j \notin CountedOn(m)

DeletedFadesOut == \A j \in Jobs : status[j] = "deleted" ~> NoTrace(j)

(* A job the database calls queued or running is in the queue, leased, in  *)
(* the hands of a live task or of a request that is about to queue or to   *)
(* stop it.                                                                *)
NoJobForgotten ==
    \A j \in Jobs :
        status[j] \in {"queued", "running"} =>
            \/ j \in queue \/ HasLease(j)
            \/ \E t \in Tasks : Engaged(t) /\ task[t].job = j
            \/ \E r \in Requests : req[r].job = j
=============================================================================
