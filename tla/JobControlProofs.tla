-------------------------- MODULE JobControlProofs --------------------------
(***************************************************************************)
(* Proofs about JobControl: types, and the bound on the running sets,      *)
(* whatever the users ask for while the workers run.  Both carry over from *)
(* the dispatch: a request's steps on Redis are steps of the queue, and    *)
(* none of them touches a task.  That no job is forgotten, where requests  *)
(* to one job do not overlap and nothing dies.  And that a job has one     *)
(* runner, and a model no more than its limit of jobs that no request has  *)
(* taken out of Redis, where no request queues a job in hand.              *)
(***************************************************************************)
EXTENDS JobControl, JobDispatchProofs, SequenceTheorems

(* Only a cancel or a pause sends a signal, its own name. *)
PlansOK ==
    \A r \in Requests : req[r].op \notin {"cancel", "pause"} => req[r].todo \in Seq(StepNames \ {"ask", "signal"})

RequestsOK ==
    /\ req \in [Requests -> ReqType]
    /\ \A r \in Requests : req[r].todo # <<>> => req[r].job \in Jobs
    /\ requests \in Nat
    /\ PlansOK

ControlInv == TypeInv /\ RequestsOK

-----------------------------------------------------------------------------
(* The steps of the dispatch leave the requests alone. *)
LEMMA DispatchKeepsRequests ==
    ASSUME Next PROVE UNCHANGED <<req, requests>>
<1>. USE DEF RedisOnly, TaskOnly, DbOnly, rest, controlVars
<1>1. ASSUME NEW t \in Tasks, Running(t) PROVE UNCHANGED <<req, requests>>
  <2>1. CASE Load(t) \/ CheckPin(t)
    BY <2>1 DEF Load, CheckPin
  <2>2. CASE YieldBeforeStart(t) \/ MarkRunning(t)
    BY <2>2 DEF YieldBeforeStart, MarkRunning
  <2>3. CASE EndDispatch(t) \/ Finalize(t)
    BY <2>3 DEF EndDispatch, Finalize
  <2>4. CASE ClearOwnSignal(t) \/ Release(t)
    BY <2>4 DEF ClearOwnSignal, Release, AfterRelease
  <2>. QED BY <1>1, <2>1, <2>2, <2>3, <2>4 DEF Running
<1>2. ASSUME NEW t \in Tasks, Watching(t) PROVE UNCHANGED <<req, requests>>
    BY <1>2 DEF Watching, PollSignal, CheckRequeue, DropStaleSignal
<1>3. ASSUME NEW t \in Tasks, HandingOver(t) PROVE UNCHANGED <<req, requests>>
    BY <1>3 DEF HandingOver, Handover, SettleSignal, Land, ClearLanded,
        ClearBeforeEnqueue, EnqueueYielded
<1>4. ASSUME NEW t \in Tasks, Mishap(t) PROVE UNCHANGED <<req, requests>>
  <2>1. CASE PauseForBilling(t) \/ StopForBilling(t)
    BY <2>1 DEF PauseForBilling, StopForBilling
  <2>2. CASE FailJob(t)
    BY <2>2 DEF FailJob
  <2>3. CASE ReleaseFails(t)
    BY <2>3 DEF ReleaseFails, AfterRelease
  <2>4. CASE HandoverFails(t) \/ RunnerRaises(t)
    BY <2>4 DEF HandoverFails, RunnerRaises
  <2>. QED BY <1>4, <2>1, <2>2, <2>3, <2>4 DEF Mishap
<1>5. ASSUME NEW w \in Workers, Claiming(w) PROVE UNCHANGED <<req, requests>>
    BY <1>5 DEF Claiming, StartScan, NothingToClaim, ClaimRefused, Claim
<1>6. ASSUME NEW w \in Workers, Beating(w) \/ Reap(w) \/ Stopping(w) PROVE UNCHANGED <<req, requests>>
    BY <1>6 DEF Beating, StartHeartbeat, HeartbeatRenew, Reap, Stopping, Crash, RequestShutdown, Drained, Vanish
<1>7. ASSUME NEW j \in Jobs, LeaseLapses(j) \/ LeaseLapsesInStall(j) \/ PinJob(j) \/ UnpinJob(j)
      PROVE  UNCHANGED <<req, requests>>
    BY <1>7 DEF LeaseLapses, LeaseLapsesInStall, PinJob, UnpinJob
<1>8. CASE Preempting
    BY <1>8 DEF Preempting, CommitPin, PreemptScan, PreemptRegistered, PreemptSignal, PreemptDone, PreemptPick
<1>. QED BY <1>1, <1>2, <1>3, <1>4, <1>5, <1>6, <1>7, <1>8 DEF Next

(* What is left of a plan is a plan. *)
LEMMA ProceedKeeps ==
    ASSUME RequestsOK, NEW r \in Requests, req[r].todo # <<>>, Proceed(r) \/ Finish(r)
    PROVE  RequestsOK'
<1>. USE DEF RequestsOK, PlansOK
<1>1. req[r] \in ReqType /\ req[r].todo \in Seq(StepNames) /\ req[r].job \in Jobs
    BY DEF ReqType
<1>2. IdleReq \in ReqType /\ IdleReq.todo = <<>>
    BY DEF IdleReq, ReqType, JobStatus
<1>3. CASE Finish(r)
  <2>1. <<>> \in Seq(StepNames \ {"ask", "signal"})
    OBVIOUS
  <2>. QED BY <1>2, <1>3, <2>1 DEF Finish
<1>4. CASE ~Finish(r)
  <2>1. req' = [req EXCEPT ![r] = [req[r] EXCEPT !.todo = Tail(req[r].todo)]] /\ requests' = requests
    BY <1>4 DEF Proceed
  <2>2. Tail(req[r].todo) \in Seq(StepNames)
    BY <1>1
  <2>3. [req[r] EXCEPT !.todo = Tail(req[r].todo)] \in ReqType
    BY <1>1, <2>2 DEF ReqType
  <2>4. req[r].op \notin {"cancel", "pause"} => Tail(req[r].todo) \in Seq(StepNames \ {"ask", "signal"})
    <3>. SUFFICES ASSUME req[r].op \notin {"cancel", "pause"}
                  PROVE  Tail(req[r].todo) \in Seq(StepNames \ {"ask", "signal"})
        OBVIOUS
    <3>1. req[r].todo \in Seq(StepNames \ {"ask", "signal"})
        OBVIOUS
    <3>. QED BY <3>1
  <2>5. req'[r].op = req[r].op /\ req'[r].job = req[r].job /\ req'[r].todo = Tail(req[r].todo)
    BY <1>1, <2>1 DEF ReqType
  <2>6. \A q \in Requests \ {r} : req'[q] = req[q]
    BY <2>1
  <2>. QED BY <1>1, <2>1, <2>3, <2>4, <2>5, <2>6
<1>. QED BY <1>3, <1>4

(* A plan is made of steps; a signal is in those of a cancel or a pause.   *)
LEMMA PlanType ==
    ASSUME NEW op \in OpNames, NEW s, NEW isPinned
    PROVE  /\ Plan(op, s, isPinned) \in Seq(StepNames)
           /\ op \notin {"cancel", "pause"} => Plan(op, s, isPinned) \in Seq(StepNames \ {"ask", "signal"})
<1>. DEFINE Quiet == StepNames \ {"ask", "signal"}
<1>1. /\ "ask" \in StepNames /\ "signal" \in StepNames /\ "remove" \in StepNames
      /\ "settle" \in StepNames /\ "unsignal" \in StepNames
    BY DEF StepNames
<1>2. /\ "remove" \in Quiet /\ "unsignal" \in Quiet /\ "commit" \in Quiet
      /\ "enqueue" \in Quiet /\ "preempt" \in Quiet
    BY DEF StepNames
<1>3. Quiet \subseteq StepNames
    OBVIOUS
<1>. HIDE DEF Quiet
<1>4. CASE op \in {"cancel", "pause"}
  <2>1. Plan(op, s, isPinned) \in {<<"ask">>, <<"signal", "remove", "settle", "unsignal">>}
    BY <1>4 DEF Plan
  <2>2. <<"ask">> \in Seq(StepNames)
    BY <1>1
  <2>3. <<"signal", "remove", "settle", "unsignal">> \in Seq(StepNames)
    BY <1>1
  <2>. QED BY <1>4, <2>1, <2>2, <2>3
<1>5. CASE op \notin {"cancel", "pause"}
  <2>1. Plan(op, s, isPinned) \in Seq(Quiet)
    <3>1. CASE op = "resume"
      <4>1. /\ <<"unsignal", "commit", "enqueue">> \in Seq(Quiet)
            /\ <<"preempt">> \in Seq(Quiet) /\ <<>> \in Seq(Quiet)
        BY <1>2
      <4>2. Plan(op, s, isPinned) =
                <<"unsignal", "commit", "enqueue">> \o IF isPinned THEN <<"preempt">> ELSE <<>>
        BY <3>1 DEF Plan
      <4>3. (IF isPinned THEN <<"preempt">> ELSE <<>>) \in Seq(Quiet)
        BY <4>1
      <4>4. \A u, v \in Seq(Quiet) : u \o v \in Seq(Quiet)
        OBVIOUS
      <4>. QED BY <4>1, <4>2, <4>3, <4>4
    <3>2. CASE op = "retry"
      <4>1. Plan(op, s, isPinned) = <<"commit", "unsignal", "enqueue">>
        BY <3>2 DEF Plan
      <4>. QED BY <1>2, <4>1
    <3>3. CASE op = "reprioritize"
      <4>1. Plan(op, s, isPinned) = <<"remove", "enqueue">>
        BY <3>3 DEF Plan
      <4>. QED BY <1>2, <4>1
    <3>4. CASE op = "delete"
      <4>1. Plan(op, s, isPinned) = <<"commit", "remove", "unsignal">>
        BY <3>4 DEF Plan
      <4>. QED BY <1>2, <4>1
    <3>. QED BY <1>5, <3>1, <3>2, <3>3, <3>4 DEF OpNames
  <2>2. \A u \in Seq(Quiet) : u \in Seq(StepNames)
    BY <1>3
  <2>. QED BY <2>1, <2>2 DEF Quiet
<1>. QED BY <1>4, <1>5

LEMMA SubmitKeeps ==
    ASSUME TypeOK, RequestsOK, NEW r \in Requests, NEW op \in Ops, NEW j \in Jobs, Submit(r, op, j)
    PROVE  RequestsOK'
<1>. DEFINE q == [op |-> op, job |-> j, status |-> status[j], pinned |-> pinned[j],
                  worker |-> workerId[j], todo |-> Plan(op, status[j], pinned[j])]
<1>1. op \in OpNames
    BY OpsType
<1>2. /\ Plan(op, status[j], pinned[j]) \in Seq(StepNames)
      /\ op \notin {"cancel", "pause"} => Plan(op, status[j], pinned[j]) \in Seq(StepNames \ {"ask", "signal"})
    BY <1>1, PlanType
<1>3. op \notin {"cancel", "pause"} => Plan(op, status[j], pinned[j]) \in Seq(StepNames \ {"ask", "signal"})
    BY <1>2
<1>4. q \in ReqType
    BY <1>1, <1>2 DEF ReqType, TypeOK
<1>5. req' = [req EXCEPT ![r] = q] /\ requests' = requests + 1
    BY DEF Submit
<1>6. q.op = op /\ q.job = j /\ q.todo = Plan(op, status[j], pinned[j])
    OBVIOUS
<1>. HIDE DEF q
<1>. QED BY <1>3, <1>4, <1>5, <1>6 DEF RequestsOK, PlansOK

(* What a request's step does to the requests ... *)
LEMMA ServingKeeps ==
    ASSUME RequestsOK, NEW r \in Requests, Serving(r) \/ RequestDies(r)
    PROVE  RequestsOK'
<1>. USE DEF Doing
<1>1. CASE AskWorker(r)
  <2>1. PICK left \in {<<"signal", "remove", "settle">>, <<"signal", "remove">>} :
            req' = [req EXCEPT ![r].todo = left]
    BY <1>1 DEF AskWorker
  <2>2. req[r] \in ReqType /\ req[r].todo # <<>> /\ Head(req[r].todo) = "ask" /\ requests' = requests
    BY <1>1 DEF AskWorker, RequestsOK
  <2>3. req[r].op \in {"cancel", "pause"}
    <3>. SUFFICES ASSUME req[r].op \notin {"cancel", "pause"} PROVE FALSE
        OBVIOUS
    <3>1. req[r].todo \in Seq(StepNames \ {"ask", "signal"})
        BY DEF RequestsOK, PlansOK
    <3>2. Head(req[r].todo) \in StepNames \ {"ask", "signal"}
        BY <2>2, <3>1
    <3>. QED BY <2>2, <3>2
  <2>4. left \in Seq(StepNames)
    <3>1. "signal" \in StepNames /\ "remove" \in StepNames /\ "settle" \in StepNames
        BY DEF StepNames
    <3>2. <<"signal", "remove", "settle">> \in Seq(StepNames) /\ <<"signal", "remove">> \in Seq(StepNames)
        BY <3>1
    <3>. QED BY <3>2
  <2>5. [req[r] EXCEPT !.todo = left] \in ReqType
    BY <2>2, <2>4 DEF ReqType
  <2>6. req' = [req EXCEPT ![r] = [req[r] EXCEPT !.todo = left]]
    BY <2>1
  <2>7. req'[r].op = req[r].op /\ req'[r].job = req[r].job
    BY <2>2, <2>6 DEF RequestsOK, ReqType
  <2>8. \A q \in Requests \ {r} : req'[q] = req[q]
    BY <2>6
  <2>. QED BY <2>2, <2>3, <2>5, <2>6, <2>7, <2>8 DEF RequestsOK, PlansOK
<1>2. CASE ~AskWorker(r)
  <2>1. req[r].todo # <<>> /\ (Proceed(r) \/ Finish(r))
    BY <1>2 DEF Serving, SendSignal, RemoveJob, ClearJobSignal, EnqueueJob, SettleJob, CommitJob, RowIsGone,
        PreemptAgain, RequestDies
  <2>. QED BY <2>1, ProceedKeeps
<1>. QED BY <1>1, <1>2

(* ... to the queue ... *)
LEMMA ServingIsQueueStep ==
    ASSUME RequestsOK, NEW r \in Requests, Serving(r) \/ RequestDies(r)
    PROVE  [QueueNext]_queueVars
<1>. USE DEF Doing, queueVars
<1>1. CASE SendSignal(r)
  <2>1. req[r].todo # <<>> /\ Head(req[r].todo) = "signal" /\ Signal(req[r].job, req[r].op)
    BY <1>1 DEF SendSignal
  <2>2. req[r].op \in {"cancel", "pause"}
    <3>. SUFFICES ASSUME req[r].op \notin {"cancel", "pause"} PROVE FALSE
        OBVIOUS
    <3>1. req[r].todo \in Seq(StepNames \ {"ask", "signal"})
        BY DEF RequestsOK, PlansOK
    <3>2. Head(req[r].todo) \in StepNames \ {"ask", "signal"}
        BY <2>1, <3>1
    <3>. QED BY <2>1, <3>2
  <2>3. req[r].job \in Jobs
    BY <2>1 DEF RequestsOK
  <2>. QED BY <2>1, <2>2, <2>3 DEF QueueNext
<1>2. CASE RemoveJob(r) \/ ClearJobSignal(r) \/ EnqueueJob(r)
  <2>1. req[r].job \in Jobs
    BY <1>2 DEF RemoveJob, ClearJobSignal, EnqueueJob, RequestsOK
  <2>. QED BY <1>2, <2>1 DEF RemoveJob, ClearJobSignal, EnqueueJob, QueueNext
<1>3. CASE AskWorker(r) \/ SettleJob(r) \/ CommitJob(r) \/ RowIsGone(r) \/ PreemptAgain(r) \/ RequestDies(r)
    BY <1>3 DEF AskWorker, SettleJob, CommitJob, RowIsGone, PreemptAgain, RequestDies, dispatchVars
<1>. QED BY <1>1, <1>2, <1>3 DEF Serving

(* ... and to the rest of the dispatch. *)
LEMMA ServingKeepsTypes ==
    ASSUME TypeInv, RequestsOK, NEW r \in Requests, Serving(r) \/ RequestDies(r)
    PROVE  TypeInv'
<1>1. QueueTypeOK'
    BY ServingIsQueueStep, QueueTypeStep DEF TypeInv, TypeOK
<1>2. UNCHANGED <<task, workerVars, pinOps>>
    BY DEF Serving, AskWorker, SendSignal, RemoveJob, ClearJobSignal, EnqueueJob, SettleJob, CommitJob,
        RowIsGone, PreemptAgain, RequestDies, dispatchVars
<1>3. status' \in [Jobs -> JobStatus] /\ pinned' \in [Jobs -> BOOLEAN]
      /\ workerId' \in [Jobs -> Workers \cup {NoWorker}]
  <2>. USE DEF TypeInv, TypeOK
  <2>1. CASE SettleJob(r)
    <3>1. status' \in [Jobs -> JobStatus]
        BY <2>1 DEF SettleJob, SetStatus, JobStatus
    <3>2. pinned' \in [Jobs -> BOOLEAN]
        BY <2>1 DEF SettleJob, Unpin
    <3>3. workerId' \in [Jobs -> Workers \cup {NoWorker}]
        BY <2>1 DEF SettleJob, SetWorker
    <3>. QED BY <3>1, <3>2, <3>3
  <2>2. CASE CommitJob(r)
    BY <2>2 DEF CommitJob, SetStatus, JobStatus
  <2>3. CASE ~SettleJob(r) /\ ~CommitJob(r)
    <3>1. UNCHANGED dbVars
        BY <2>3 DEF Serving, AskWorker, SendSignal, RemoveJob, ClearJobSignal, EnqueueJob, RowIsGone,
            PreemptAgain, RequestDies, dispatchVars
    <3>. QED BY <3>1 DEF dbVars
  <2>. QED BY <2>1, <2>2, <2>3
<1>4. faults' \in Nat
    BY DEF Serving, AskWorker, MaySeemGone, SendSignal, RemoveJob, ClearJobSignal, EnqueueJob, SettleJob, CommitJob,
        RowIsGone, PreemptAgain, RequestDies, dispatchVars, Fault, TypeInv, TypeOK
<1>5. admin' \in AdminType /\ AdminOK'
  <2>1. CASE PreemptAgain(r)
    <3>1. req[r].job \in Jobs
        BY <2>1 DEF PreemptAgain, Doing, RequestsOK
    <3>2. admin' = [IdleAdmin EXCEPT !.pc = "scan", !.job = req[r].job]
        BY <2>1 DEF PreemptAgain
    <3>3. admin' \in AdminType /\ admin'.pc = "scan" /\ admin'.job = req[r].job
        BY <3>1, <3>2 DEF IdleAdmin, AdminType
    <3>. QED BY <3>1, <3>3 DEF AdminOK
  <2>2. CASE ~PreemptAgain(r)
    <3>1. admin' = admin
        BY <2>2 DEF Serving, AskWorker, SendSignal, RemoveJob, ClearJobSignal, EnqueueJob, SettleJob, CommitJob,
            RowIsGone, RequestDies, dispatchVars
    <3>. QED BY <3>1 DEF TypeInv, TypeOK, AdminOK
  <2>. QED BY <2>1, <2>2
<1>. QED BY <1>1, <1>2, <1>3, <1>4, <1>5 DEF TypeInv, TypeOK, TaskOK, OutcomeOK, workerVars

-----------------------------------------------------------------------------
LEMMA ControlInvInit == ControlInit => ControlInv
<1>. SUFFICES ASSUME ControlInit PROVE ControlInv
    OBVIOUS
<1>0. IdleAdmin \in AdminType /\ IdleAdmin.pc = "idle"
    BY DEF IdleAdmin, AdminType
<1>1. TypeInv
    BY <1>0, ModelOfType DEF ControlInit, DispatchInit, TypeInv, TypeOK, QueueTypeOK, TaskOK, OutcomeOK, AdminOK,
        Signals, JobStatus, TaskType, IdleTask
<1>2. IdleReq \in ReqType /\ IdleReq.todo = <<>>
    BY DEF IdleReq, ReqType, JobStatus
<1>3. <<>> \in Seq(StepNames \ {"ask", "signal"})
    OBVIOUS
<1>. QED BY <1>1, <1>2, <1>3 DEF ControlInit, ControlInv, RequestsOK, PlansOK

LEMMA ControlStep ==
    ASSUME ControlInv, [ControlNext]_vars
    PROVE  ControlInv' /\ [QueueNext]_queueVars
<1>. USE DEF ControlInv
<1>1. CASE Next
  <2>1. RequestsOK'
    BY <1>1, DispatchKeepsRequests DEF RequestsOK, PlansOK
  <2>2. [Next]_vars
    BY <1>1
  <2>. QED BY <2>1, <2>2, TypeInvStep, QueueSteps DEF TypeInv
<1>2. ASSUME NEW r \in Requests, NEW op \in Ops, NEW j \in Jobs, Submit(r, op, j)
      PROVE  ControlInv' /\ [QueueNext]_queueVars
  <2>1. UNCHANGED <<queueVars, dbVars, workerVars, task, admin, pinOps, faults>>
    BY <1>2 DEF Submit, dispatchVars
  <2>2. TypeInv'
    BY <2>1 DEF TypeInv, TypeOK, QueueTypeOK, TaskOK, OutcomeOK, AdminOK, queueVars, dbVars, workerVars
  <2>. QED BY <1>2, <2>1, <2>2, SubmitKeeps DEF TypeInv
<1>3. ASSUME NEW r \in Requests, Serving(r) \/ RequestDies(r)
      PROVE  ControlInv' /\ [QueueNext]_queueVars
    BY <1>3, ServingKeeps, ServingIsQueueStep, ServingKeepsTypes
<1>4. CASE UNCHANGED vars
  <2>1. UNCHANGED <<queueVars, dbVars, workerVars, task, admin, pinOps, faults, req, requests>>
    BY <1>4 DEF vars, rest
  <2>2. TypeInv'
    BY <2>1 DEF TypeInv, TypeOK, QueueTypeOK, TaskOK, OutcomeOK, AdminOK, queueVars, dbVars, workerVars
  <2>3. RequestsOK'
    BY <2>1 DEF RequestsOK, PlansOK
  <2>. QED BY <2>1, <2>2, <2>3
<1>. QED BY <1>1, <1>2, <1>3, <1>4 DEF ControlNext

(* Users' requests and workers together keep every variable in its type,   *)
(* and a request that still has something to do has a job to do it to.     *)
THEOREM ControlTypeCorrect == ControlSpec => []ControlTypeOK
<1>1. ControlInv => ControlTypeOK
    BY DEF ControlInv, RequestsOK, TypeInv, ControlTypeOK
<1>2. ControlInv /\ [ControlNext]_vars => ControlInv'
    BY ControlStep
<1>. QED BY <1>1, <1>2, ControlInvInit, PTL DEF ControlSpec

(* However users cancel, pause, resume, retry, reorder and delete jobs     *)
(* while workers claim, renew, release and reap them, a limited model's    *)
(* running set does not outgrow its limit (queue.py:12-13).                *)
THEOREM SlotsBoundedUnderControl == ControlSpec => []SlotsBounded
<1>1. ControlInit => SlotsBounded
  <2>. SUFFICES ASSUME ControlInit, NEW m \in Models, JobLimit[m] > 0
                PROVE  Cardinality(modelRunning[m]) <= JobLimit[m]
      BY DEF SlotsBounded
  <2>1. modelRunning[m] = {} /\ JobLimit[m] \in Nat
      BY JobLimitType DEF ControlInit, DispatchInit
  <2>. QED BY <2>1, FS_EmptySet
<1>2. ControlInv /\ [ControlNext]_vars => ControlInv'
    BY ControlStep
<1>3. ControlInv /\ SlotsBounded /\ [ControlNext]_vars => SlotsBounded'
    BY ControlStep, SlotsStep DEF ControlInv, TypeInv, TypeOK
<1>. QED BY <1>1, <1>2, <1>3, ControlInvInit, PTL DEF ControlSpec

-----------------------------------------------------------------------------
(* Who is in charge of a job.  A task carries its job until it has written *)
(* a status the job may rest in, or queued it; it executes the job from    *)
(* the write of "running" to that of the outcome.                          *)
Executing(t) == task[t].pc \in {"work", "final"}

Carrying(t) ==
    \/ task[t].pc \in {"load", "check", "yield", "prepare", "work", "final",
                       "handover", "settle", "land", "unsignal", "enqueue"}
    \/ task[t].pc = "release" /\ task[t].outcome = "queued"

(* What a request has left to do: the stop of a running job whose worker   *)
(* is alive, a stop that settles the job itself, a way back to the queue,  *)
(* or nothing that bears on who is in charge.                              *)
AliveStops == {<<"ask">>, <<"signal", "remove">>, <<"remove">>}

SettlingStops ==
    {<<"signal", "remove", "settle", "unsignal">>, <<"remove", "settle", "unsignal">>,
     <<"settle", "unsignal">>, <<"signal", "remove", "settle">>, <<"remove", "settle">>, <<"settle">>}

Requeues ==
    {<<"unsignal", "commit", "enqueue">>, <<"commit", "enqueue">>, <<"enqueue">>,
     <<"unsignal", "commit", "enqueue", "preempt">>, <<"commit", "enqueue", "preempt">>,
     <<"enqueue", "preempt">>, <<"commit", "unsignal", "enqueue">>, <<"unsignal", "enqueue">>,
     <<"remove", "enqueue">>}

Rests == {<<>>, <<"unsignal">>, <<"preempt">>}

Owes(r) == req[r].todo \in SettlingStops \cup Requeues

(* A stop that leaves the rest to the worker has not met a queued job.     *)
PlanOK(r) ==
    \/ Owes(r)
    \/ req[r].todo \in Rests
    \/ req[r].todo \in AliveStops /\ status[req[r].job] # "queued"
    \/ req[r].todo = <<"commit", "remove", "unsignal">> /\ req[r].op = "delete"
    \/ req[r].todo = <<"remove", "unsignal">> /\ status[req[r].job] = "deleted"

InHands(j) == \E t \in Tasks : Carrying(t) /\ task[t].job = j

InCharge(j) ==
    /\ status[j] = "running" => \E t \in Tasks : Executing(t) /\ task[t].job = j
    /\ status[j] \in {"queued", "running"} =>
           j \in queue \/ InHands(j) \/ \E r \in Requests : Owes(r) /\ req[r].job = j

ChargeInv ==
    /\ \A w \in Workers : mode[w] = "up"
    /\ \A j \in Jobs : InCharge(j)
    /\ \A r \in Requests : PlanOK(r)

(* Two requests to the same job do not overlap ...                         *)
RequestsApart ==
    \A r, q \in Requests :
        req[r].todo # <<>> /\ req[q].todo # <<>> /\ req[r].job = req[q].job => r = q

(* ... and no job is stopped while it yields to a pinned one.              *)
Yields(t) == task[t].pc = "yield" \/ (task[t].pc = "final" /\ task[t].outcome = "queued")

StopsMeetNoYield ==
    \A r \in Requests, t \in Tasks :
        req[r].todo \in AliveStops /\ task[t].job = req[r].job => ~Yields(t)

-----------------------------------------------------------------------------
(* A step of a task on its job k.                                          *)
LEMMA TaskCharge ==
    ASSUME TypeInv, \A j \in Jobs : InCharge(j), NEW t \in Tasks, Engaged(t),
           task' \in [Tasks -> TaskType], UNCHANGED req, queue \subseteq queue',
           \A u \in Tasks : u # t => task'[u] = task[u],
           \A j \in Jobs : j # task[t].job => status'[j] = status[j],
           \/ /\ task'[t].job = task[t].job /\ status'[task[t].job] = status[task[t].job]
              /\ Executing(t) => Executing(t)'
              /\ Carrying(t) => Carrying(t)'
           \/ status'[task[t].job] \notin {"queued", "running"}
           \/ /\ task'[t].job = task[t].job /\ Carrying(t)'
              /\ status'[task[t].job] = "queued" \/ Executing(t)'
           \/ /\ ~Executing(t) /\ status'[task[t].job] = status[task[t].job]
              /\ ~Carrying(t) \/ task[t].job \in queue' \/ status[task[t].job] # "queued"
    PROVE  \A j \in Jobs : InCharge(j)'
<1>. SUFFICES ASSUME NEW j \in Jobs PROVE InCharge(j)'
    OBVIOUS
<1>1. task[t].job \in Jobs
    BY DEF TypeInv, TaskOK, Engaged
<1>2. InCharge(j)
    OBVIOUS
<1>3. \A u \in Tasks : Executing(u) => Carrying(u)
    BY DEF Executing, Carrying
<1>4. \A r \in Requests : Owes(r) <=> Owes(r)'
    BY DEF Owes
<1>5. \A u \in Tasks : u # t => (Executing(u)' <=> Executing(u)) /\ (Carrying(u)' <=> Carrying(u))
    BY DEF Executing, Carrying
<1>6. CASE j # task[t].job
  <2>1. ASSUME NEW u \in Tasks, task[u].job = j PROVE task'[u] = task[u] /\ u # t
    BY <1>6, <2>1
  <2>. QED BY <1>2, <1>4, <1>5, <1>6, <2>1 DEF InCharge, InHands
<1>7. CASE j = task[t].job
  <2>1. CASE /\ task'[t].job = task[t].job /\ status'[j] = status[j]
             /\ Executing(t) => Executing(t)'
             /\ Carrying(t) => Carrying(t)'
    <3>1. ASSUME NEW u \in Tasks, task[u].job = j
          PROVE  task'[u].job = j /\ (Executing(u) => Executing(u)') /\ (Carrying(u) => Carrying(u)')
        BY <1>5, <1>7, <2>1, <3>1
    <3>. QED BY <1>2, <1>4, <2>1, <3>1 DEF InCharge, InHands
  <2>2. CASE status'[j] \notin {"queued", "running"}
    BY <2>2 DEF InCharge
  <2>3. CASE /\ task'[t].job = task[t].job /\ Carrying(t)'
             /\ status'[j] = "queued" \/ Executing(t)'
    BY <1>7, <2>3 DEF InCharge, InHands
  <2>4. CASE /\ ~Executing(t) /\ status'[j] = status[j]
             /\ ~Carrying(t) \/ j \in queue' \/ status[j] # "queued"
    <3>1. ASSUME NEW u \in Tasks, task[u].job = j, Executing(u)
          PROVE  task'[u].job = j /\ Executing(u)' /\ Carrying(u)'
        BY <1>3, <1>5, <2>4, <3>1
    <3>2. ASSUME ~Carrying(t), NEW u \in Tasks, task[u].job = j, Carrying(u)
          PROVE  task'[u].job = j /\ Carrying(u)'
        BY <1>5, <3>2
    <3>. QED BY <1>2, <1>4, <2>4, <3>1, <3>2 DEF InCharge, InHands
  <2>. QED BY <1>7, <2>1, <2>2, <2>3, <2>4
<1>. QED BY <1>6, <1>7

(* A step that touches no task and no status, and takes nothing from the   *)
(* queue.                                                                  *)
LEMMA QuietCharge ==
    ASSUME \A j \in Jobs : InCharge(j), UNCHANGED <<task, status, req>>, queue \subseteq queue'
    PROVE  \A j \in Jobs : InCharge(j)'
BY DEF InCharge, InHands, Owes, Executing, Carrying

(* A step of the dispatch, where no worker is lost and nothing fails that  *)
(* loses a job on the spot.                                                *)
LEMMA RunningCharge ==
    ASSUME TypeInv, \A j \in Jobs : InCharge(j), NEW t \in Tasks, Running(t),
           task' \in [Tasks -> TaskType], UNCHANGED req
    PROVE  \A j \in Jobs : InCharge(j)'
<1>. USE DEF TaskOnly, DbOnly, RedisOnly, queueVars, dbVars, Become, BecomeWith, Idle, SetStatus
<1>. DEFINE k == task[t].job
<1>0. status \in [Jobs -> JobStatus] /\ task \in [Tasks -> TaskType]
    BY DEF TypeInv, TypeOK
<1>1. Engaged(t)
    BY DEF Running, Load, CheckPin, YieldBeforeStart, MarkRunning, EndDispatch, Finalize, ClearOwnSignal,
        Release, Engaged
<1>2. k \in Jobs
    BY <1>1 DEF Engaged, TypeInv, TaskOK
<1>3. CASE Load(t)
  <2>1. queue \subseteq queue' /\ (\A u \in Tasks : u # t => task'[u] = task[u]) /\ status' = status
    BY <1>0, <1>3 DEF Load, Return
  <2>2. \/ task'[t].job = k /\ ~Executing(t) /\ Carrying(t)'
        \/ status[k] \notin {"queued", "running"}
    <3>1. CASE status[k] \in {"canceled", "succeeded", "completed", "deleted"}
        BY <3>1
    <3>2. CASE status[k] \notin {"canceled", "succeeded", "completed", "deleted"}
      <4>1. task[t].pc = "load" /\ Become(t, "check")
        BY <1>3, <3>2 DEF Load
      <4>. QED BY <1>0, <4>1 DEF Carrying, Executing
    <3>. QED BY <3>1, <3>2
  <2>. QED BY <1>1, <2>1, <2>2, TaskCharge
<1>4. CASE CheckPin(t)
  <2>1. queue \subseteq queue' /\ (\A u \in Tasks : u # t => task'[u] = task[u]) /\ status' = status
    BY <1>0, <1>4 DEF CheckPin
  <2>2. task'[t].job = k /\ ~Executing(t) /\ Carrying(t)'
    BY <1>0, <1>4 DEF CheckPin, Carrying, Executing
  <2>. QED BY <1>1, <2>1, <2>2, TaskCharge
<1>5. CASE YieldBeforeStart(t)
  <2>1. /\ queue \subseteq queue' /\ \A u \in Tasks : u # t => task'[u] = task[u]
        /\ \A j \in Jobs : j # k => status'[j] = status[j]
    BY <1>0, <1>5 DEF YieldBeforeStart, Return
  <2>2. task'[t].job = k /\ Carrying(t)'
    BY <1>0, <1>5 DEF YieldBeforeStart, Return, Carrying
  <2>3. status'[k] = "queued" \/ status'[k] = "deleted"
    BY <1>0, <1>2, <1>5 DEF YieldBeforeStart
  <2>. QED BY <1>1, <2>1, <2>2, <2>3, TaskCharge
<1>6. CASE MarkRunning(t)
  <2>1. /\ queue \subseteq queue' /\ \A u \in Tasks : u # t => task'[u] = task[u]
        /\ \A j \in Jobs : j # k => status'[j] = status[j]
    BY <1>0, <1>6 DEF MarkRunning
  <2>2. task'[t].job = k /\ Executing(t)' /\ Carrying(t)'
    BY <1>0, <1>6 DEF MarkRunning, Carrying, Executing
  <2>. QED BY <1>1, <2>1, <2>2, TaskCharge
<1>7. CASE EndDispatch(t)
  <2>1. queue \subseteq queue' /\ (\A u \in Tasks : u # t => task'[u] = task[u]) /\ status' = status
    BY <1>0, <1>7 DEF EndDispatch
  <2>2. task'[t].job = k /\ Executing(t)' /\ Carrying(t)'
    BY <1>0, <1>7 DEF EndDispatch, Carrying, Executing
  <2>. QED BY <1>1, <2>1, <2>2, TaskCharge
<1>8. CASE Finalize(t)
  <2>1. /\ queue \subseteq queue' /\ \A u \in Tasks : u # t => task'[u] = task[u]
        /\ \A j \in Jobs : j # k => status'[j] = status[j]
    BY <1>0, <1>8 DEF Finalize
  <2>2. task[t].outcome \in {"succeeded", "completed", "canceled", "paused", "queued"}
    BY <1>8 DEF Finalize, TypeInv, OutcomeOK
  <2>3. status'[k] = "deleted" \/ status'[k] = task[t].outcome
    BY <1>0, <1>2, <1>8 DEF Finalize
  <2>4. CASE task[t].outcome = "queued"
    <3>0. task[t].pc = "final" /\ Become(t, "release")
        BY <1>8, <2>4 DEF Finalize
    <3>1. task'[t].job = k /\ Carrying(t)'
        BY <1>0, <2>4, <3>0 DEF Carrying
    <3>. QED BY <1>1, <2>1, <2>3, <2>4, <3>1, TaskCharge
  <2>5. CASE task[t].outcome # "queued"
    BY <1>1, <2>1, <2>2, <2>3, <2>5, TaskCharge
  <2>. QED BY <2>4, <2>5
<1>9. CASE ClearOwnSignal(t)
  <2>1. queue \subseteq queue' /\ (\A u \in Tasks : u # t => task'[u] = task[u]) /\ status' = status
    BY <1>0, <1>9 DEF ClearOwnSignal, ClearSignal, Signal
  <2>2. ~Executing(t) /\ ~Carrying(t)
    BY <1>9 DEF ClearOwnSignal, Carrying, Executing
  <2>. QED BY <1>1, <2>1, <2>2, TaskCharge
<1>10. CASE Release(t)
  <2>1. queue \subseteq queue' /\ (\A u \in Tasks : u # t => task'[u] = task[u]) /\ status' = status
    BY <1>0, <1>10 DEF Release, ReleaseLease, AfterRelease
  <2>2. \/ task'[t].job = k /\ ~Executing(t) /\ Carrying(t)'
        \/ ~Executing(t) /\ ~Carrying(t)
    <3>1. task[t].pc = "release"
        BY <1>10 DEF Release
    <3>2. CASE task[t].outcome = "queued"
      <4>1. Become(t, "handover")
        BY <1>10, <3>2 DEF Release, AfterRelease
      <4>. QED BY <1>0, <3>1, <4>1 DEF Carrying, Executing
    <3>3. CASE task[t].outcome # "queued"
        BY <3>1, <3>3 DEF Carrying, Executing
    <3>. QED BY <3>2, <3>3
  <2>. QED BY <1>1, <2>1, <2>2, TaskCharge
<1>. QED BY <1>3, <1>4, <1>5, <1>6, <1>7, <1>8, <1>9, <1>10 DEF Running

LEMMA HandingOverCharge ==
    ASSUME TypeInv, \A j \in Jobs : InCharge(j), NEW t \in Tasks, HandingOver(t),
           task' \in [Tasks -> TaskType], UNCHANGED req
    PROVE  \A j \in Jobs : InCharge(j)'
<1>. USE DEF TaskOnly, DbOnly, RedisOnly, queueVars, dbVars, Become, BecomeWith, Idle, SetStatus, ClearSignal, Signal
<1>. DEFINE k == task[t].job
<1>0. status \in [Jobs -> JobStatus] /\ task \in [Tasks -> TaskType]
    BY DEF TypeInv, TypeOK
<1>1. Engaged(t) /\ ~Executing(t)
    BY DEF HandingOver, Handover, SettleSignal, Land, ClearLanded, ClearBeforeEnqueue, EnqueueYielded, Engaged, Executing
<1>2. k \in Jobs
    BY <1>1 DEF Engaged, TypeInv, TaskOK
<1>3. CASE Handover(t)
  <2>1. queue \subseteq queue' /\ (\A u \in Tasks : u # t => task'[u] = task[u]) /\ status' = status
    BY <1>0, <1>3 DEF Handover
  <2>2. (task'[t].job = k /\ Carrying(t)') \/ status[k] # "queued"
    <3>1. CASE status[k] = "queued"
      <4>1. Become(t, "settle")
        BY <1>3, <3>1 DEF Handover
      <4>. QED BY <1>0, <4>1 DEF Carrying
    <3>. QED BY <3>1
  <2>. QED BY <1>1, <2>1, <2>2, TaskCharge
<1>4. CASE SettleSignal(t)
  <2>1. queue \subseteq queue' /\ (\A u \in Tasks : u # t => task'[u] = task[u]) /\ status' = status
    BY <1>0, <1>4 DEF SettleSignal
  <2>2. task'[t].job = k /\ Carrying(t)'
    <3>1. CASE ctrl[k] = "cancel"
      <4>1. BecomeWith(t, "land", "canceled")
        BY <1>4, <3>1 DEF SettleSignal
      <4>. QED BY <1>0, <4>1 DEF Carrying
    <3>2. CASE ctrl[k] = "pause"
      <4>1. BecomeWith(t, "land", "paused")
        BY <1>4, <3>2 DEF SettleSignal
      <4>. QED BY <1>0, <4>1 DEF Carrying
    <3>3. CASE ctrl[k] \notin {"cancel", "pause"}
      <4>1. Become(t, "unsignal")
        BY <1>4, <3>3 DEF SettleSignal
      <4>. QED BY <1>0, <4>1 DEF Carrying
    <3>. QED BY <3>1, <3>2, <3>3
  <2>. QED BY <1>1, <2>1, <2>2, TaskCharge
<1>5. CASE Land(t)
  <2>1. /\ queue \subseteq queue' /\ \A u \in Tasks : u # t => task'[u] = task[u]
        /\ \A j \in Jobs : j # k => status'[j] = status[j]
    BY <1>0, <1>5 DEF Land
  <2>2. task[t].outcome \in {"canceled", "paused"}
    BY <1>5 DEF Land, TypeInv, OutcomeOK
  <2>3. status'[k] = "deleted" \/ status'[k] = task[t].outcome
    BY <1>0, <1>2, <1>5 DEF Land
  <2>. QED BY <1>1, <2>1, <2>2, <2>3, TaskCharge
<1>6. CASE ClearLanded(t)
  <2>1. queue \subseteq queue' /\ (\A u \in Tasks : u # t => task'[u] = task[u]) /\ status' = status
    BY <1>0, <1>6 DEF ClearLanded
  <2>2. ~Carrying(t)
    BY <1>6 DEF ClearLanded, Carrying
  <2>. QED BY <1>1, <2>1, <2>2, TaskCharge
<1>7. CASE ClearBeforeEnqueue(t)
  <2>1. queue \subseteq queue' /\ (\A u \in Tasks : u # t => task'[u] = task[u]) /\ status' = status
    BY <1>0, <1>7 DEF ClearBeforeEnqueue
  <2>2. task'[t].job = k /\ Carrying(t)'
    BY <1>0, <1>7 DEF ClearBeforeEnqueue, Carrying
  <2>. QED BY <1>1, <2>1, <2>2, TaskCharge
<1>8. CASE EnqueueYielded(t)
  <2>1. /\ queue \subseteq queue' /\ k \in queue' /\ \A u \in Tasks : u # t => task'[u] = task[u]
        /\ status' = status
    BY <1>0, <1>8 DEF EnqueueYielded, Enqueue
  <2>. QED BY <1>1, <2>1, TaskCharge
<1>. QED BY <1>3, <1>4, <1>5, <1>6, <1>7, <1>8 DEF HandingOver

LEMMA MishapCharge ==
    ASSUME TypeInv, \A j \in Jobs : InCharge(j), NEW t \in Tasks, Mishap(t), FaultKinds \subseteq {"release", "stall", "slow"},
           task' \in [Tasks -> TaskType], UNCHANGED req
    PROVE  \A j \in Jobs : InCharge(j)'
<1>. USE DEF TaskOnly, DbOnly, RedisOnly, queueVars, dbVars, Become, BecomeWith, Idle, SetStatus
<1>. DEFINE k == task[t].job
<1>0. status \in [Jobs -> JobStatus] /\ task \in [Tasks -> TaskType]
    BY DEF TypeInv, TypeOK
<1>1. Engaged(t)
    BY DEF Mishap, PauseForBilling, StopForBilling, FailJob, ReleaseFails, HandoverFails, RunnerRaises, Engaged,
        HandoverPcs, HeldPcs
<1>2. k \in Jobs
    BY <1>1 DEF Engaged, TypeInv, TaskOK
<1>3. CASE PauseForBilling(t) \/ FailJob(t)
  <2>1. /\ queue \subseteq queue' /\ \A u \in Tasks : u # t => task'[u] = task[u]
        /\ \A j \in Jobs : j # k => status'[j] = status[j]
    BY <1>0, <1>3 DEF PauseForBilling, FailJob
  <2>2. status'[k] \in {"deleted", "paused", "failed"}
    BY <1>0, <1>2, <1>3 DEF PauseForBilling, FailJob
  <2>. QED BY <1>1, <2>1, <2>2, TaskCharge
<1>4. CASE StopForBilling(t)
  <2>1. queue \subseteq queue' /\ (\A u \in Tasks : u # t => task'[u] = task[u]) /\ status' = status
    BY <1>0, <1>4 DEF StopForBilling
  <2>2. task'[t].job = k /\ Executing(t)' /\ Carrying(t)'
    BY <1>0, <1>4 DEF StopForBilling, Carrying, Executing
  <2>. QED BY <1>1, <2>1, <2>2, TaskCharge
<1>5. CASE ReleaseFails(t)
  <2>1. queue \subseteq queue' /\ (\A u \in Tasks : u # t => task'[u] = task[u]) /\ status' = status
    BY <1>0, <1>5 DEF ReleaseFails, AfterRelease
  <2>2. \/ task'[t].job = k /\ ~Executing(t) /\ Carrying(t)'
        \/ ~Executing(t) /\ ~Carrying(t)
    <3>1. task[t].pc = "release"
        BY <1>5 DEF ReleaseFails
    <3>2. CASE task[t].outcome = "queued"
      <4>1. Become(t, "handover")
        BY <1>5, <3>2 DEF ReleaseFails, AfterRelease
      <4>. QED BY <1>0, <3>1, <4>1 DEF Carrying, Executing
    <3>3. CASE task[t].outcome # "queued"
        BY <3>1, <3>3 DEF Carrying, Executing
    <3>. QED BY <3>2, <3>3
  <2>. QED BY <1>1, <2>1, <2>2, TaskCharge
<1>6. ~HandoverFails(t) /\ ~RunnerRaises(t)
    BY DEF HandoverFails, RunnerRaises, Fault
<1>. QED BY <1>3, <1>4, <1>5, <1>6 DEF Mishap

LEMMA DispatchCharge ==
    ASSUME TypeInv, \A w \in Workers : mode[w] = "up", \A j \in Jobs : InCharge(j), Next, UNCHANGED req,
           MaxLost = 0, FaultKinds \subseteq {"release", "stall", "slow"}
    PROVE  (\A w \in Workers : mode'[w] = "up") /\ \A j \in Jobs : InCharge(j)'
<1>. DEFINE Goal == (\A w \in Workers : mode'[w] = "up") /\ \A j \in Jobs : InCharge(j)'
<1>. USE DEF TaskOnly, DbOnly, RedisOnly, queueVars, dbVars, workerVars
<1>0. status \in [Jobs -> JobStatus] /\ task \in [Tasks -> TaskType] /\ task' \in [Tasks -> TaskType]
    BY TaskTypeStep DEF TypeInv, TypeOK
<1>1. ASSUME NEW t \in Tasks, Running(t) PROVE Goal
  <2>1. mode' = mode
    BY <1>1 DEF Running, Load, CheckPin, YieldBeforeStart, MarkRunning, EndDispatch, Finalize, ClearOwnSignal,
        Release, AfterRelease, workerRest
  <2>. QED BY <1>0, <1>1, <2>1, RunningCharge
<1>2. ASSUME NEW t \in Tasks, Watching(t) PROVE Goal
  <2>1. mode' = mode /\ queue' = queue /\ status' = status
    BY <1>2 DEF Watching, PollSignal, CheckRequeue, DropStaleSignal, RenewLease, ClearSignal, Signal
  <2>2. PICK o \in JobStatus \cup {"none"}, v \in {"sleep", "requeue", "stale", "off"} :
            task' = [task EXCEPT ![t] = [task[t] EXCEPT !.outcome = o, !.watch = v]]
    BY <1>2, WatchMoves DEF TypeInv
  <2>3. task[t].pc = "work"
    BY <1>2 DEF Watching, PollSignal, CheckRequeue, DropStaleSignal
  <2>4. /\ task'[t].pc = "work" /\ task'[t].job = task[t].job
        /\ \A u \in Tasks : u # t => task'[u] = task[u]
    BY <1>0, <2>2, <2>3 DEF TaskType
  <2>5. Engaged(t) /\ Executing(t)' /\ Carrying(t)'
    BY <2>3, <2>4 DEF Engaged, Executing, Carrying
  <2>. QED BY <1>0, <2>1, <2>4, <2>5, TaskCharge
<1>3. ASSUME NEW t \in Tasks, HandingOver(t) PROVE Goal
  <2>1. mode' = mode
    BY <1>3 DEF HandingOver, Handover, SettleSignal, Land, ClearLanded, ClearBeforeEnqueue, EnqueueYielded
  <2>. QED BY <1>0, <1>3, <2>1, HandingOverCharge
<1>4. ASSUME NEW t \in Tasks, Mishap(t) PROVE Goal
  <2>1. mode' = mode
    BY <1>4 DEF Mishap, PauseForBilling, StopForBilling, FailJob, ReleaseFails, AfterRelease, HandoverFails, RunnerRaises,
        workerRest
  <2>. QED BY <1>0, <1>4, <2>1, MishapCharge
<1>5. ASSUME NEW w \in Workers, Claiming(w) PROVE Goal
  <2>1. ASSUME NEW j \in Jobs, NEW t \in Tasks, Claim(w, t, j) PROVE Goal
    <3>1. /\ queue' = queue \ {j} /\ status' = status /\ mode' = mode
          /\ task[t] = IdleTask /\ \A u \in Tasks : u # t => task'[u] = task[u]
        BY <1>0, <2>1 DEF Claim, ClaimJob
    <3>2. task'[t].pc = "load" /\ task'[t].job = j
        BY <1>0, <2>1 DEF Claim, IdleTask
    <3>3. ~Carrying(t) /\ ~Executing(t) /\ Carrying(t)'
        BY <3>1, <3>2 DEF Carrying, Executing, IdleTask
    <3>4. \A u \in Tasks : u # t => (Carrying(u)' <=> Carrying(u)) /\ (Executing(u)' <=> Executing(u))
        BY <3>1 DEF Carrying, Executing
    <3>5. \A r \in Requests : Owes(r)' <=> Owes(r)
        BY DEF Owes
    <3>6. ASSUME NEW i \in Jobs PROVE InCharge(i)'
      <4>1. InCharge(i)
        OBVIOUS
      <4>2. ASSUME NEW u \in Tasks, task[u].job = i, Carrying(u) \/ Executing(u)
            PROVE  task'[u].job = i /\ (Carrying(u) => Carrying(u)') /\ (Executing(u) => Executing(u)')
        BY <3>1, <3>3, <3>4, <4>2
      <4>. QED BY <3>1, <3>2, <3>3, <3>5, <4>1, <4>2 DEF InCharge, InHands
    <3>. QED BY <3>1, <3>6
  <2>2. CASE \A j \in Jobs, t \in Tasks : ~Claim(w, t, j)
    <3>1. UNCHANGED <<task, status, queue, mode>>
        BY <1>5, <2>2 DEF Claiming, StartScan, NothingToClaim, ClaimRefused, ClaimBlocked
    <3>. QED BY <3>1, QuietCharge
  <2>. QED BY <2>1, <2>2
<1>6. ASSUME NEW w \in Workers, Beating(w) \/ Reap(w) \/ Stopping(w) PROVE Goal
  <2>1. ~Stopping(w)
    <3>1. Lost = {}
        BY DEF Lost
    <3>2. ~(Cardinality(Lost) < MaxLost)
        BY <3>1, FS_EmptySet
    <3>. QED BY <3>2 DEF Stopping, Crash, RequestShutdown, Drained
  <2>2. UNCHANGED <<task, status, mode>> /\ queue \subseteq queue'
    BY <1>6, <2>1 DEF Beating, StartHeartbeat, HeartbeatRenew, Reap, RenewLease, ReapExpired
  <2>. QED BY <2>2, QuietCharge
<1>7. ASSUME NEW j \in Jobs, LeaseLapses(j) \/ LeaseLapsesInStall(j) \/ PinJob(j) \/ UnpinJob(j)
      PROVE  Goal
  <2>1. UNCHANGED <<task, status, mode, queue>>
    BY <1>7 DEF LeaseLapses, LeaseLapsesInStall, PinJob, UnpinJob, LapseLease
  <2>. QED BY <2>1, QuietCharge
<1>8. CASE Preempting
  <2>1. UNCHANGED <<task, status, mode, queue>>
    BY <1>8 DEF Preempting, CommitPin, PreemptScan, PreemptRegistered, PreemptSignal, PreemptDone, PreemptPick, SignalIfAbsent
  <2>. QED BY <2>1, QuietCharge
<1>. QED BY <1>1, <1>2, <1>3, <1>4, <1>5, <1>6, <1>7, <1>8 DEF Next

(* What the dispatch does to a status: a deleted row stays deleted, and    *)
(* only a job that yields goes back to "queued".                           *)
LEMMA StatusMoves ==
    ASSUME TypeInv, Next, NEW j \in Jobs
    PROVE  /\ status[j] = "deleted" => status'[j] = "deleted"
           /\ status'[j] = "queued" => status[j] = "queued" \/ \E t \in Tasks : task[t].job = j /\ Yields(t)
<1>. DEFINE Goal == /\ status[j] = "deleted" => status'[j] = "deleted"
                    /\ status'[j] = "queued" => status[j] = "queued" \/ \E t \in Tasks : task[t].job = j /\ Yields(t)
<1>. USE DEF TaskOnly, RedisOnly, queueVars, dbVars
<1>0. status \in [Jobs -> JobStatus]
    BY DEF TypeInv, TypeOK
<1>1. ASSUME status' = status PROVE Goal
    BY <1>1
<1>2. ASSUME NEW k, NEW s, SetStatus(k, s), s # "queued" PROVE Goal
    BY <1>0, <1>2 DEF SetStatus
<1>3. ASSUME NEW t \in Tasks, SetStatus(task[t].job, "queued"), Yields(t) PROVE Goal
    BY <1>0, <1>3 DEF SetStatus
<1>4. ASSUME NEW t \in Tasks, Running(t) PROVE Goal
  <2>1. CASE YieldBeforeStart(t)
    BY <1>3, <2>1 DEF YieldBeforeStart, Yields
  <2>2. CASE MarkRunning(t)
    BY <1>2, <2>2 DEF MarkRunning
  <2>3. CASE Finalize(t)
    <3>1. SetStatus(task[t].job, task[t].outcome) /\ task[t].pc = "final"
        BY <2>3 DEF Finalize
    <3>2. CASE task[t].outcome = "queued"
        BY <1>3, <3>1, <3>2 DEF Yields
    <3>3. CASE task[t].outcome # "queued"
        BY <1>2, <3>1, <3>3
    <3>. QED BY <3>2, <3>3
  <2>4. CASE Load(t) \/ CheckPin(t) \/ EndDispatch(t) \/ ClearOwnSignal(t) \/ Release(t)
    BY <1>1, <2>4 DEF Load, CheckPin, EndDispatch, ClearOwnSignal, Release, AfterRelease
  <2>. QED BY <1>4, <2>1, <2>2, <2>3, <2>4 DEF Running
<1>5. ASSUME NEW t \in Tasks, Watching(t) PROVE Goal
    BY <1>1, <1>5 DEF Watching, PollSignal, CheckRequeue, DropStaleSignal
<1>6. ASSUME NEW t \in Tasks, HandingOver(t) PROVE Goal
  <2>1. CASE Land(t)
    <3>1. SetStatus(task[t].job, task[t].outcome) /\ task[t].outcome # "queued"
        BY <2>1 DEF Land, TypeInv, OutcomeOK
    <3>. QED BY <1>2, <3>1
  <2>. QED BY <1>1, <1>6, <2>1 DEF HandingOver, Handover, SettleSignal, ClearLanded, ClearBeforeEnqueue, EnqueueYielded
<1>7. ASSUME NEW t \in Tasks, Mishap(t) PROVE Goal
  <2>1. CASE PauseForBilling(t)
    BY <1>2, <2>1 DEF PauseForBilling
  <2>2. CASE FailJob(t)
    BY <1>2, <2>2 DEF FailJob
  <2>. QED BY <1>1, <1>7, <2>1, <2>2 DEF Mishap, StopForBilling, ReleaseFails, AfterRelease, HandoverFails, RunnerRaises
<1>8. ASSUME NEW w \in Workers, Claiming(w) \/ Beating(w) \/ Reap(w) \/ Stopping(w) PROVE Goal
    BY <1>1, <1>8 DEF Claiming, StartScan, NothingToClaim, ClaimRefused, Claim, Beating, StartHeartbeat,
        HeartbeatRenew, Reap, Stopping, Crash, RequestShutdown, Drained, Vanish
<1>9. ASSUME NEW i \in Jobs, LeaseLapses(i) \/ LeaseLapsesInStall(i) \/ PinJob(i) \/ UnpinJob(i) PROVE Goal
    BY <1>1, <1>9 DEF LeaseLapses, LeaseLapsesInStall, PinJob, UnpinJob
<1>10. CASE Preempting
    BY <1>1, <1>10 DEF Preempting, CommitPin, PreemptScan, PreemptRegistered, PreemptSignal, PreemptDone, PreemptPick
<1>. QED BY <1>4, <1>5, <1>6, <1>7, <1>8, <1>9, <1>10 DEF Next

LEMMA DispatchChargeInv ==
    ASSUME TypeInv, RequestsOK, ChargeInv, StopsMeetNoYield, Next,
           MaxLost = 0, FaultKinds \subseteq {"release", "stall", "slow"}
    PROVE  ChargeInv'
<1>1. UNCHANGED req
    BY DispatchKeepsRequests
<1>2. (\A w \in Workers : mode'[w] = "up") /\ \A j \in Jobs : InCharge(j)'
    BY <1>1, DispatchCharge DEF ChargeInv
<1>3. ASSUME NEW r \in Requests PROVE PlanOK(r)'
  <2>1. PlanOK(r)
    BY DEF ChargeInv
  <2>2. <<>> # <<"ask">> /\ <<>> # <<"signal", "remove">> /\ <<>> # <<"remove">> /\ <<>> # <<"remove", "unsignal">>
    OBVIOUS
  <2>3. CASE req[r].todo \in AliveStops
    <3>1. req[r].job \in Jobs
        BY <2>2, <2>3 DEF AliveStops, RequestsOK
    <3>2. status'[req[r].job] = "queued" => status[req[r].job] = "queued"
        BY <2>3, <3>1, StatusMoves DEF StopsMeetNoYield
    <3>. QED BY <1>1, <2>1, <2>3, <3>1, <3>2, StatusMoves DEF PlanOK, Owes
  <2>4. CASE req[r].todo = <<"remove", "unsignal">> /\ req[r].todo \notin AliveStops
    <3>1. req[r].job \in Jobs
        BY <2>2, <2>4 DEF RequestsOK
    <3>2. status[req[r].job] = "deleted" => status'[req[r].job] = "deleted"
        BY <3>1, StatusMoves
    <3>. QED BY <1>1, <2>1, <2>4, <3>2 DEF PlanOK, Owes
  <2>. QED BY <1>1, <2>1, <2>3, <2>4 DEF PlanOK, Owes
<1>. QED BY <1>2, <1>3 DEF ChargeInv

-----------------------------------------------------------------------------
(* The plans step by step. *)
LEMMA Heads ==
    /\ Head(<<"ask">>) = "ask" /\ Head(<<"signal", "remove">>) = "signal" /\ Head(<<"remove">>) = "remove"
    /\ Head(<<"signal", "remove", "settle", "unsignal">>) = "signal"
    /\ Head(<<"remove", "settle", "unsignal">>) = "remove" /\ Head(<<"settle", "unsignal">>) = "settle"
    /\ Head(<<"signal", "remove", "settle">>) = "signal" /\ Head(<<"remove", "settle">>) = "remove"
    /\ Head(<<"settle">>) = "settle"
    /\ Head(<<"unsignal", "commit", "enqueue">>) = "unsignal" /\ Head(<<"commit", "enqueue">>) = "commit"
    /\ Head(<<"enqueue">>) = "enqueue" /\ Head(<<"unsignal", "commit", "enqueue", "preempt">>) = "unsignal"
    /\ Head(<<"commit", "enqueue", "preempt">>) = "commit" /\ Head(<<"enqueue", "preempt">>) = "enqueue"
    /\ Head(<<"commit", "unsignal", "enqueue">>) = "commit" /\ Head(<<"unsignal", "enqueue">>) = "unsignal"
    /\ Head(<<"remove", "enqueue">>) = "remove"
    /\ Head(<<"unsignal">>) = "unsignal" /\ Head(<<"preempt">>) = "preempt"
    /\ Head(<<"commit", "remove", "unsignal">>) = "commit" /\ Head(<<"remove", "unsignal">>) = "remove"
OBVIOUS

LEMMA Tails ==
    /\ Tail(<<"signal", "remove">>) = <<"remove">> /\ Tail(<<"remove">>) = <<>>
    /\ Tail(<<"signal", "remove", "settle", "unsignal">>) = <<"remove", "settle", "unsignal">>
    /\ Tail(<<"remove", "settle", "unsignal">>) = <<"settle", "unsignal">>
    /\ Tail(<<"settle", "unsignal">>) = <<"unsignal">>
    /\ Tail(<<"signal", "remove", "settle">>) = <<"remove", "settle">>
    /\ Tail(<<"remove", "settle">>) = <<"settle">> /\ Tail(<<"settle">>) = <<>>
    /\ Tail(<<"unsignal", "commit", "enqueue">>) = <<"commit", "enqueue">>
    /\ Tail(<<"commit", "enqueue">>) = <<"enqueue">> /\ Tail(<<"enqueue">>) = <<>>
    /\ Tail(<<"unsignal", "commit", "enqueue", "preempt">>) = <<"commit", "enqueue", "preempt">>
    /\ Tail(<<"commit", "enqueue", "preempt">>) = <<"enqueue", "preempt">>
    /\ Tail(<<"enqueue", "preempt">>) = <<"preempt">>
    /\ Tail(<<"commit", "unsignal", "enqueue">>) = <<"unsignal", "enqueue">>
    /\ Tail(<<"unsignal", "enqueue">>) = <<"enqueue">> /\ Tail(<<"remove", "enqueue">>) = <<"enqueue">>
    /\ Tail(<<"unsignal">>) = <<>> /\ Tail(<<"preempt">>) = <<>>
    /\ Tail(<<"commit", "remove", "unsignal">>) = <<"remove", "unsignal">>
    /\ Tail(<<"remove", "unsignal">>) = <<"unsignal">>
OBVIOUS

(* What is still owed after any step but the one that pays.                *)
LEMMA OwingTail ==
    ASSUME NEW p \in SettlingStops \cup Requeues, Head(p) \notin {"settle", "enqueue"}
    PROVE  Tail(p) \in SettlingStops \cup Requeues /\ Tail(p) # <<>>
<1>1. <<>> \notin SettlingStops \cup Requeues
    BY DEF SettlingStops, Requeues
<1>2. CASE p \in SettlingStops
  <2>1. p \in {<<"signal", "remove", "settle", "unsignal">>, <<"remove", "settle", "unsignal">>,
               <<"signal", "remove", "settle">>, <<"remove", "settle">>}
    BY <1>2, Heads DEF SettlingStops
  <2>2. Tail(p) \in SettlingStops
    BY <2>1, Tails DEF SettlingStops
  <2>. QED BY <1>1, <2>2
<1>3. CASE p \in Requeues
  <2>1. p \in {<<"unsignal", "commit", "enqueue">>, <<"commit", "enqueue">>,
               <<"unsignal", "commit", "enqueue", "preempt">>, <<"commit", "enqueue", "preempt">>,
               <<"commit", "unsignal", "enqueue">>, <<"unsignal", "enqueue">>, <<"remove", "enqueue">>}
    BY <1>3, Heads DEF Requeues
  <2>2. Tail(p) \in Requeues
    BY <2>1, Tails DEF Requeues
  <2>. QED BY <1>1, <2>2
<1>. QED BY <1>2, <1>3

LEMMA ProceedTail ==
    ASSUME RequestsOK, NEW r \in Requests, req[r].todo # <<>>, Proceed(r)
    PROVE  /\ req'[r].todo = Tail(req[r].todo)
           /\ Tail(req[r].todo) # <<>> => req'[r].job = req[r].job /\ req'[r].op = req[r].op
           /\ \A q \in Requests : q # r => req'[q] = req[q]
<1>1. req \in [Requests -> ReqType] /\ req[r] \in ReqType /\ req[r].todo \in Seq(StepNames)
    BY DEF RequestsOK, ReqType
<1>2. CASE Len(req[r].todo) = 1
  <2>1. req' = [req EXCEPT ![r] = IdleReq]
    BY <1>2 DEF Proceed, Finish
  <2>2. Tail(req[r].todo) \in Seq(StepNames) /\ Len(Tail(req[r].todo)) = 0
    BY <1>1, <1>2
  <2>3. Tail(req[r].todo) = <<>>
    BY <2>2, EmptySeq
  <2>. QED BY <1>1, <2>1, <2>3 DEF IdleReq
<1>3. CASE Len(req[r].todo) # 1
  <2>1. req' = [req EXCEPT ![r] = [req[r] EXCEPT !.todo = Tail(req[r].todo)]]
    BY <1>3 DEF Proceed
  <2>. QED BY <1>1, <2>1 DEF ReqType
<1>. QED BY <1>2, <1>3

(* A step of a request on its job k; what it stops owing is in charge.     *)
LEMMA RequestCharge ==
    ASSUME RequestsOK, ChargeInv, RequestsApart, NEW r \in Requests, req[r].todo # <<>>,
           UNCHANGED <<task, mode>>, \A q \in Requests : q # r => req'[q] = req[q],
           \A j \in Jobs : j # req[r].job => status'[j] = status[j] /\ (j \in queue => j \in queue'),
           PlanOK(r)',
           \/ Owes(r)' /\ req'[r].job = req[r].job /\ status'[req[r].job] # "running"
           \/ /\ Owes(r)' /\ req'[r].job = req[r].job
              /\ status'[req[r].job] = status[req[r].job]
           \/ status'[req[r].job] \notin {"queued", "running"}
           \/ /\ status'[req[r].job] = status[req[r].job]
              /\ \/ req[r].job \in queue'
                 \/ status[req[r].job] # "queued"
                 \/ ~Owes(r) /\ queue' = queue
    PROVE  ChargeInv'
<1>. DEFINE k == req[r].job
<1>1. k \in Jobs
    BY DEF RequestsOK
<1>2. \A u \in Tasks : (Executing(u)' <=> Executing(u)) /\ (Carrying(u)' <=> Carrying(u)) /\ task'[u] = task[u]
                       /\ (Executing(u) => Carrying(u))
    BY DEF Executing, Carrying
<1>3. \A q \in Requests : q # r => (Owes(q)' <=> Owes(q)) /\ req'[q].job = req[q].job /\ req'[q].todo = req[q].todo
                                   /\ req'[q].op = req[q].op
    BY DEF Owes
<1>4. ASSUME NEW j \in Jobs PROVE InCharge(j)'
  <2>1. InCharge(j)
    BY DEF ChargeInv
  <2>2. CASE j # k
    <3>1. ASSUME NEW q \in Requests, Owes(q), req[q].job = j PROVE Owes(q)' /\ req'[q].job = j
        BY <1>3, <2>2, <3>1
    <3>. QED BY <1>2, <2>1, <2>2, <3>1 DEF InCharge, InHands
  <2>3. CASE j = k
    <3>1. CASE Owes(r)' /\ req'[r].job = k /\ (status'[k] # "running" \/ status'[k] = status[k])
        BY <1>2, <2>1, <2>3, <3>1 DEF InCharge
    <3>2. CASE status'[k] \notin {"queued", "running"}
        BY <2>3, <3>2 DEF InCharge
    <3>3. CASE status'[k] = status[k] /\ (k \in queue' \/ status[k] # "queued")
        BY <1>2, <2>1, <2>3, <3>3 DEF InCharge, InHands
    <3>4. CASE status'[k] = status[k] /\ ~Owes(r) /\ queue' = queue
      <4>1. ASSUME NEW q \in Requests, Owes(q), req[q].job = j PROVE Owes(q)' /\ req'[q].job = j
        BY <1>3, <3>4, <4>1
      <4>. QED BY <1>2, <2>1, <2>3, <3>4, <4>1 DEF InCharge, InHands
    <3>. QED BY <3>1, <3>2, <3>3, <3>4
  <2>. QED BY <2>2, <2>3
<1>5. ASSUME NEW q \in Requests, q # r PROVE PlanOK(q)'
  <2>1. PlanOK(q)
    BY DEF ChargeInv
  <2>2. CASE req[q].todo = <<>>
    BY <1>3, <1>5, <2>2 DEF PlanOK, Rests
  <2>3. CASE req[q].todo # <<>>
    <3>1. req[q].job \in Jobs /\ req[q].job # k
        BY <1>5, <2>3 DEF RequestsOK, RequestsApart
    <3>2. status'[req[q].job] = status[req[q].job]
        BY <3>1
    <3>. QED BY <1>3, <1>5, <2>1, <3>2 DEF PlanOK
  <2>. QED BY <2>2, <2>3
<1>. QED BY <1>4, <1>5 DEF ChargeInv

LEMMA ServingCharge ==
    ASSUME TypeInv, RequestsOK, ChargeInv, RequestsApart, NEW r \in Requests, Serving(r)
    PROVE  ChargeInv'
<1>. DEFINE k == req[r].job
            plan == req[r].todo
<1>. USE DEF Doing, queueVars, dbVars, workerVars
<1>1. PlanOK(r) /\ req \in [Requests -> ReqType] /\ status \in [Jobs -> JobStatus]
    BY DEF ChargeInv, RequestsOK, TypeInv, TypeOK
<1>2. plan # <<>>
    BY DEF Serving, AskWorker, SendSignal, RemoveJob, ClearJobSignal, EnqueueJob, SettleJob, CommitJob, RowIsGone,
        PreemptAgain
<1>3. k \in Jobs
    BY <1>2 DEF RequestsOK
<1>4. CASE AskWorker(r)
  <2>1. PICK left \in {<<"signal", "remove", "settle">>, <<"signal", "remove">>} :
            req' = [req EXCEPT ![r].todo = left]
    BY <1>4 DEF AskWorker
  <2>2. UNCHANGED <<task, mode, status, queue>> /\ \A q \in Requests : q # r => req'[q] = req[q]
    BY <1>1, <1>4, <2>1 DEF AskWorker, dispatchVars
  <2>3. plan \in AliveStops /\ status[k] # "queued" /\ ~Owes(r)
    BY <1>1, <1>4, Heads DEF AskWorker, PlanOK, Owes, SettlingStops, Requeues, Rests, AliveStops
  <2>4. req'[r].job = k /\ req'[r].todo \in {<<"signal", "remove", "settle">>, <<"signal", "remove">>}
    BY <1>1, <2>1 DEF ReqType
  <2>5. PlanOK(r)'
    BY <2>2, <2>3, <2>4 DEF PlanOK, Owes, SettlingStops, AliveStops
  <2>. QED BY <1>2, <2>2, <2>3, <2>5, RequestCharge
<1>5. CASE SendSignal(r)
  <2>1. Proceed(r) /\ Head(plan) = "signal" /\ UNCHANGED <<task, mode, status, queue>>
    BY <1>5 DEF SendSignal, Signal
  <2>2. CASE Owes(r)
    <3>1. Tail(plan) \in SettlingStops \cup Requeues /\ Tail(plan) # <<>>
        BY <2>1, <2>2, OwingTail DEF Owes
    <3>2. Owes(r)' /\ req'[r].job = k /\ \A q \in Requests : q # r => req'[q] = req[q]
        BY <1>2, <2>1, <3>1, ProceedTail DEF Owes
    <3>. QED BY <1>2, <2>1, <3>2, RequestCharge DEF PlanOK
  <2>3. CASE ~Owes(r)
    <3>1. plan = <<"signal", "remove">> /\ status[k] # "queued"
        BY <1>1, <1>2, <2>1, <2>3, Heads DEF PlanOK, AliveStops, Rests
    <3>2. Tail(plan) = <<"remove">> /\ <<"remove">> # <<>>
        BY <3>1, Tails
    <3>3. req'[r].todo = <<"remove">> /\ req'[r].job = k /\ \A q \in Requests : q # r => req'[q] = req[q]
        BY <1>2, <2>1, <3>2, ProceedTail
    <3>4. PlanOK(r)'
        BY <2>1, <3>1, <3>3 DEF PlanOK, AliveStops
    <3>. QED BY <1>2, <2>1, <3>1, <3>3, <3>4, RequestCharge
  <2>. QED BY <2>2, <2>3
<1>6. CASE RemoveJob(r)
  <2>1. /\ Proceed(r) /\ Head(plan) = "remove" /\ UNCHANGED <<task, mode, status>>
        /\ queue' = queue \ {k}
    BY <1>6 DEF RemoveJob, Remove
  <2>2. CASE Owes(r)
    <3>1. Tail(plan) \in SettlingStops \cup Requeues /\ Tail(plan) # <<>>
        BY <2>1, <2>2, OwingTail DEF Owes
    <3>2. Owes(r)' /\ req'[r].job = k /\ \A q \in Requests : q # r => req'[q] = req[q]
        BY <1>2, <2>1, <3>1, ProceedTail DEF Owes
    <3>. QED BY <1>2, <2>1, <3>2, RequestCharge DEF PlanOK
  <2>3. CASE ~Owes(r)
    <3>1. plan \in {<<"remove">>, <<"remove", "unsignal">>}
        BY <1>1, <1>2, <2>1, <2>3, Heads DEF PlanOK, AliveStops, Rests
    <3>2. status[k] # "queued"
        BY <1>1, <1>2, <2>1, <2>3, Heads DEF PlanOK, AliveStops, Rests
    <3>3. Tail(plan) \in Rests
        BY <3>1, Tails DEF Rests
    <3>4. PlanOK(r)' /\ \A q \in Requests : q # r => req'[q] = req[q]
        BY <1>2, <2>1, <3>3, ProceedTail DEF PlanOK
    <3>. QED BY <1>2, <2>1, <3>2, <3>4, RequestCharge
  <2>. QED BY <2>2, <2>3
<1>7. CASE ClearJobSignal(r) \/ PreemptAgain(r)
  <2>1. /\ Proceed(r) /\ Head(plan) \in {"unsignal", "preempt"} /\ UNCHANGED <<task, mode, status, queue>>
    BY <1>7 DEF ClearJobSignal, ClearSignal, Signal, PreemptAgain
  <2>2. CASE Owes(r)
    <3>1. Tail(plan) \in SettlingStops \cup Requeues /\ Tail(plan) # <<>>
        BY <2>1, <2>2, OwingTail DEF Owes
    <3>2. Owes(r)' /\ req'[r].job = k /\ \A q \in Requests : q # r => req'[q] = req[q]
        BY <1>2, <2>1, <3>1, ProceedTail DEF Owes
    <3>. QED BY <1>2, <2>1, <3>2, RequestCharge DEF PlanOK
  <2>3. CASE ~Owes(r)
    <3>1. plan \in {<<"unsignal">>, <<"preempt">>}
        BY <1>1, <1>2, <2>1, <2>3, Heads DEF PlanOK, AliveStops, Rests
    <3>2. Tail(plan) \in Rests
        BY <3>1, Tails DEF Rests
    <3>3. PlanOK(r)' /\ \A q \in Requests : q # r => req'[q] = req[q]
        BY <1>2, <2>1, <3>2, ProceedTail DEF PlanOK
    <3>. QED BY <1>2, <2>1, <2>3, <3>3, RequestCharge
  <2>. QED BY <2>2, <2>3
<1>8. CASE EnqueueJob(r)
  <2>1. /\ Proceed(r) /\ Head(plan) = "enqueue" /\ UNCHANGED <<task, mode, status>>
        /\ queue' = queue \cup {k}
    BY <1>8 DEF EnqueueJob, Enqueue
  <2>2. plan \in {<<"enqueue">>, <<"enqueue", "preempt">>}
    BY <1>1, <1>2, <2>1, Heads DEF PlanOK, Owes, SettlingStops, Requeues, AliveStops, Rests
  <2>3. Tail(plan) \in Rests
    BY <2>2, Tails DEF Rests
  <2>4. PlanOK(r)' /\ \A q \in Requests : q # r => req'[q] = req[q]
    BY <1>2, <2>1, <2>3, ProceedTail DEF PlanOK
  <2>. QED BY <1>2, <2>1, <2>4, RequestCharge
<1>9. CASE SettleJob(r)
  <2>1. /\ Proceed(r) /\ Head(plan) = "settle" /\ UNCHANGED <<task, mode, queue>>
        /\ status[k] # "deleted"
        /\ SetStatus(k, IF req[r].op = "cancel" THEN "canceled" ELSE "paused")
    BY <1>9 DEF SettleJob
  <2>2. status'[k] \in {"canceled", "paused"} /\ \A j \in Jobs : j # k => status'[j] = status[j]
    BY <1>1, <1>3, <2>1 DEF SetStatus
  <2>3. plan \in {<<"settle">>, <<"settle", "unsignal">>}
    BY <1>1, <1>2, <2>1, Heads DEF PlanOK, Owes, SettlingStops, Requeues, AliveStops, Rests
  <2>4. Tail(plan) \in Rests
    BY <2>3, Tails DEF Rests
  <2>5. PlanOK(r)' /\ \A q \in Requests : q # r => req'[q] = req[q]
    BY <1>2, <2>1, <2>4, ProceedTail DEF PlanOK
  <2>. QED BY <1>2, <2>1, <2>2, <2>5, RequestCharge
<1>10. CASE CommitJob(r)
  <2>1. /\ Proceed(r) /\ Head(plan) = "commit" /\ UNCHANGED <<task, mode, queue>>
        /\ status[k] # "deleted"
        /\ SetStatus(k, IF req[r].op = "delete" THEN "deleted" ELSE "queued")
    BY <1>10 DEF CommitJob
  <2>2. /\ status'[k] = IF req[r].op = "delete" THEN "deleted" ELSE "queued"
        /\ \A j \in Jobs : j # k => status'[j] = status[j]
    BY <1>1, <1>3, <2>1 DEF SetStatus
  <2>3. CASE Owes(r)
    <3>1. Tail(plan) \in SettlingStops \cup Requeues /\ Tail(plan) # <<>>
        BY <2>1, <2>3, OwingTail DEF Owes
    <3>2. Owes(r)' /\ req'[r].job = k /\ \A q \in Requests : q # r => req'[q] = req[q]
        BY <1>2, <2>1, <3>1, ProceedTail DEF Owes
    <3>3. status'[k] # "running"
        BY <2>2
    <3>. QED BY <1>2, <2>1, <2>2, <3>2, <3>3, RequestCharge DEF PlanOK
  <2>4. CASE ~Owes(r)
    <3>1. plan = <<"commit", "remove", "unsignal">> /\ req[r].op = "delete"
        BY <1>1, <1>2, <2>1, <2>4, Heads DEF PlanOK, AliveStops, Rests
    <3>2. Tail(plan) = <<"remove", "unsignal">> /\ <<"remove", "unsignal">> # <<>>
        BY <3>1, Tails
    <3>3. req'[r].todo = <<"remove", "unsignal">> /\ req'[r].job = k /\ \A q \in Requests : q # r => req'[q] = req[q]
        BY <1>2, <2>1, <3>2, ProceedTail
    <3>4. status'[k] = "deleted"
        BY <2>2, <3>1
    <3>5. PlanOK(r)'
        BY <3>3, <3>4 DEF PlanOK
    <3>. QED BY <1>2, <2>1, <2>2, <3>3, <3>4, <3>5, RequestCharge
  <2>. QED BY <2>3, <2>4
<1>11. CASE RowIsGone(r)
  <2>1. /\ req' = [req EXCEPT ![r] = IdleReq] /\ UNCHANGED <<task, mode, queue, status>>
        /\ status[k] = "deleted"
    BY <1>11 DEF RowIsGone, Finish, dispatchVars
  <2>2. PlanOK(r)' /\ \A q \in Requests : q # r => req'[q] = req[q]
    BY <1>1, <2>1 DEF PlanOK, IdleReq, Rests
  <2>. QED BY <1>2, <2>1, <2>2, RequestCharge
<1>. QED BY <1>4, <1>5, <1>6, <1>7, <1>8, <1>9, <1>10, <1>11 DEF Serving

(* What a request sets out to do. *)
LEMMA PlanStart ==
    ASSUME NEW op \in OpNames, NEW s \in Accepts(op), NEW isPinned \in BOOLEAN
    PROVE  \/ Plan(op, s, isPinned) \in SettlingStops \cup Requeues
           \/ Plan(op, s, isPinned) = <<"ask">> /\ s = "running"
           \/ Plan(op, s, isPinned) = <<"commit", "remove", "unsignal">> /\ op = "delete"
<1>1. CASE op \in {"cancel", "pause"}
    BY <1>1 DEF Plan, SettlingStops
<1>2. CASE op = "resume"
  <2>. DEFINE three == <<"unsignal", "commit", "enqueue">>
              four == <<"unsignal", "commit", "enqueue", "preempt">>
              one == <<"preempt">>
  <2>1. Plan(op, s, isPinned) = three \o IF isPinned THEN one ELSE <<>>
    BY <1>2 DEF Plan
  <2>2. "unsignal" \in StepNames /\ "commit" \in StepNames /\ "enqueue" \in StepNames /\ "preempt" \in StepNames
    BY DEF StepNames
  <2>3. three \in Seq(StepNames) /\ four \in Seq(StepNames) /\ one \in Seq(StepNames)
    BY <2>2
  <2>4. Len(three) = 3 /\ Len(four) = 4 /\ Len(one) = 1
    OBVIOUS
  <2>5. /\ three[1] = four[1] /\ three[2] = four[2] /\ three[3] = four[3] /\ one[1] = four[4]
    OBVIOUS
  <2>6. three \in Requeues /\ four \in Requeues
    BY DEF Requeues
  <2>7. /\ three \o one \in Seq(StepNames) /\ Len(three \o one) = 4
        /\ \A i \in 1 .. 4 : (three \o one)[i] = IF i <= 3 THEN three[i] ELSE one[i - 3]
    BY <2>3, <2>4
  <2>. HIDE DEF three, four, one
  <2>8. three \o one = four
    <3>1. ASSUME NEW i \in 1 .. 4 PROVE (three \o one)[i] = four[i]
      <4>1. (three \o one)[i] = IF i <= 3 THEN three[i] ELSE one[i - 3]
        BY <2>7
      <4>2. i = 1 \/ i = 2 \/ i = 3 \/ (i = 4 /\ i - 3 = 1 /\ ~(i <= 3))
        OBVIOUS
      <4>. QED BY <2>5, <4>1, <4>2
    <3>. QED BY <2>3, <2>4, <2>7, <3>1, SeqEqual
  <2>9. three \o <<>> = three
    BY <2>3, ConcatEmptySeq
  <2>. QED BY <2>1, <2>6, <2>8, <2>9
<1>3. CASE op = "retry"
    BY <1>3 DEF Plan, Requeues
<1>4. CASE op = "reprioritize"
    BY <1>4 DEF Plan, Requeues
<1>5. CASE op = "delete"
    BY <1>5 DEF Plan
<1>. QED BY <1>1, <1>2, <1>3, <1>4, <1>5 DEF OpNames

LEMMA SubmitCharge ==
    ASSUME TypeInv, RequestsOK, ChargeInv, NEW r \in Requests, NEW op \in Ops, NEW k \in Jobs, Submit(r, op, k)
    PROVE  ChargeInv'
<1>1. UNCHANGED <<task, mode, status, queue>>
    BY DEF Submit, dispatchVars, queueVars, dbVars, workerVars
<1>2. req \in [Requests -> ReqType] /\ req[r] = IdleReq
    BY DEF RequestsOK, Submit
<1>3. /\ req'[r].job = k /\ req'[r].op = op /\ req'[r].todo = Plan(op, status[k], pinned[k])
      /\ \A q \in Requests : q # r => req'[q] = req[q]
    BY <1>2 DEF Submit
<1>4. PlanOK(r)'
  <2>1. op \in OpNames /\ status[k] \in Accepts(op) /\ pinned[k] \in BOOLEAN
    BY OpsType DEF Submit, TypeInv, TypeOK
  <2>. QED BY <1>1, <1>3, <2>1, PlanStart DEF PlanOK, Owes, AliveStops
<1>5. ~Owes(r)
  <2>1. req[r].todo = <<>>
    BY <1>2 DEF IdleReq
  <2>2. <<>> \notin SettlingStops \cup Requeues
    BY DEF SettlingStops, Requeues
  <2>. QED BY <2>1, <2>2 DEF Owes
<1>6. ASSUME NEW q \in Requests, q # r PROVE PlanOK(q)' /\ (Owes(q)' <=> Owes(q)) /\ req'[q].job = req[q].job
    BY <1>1, <1>3, <1>6 DEF ChargeInv, PlanOK, Owes
<1>7. ASSUME NEW j \in Jobs PROVE InCharge(j)'
  <2>1. InCharge(j)
    BY DEF ChargeInv
  <2>2. \A u \in Tasks : (Executing(u)' <=> Executing(u)) /\ (Carrying(u)' <=> Carrying(u)) /\ task'[u] = task[u]
    BY <1>1 DEF Executing, Carrying
  <2>3. ASSUME NEW q \in Requests, Owes(q), req[q].job = j PROVE Owes(q)' /\ req'[q].job = j
    BY <1>5, <1>6, <2>3
  <2>. QED BY <1>1, <2>1, <2>2, <2>3 DEF InCharge, InHands
<1>. QED BY <1>1, <1>4, <1>6, <1>7 DEF ChargeInv

LEMMA ChargeStep ==
    ASSUME ControlInv, ChargeInv, RequestsApart, StopsMeetNoYield, [ControlNext]_vars,
           MaxLost = 0, FaultKinds \subseteq {"release", "stall", "slow"}
    PROVE  ChargeInv'
<1>. USE DEF ControlInv
<1>1. CASE Next
    BY <1>1, DispatchChargeInv
<1>2. ASSUME NEW r \in Requests, NEW op \in Ops, NEW j \in Jobs, Submit(r, op, j) PROVE ChargeInv'
    BY <1>2, SubmitCharge
<1>3. ASSUME NEW r \in Requests, Serving(r) PROVE ChargeInv'
    BY <1>3, ServingCharge
<1>4. ASSUME NEW r \in Requests, RequestDies(r) PROVE ChargeInv'
    BY <1>4 DEF RequestDies, Fault
<1>5. CASE UNCHANGED vars
  <2>1. UNCHANGED <<task, mode, status, queue, req>>
    BY <1>5 DEF vars, rest, workerVars, dbVars, queueVars
  <2>2. \A j \in Jobs : InCharge(j)'
    BY <2>1, QuietCharge DEF ChargeInv
  <2>. QED BY <2>1, <2>2 DEF ChargeInv, PlanOK, Owes
<1>. QED BY <1>1, <1>2, <1>3, <1>4, <1>5 DEF ControlNext

LEMMA ChargeInit == ControlInit => ChargeInv
BY DEF ControlInit, DispatchInit, ChargeInv, InCharge, PlanOK, IdleReq, Rests

(* No job is forgotten: one that the database calls queued or running is   *)
(* queued, leased, in the hands of a task or of a request, however many    *)
(* users and workers there are, whatever is pinned, billed, refused or     *)
(* stalls, as long as no worker and no request dies, no run raises under   *)
(* its error paths, requests to one job do not overlap and no stop meets a *)
(* yield.                                                                  *)
THEOREM NobodyForgotten ==
    ASSUME MaxLost = 0, FaultKinds \subseteq {"release", "stall", "slow"}
    PROVE  ControlSpec /\ [](RequestsApart /\ StopsMeetNoYield) => []NoJobForgotten
<1>1. ChargeInv => NoJobForgotten
  <2>1. \A t \in Tasks : Carrying(t) => Engaged(t)
    BY DEF Carrying, Engaged
  <2>. QED BY <2>1 DEF ChargeInv, InCharge, InHands, NoJobForgotten
<1>2. ControlInv /\ [ControlNext]_vars => ControlInv'
    BY ControlStep
<1>3. ControlInv /\ ChargeInv /\ (RequestsApart /\ StopsMeetNoYield) /\ [ControlNext]_vars => ChargeInv'
    BY ChargeStep
<1>. QED BY <1>1, <1>2, <1>3, ControlInvInit, ChargeInit, PTL DEF ControlSpec
-----------------------------------------------------------------------------
(* One runner per job while users make requests.  A cancel or a pause      *)
(* takes the lease and the slot of a job in hand away, so that Exclusive   *)
(* does not survive; what does is that a job in hand can be neither        *)
(* claimed nor reaped.                                                     *)
Alone ==
    /\ SingleRunner
    /\ \A t \in Tasks : Engaged(t) => task[t].job \notin queue /\ lease[task[t].job] # "expired"

(* The one thing a request must not do: to queue a job that a task still   *)
(* has in hand, as a resume may that comes before the old runner has quite *)
(* ended, or a change of priority that lost the job to a worker.           *)
EnqueuesFindNoRunner ==
    \A r \in Requests, t \in Tasks :
        Doing(r, "enqueue") /\ Engaged(t) => task[t].job # req[r].job

(* A step of the task that has j in hand.                                  *)
LEMMA AloneOneTask ==
    ASSUME TypeInv, Alone, NEW t \in Tasks, TaskFrame(t), Engaged(t),
           \/ task'[t].pc = "idle"
           \/ task[t].job \notin queue' /\ lease'[task[t].job] # "expired",
           \A k \in Jobs \ {task[t].job} : (k \in queue' => k \in queue) /\ lease'[k] = lease[k]
    PROVE  Alone'
<1>1. \A u \in Tasks \ {t} : Engaged(u) => task[u].job \in Jobs \ {task[t].job}
    BY DEF Alone, SingleRunner, TypeInv, TaskOK, Engaged
<1>2. \A u \in Tasks : Engaged(u)' => Engaged(u) /\ task'[u].job = task[u].job
    BY DEF TaskFrame, Engaged
<1>3. SingleRunner'
    BY <1>2 DEF Alone, SingleRunner
<1>4. ASSUME NEW u \in Tasks, Engaged(u)'
      PROVE  task'[u].job \notin queue' /\ lease'[task'[u].job] # "expired"
  <2>1. CASE u = t
    BY <1>2, <1>4, <2>1 DEF Engaged
  <2>2. CASE u # t
    BY <1>1, <1>2, <1>4, <2>2 DEF Alone
  <2>. QED BY <2>1, <2>2
<1>. QED BY <1>3, <1>4 DEF Alone

(* A step that moves no task, but for those it ends, and that queues and   *)
(* expires no job in hand.                                                 *)
LEMMA AloneQuiet ==
    ASSUME Alone,
           \A t \in Tasks : Engaged(t)' => task'[t] = task[t],
           \A t \in Tasks : Engaged(t) =>
              /\ task[t].job \in queue' => task[t].job \in queue
              /\ lease'[task[t].job] \in {lease[task[t].job], "fresh", "none"}
    PROVE  Alone'
<1>1. \A t \in Tasks : Engaged(t)' => Engaged(t) /\ task'[t] = task[t]
    BY DEF Engaged
<1>2. SingleRunner'
    BY <1>1 DEF Alone, SingleRunner
<1>3. \A t \in Tasks : Engaged(t)' => task'[t].job \notin queue' /\ lease'[task'[t].job] # "expired"
    BY <1>1 DEF Alone
<1>. QED BY <1>2, <1>3 DEF Alone

(* The claimed job was in the queue, so nobody had it in hand.             *)
LEMMA AloneAtClaim ==
    ASSUME TypeInv, Alone, NEW w \in Workers, NEW t \in Tasks, NEW j \in Jobs, Claim(w, t, j)
    PROVE  Alone'
<1>1. /\ task'[t].pc = "load" /\ task'[t].job = j
      /\ \A u \in Tasks \ {t} : task'[u] = task[u]
    BY DEF Claim, IdleTask, TypeInv, TypeOK
<1>2. j \in queue /\ queue' = queue \ {j} /\ lease' = [lease EXCEPT ![j] = "fresh"]
    BY DEF Claim, ClaimJob
<1>3. \A u \in Tasks \ {t} : Engaged(u) => task[u].job \in Jobs \ {j}
    BY <1>2 DEF Alone, TypeInv, TaskOK, Engaged
<1>4. SingleRunner'
    BY <1>1, <1>3 DEF Alone, SingleRunner, Engaged
<1>5. \A u \in Tasks : Engaged(u)' =>
          task'[u].job \notin queue' /\ lease'[task'[u].job] # "expired"
    BY <1>1, <1>2, <1>3 DEF Alone, Engaged, TypeInv, TypeOK, QueueTypeOK
<1>. QED BY <1>4, <1>5 DEF Alone

(* A task that acts has a job, and the step leaves the other tasks alone.  *)
LEMMA ActingFrame ==
    ASSUME TypeInv, NEW t \in Tasks, Running(t) \/ Watching(t) \/ HandingOver(t) \/ Mishap(t)
    PROVE  TaskFrame(t) /\ Engaged(t)
<1>. USE DEF TypeInv
<1>0. task \in [Tasks -> TaskType]
    BY DEF TypeOK
<1>1. CASE Watching(t)
  <2>1. PICK o \in JobStatus \cup {"none"}, v \in {"sleep", "requeue", "stale", "off"} :
            task' = [task EXCEPT ![t] = [task[t] EXCEPT !.outcome = o, !.watch = v]]
    BY <1>1, WatchMoves
  <2>2. Engaged(t)
    BY <1>1 DEF Watching, PollSignal, CheckRequeue, DropStaleSignal, Engaged
  <2>. QED BY <1>0, <2>1, <2>2 DEF TaskFrame, TaskType
<1>2. CASE StopForBilling(t)
    BY <1>0, <1>2 DEF StopForBilling, TaskFrame, Engaged, TaskType
<1>3. CASE Mishap(t) /\ ~StopForBilling(t)
  <2>1. /\ Engaged(t)
        /\ \/ BecomeWith(t, "clear", "paused") \/ BecomeWith(t, "clear", "failed")
           \/ BecomeWith(t, "release", "none") \/ Become(t, "handover") \/ Idle(t)
    BY <1>3 DEF Mishap, PauseForBilling, FailJob, RunnerRaises, ReleaseFails, HandoverFails,
        AfterRelease, Return, Engaged, HeldPcs, HandoverPcs
  <2>. QED BY <2>1, BecomeFrame
<1>. QED BY <1>1, <1>2, <1>3, RunningFrame, HandoverFrame

LEMMA AloneInRun ==
    ASSUME TypeInv, Alone, NEW t \in Tasks, Running(t) \/ Watching(t) \/ HandingOver(t) \/ Mishap(t)
    PROVE  Alone'
<1>. USE DEF TypeInv
<1>0. lease \in [Jobs -> {"none", "fresh", "expired"}] /\ task \in [Tasks -> TaskType]
    BY DEF TypeOK, QueueTypeOK
<1>1. TaskFrame(t) /\ Engaged(t)
    BY ActingFrame
<1>2. task[t].job \in Jobs /\ task[t].job \notin queue /\ lease[task[t].job] # "expired"
    BY <1>1 DEF Alone, TaskOK, Engaged
<1>3. CASE EnqueueYielded(t)
  <2>1. queue' = queue \cup {task[t].job} /\ lease' = lease /\ Idle(t)
    BY <1>3 DEF EnqueueYielded, Enqueue
  <2>2. task'[t].pc = "idle"
    BY <1>0, <2>1 DEF Idle, IdleTask
  <2>. QED BY <1>1, <2>1, <2>2, AloneOneTask
<1>4. CASE ~EnqueueYielded(t)
  <2>1. /\ queue' = queue
        /\ \/ lease' = lease
           \/ lease' = [lease EXCEPT ![task[t].job] = "fresh"]
           \/ lease' = [lease EXCEPT ![task[t].job] = "none"]
    <3>1. CASE Running(t) \/ Watching(t)
      BY <3>1 DEF Running, Watching, Load, CheckPin, YieldBeforeStart, MarkRunning, EndDispatch, Finalize,
          ClearOwnSignal, Release, ReleaseLease, DropLease, PollSignal, RenewLease, CheckRequeue,
          DropStaleSignal, ClearSignal, Signal, TaskOnly, DbOnly, queueVars
    <3>2. CASE HandingOver(t) \/ Mishap(t)
      BY <1>4, <3>2 DEF HandingOver, Handover, SettleSignal, Land, ClearLanded, ClearBeforeEnqueue, Mishap,
          PauseForBilling, StopForBilling, FailJob, ReleaseFails, HandoverFails, RunnerRaises,
          ClearSignal, Signal, TaskOnly, DbOnly, queueVars
    <3>. QED BY <3>1, <3>2
  <2>2. \A k \in Jobs \ {task[t].job} : lease'[k] = lease[k]
    BY <1>0, <2>1
  <2>3. lease'[task[t].job] # "expired"
    BY <1>0, <1>2, <2>1
  <2>. QED BY <1>1, <1>2, <2>1, <2>2, <2>3, AloneOneTask
<1>. QED BY <1>3, <1>4

LEMMA AloneInDispatch ==
    ASSUME TypeInv, Alone, Next, "stall" \notin FaultKinds
    PROVE  Alone'
<1>. USE DEF TypeInv
<1>0. /\ lease \in [Jobs -> {"none", "fresh", "expired"}]
      /\ \A t \in Tasks : Engaged(t) => task[t].job \in Jobs
    BY DEF TypeOK, QueueTypeOK, TaskOK, Engaged
<1>1. ASSUME task' = task, queue' = queue, lease' = lease PROVE Alone'
    BY <1>1, AloneQuiet
<1>2. ASSUME NEW w \in Workers, Claiming(w) PROVE Alone'
  <2>1. CASE StartScan(w) \/ NothingToClaim(w)
    BY <1>1, <2>1 DEF StartScan, NothingToClaim, queueVars
  <2>2. ASSUME NEW j \in Jobs, ClaimRefused(w, j) PROVE Alone'
    BY <1>1, <2>2 DEF ClaimRefused, ClaimBlocked
  <2>. QED BY <1>2, <2>1, <2>2, AloneAtClaim DEF Claiming
<1>3. ASSUME NEW w \in Workers, Beating(w) PROVE Alone'
  <2>1. CASE StartHeartbeat(w)
    BY <1>1, <2>1 DEF StartHeartbeat, queueVars
  <2>2. ASSUME NEW j \in Jobs, HeartbeatRenew(w, j) PROVE Alone'
    <3>1. queue' = queue /\ task' = task /\ lease' = [lease EXCEPT ![j] = "fresh"]
      BY <2>2 DEF HeartbeatRenew, RenewLease
    <3>2. \A t \in Tasks : Engaged(t) => lease'[task[t].job] \in {lease[task[t].job], "fresh", "none"}
      BY <1>0, <3>1
    <3>. QED BY <3>1, <3>2, AloneQuiet
  <2>. QED BY <1>3, <2>1, <2>2 DEF Beating
<1>4. ASSUME NEW w \in Workers, Reap(w) PROVE Alone'
  <2>1. /\ queue' = queue \cup Expired /\ task' = task
        /\ lease' = [k \in Jobs |-> IF k \in Expired THEN "none" ELSE lease[k]]
    BY <1>4 DEF Reap, ReapExpired
  <2>2. \A t \in Tasks : Engaged(t) => task[t].job \in Jobs \ Expired
    BY <1>0 DEF Alone, Expired
  <2>. QED BY <2>1, <2>2, AloneQuiet
<1>5. ASSUME NEW w \in Workers, Stopping(w) PROVE Alone'
  <2>1. CASE Vanish(w)
    <3>1. /\ task' = [t \in Tasks |-> IF task[t].host = w THEN IdleTask ELSE task[t]]
          /\ queue' = queue /\ lease' = lease
      BY <2>1 DEF Vanish, queueVars
    <3>2. \A t \in Tasks : Engaged(t)' => task'[t] = task[t]
      BY <3>1 DEF Engaged, IdleTask
    <3>. QED BY <3>1, <3>2, AloneQuiet
  <2>. QED BY <1>1, <1>5, <2>1 DEF Stopping, RequestShutdown, Crash, Drained, queueVars
<1>6. ASSUME NEW j \in Jobs, LeaseLapses(j) PROVE Alone'
  <2>1. queue' = queue /\ task' = task /\ lease' = [lease EXCEPT ![j] = "expired"]
    BY <1>6 DEF LeaseLapses, LapseLease
  <2>2. \A t \in Tasks : Engaged(t) => lease'[task[t].job] = lease[task[t].job]
    BY <1>0, <1>6, <2>1 DEF LeaseLapses
  <2>. QED BY <2>1, <2>2, AloneQuiet
<1>7. ASSUME NEW j \in Jobs PROVE ~LeaseLapsesInStall(j)
    BY DEF LeaseLapsesInStall, Fault
<1>8. ASSUME NEW j \in Jobs, PinJob(j) \/ UnpinJob(j) PROVE Alone'
    BY <1>1, <1>8 DEF PinJob, UnpinJob, queueVars
<1>9. CASE Preempting
    BY <1>1, <1>9 DEF Preempting, CommitPin, PreemptScan, PreemptRegistered, PreemptPick, PreemptSignal, PreemptDone,
        SignalIfAbsent, queueVars
<1>. QED BY <1>2, <1>3, <1>4, <1>5, <1>6, <1>7, <1>8, <1>9, AloneInRun DEF Next

(* A request moves no task; it queues and removes only its own job.        *)
LEMMA AloneStep ==
    ASSUME ControlInv, Alone, EnqueuesFindNoRunner, [ControlNext]_vars, "stall" \notin FaultKinds
    PROVE  Alone'
<1>0. /\ lease \in [Jobs -> {"none", "fresh", "expired"}]
      /\ \A t \in Tasks : Engaged(t) => task[t].job \in Jobs
    BY DEF ControlInv, TypeInv, TypeOK, QueueTypeOK, TaskOK, Engaged
<1>1. CASE Next
    BY <1>1, AloneInDispatch DEF ControlInv
<1>2. ASSUME task' = task, queue' = queue, lease' = lease PROVE Alone'
    BY <1>2, AloneQuiet
<1>3. ASSUME NEW r \in Requests, RemoveJob(r) PROVE Alone'
  <2>1. /\ queue' = queue \ {req[r].job} /\ task' = task
        /\ lease' = [lease EXCEPT ![req[r].job] = "none"]
    BY <1>3 DEF RemoveJob, Remove, DropLease
  <2>2. \A t \in Tasks : Engaged(t) => lease'[task[t].job] \in {lease[task[t].job], "fresh", "none"}
    BY <1>0, <2>1
  <2>. QED BY <2>1, <2>2, AloneQuiet
<1>4. ASSUME NEW r \in Requests, EnqueueJob(r) PROVE Alone'
  <2>1. queue' = queue \cup {req[r].job} /\ lease' = lease /\ task' = task /\ Doing(r, "enqueue")
    BY <1>4 DEF EnqueueJob, Enqueue
  <2>2. \A t \in Tasks : Engaged(t) => task[t].job # req[r].job
    BY <2>1 DEF EnqueuesFindNoRunner
  <2>. QED BY <2>1, <2>2, AloneQuiet
<1>5. ASSUME NEW r \in Requests, Serving(r) \/ RequestDies(r), ~RemoveJob(r), ~EnqueueJob(r)
      PROVE  Alone'
    BY <1>2, <1>5 DEF Serving, AskWorker, SendSignal, ClearJobSignal, SettleJob, CommitJob, RowIsGone,
        PreemptAgain, RequestDies, ClearSignal, Signal, dispatchVars, queueVars
<1>6. ASSUME NEW r \in Requests, NEW op \in Ops, NEW j \in Jobs, Submit(r, op, j) PROVE Alone'
    BY <1>2, <1>6 DEF Submit, dispatchVars, queueVars
<1>7. CASE UNCHANGED vars
    BY <1>2, <1>7 DEF vars, queueVars
<1>. QED BY <1>1, <1>3, <1>4, <1>5, <1>6, <1>7 DEF ControlNext

LEMMA AloneInit == ControlInit => Alone
BY DEF ControlInit, DispatchInit, Alone, SingleRunner, Engaged, IdleTask

(* No job is in the hands of two tasks while users cancel, pause, resume,  *)
(* retry, reorder and delete jobs and while workers crash and anything     *)
(* breaks off, as long as no worker stalls and no request queues a job     *)
(* that is still in hand.                                                  *)
THEOREM OneRunnerUnderControl ==
    ASSUME "stall" \notin FaultKinds
    PROVE  ControlSpec /\ []EnqueuesFindNoRunner => []SingleRunner
<1>1. ControlInv /\ [ControlNext]_vars => ControlInv'
    BY ControlStep
<1>2. ControlInv /\ Alone /\ EnqueuesFindNoRunner /\ [ControlNext]_vars => Alone'
    BY AloneStep
<1>3. Alone => SingleRunner
    BY DEF Alone
<1>. QED BY <1>1, <1>2, <1>3, ControlInvInit, AloneInit, PTL DEF ControlSpec

(* Users who only cancel, pause and delete queue nothing.                  *)
NoPlanEnqueues == \A r \in Requests : req[r].todo \in Seq(StepNames \ {"enqueue"})

LEMMA StopsDoNotEnqueue ==
    ASSUME ControlInv, NoPlanEnqueues, [ControlNext]_vars,
           Ops \subseteq {"cancel", "pause", "delete"}
    PROVE  NoPlanEnqueues'
<1>. DEFINE Others == StepNames \ {"enqueue"}
<1>0. /\ "ask" \in Others /\ "signal" \in Others /\ "remove" \in Others
      /\ "settle" \in Others /\ "unsignal" \in Others /\ "commit" \in Others
    BY DEF StepNames
<1>1. /\ <<>> \in Seq(Others) /\ <<"ask">> \in Seq(Others)
      /\ <<"signal", "remove">> \in Seq(Others) /\ <<"signal", "remove", "settle">> \in Seq(Others)
      /\ <<"signal", "remove", "settle", "unsignal">> \in Seq(Others)
      /\ <<"commit", "remove", "unsignal">> \in Seq(Others)
  <2>. HIDE DEF Others
  <2>. QED BY <1>0
<1>2. req \in [Requests -> ReqType] /\ \A r \in Requests : req[r].todo \in Seq(Others)
    BY DEF ControlInv, RequestsOK, NoPlanEnqueues
<1>. HIDE DEF Others
<1>3. SUFFICES \A r \in Requests : req'[r].todo \in Seq(Others)
    BY DEF NoPlanEnqueues, Others
<1>4. ASSUME req' = req PROVE \A r \in Requests : req'[r].todo \in Seq(Others)
    BY <1>2, <1>4
<1>5. ASSUME NEW r \in Requests, NEW left \in Seq(Others),
             \A q \in Requests \ {r} : req'[q] = req[q], req'[r].todo = left
      PROVE  \A q \in Requests : req'[q].todo \in Seq(Others)
    BY <1>2, <1>5
<1>6. ASSUME NEW r \in Requests, NEW op \in Ops, NEW j \in Jobs, Submit(r, op, j)
      PROVE  \A q \in Requests : req'[q].todo \in Seq(Others)
  <2>1. Plan(op, status[j], pinned[j]) \in Seq(Others)
    <3>1. op \in {"cancel", "pause", "delete"}
      OBVIOUS
    <3>2. Plan(op, status[j], pinned[j]) \in
              {<<"ask">>, <<"signal", "remove", "settle", "unsignal">>, <<"commit", "remove", "unsignal">>}
      BY <3>1 DEF Plan
    <3>. QED BY <1>1, <3>2
  <2>2. req' = [req EXCEPT ![r] = [op |-> op, job |-> j, status |-> status[j], pinned |-> pinned[j],
                                   worker |-> workerId[j], todo |-> Plan(op, status[j], pinned[j])]]
    BY <1>6 DEF Submit
  <2>3. req'[r].todo = Plan(op, status[j], pinned[j]) /\ \A q \in Requests \ {r} : req'[q] = req[q]
    BY <1>2, <2>2
  <2>. QED BY <1>5, <2>1, <2>3
<1>7. ASSUME NEW r \in Requests, AskWorker(r)
      PROVE  \A q \in Requests : req'[q].todo \in Seq(Others)
  <2>1. PICK left \in {<<"signal", "remove", "settle">>, <<"signal", "remove">>} :
            req' = [req EXCEPT ![r].todo = left]
    BY <1>7 DEF AskWorker
  <2>2. left \in Seq(Others)
    BY <1>1
  <2>3. req' = [req EXCEPT ![r] = [req[r] EXCEPT !.todo = left]]
    BY <2>1
  <2>4. req'[r].todo = left /\ \A q \in Requests \ {r} : req'[q] = req[q]
    BY <1>2, <2>3 DEF ReqType
  <2>. QED BY <1>5, <2>2, <2>4
<1>8. ASSUME NEW r \in Requests, req[r].todo # <<>>, Proceed(r) \/ Finish(r)
      PROVE  \A q \in Requests : req'[q].todo \in Seq(Others)
  <2>1. CASE Finish(r)
    <3>1. req'[r].todo = <<>> /\ \A q \in Requests \ {r} : req'[q] = req[q]
      BY <1>2, <2>1 DEF Finish, IdleReq
    <3>. QED BY <1>1, <1>5, <3>1
  <2>2. CASE ~Finish(r)
    <3>1. req' = [req EXCEPT ![r] = [req[r] EXCEPT !.todo = Tail(req[r].todo)]]
      BY <1>8, <2>2 DEF Proceed
    <3>2. Tail(req[r].todo) \in Seq(Others)
      BY <1>2, <1>8
    <3>3. req'[r].todo = Tail(req[r].todo) /\ \A q \in Requests \ {r} : req'[q] = req[q]
      BY <1>2, <3>1 DEF ReqType
    <3>. QED BY <1>5, <3>2, <3>3
  <2>. QED BY <2>1, <2>2
<1>9. ASSUME NEW r \in Requests, Serving(r) \/ RequestDies(r), ~AskWorker(r)
      PROVE  \A q \in Requests : req'[q].todo \in Seq(Others)
  <2>1. req[r].todo # <<>> /\ (Proceed(r) \/ Finish(r))
    BY <1>9 DEF Serving, SendSignal, RemoveJob, ClearJobSignal, EnqueueJob, SettleJob, CommitJob, RowIsGone,
        PreemptAgain, RequestDies, Doing
  <2>. QED BY <1>8, <2>1
<1>10. CASE Next
    BY <1>4, <1>10, DispatchKeepsRequests
<1>11. CASE UNCHANGED vars
    BY <1>4, <1>11 DEF vars, rest
<1>. QED BY <1>6, <1>7, <1>9, <1>10, <1>11 DEF ControlNext

(* Cancels, pauses and deletes alone never give a job two runners: not     *)
(* when they take the lease of a running job away, not when they find the  *)
(* job yielding to a pinned one, in no order of their writes.              *)
THEOREM StopsKeepOneRunner ==
    ASSUME "stall" \notin FaultKinds, Ops \subseteq {"cancel", "pause", "delete"}
    PROVE  ControlSpec => []SingleRunner
<1>1. ControlInv /\ [ControlNext]_vars => ControlInv'
    BY ControlStep
<1>2. ControlInv /\ NoPlanEnqueues /\ [ControlNext]_vars => NoPlanEnqueues'
    BY StopsDoNotEnqueue
<1>3. ControlInit => NoPlanEnqueues
  <2>1. <<>> \in Seq(StepNames \ {"enqueue"})
    OBVIOUS
  <2>2. ControlInit => \A r \in Requests : req[r] = IdleReq
    BY DEF ControlInit
  <2>3. IdleReq.todo = <<>>
    BY DEF IdleReq
  <2>. QED BY <2>1, <2>2, <2>3 DEF NoPlanEnqueues
<1>4. NoPlanEnqueues => EnqueuesFindNoRunner
  <2>. SUFFICES ASSUME NoPlanEnqueues, NEW r \in Requests, Doing(r, "enqueue") PROVE FALSE
    BY DEF EnqueuesFindNoRunner
  <2>1. req[r].todo \in Seq(StepNames \ {"enqueue"}) /\ req[r].todo # <<>>
    BY DEF NoPlanEnqueues, Doing
  <2>2. Head(req[r].todo) \in StepNames \ {"enqueue"}
    BY <2>1
  <2>. QED BY <2>2 DEF Doing
<1>. QED BY <1>1, <1>2, <1>3, <1>4, ControlInvInit, OneRunnerUnderControl, PTL DEF ControlSpec

(* The limit of a model while users stop jobs.  A cancel or a pause frees  *)
(* the place of a running job at once, and its runner goes on until it has *)
(* heard of it; meanwhile another job may take the place.  evicted is      *)
(* history: the jobs that a request has taken out of Redis and that nobody *)
(* has claimed since.                                                      *)
VARIABLE evicted

Evicts(j) == \E r \in Requests : RemoveJob(r) /\ req[r].job = j
Claims(j) == \E w \in Workers, t \in Tasks : Claim(w, t, j)

RecordEviction == evicted' = {j \in Jobs : Evicts(j) \/ (j \in evicted /\ ~Claims(j))}

EvictionSpec == ControlSpec /\ evicted = {} /\ [][RecordEviction]_<<vars, evicted>>

Placed(j) == HasLease(j) /\ (ModelOf[j] # NoModel => j \in modelRunning[ModelOf[j]])

PlaceKept == \A t \in Tasks : Held(t) => Placed(task[t].job) \/ task[t].job \in evicted

(* The jobs held on a model that nobody has taken out of Redis.            *)
KeptOn(m) == JobsOn(m) \ evicted

(* A place once taken is lost by release and removal only, until the lease *)
(* has expired.                                                            *)
LEMMA PlacedStays ==
    ASSUME QueueTypeOK, [QueueNext]_queueVars, NEW j \in Jobs, Placed(j), lease[j] = "fresh", lease'[j] # "none"
    PROVE  Placed(j)'
<1>. DEFINE Goal == ModelOf[j] # NoModel => j \in modelRunning'[ModelOf[j]]
<1>. SUFFICES Goal
    BY DEF Placed, HasLease
<1>0. ModelOf[j] \in Models \cup {NoModel} /\ modelRunning \in [Models -> SUBSET Jobs]
      /\ lease \in [Jobs -> {"none", "fresh", "expired"}]
    BY ModelOfType DEF QueueTypeOK
<1>1. ASSUME modelRunning' = modelRunning PROVE Goal
    BY <1>1 DEF Placed
<1>2. ASSUME NEW k \in Jobs, NEW m \in Models \cup {NoModel}, ClaimJob(k, m) PROVE Goal
  <2>1. CASE m = NoModel
    BY <1>1, <1>2, <2>1 DEF ClaimJob
  <2>2. CASE m # NoModel
    <3>1. modelRunning' = [modelRunning EXCEPT ![m] = Purged(m) \cup {k}]
      BY <1>2, <2>2 DEF ClaimJob
    <3>2. j \in modelRunning[m] => j \in Purged(m)
      BY DEF Purged, CountedOn, Placed
    <3>. QED BY <1>0, <3>1, <3>2 DEF Placed
  <2>. QED BY <2>1, <2>2
<1>3. ASSUME NEW k \in Jobs, NEW m \in Models \cup {NoModel}, ClaimBlocked(k, m) PROVE Goal
    BY <1>0, <1>3 DEF ClaimBlocked, CountedOn, Placed
<1>4. ASSUME NEW k \in Jobs, DropLease(k) PROVE Goal
  <2>1. k # j
    BY <1>0, <1>4 DEF DropLease
  <2>. QED BY <1>0, <1>4, <2>1 DEF DropLease, Placed
<1>5. ASSUME NEW k \in Jobs, Enqueue(k) \/ RenewLease(k) \/ LapseLease(k) \/ ReapExpired PROVE Goal
    BY <1>1, <1>5 DEF Enqueue, RenewLease, LapseLease, ReapExpired
<1>6. ASSUME NEW k \in Jobs, NEW s, Signal(k, s) \/ SignalIfAbsent(k, s) PROVE Goal
    BY <1>1, <1>6 DEF Signal, SignalIfAbsent
<1>7. CASE UNCHANGED queueVars
    BY <1>1, <1>7 DEF queueVars
<1>. QED BY <1>2, <1>3, <1>4, <1>5, <1>6, <1>7 DEF QueueNext, ReleaseLease, Remove, ClearSignal

(* In the dispatch, a lease that has not expired goes with its release.    *)
LEMMA LeaseEnds ==
    ASSUME TypeInv, Next, NEW j \in Jobs, lease[j] = "fresh", lease'[j] = "none"
    PROVE  \E t \in Tasks : Release(t) /\ task[t].job = j
<1>0. lease \in [Jobs -> {"none", "fresh", "expired"}]
    BY DEF TypeInv, TypeOK, QueueTypeOK
<1>1. ASSUME lease' = lease PROVE FALSE
    BY <1>1
<1>2. ASSUME NEW k, NEW s \in {"fresh", "expired"}, lease' = [lease EXCEPT ![k] = s] PROVE FALSE
    BY <1>0, <1>2
<1>3. ASSUME NEW t \in Tasks, Running(t) \/ Watching(t) \/ HandingOver(t) \/ Mishap(t), ~Release(t) PROVE FALSE
  <2>1. \/ lease' = lease
        \/ lease' = [lease EXCEPT ![task[t].job] = "fresh"]
    <3>1. CASE Running(t) \/ Watching(t)
      BY <1>3, <3>1 DEF Running, Watching, Load, CheckPin, YieldBeforeStart, MarkRunning, EndDispatch, Finalize,
          ClearOwnSignal, PollSignal, RenewLease, CheckRequeue, DropStaleSignal, ClearSignal, Signal,
          TaskOnly, DbOnly, queueVars
    <3>2. CASE HandingOver(t) \/ Mishap(t)
      BY <3>2 DEF HandingOver, Handover, SettleSignal, Land, ClearLanded, ClearBeforeEnqueue, EnqueueYielded,
          Enqueue, Mishap, PauseForBilling, StopForBilling, FailJob, ReleaseFails, HandoverFails,
          RunnerRaises, ClearSignal, Signal, TaskOnly, DbOnly, queueVars
    <3>. QED BY <1>3, <3>1, <3>2
  <2>. QED BY <1>1, <1>2, <2>1
<1>4. ASSUME NEW t \in Tasks, Release(t) PROVE task[t].job = j
    BY <1>0, <1>4 DEF Release, ReleaseLease, DropLease
<1>5. ASSUME NEW w \in Workers, Claiming(w) PROVE FALSE
  <2>1. \/ lease' = lease
        \/ \E k \in Jobs : lease' = [lease EXCEPT ![k] = "fresh"]
    BY <1>5 DEF Claiming, StartScan, NothingToClaim, ClaimRefused, ClaimBlocked, Claim, ClaimJob, queueVars
  <2>. QED BY <1>1, <1>2, <2>1
<1>6. ASSUME NEW w \in Workers, Beating(w) \/ Stopping(w) PROVE FALSE
  <2>1. \/ lease' = lease
        \/ \E k \in Jobs : lease' = [lease EXCEPT ![k] = "fresh"]
    BY <1>6 DEF Beating, StartHeartbeat, HeartbeatRenew, RenewLease, Stopping, Crash, RequestShutdown, Drained,
        Vanish, queueVars
  <2>. QED BY <1>1, <1>2, <2>1
<1>7. ASSUME NEW w \in Workers, Reap(w) PROVE FALSE
    BY <1>0, <1>7 DEF Reap, ReapExpired, Expired
<1>8. ASSUME NEW k \in Jobs, LeaseLapses(k) \/ LeaseLapsesInStall(k) PROVE FALSE
    BY <1>2, <1>8 DEF LeaseLapses, LeaseLapsesInStall, LapseLease
<1>9. ASSUME NEW k \in Jobs, PinJob(k) \/ UnpinJob(k) PROVE FALSE
    BY <1>1, <1>9 DEF PinJob, UnpinJob, queueVars
<1>10. CASE Preempting
    BY <1>1, <1>10 DEF Preempting, CommitPin, PreemptScan, PreemptRegistered, PreemptPick, PreemptSignal,
        PreemptDone, SignalIfAbsent, queueVars
<1>. QED BY <1>3, <1>4, <1>5, <1>6, <1>7, <1>8, <1>9, <1>10 DEF Next

LEMMA ReleaseEnds ==
    ASSUME TypeInv, NEW t \in Tasks, Release(t) \/ ReleaseFails(t)
    PROVE  ~Held(t)'
<1>1. Become(t, "handover") \/ Idle(t)
    BY DEF Release, ReleaseFails, AfterRelease
<1>2. task'[t].pc \in {"handover", "idle"}
    BY <1>1 DEF Become, Idle, IdleTask, TypeInv, TypeOK, TaskType
<1>. QED BY <1>2 DEF Held, HeldPcs

(* A task that holds a job after a step held it before, or has claimed it. *)
LEMMA HolderWas ==
    ASSUME TypeInv, [Next]_vars, NEW t \in Tasks, Held(t)', ~\E w \in Workers, j \in Jobs : Claim(w, t, j)
    PROVE  Held(t) /\ task'[t].job = task[t].job /\ ~Release(t)
<1>1. task \in [Tasks -> TaskType]
    BY DEF TypeInv, TypeOK
<1>2. ASSUME NEW u \in Tasks, Running(u) \/ Watching(u) \/ HandingOver(u) \/ Mishap(u)
      PROVE  Held(t) /\ task'[t].job = task[t].job /\ ~Release(t)
  <2>1. TaskFrame(u)
    BY <1>2, ActingFrame
  <2>2. CASE u = t
    <3>1. task'[t].pc \in HeldPcs /\ "idle" \notin HeldPcs /\ "handover" \notin HeldPcs
      BY DEF Held, HeldPcs
    <3>2. task'[t].job = task[t].job
      BY <2>1, <2>2, <3>1 DEF TaskFrame
    <3>3. ~Release(t) /\ ~ReleaseFails(t)
      BY ReleaseEnds
    <3>4. ~HandingOver(t) /\ ~HandoverFails(t)
      BY <1>1, <3>1, HandoverFrame DEF HandoverFails, Idle, IdleTask, TypeInv
    <3>5. Running(t) => Held(t)
      BY RunningFrame DEF TypeInv
    <3>6. Watching(t) \/ (Mishap(t) /\ ~ReleaseFails(t) /\ ~HandoverFails(t)) => Held(t)
      BY DEF Watching, PollSignal, CheckRequeue, DropStaleSignal, Mishap, PauseForBilling, StopForBilling,
          FailJob, RunnerRaises, Held, HeldPcs
    <3>. QED BY <1>2, <2>2, <3>2, <3>3, <3>4, <3>5, <3>6
  <2>3. CASE u # t
    <3>1. task'[t] = task[t]
      BY <2>1, <2>3 DEF TaskFrame
    <3>. QED BY <3>1, ReleaseEnds DEF Held
  <2>. QED BY <2>2, <2>3
<1>3. ASSUME task'[t] = task[t]
      PROVE  Held(t) /\ task'[t].job = task[t].job /\ ~Release(t)
    BY <1>3, ReleaseEnds DEF Held
<1>4. ASSUME NEW w \in Workers, Claiming(w) PROVE task'[t] = task[t]
    BY <1>1, <1>4 DEF Claiming, StartScan, NothingToClaim, ClaimRefused, Claim
<1>5. ASSUME NEW w \in Workers, Beating(w) \/ Reap(w) \/ Stopping(w) PROVE task'[t] = task[t]
  <2>1. CASE Vanish(w)
    BY <2>1 DEF Vanish, IdleTask, Held, HeldPcs
  <2>. QED BY <1>5, <2>1 DEF Beating, StartHeartbeat, HeartbeatRenew, Reap, Stopping, Crash, RequestShutdown, Drained
<1>6. ASSUME NEW k \in Jobs, LeaseLapses(k) \/ LeaseLapsesInStall(k) \/ PinJob(k) \/ UnpinJob(k)
      PROVE  task'[t] = task[t]
    BY <1>6 DEF LeaseLapses, LeaseLapsesInStall, PinJob, UnpinJob
<1>7. CASE Preempting
    BY <1>3, <1>7 DEF Preempting, CommitPin, PreemptScan, PreemptRegistered, PreemptPick, PreemptSignal, PreemptDone
<1>8. CASE UNCHANGED vars
    BY <1>3, <1>8 DEF vars
<1>. QED BY <1>2, <1>3, <1>4, <1>5, <1>6, <1>7, <1>8 DEF Next

LEMMA PlaceStep ==
    ASSUME ControlInv, Alone, PlaceKept, evicted \subseteq Jobs,
           [ControlNext]_vars, [RecordEviction]_<<vars, evicted>>
    PROVE  PlaceKept' /\ evicted' \subseteq Jobs
<1>. USE DEF ControlInv
<1>0. /\ evicted' \subseteq Jobs
      /\ \A j \in Jobs : j \in evicted /\ ~Claims(j) => j \in evicted'
    BY DEF RecordEviction, vars
<1>1. SUFFICES ASSUME NEW t \in Tasks, Held(t)'
               PROVE  Placed(task[t].job)' \/ task'[t].job \in evicted'
    BY <1>0 DEF PlaceKept
<1>2. ASSUME NEW w \in Workers, NEW j \in Jobs, Claim(w, t, j)
      PROVE  Placed(task[t].job)'
  <2>1. task'[t].job = j
    BY <1>2 DEF Claim, IdleTask, TypeInv, TypeOK
  <2>2. /\ lease' = [lease EXCEPT ![j] = "fresh"]
        /\ ModelOf[j] # NoModel => modelRunning' = [modelRunning EXCEPT ![ModelOf[j]] = Purged(ModelOf[j]) \cup {j}]
    BY <1>2 DEF Claim, ClaimJob
  <2>3. ModelOf[j] \in Models \cup {NoModel}
    BY ModelOfType
  <2>4. lease'[j] # "none" /\ (ModelOf[j] # NoModel => j \in modelRunning'[ModelOf[j]])
    BY <2>2, <2>3 DEF TypeInv, TypeOK, QueueTypeOK
  <2>. QED BY <2>1, <2>4 DEF Placed, HasLease
<1>3. CASE ~\E w \in Workers, j \in Jobs : Claim(w, t, j)
  <2>1. Held(t) /\ task'[t].job = task[t].job
    <3>1. CASE [Next]_vars
      BY <1>1, <1>3, <3>1, HolderWas
    <3>2. ASSUME task' = task PROVE Held(t) /\ task'[t].job = task[t].job
      BY <1>1, <3>2 DEF Held
    <3>3. ASSUME NEW r \in Requests, Serving(r) \/ RequestDies(r) PROVE task' = task
      BY <3>3 DEF Serving, AskWorker, SendSignal, RemoveJob, ClearJobSignal, EnqueueJob, SettleJob, CommitJob,
          RowIsGone, PreemptAgain, RequestDies, dispatchVars
    <3>4. ASSUME NEW r \in Requests, NEW op \in Ops, NEW k \in Jobs, Submit(r, op, k) PROVE task' = task
      BY <3>4 DEF Submit, dispatchVars
    <3>. QED BY <3>1, <3>2, <3>3, <3>4 DEF ControlNext
  <2>6. Engaged(t) /\ task[t].job \in Jobs
    BY <2>1 DEF Held, HeldPcs, Engaged, TypeInv, TaskOK
  <2>5. PICK j \in Jobs : j = task[t].job
    BY <2>6
  <2>7. task'[t].job = j
    BY <2>1, <2>5
  <2>2. Engaged(t) /\ j \in Jobs /\ j = task[t].job /\ j \notin queue /\ lease[j] # "expired"
    BY <2>5, <2>6 DEF Alone
  <2>3. CASE j \in evicted
    <3>1. ~Claims(j)
      BY <2>2 DEF Claims, Claim, ClaimJob
    <3>. QED BY <1>0, <2>1, <2>2, <2>3, <3>1
  <2>4. CASE j \notin evicted
    <3>1. Placed(j) /\ lease[j] = "fresh"
      BY <2>1, <2>2, <2>4 DEF PlaceKept, Placed, HasLease, TypeInv, TypeOK, QueueTypeOK
    <3>2. CASE lease'[j] # "none"
      <4>1. Placed(j)'
        BY <2>2, <3>1, <3>2, ControlStep, PlacedStays DEF TypeInv, TypeOK
      <4>. QED BY <2>7, <4>1 DEF Placed, HasLease
    <3>3. CASE lease'[j] = "none"
      <4>1. CASE Next
        <5>1. PICK u \in Tasks : Release(u) /\ task[u].job = j
          BY <2>2, <3>1, <3>3, <4>1, LeaseEnds
        <5>2. u = t
          BY <2>2, <5>1 DEF Alone, SingleRunner, Release, Engaged
        <5>. QED BY <1>1, <1>3, <4>1, <5>1, <5>2, HolderWas
      <4>2. ASSUME NEW r \in Requests, RemoveJob(r) PROVE j \in evicted'
        <5>1. req[r].job = j
          BY <2>2, <3>1, <3>3, <4>2 DEF RemoveJob, Remove, DropLease, TypeInv, TypeOK, QueueTypeOK
        <5>2. evicted' = {k \in Jobs : Evicts(k) \/ (k \in evicted /\ ~Claims(k))}
          <6>1. lease' # lease
            BY <3>1, <3>3
          <6>. QED BY <6>1 DEF RecordEviction, vars, queueVars
        <5>. QED BY <2>2, <4>2, <5>1, <5>2 DEF Evicts
      <4>3. ASSUME lease' = lease PROVE FALSE
        BY <3>1, <3>3, <4>3
      <4>4. ASSUME NEW r \in Requests, Serving(r) \/ RequestDies(r), ~RemoveJob(r) PROVE lease' = lease
        BY <4>4 DEF Serving, AskWorker, SendSignal, ClearJobSignal, EnqueueJob, Enqueue, SettleJob, CommitJob,
            RowIsGone, PreemptAgain, RequestDies, ClearSignal, Signal, dispatchVars, queueVars
      <4>5. ASSUME NEW r \in Requests, NEW op \in Ops, NEW k \in Jobs, Submit(r, op, k) PROVE lease' = lease
        BY <4>5 DEF Submit, dispatchVars, queueVars
      <4>6. CASE UNCHANGED vars
        BY <4>3, <4>6 DEF vars, queueVars
      <4>. QED BY <2>7, <4>1, <4>2, <4>3, <4>4, <4>5, <4>6 DEF ControlNext
    <3>. QED BY <3>2, <3>3
  <2>. QED BY <2>3, <2>4
<1>. QED BY <1>2, <1>3

(* With users at work, the jobs of a model that nobody has taken out of    *)
(* Redis never exceed its limit: a job over it is the successor of one     *)
(* that a cancel or a pause, a delete or a change of priority has removed  *)
(* while its runner had not stopped yet, however workers crash and         *)
(* whatever breaks off, as long as no worker stalls and no request queues  *)
(* a job that is still in hand.                                            *)
THEOREM LimitUnderControl ==
    ASSUME "stall" \notin FaultKinds
    PROVE  EvictionSpec /\ []EnqueuesFindNoRunner
               => [](\A m \in Models : JobLimit[m] > 0 => Cardinality(KeptOn(m)) <= JobLimit[m])
<1>. DEFINE Kept == \A m \in Models : JobLimit[m] > 0 => Cardinality(KeptOn(m)) <= JobLimit[m]
<1>1. ControlInv /\ [ControlNext]_vars => ControlInv'
    BY ControlStep
<1>2. ControlInv /\ Alone /\ EnqueuesFindNoRunner /\ [ControlNext]_vars => Alone'
    BY AloneStep
<1>3. ControlInv /\ Alone /\ PlaceKept /\ evicted \subseteq Jobs
          /\ [ControlNext]_vars /\ [RecordEviction]_<<vars, evicted>>
          => PlaceKept' /\ (evicted \subseteq Jobs)'
    BY PlaceStep
<1>4. ControlInit /\ evicted = {} => PlaceKept /\ evicted \subseteq Jobs
    BY DEF ControlInit, DispatchInit, PlaceKept, Held, HeldPcs, IdleTask
<1>5. ControlInv /\ PlaceKept /\ SlotsBounded => Kept
  <2>. SUFFICES ASSUME ControlInv, PlaceKept, SlotsBounded, NEW m \in Models, JobLimit[m] > 0
                PROVE  Cardinality(KeptOn(m)) <= JobLimit[m]
    OBVIOUS
  <2>1. KeptOn(m) \subseteq modelRunning[m] /\ modelRunning[m] \subseteq Jobs
    BY NoModelIsNoModel DEF KeptOn, JobsOn, PlaceKept, Placed, ControlInv, TypeInv, TypeOK, QueueTypeOK
  <2>2. IsFiniteSet(modelRunning[m])
    BY <2>1, JobsFinite, FS_Subset
  <2>3. /\ Cardinality(KeptOn(m)) \in Nat /\ Cardinality(modelRunning[m]) \in Nat
        /\ Cardinality(KeptOn(m)) <= Cardinality(modelRunning[m])
    BY <2>1, <2>2, FS_Subset, FS_CardinalityType
  <2>4. Cardinality(modelRunning[m]) <= JobLimit[m] /\ JobLimit[m] \in Nat
    BY JobLimitType DEF SlotsBounded
  <2>. QED BY <2>3, <2>4
<1>. HIDE DEF Kept
<1>6. EvictionSpec /\ []EnqueuesFindNoRunner => []Kept
    BY <1>1, <1>2, <1>3, <1>4, <1>5, ControlInvInit, AloneInit, SlotsBoundedUnderControl, PTL
        DEF ControlSpec, EvictionSpec
<1>. QED BY <1>6 DEF Kept

(* Everything the workers, the administrator and the users do to Redis is  *)
(* one operation of the queue at a time; hence what holds of the queue     *)
(* whoever calls it holds of the system.                                   *)
THEOREM OnlyQueueOperations == ControlSpec => [][QueueNext]_queueVars
<1>1. ControlInv /\ [ControlNext]_vars => ControlInv' /\ [QueueNext]_queueVars
    BY ControlStep
<1>. QED BY <1>1, ControlInvInit, PTL DEF ControlSpec
=============================================================================
