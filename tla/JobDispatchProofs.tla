-------------------------- MODULE JobDispatchProofs --------------------------
(***************************************************************************)
(* Proofs about JobQueue, whoever calls its operations, and JobDispatch,   *)
(* for any number of jobs, workers, tasks and models.  The inductive       *)
(* invariant of the dispatch has three parts.  TypeInv: types, and what a  *)
(* task has decided by the time it gets somewhere.  Exclusive: a job in    *)
(* hand is neither in the queue nor under an expired lease, and until its  *)
(* release it has a lease and a place in its model's running set; that is  *)
(* why it has one holder.  StatusOK: what the jobs table says when a task  *)
(* lets go of its job; that is why no job is lost.  A fourth part,         *)
(* ToldOK, holds under conditions on the pins: from its claim to its end,  *)
(* a run that preempt_for has to stop is within the reach of its signals.  *)
(***************************************************************************)
EXTENDS JobDispatch, FiniteSetTheorems, TLAPS

-----------------------------------------------------------------------------
(* The queue: the limit on a model's running set. *)

(* Purging never makes a finite running set larger. *)
LEMMA CountedBound ==
    ASSUME QueueTypeOK, NEW m \in Models
    PROVE  /\ IsFiniteSet(modelRunning[m])
           /\ IsFiniteSet(CountedOn(m))
           /\ Cardinality(modelRunning[m]) \in Nat
           /\ Cardinality(CountedOn(m)) \in Nat
           /\ Cardinality(CountedOn(m)) <= Cardinality(modelRunning[m])
<1>1. modelRunning[m] \subseteq Jobs /\ CountedOn(m) \subseteq modelRunning[m]
    BY DEF QueueTypeOK, CountedOn
<1>2. IsFiniteSet(modelRunning[m])
    BY <1>1, JobsFinite, FS_Subset
<1>. QED BY <1>1, <1>2, FS_Subset, FS_CardinalityType

(* Removing a job from a running set does not make it larger. *)
LEMMA DropBound ==
    ASSUME QueueTypeOK, NEW m \in Models, NEW j \in Jobs
    PROVE  /\ Cardinality(modelRunning[m] \ {j}) \in Nat
           /\ Cardinality(modelRunning[m] \ {j}) <= Cardinality(modelRunning[m])
<1>1. IsFiniteSet(modelRunning[m]) /\ modelRunning[m] \ {j} \subseteq modelRunning[m]
    BY CountedBound
<1>. QED BY <1>1, FS_Subset, FS_CardinalityType

(* A successful claim adds one job to a purged set that had room. *)
LEMMA ClaimBound ==
    ASSUME QueueTypeOK, NEW m \in Models, NEW j \in Jobs,
           JobLimit[m] > 0, HasRoom(m)
    PROVE  Cardinality(Purged(m) \cup {j}) <= JobLimit[m]
<1>1. Purged(m) = CountedOn(m) /\ JobLimit[m] \in Nat
    BY JobLimitType DEF Purged
<1>2. /\ IsFiniteSet(CountedOn(m)) /\ Cardinality(CountedOn(m)) \in Nat
      /\ Cardinality(CountedOn(m)) < JobLimit[m]
    BY CountedBound, <1>1 DEF HasRoom
<1>3. \/ Cardinality(CountedOn(m) \cup {j}) = Cardinality(CountedOn(m))
      \/ Cardinality(CountedOn(m) \cup {j}) = Cardinality(CountedOn(m)) + 1
    BY <1>2, FS_AddElement
<1>. QED BY <1>1, <1>2, <1>3

(* The type of the queue's variables is kept by every operation. *)
LEMMA QueueTypeStep ==
    ASSUME QueueTypeOK, [QueueNext]_queueVars
    PROVE  QueueTypeOK'
<1>. USE DEF QueueTypeOK, Signals
<1>1. CASE UNCHANGED queueVars
    BY <1>1 DEF queueVars
<1>2. ASSUME NEW j \in Jobs, NEW m \in Models \cup {NoModel}, ClaimJob(j, m)
      PROVE  QueueTypeOK'
  <2>1. CASE m = NoModel
    BY <1>2, <2>1 DEF ClaimJob
  <2>2. CASE m \in Models
    <3>1. Purged(m) \cup {j} \in SUBSET Jobs
      BY <2>2 DEF Purged, CountedOn
    <3>. QED BY <1>2, <2>2, <3>1, NoModelIsNoModel DEF ClaimJob
  <2>. QED BY <2>1, <2>2
<1>3. ASSUME NEW j \in Jobs, NEW m \in Models \cup {NoModel}, ClaimBlocked(j, m)
      PROVE  QueueTypeOK'
    BY <1>3 DEF ClaimBlocked, CountedOn
<1>4. ASSUME NEW j \in Jobs, ReleaseLease(j) \/ Remove(j)
      PROVE  QueueTypeOK'
    BY <1>4 DEF ReleaseLease, Remove, DropLease
<1>5. CASE ReapExpired
    BY <1>5 DEF ReapExpired, Expired
<1>6. ASSUME NEW j \in Jobs,
             \/ Enqueue(j) \/ RenewLease(j) \/ LapseLease(j)
             \/ Signal(j, "cancel") \/ Signal(j, "pause")
             \/ SignalIfAbsent(j, "requeue") \/ ClearSignal(j)
      PROVE  QueueTypeOK'
    BY <1>6 DEF Enqueue, RenewLease, LapseLease, Signal, SignalIfAbsent, ClearSignal
<1>. QED BY <1>1, <1>2, <1>3, <1>4, <1>5, <1>6 DEF QueueNext

(* Only a claim adds to a running set, and it purges the dead first. *)
LEMMA SlotsStep ==
    ASSUME QueueTypeOK, SlotsBounded, [QueueNext]_queueVars
    PROVE  SlotsBounded'
<1>. SUFFICES ASSUME NEW m \in Models, JobLimit[m] > 0
              PROVE  Cardinality(modelRunning'[m]) <= JobLimit[m]
    BY DEF SlotsBounded
<1>0. /\ JobLimit[m] \in Nat /\ Cardinality(modelRunning[m]) \in Nat
      /\ Cardinality(modelRunning[m]) <= JobLimit[m]
    BY JobLimitType, CountedBound DEF SlotsBounded
<1>1. CASE modelRunning' = modelRunning
    BY <1>0, <1>1
<1>2. ASSUME NEW j \in Jobs, NEW n \in Models \cup {NoModel}, ClaimJob(j, n)
      PROVE  Cardinality(modelRunning'[m]) <= JobLimit[m]
  <2>1. CASE n = m
    <3>1. n # NoModel /\ HasRoom(m)
      BY <1>2, <2>1, NoModelIsNoModel DEF ClaimJob
    <3>2. modelRunning'[m] = Purged(m) \cup {j}
      BY <1>2, <2>1, <3>1 DEF ClaimJob, QueueTypeOK
    <3>. QED BY <3>1, <3>2, ClaimBound
  <2>2. CASE n # m
    <3>1. modelRunning'[m] = modelRunning[m]
      BY <1>2, <2>2 DEF ClaimJob, QueueTypeOK
    <3>. QED BY <1>0, <3>1
  <2>. QED BY <2>1, <2>2
<1>3. ASSUME NEW j \in Jobs, NEW n \in Models \cup {NoModel}, ClaimBlocked(j, n)
      PROVE  Cardinality(modelRunning'[m]) <= JobLimit[m]
  <2>1. modelRunning'[m] = modelRunning[m] \/ modelRunning'[m] = CountedOn(m)
    BY <1>3 DEF ClaimBlocked, QueueTypeOK
  <2>. QED BY <1>0, <2>1, CountedBound
<1>4. ASSUME NEW j \in Jobs, DropLease(j)
      PROVE  Cardinality(modelRunning'[m]) <= JobLimit[m]
  <2>1. modelRunning'[m] = modelRunning[m] \/ modelRunning'[m] = modelRunning[m] \ {j}
    BY <1>4 DEF DropLease
  <2>. QED BY <1>0, <2>1, DropBound
<1>. QED BY <1>1, <1>2, <1>3, <1>4
    DEF QueueNext, queueVars, Enqueue, ReleaseLease, Remove, RenewLease, LapseLease,
        ReapExpired, Signal, SignalIfAbsent, ClearSignal

(* Whatever its callers do, the queue keeps its variables well typed.      *)
THEOREM QueueTypeCorrect == QueueSpec => []QueueTypeOK
<1>1. QueueInit => QueueTypeOK
    BY DEF QueueInit, QueueTypeOK, Signals
<1>2. QueueTypeOK /\ [QueueNext]_queueVars => QueueTypeOK'
    BY QueueTypeStep
<1>. QED BY <1>1, <1>2, PTL DEF QueueSpec

(* Whatever its callers do, the running set of a limited model never holds *)
(* more jobs than the limit: the promise of the claim script               *)
(* (queue.py:12-13).                                                       *)
THEOREM SlotsNeverExceeded == QueueSpec => []SlotsBounded
<1>1. QueueInit => SlotsBounded
  <2>. SUFFICES ASSUME QueueInit, NEW m \in Models, JobLimit[m] > 0
                PROVE  Cardinality(modelRunning[m]) <= JobLimit[m]
      BY DEF SlotsBounded
  <2>1. modelRunning[m] = {} /\ JobLimit[m] \in Nat
      BY JobLimitType DEF QueueInit
  <2>. QED BY <2>1, FS_EmptySet
<1>2. QueueTypeOK /\ SlotsBounded /\ [QueueNext]_queueVars => SlotsBounded'
    BY SlotsStep
<1>. QED BY <1>1, <1>2, QueueTypeCorrect, PTL DEF QueueSpec

-----------------------------------------------------------------------------
(* The dispatch. *)

TaskOK ==
    \A t \in Tasks :
        /\ task[t].pc = "idle" => task[t] = IdleTask
        /\ task[t].pc # "idle" => task[t].job \in Jobs /\ task[t].host \in Workers

(* What a task has decided by the time it gets somewhere. *)
OutcomeOK ==
    \A t \in Tasks :
        /\ task[t].pc \in {"load", "check", "yield", "prepare"} => task[t].outcome = "none"
        /\ task[t].pc = "work" => task[t].outcome \in {"none", "canceled", "paused", "queued"}
        /\ task[t].pc = "final" =>
               task[t].outcome \in {"succeeded", "completed", "canceled", "paused", "queued"}
        /\ task[t].pc = "land" => task[t].outcome \in {"canceled", "paused"}

AdminOK ==
    /\ admin.pc # "idle" => admin.job \in Jobs
    /\ admin.pc = "registered" => ModelOf[admin.job] \in Models

-----------------------------------------------------------------------------
(* Every step of the system is a step of the queue or leaves it alone. *)
LEMMA QueueSteps ==
    ASSUME TypeOK, TaskOK, AdminOK, [Next]_vars
    PROVE  [QueueNext]_queueVars
<1>. USE DEF TaskOK, RedisOnly, TaskOnly, DbOnly
<1>1. CASE UNCHANGED vars
    BY <1>1 DEF vars
<1>2. ASSUME NEW t \in Tasks, Running(t)
      PROVE  [QueueNext]_queueVars
    BY <1>2 DEF Return, Running, Load, CheckPin, YieldBeforeStart, MarkRunning, EndDispatch,
        Finalize, ClearOwnSignal, Release, QueueNext
<1>3. ASSUME NEW t \in Tasks, Watching(t)
      PROVE  [QueueNext]_queueVars
    BY <1>3 DEF Watching, PollSignal, CheckRequeue, DropStaleSignal, QueueNext
<1>4. ASSUME NEW t \in Tasks, HandingOver(t)
      PROVE  [QueueNext]_queueVars
    BY <1>4 DEF HandingOver, Handover, SettleSignal, Land, ClearLanded,
        ClearBeforeEnqueue, EnqueueYielded, QueueNext
<1>5. ASSUME NEW t \in Tasks, Mishap(t)
      PROVE  [QueueNext]_queueVars
    BY <1>5 DEF Return, Mishap, PauseForBilling, StopForBilling, FailJob, ReleaseFails, HandoverFails,
        RunnerRaises
<1>6. ASSUME NEW w \in Workers, Claiming(w)
      PROVE  [QueueNext]_queueVars
    BY <1>6, ModelOfType DEF Claiming, StartScan, NothingToClaim, ClaimRefused, Claim, QueueNext
<1>7. ASSUME NEW w \in Workers, Beating(w) \/ Reap(w) \/ Stopping(w)
      PROVE  [QueueNext]_queueVars
  <2>1. CASE Reap(w)
    <3>1. PICK j \in Jobs : lease[j] = "expired"
      BY <2>1 DEF Reap, ReapExpired, Expired
    <3>. QED BY <2>1, <3>1 DEF Reap, QueueNext
  <2>2. CASE Beating(w)
    BY <2>2 DEF Beating, StartHeartbeat, HeartbeatRenew, QueueNext
  <2>3. CASE Stopping(w)
    BY <2>3 DEF Vanish, Stopping, Crash, RequestShutdown, Drained
  <2>. QED BY <1>7, <2>1, <2>2, <2>3
<1>8. ASSUME NEW j \in Jobs,
             LeaseLapses(j) \/ LeaseLapsesInStall(j) \/ PinJob(j) \/ UnpinJob(j)
      PROVE  [QueueNext]_queueVars
    BY <1>8 DEF LeaseLapses, LeaseLapsesInStall, PinJob, UnpinJob, QueueNext
<1>9. CASE Preempting
    BY <1>9 DEF CommitPin, Preempting, PreemptScan, PreemptRegistered, PreemptSignal, PreemptDone, PreemptPick, QueueNext, AdminOK
<1>. QED BY <1>1, <1>2, <1>3, <1>4, <1>5, <1>6, <1>7, <1>8, <1>9 DEF Next

(* The type of everything else, one group of actions at a time.            *)
DispatchType ==
    /\ status \in [Jobs -> JobStatus]
    /\ pinned \in [Jobs -> BOOLEAN]
    /\ workerId \in [Jobs -> Workers \cup {NoWorker}]
    /\ mode \in [Workers -> {"up", "draining", "gone"}]
    /\ running \in [Workers -> SUBSET Jobs]
    /\ beat \in [Workers -> SUBSET Jobs]
    /\ scanning \subseteq Workers
    /\ seenPins \in [Workers -> SUBSET Jobs]
    /\ admin \in AdminType
    /\ pinOps \in Nat /\ faults \in Nat

(* A step that changes a task's pc, outcome and watcher within their types *)
(* keeps tasks well formed, and so does one that blanks it.                *)
LEMMA TaskMoves ==
    ASSUME TypeOK, TaskOK, NEW t \in Tasks, NEW x,
           task' = [task EXCEPT ![t] = x],
           \/ x = IdleTask
           \/ x \in TaskType /\ x.pc # "idle" /\ x.job \in Jobs /\ x.host \in Workers
    PROVE  task' \in [Tasks -> TaskType] /\ TaskOK'
<1>1. IdleTask \in TaskType /\ IdleTask.pc = "idle"
    BY DEF IdleTask, TaskType
<1>2. x \in TaskType
    BY <1>1
<1>3. task' \in [Tasks -> TaskType]
    BY <1>2 DEF TypeOK
<1>4. TaskOK'
    BY <1>1, <1>2 DEF TypeOK, TaskOK
<1>. QED BY <1>3, <1>4

LEMMA BecomeType ==
    ASSUME TypeOK, TaskOK, NEW t \in Tasks, Engaged(t),
           NEW p \in HeldPcs \cup HandoverPcs, NEW o \in JobStatus \cup {"none"},
           Become(t, p) \/ BecomeWith(t, p, o)
    PROVE  task' \in [Tasks -> TaskType] /\ TaskOK'
<1>1. task[t] \in TaskType /\ task[t].job \in Jobs /\ task[t].host \in Workers
    BY DEF TypeOK, TaskOK, Engaged
<1>2. p # "idle"
    BY DEF HeldPcs, HandoverPcs
<1>3. CASE Become(t, p)
  <2>. DEFINE x == [task[t] EXCEPT !.pc = p]
  <2>1. x \in TaskType /\ x.pc # "idle" /\ x.job \in Jobs /\ x.host \in Workers
    BY <1>1, <1>2 DEF TaskType
  <2>2. task' = [task EXCEPT ![t] = x]
    BY <1>3 DEF Become
  <2>. HIDE DEF x
  <2>. QED BY <2>1, <2>2, TaskMoves
<1>4. CASE BecomeWith(t, p, o)
  <2>. DEFINE x == [task[t] EXCEPT !.pc = p, !.outcome = o, !.watch = "off"]
  <2>1. x \in TaskType /\ x.pc # "idle" /\ x.job \in Jobs /\ x.host \in Workers
    BY <1>1, <1>2 DEF TaskType
  <2>2. task' = [task EXCEPT ![t] = x]
    BY <1>4 DEF BecomeWith
  <2>. HIDE DEF x
  <2>. QED BY <2>1, <2>2, TaskMoves
<1>. QED BY <1>3, <1>4

(* A round of the watcher touches the outcome and the watcher's own state. *)
LEMMA WatchMoves ==
    ASSUME TypeOK, NEW t \in Tasks, Watching(t)
    PROVE  \E o \in JobStatus \cup {"none"}, v \in {"sleep", "requeue", "stale", "off"} :
               task' = [task EXCEPT ![t] = [task[t] EXCEPT !.outcome = o, !.watch = v]]
<1>1. task[t] \in TaskType
    BY DEF TypeOK
<1>2. CASE PollSignal(t)
  <2>1. CASE ctrl[task[t].job] = "cancel"
    BY <1>1, <1>2, <2>1 DEF PollSignal, TaskType, JobStatus, TypeOK
  <2>2. CASE ctrl[task[t].job] = "pause"
    BY <1>1, <1>2, <2>2 DEF PollSignal, TaskType, JobStatus, TypeOK
  <2>3. CASE ctrl[task[t].job] = "requeue"
    BY <1>1, <1>2, <2>3 DEF PollSignal, TaskType, JobStatus, TypeOK
  <2>4. CASE ctrl[task[t].job] \notin {"cancel", "pause", "requeue"}
    BY <1>1, <1>2, <2>4 DEF PollSignal, TaskType, JobStatus, TypeOK
  <2>. QED BY <2>1, <2>2, <2>3, <2>4
<1>3. CASE CheckRequeue(t)
    BY <1>1, <1>3 DEF CheckRequeue, TaskType, JobStatus, TypeOK
<1>4. CASE DropStaleSignal(t)
    BY <1>1, <1>4 DEF DropStaleSignal, TaskType, JobStatus, TypeOK
<1>. QED BY <1>2, <1>3, <1>4 DEF Watching

LEMMA TaskTypeStep ==
    ASSUME TypeOK, TaskOK, [Next]_vars
    PROVE  task' \in [Tasks -> TaskType] /\ TaskOK'
<1>. DEFINE Goal == task' \in [Tasks -> TaskType] /\ TaskOK'
<1>0. ASSUME task' = task PROVE Goal
    BY <1>0 DEF TypeOK, TaskOK
<1>1. ASSUME NEW t \in Tasks, Idle(t) PROVE Goal
    BY <1>1, TaskMoves DEF Idle
<1>2. ASSUME NEW t \in Tasks, Running(t) PROVE Goal
  <2>. USE DEF Engaged, HeldPcs, HandoverPcs, JobStatus
  <2>. SUFFICES ASSUME ~Idle(t) PROVE Goal
    BY <1>1
  <2>1. PICK p \in HeldPcs \cup HandoverPcs, o \in JobStatus \cup {"none"} :
            Engaged(t) /\ (Become(t, p) \/ BecomeWith(t, p, o))
    <3>1. CASE Load(t)
        BY <3>1 DEF Return, Load
    <3>2. CASE EndDispatch(t)
        BY <3>2 DEF EndDispatch, TypeOK, TaskType
    <3>3. CASE Release(t)
        BY <3>3 DEF Release, AfterRelease
    <3>4. CASE CheckPin(t) \/ YieldBeforeStart(t) \/ MarkRunning(t)
               \/ Finalize(t) \/ ClearOwnSignal(t)
        BY <3>4 DEF Return, CheckPin, YieldBeforeStart, MarkRunning, Finalize, ClearOwnSignal
    <3>. QED BY <1>2, <3>1, <3>2, <3>3, <3>4 DEF Running
  <2>. QED BY <2>1, BecomeType
<1>3. ASSUME NEW t \in Tasks, Watching(t) PROVE Goal
  <2>1. task[t] \in TaskType /\ task[t].pc = "work"
        /\ task[t].job \in Jobs /\ task[t].host \in Workers
    BY <1>3 DEF TypeOK, TaskOK, Watching, PollSignal, CheckRequeue, DropStaleSignal
  <2>2. PICK o \in JobStatus \cup {"none"}, v \in {"sleep", "requeue", "stale", "off"} :
            task' = [task EXCEPT ![t] = [task[t] EXCEPT !.outcome = o, !.watch = v]]
    BY <1>3, WatchMoves
  <2>. DEFINE x == [task[t] EXCEPT !.outcome = o, !.watch = v]
  <2>3. x \in TaskType /\ x.pc # "idle" /\ x.job \in Jobs /\ x.host \in Workers
    BY <2>1 DEF TaskType
  <2>4. task' = [task EXCEPT ![t] = x]
    BY <2>2
  <2>. HIDE DEF x
  <2>. QED BY <2>3, <2>4, TaskMoves
<1>4. ASSUME NEW t \in Tasks, HandingOver(t) PROVE Goal
  <2>. USE DEF Engaged, HeldPcs, HandoverPcs, JobStatus
  <2>. SUFFICES ASSUME ~Idle(t) PROVE Goal
    BY <1>1
  <2>1. PICK p \in HeldPcs \cup HandoverPcs, o \in JobStatus \cup {"none"} :
            Engaged(t) /\ (Become(t, p) \/ BecomeWith(t, p, o))
    <3>1. CASE SettleSignal(t)
      <4>1. CASE ctrl[task[t].job] = "cancel"
        BY <3>1, <4>1 DEF SettleSignal
      <4>2. CASE ctrl[task[t].job] = "pause"
        BY <3>1, <4>2 DEF SettleSignal
      <4>3. CASE ctrl[task[t].job] \notin {"cancel", "pause"}
        BY <3>1, <4>3 DEF SettleSignal
      <4>. QED BY <4>1, <4>2, <4>3
    <3>2. CASE Handover(t) \/ Land(t) \/ ClearBeforeEnqueue(t)
      BY <3>2 DEF Handover, Land, ClearBeforeEnqueue
    <3>3. CASE ClearLanded(t) \/ EnqueueYielded(t)
      BY <3>3 DEF ClearLanded, EnqueueYielded
    <3>. QED BY <1>4, <3>1, <3>2, <3>3 DEF HandingOver
  <2>. QED BY <2>1, BecomeType
<1>5. ASSUME NEW t \in Tasks, Mishap(t) PROVE Goal
  <2>. USE DEF Engaged, HeldPcs, HandoverPcs, JobStatus
  <2>1. CASE StopForBilling(t)
    <3>. DEFINE x == [task[t] EXCEPT !.outcome = "paused"]
    <3>1. task[t].pc = "work" /\ task' = [task EXCEPT ![t] = x]
      BY <2>1 DEF StopForBilling
    <3>2. x \in TaskType /\ x.pc # "idle" /\ x.job \in Jobs /\ x.host \in Workers
      <4>1. task[t] \in TaskType /\ task[t].job \in Jobs /\ task[t].host \in Workers
        BY <3>1 DEF TypeOK, TaskOK
      <4>. QED BY <3>1, <4>1 DEF TaskType
    <3>. HIDE DEF x
    <3>. QED BY <3>1, <3>2, TaskMoves
  <2>2. CASE HandoverFails(t)
    BY <2>2, <1>1 DEF HandoverFails
  <2>3. CASE ReleaseFails(t) /\ ~Idle(t)
    BY <2>3, BecomeType DEF ReleaseFails, AfterRelease
  <2>4. CASE PauseForBilling(t) \/ FailJob(t) \/ RunnerRaises(t)
    BY <2>4, BecomeType DEF Return, PauseForBilling, FailJob, RunnerRaises
  <2>. QED BY <1>1, <1>5, <2>1, <2>2, <2>3, <2>4 DEF Mishap
<1>6. ASSUME NEW w \in Workers, Claiming(w) PROVE Goal
  <2>1. ASSUME NEW t \in Tasks, NEW j \in Jobs, Claim(w, t, j) PROVE Goal
    <3>. DEFINE x == [IdleTask EXCEPT !.pc = "load", !.host = w, !.job = j]
    <3>1. x \in TaskType /\ x.pc # "idle" /\ x.job \in Jobs /\ x.host \in Workers
      BY DEF IdleTask, TaskType, HeldPcs
    <3>2. task' = [task EXCEPT ![t] = x]
      BY <2>1 DEF Claim
    <3>. HIDE DEF x
    <3>. QED BY <3>1, <3>2, TaskMoves
  <2>. QED BY <1>0, <1>6, <2>1 DEF Claiming, StartScan, NothingToClaim, ClaimRefused
<1>7. ASSUME NEW w \in Workers, Beating(w) \/ Reap(w) \/ Stopping(w) PROVE Goal
  <2>1. CASE Vanish(w)
    <3>1. IdleTask \in TaskType /\ IdleTask.pc = "idle"
      BY DEF IdleTask, TaskType
    <3>. QED BY <2>1, <3>1 DEF Vanish, TypeOK, TaskOK
  <2>. QED BY <1>0, <1>7, <2>1
      DEF Beating, StartHeartbeat, HeartbeatRenew, Reap, Stopping, Crash, RequestShutdown, Drained
<1>8. ASSUME NEW j \in Jobs,
             LeaseLapses(j) \/ LeaseLapsesInStall(j) \/ PinJob(j) \/ UnpinJob(j)
      PROVE  Goal
    BY <1>0, <1>8 DEF LeaseLapses, LeaseLapsesInStall, PinJob, UnpinJob
<1>9. CASE Preempting
    BY <1>0, <1>9 DEF CommitPin, Preempting, PreemptScan, PreemptRegistered, PreemptSignal, PreemptDone, PreemptPick
<1>10. CASE UNCHANGED vars
    BY <1>0, <1>10 DEF vars
<1>. QED BY <1>2, <1>3, <1>4, <1>5, <1>6, <1>7, <1>8, <1>9, <1>10 DEF Next

LEMMA OutcomeType ==
    ASSUME TypeOK, NEW t \in Tasks
    PROVE  /\ task[t].outcome \in JobStatus \cup {"none"}
           /\ task[t].job \in Jobs \cup {NoJob}
           /\ task[t].host \in Workers \cup {NoWorker}
BY DEF TypeOK, TaskType

LEMMA DispatchTypeStep ==
    ASSUME TypeOK, TaskOK, OutcomeOK, AdminOK, [Next]_vars
    PROVE  DispatchType' /\ AdminOK'
<1>. USE DEF TypeOK, DispatchType, AdminType, AdminOK, JobStatus,
             dbVars, workerVars, workerRest, rest, TaskOnly, RedisOnly, DbOnly, PopRunning, Return
<1>. DEFINE Goal == DispatchType' /\ AdminOK'
<1>1. ASSUME NEW t \in Tasks, Running(t) PROVE Goal
  <2>1. CASE Load(t) \/ CheckPin(t) \/ EndDispatch(t) \/ ClearOwnSignal(t)
    BY <2>1 DEF Return, Load, CheckPin, EndDispatch, ClearOwnSignal
  <2>2. CASE YieldBeforeStart(t) \/ MarkRunning(t)
    BY <2>2, OutcomeType DEF Return, YieldBeforeStart, MarkRunning, SetStatus, SetWorker, TaskOK
  <2>3. CASE Finalize(t)
    <3>1. status' \in [Jobs -> JobStatus] /\ pinned' \in [Jobs -> BOOLEAN]
      BY <2>3 DEF Finalize, SetStatus, Unpin, OutcomeOK
    <3>2. workerId' \in [Jobs -> Workers \cup {NoWorker}]
      BY <2>3 DEF Finalize, SetWorker
    <3>3. running' \in [Workers -> SUBSET Jobs]
      BY <2>3 DEF Finalize
    <3>4. UNCHANGED <<workerRest, admin, pinOps, faults>>
      BY <2>3 DEF Finalize
    <3>. QED BY <3>1, <3>2, <3>3, <3>4
  <2>4. CASE Release(t)
    BY <2>4 DEF Release, AfterRelease
  <2>. QED BY <1>1, <2>1, <2>2, <2>3, <2>4 DEF Running
<1>2. ASSUME NEW t \in Tasks, Watching(t) PROVE Goal
    BY <1>2 DEF Watching, PollSignal, CheckRequeue, DropStaleSignal
<1>3. ASSUME NEW t \in Tasks, HandingOver(t) PROVE Goal
  <2>1. CASE Land(t)
    BY <2>1 DEF Land, SetStatus, Unpin, OutcomeOK
  <2>. QED BY <1>3, <2>1 DEF HandingOver, Handover, SettleSignal, ClearLanded,
        ClearBeforeEnqueue, EnqueueYielded
<1>4. ASSUME NEW t \in Tasks, Mishap(t) PROVE Goal
  <2>1. CASE PauseForBilling(t) \/ FailJob(t)
    <3>1. CASE PauseForBilling(t)
      BY <3>1 DEF PauseForBilling, SetStatus, SetWorker
    <3>2. CASE FailJob(t)
      BY <3>2 DEF FailJob, SetStatus, Unpin
    <3>. QED BY <2>1, <3>1, <3>2
  <2>2. CASE ReleaseFails(t)
    <3>1. faults' \in Nat
      BY <2>2 DEF ReleaseFails, Fault
    <3>2. running' \in [Workers -> SUBSET Jobs]
      BY <2>2 DEF ReleaseFails, AfterRelease
    <3>3. UNCHANGED <<dbVars, mode, beat, scanning, seenPins, admin, pinOps>>
      BY <2>2 DEF ReleaseFails, AfterRelease
    <3>. QED BY <3>1, <3>2, <3>3
  <2>. QED BY <1>4, <2>1, <2>2 DEF Return, Mishap, StopForBilling, HandoverFails, RunnerRaises, Fault
<1>5. ASSUME NEW w \in Workers, Claiming(w) PROVE Goal
  <2>1. PinHolders \subseteq Jobs
    BY DEF PinHolders
  <2>2. CASE StartScan(w)
    BY <2>1, <2>2 DEF StartScan
  <2>3. CASE NothingToClaim(w)
    BY <2>3 DEF NothingToClaim, LeaveScan
  <2>4. ASSUME NEW j \in Jobs, ClaimRefused(w, j) PROVE Goal
    BY <2>4 DEF ClaimRefused
  <2>5. ASSUME NEW j \in Jobs, NEW t \in Tasks, Claim(w, t, j) PROVE Goal
    BY <2>5 DEF Claim, LeaveScan
  <2>. QED BY <1>5, <2>2, <2>3, <2>4, <2>5 DEF Claiming
<1>6. ASSUME NEW w \in Workers, Beating(w) \/ Reap(w) \/ Stopping(w) PROVE Goal
    BY <1>6 DEF Vanish, Beating, StartHeartbeat, HeartbeatRenew, Reap,
        Stopping, Crash, RequestShutdown, Drained, LeaveScan
<1>7. ASSUME NEW j \in Jobs, LeaseLapses(j) \/ LeaseLapsesInStall(j) PROVE Goal
    BY <1>7 DEF LeaseLapses, LeaseLapsesInStall, Fault
<1>8. ASSUME NEW j \in Jobs, PinJob(j) \/ UnpinJob(j) PROVE Goal
  <2>1. CASE PinJob(j)
    <3>1. pinOps' \in Nat
      BY <2>1 DEF PinJob
    <3>. DEFINE p == ~pinned[j]
                b == status[j] \in PinBlockingStatuses
    <3>2. admin' = [IdleAdmin EXCEPT !.pc = "commit", !.job = j, !.pins = p, !.preempts = b]
      BY <2>1, Zenon DEF PinJob
    <3>5. p \in BOOLEAN
      OBVIOUS
    <3>6. b \in BOOLEAN
      OBVIOUS
    <3>3. UNCHANGED <<status, pinned, workerId, workerVars, faults>>
      BY <2>1 DEF PinJob
    <3>. HIDE DEF p, b
    <3>4. admin' \in AdminType /\ admin'.pc = "commit" /\ admin'.job = j
      BY <3>2, <3>5, <3>6 DEF IdleAdmin
    <3>. QED BY <3>1, <3>3, <3>4
  <2>2. CASE UnpinJob(j)
    BY <2>2 DEF UnpinJob, Unpin
  <2>. QED BY <1>8, <2>1, <2>2
<1>9. CASE Preempting
  <2>1. modelRunning[ModelOf[admin.job]] \subseteq Jobs \/ admin.pc # "registered"
    BY DEF QueueTypeOK, AdminOK
  <2>0. IdleAdmin \in AdminType /\ IdleAdmin.pc = "idle"
    BY DEF IdleAdmin
  <2>6. CASE CommitPin
    <3>. DEFINE a == [IdleAdmin EXCEPT !.pc = "scan", !.job = admin.job]
    <3>1. a \in AdminType /\ a.pc = "scan" /\ a.job \in Jobs
      BY <2>6 DEF CommitPin, IdleAdmin
    <3>2. admin' \in {a, IdleAdmin} /\ pinned' \in [Jobs -> BOOLEAN]
      BY <2>6 DEF CommitPin
    <3>3. UNCHANGED <<status, workerId, workerVars, pinOps, faults>>
      BY <2>6 DEF CommitPin
    <3>. HIDE DEF a
    <3>. QED BY <2>0, <3>1, <3>2, <3>3
  <2>2. CASE PreemptScan
    BY <2>0, <2>2, ModelOfType DEF PreemptScan
  <2>5. CASE PreemptRegistered
    BY <2>1, <2>5 DEF PreemptRegistered
  <2>3. CASE PreemptSignal \/ PreemptDone
    BY <2>0, <2>3 DEF PreemptSignal, PreemptDone
  <2>4. ASSUME NEW k \in Jobs, PreemptPick(k) PROVE Goal
    BY <2>4 DEF PreemptPick
  <2>. QED BY <1>9, <2>2, <2>3, <2>4, <2>5, <2>6 DEF Preempting
<1>10. CASE UNCHANGED vars
    BY <1>10 DEF vars
<1>. QED BY <1>1, <1>2, <1>3, <1>4, <1>5, <1>6, <1>7, <1>8, <1>9, <1>10 DEF Next

LEMMA OutcomeStep ==
    ASSUME TypeOK, TaskOK, OutcomeOK, [Next]_vars
    PROVE  OutcomeOK'
<1>0. task \in [Tasks -> TaskType] /\ task' \in [Tasks -> TaskType]
    BY TaskTypeStep DEF TypeOK
<1>. USE <1>0 DEF OutcomeOK, TaskType, Become, BecomeWith
<1>1. ASSUME task' = task PROVE OutcomeOK'
    BY <1>1
<1>2. ASSUME NEW t \in Tasks, Idle(t) PROVE OutcomeOK'
    BY <1>2 DEF Idle, IdleTask
<1>3. ASSUME NEW t \in Tasks, Running(t) PROVE OutcomeOK'
  <2>1. CASE Load(t)
    BY <2>1 DEF Return, Load
  <2>2. CASE CheckPin(t)
    BY <2>2 DEF CheckPin
  <2>3. CASE YieldBeforeStart(t)
    BY <2>3 DEF Return, YieldBeforeStart
  <2>4. CASE MarkRunning(t)
    BY <2>4 DEF MarkRunning
  <2>5. CASE EndDispatch(t)
    BY <2>5 DEF EndDispatch
  <2>6. CASE Finalize(t)
    BY <2>6 DEF Finalize
  <2>7. CASE ClearOwnSignal(t)
    BY <2>7 DEF ClearOwnSignal
  <2>8. CASE Release(t)
    BY <2>8, <1>2 DEF Release, AfterRelease
  <2>. QED BY <1>3, <2>1, <2>2, <2>3, <2>4, <2>5, <2>6, <2>7, <2>8 DEF Running
<1>4. ASSUME NEW t \in Tasks, Watching(t) PROVE OutcomeOK'
  <2>1. CASE PollSignal(t)
    <3>1. CASE ctrl[task[t].job] = "cancel"
      BY <2>1, <3>1 DEF PollSignal
    <3>2. CASE ctrl[task[t].job] = "pause"
      BY <2>1, <3>2 DEF PollSignal
    <3>3. CASE ctrl[task[t].job] = "requeue"
      BY <2>1, <3>3 DEF PollSignal
    <3>4. CASE ctrl[task[t].job] \notin {"cancel", "pause", "requeue"}
      <4>. DEFINE v == IF task[t].outcome # "none" THEN "off" ELSE "sleep"
      <4>1. task' = [task EXCEPT ![t].outcome = task[t].outcome, ![t].watch = v]
        BY <2>1, <3>4, Zenon DEF PollSignal
      <4>. HIDE DEF v
      <4>2. /\ task'[t].pc = task[t].pc /\ task'[t].outcome = task[t].outcome
            /\ \A u \in Tasks : u # t => task'[u] = task[u]
        BY <4>1
      <4>. QED BY <4>2
    <3>. QED BY <3>1, <3>2, <3>3, <3>4
  <2>2. CASE CheckRequeue(t)
    BY <2>2 DEF CheckRequeue
  <2>3. CASE DropStaleSignal(t)
    BY <2>3 DEF DropStaleSignal
  <2>. QED BY <1>4, <2>1, <2>2, <2>3 DEF Watching
<1>5. ASSUME NEW t \in Tasks, HandingOver(t) PROVE OutcomeOK'
  <2>1. CASE Handover(t)
    BY <2>1, <1>2 DEF Handover
  <2>2. CASE SettleSignal(t)
    <3>1. CASE ctrl[task[t].job] = "cancel"
      BY <2>2, <3>1 DEF SettleSignal
    <3>2. CASE ctrl[task[t].job] = "pause"
      BY <2>2, <3>2 DEF SettleSignal
    <3>3. CASE ctrl[task[t].job] \notin {"cancel", "pause"}
      BY <2>2, <3>3 DEF SettleSignal
    <3>. QED BY <3>1, <3>2, <3>3
  <2>3. CASE Land(t)
    <3>1. CASE Idle(t)
      BY <3>1, <1>2
    <3>2. CASE Become(t, "landed")
      BY <3>2
    <3>. QED BY <2>3, <3>1, <3>2 DEF Land
  <2>4. CASE ClearBeforeEnqueue(t)
    BY <2>4 DEF ClearBeforeEnqueue
  <2>5. CASE ClearLanded(t) \/ EnqueueYielded(t)
    BY <2>5, <1>2 DEF ClearLanded, EnqueueYielded
  <2>. QED BY <1>5, <2>1, <2>2, <2>3, <2>4, <2>5 DEF HandingOver
<1>6. ASSUME NEW t \in Tasks, Mishap(t) PROVE OutcomeOK'
  <2>1. CASE PauseForBilling(t)
    BY <2>1 DEF PauseForBilling
  <2>2. CASE StopForBilling(t)
    BY <2>2 DEF StopForBilling
  <2>3. CASE FailJob(t)
    BY <2>3 DEF FailJob
  <2>4. CASE ReleaseFails(t)
    BY <2>4, <1>2 DEF ReleaseFails, AfterRelease
  <2>5. CASE HandoverFails(t)
    BY <2>5, <1>2 DEF HandoverFails
  <2>6. CASE RunnerRaises(t)
    BY <2>6 DEF Return, RunnerRaises
  <2>. QED BY <1>6, <2>1, <2>2, <2>3, <2>4, <2>5, <2>6 DEF Mishap
<1>7. ASSUME NEW w \in Workers, Claiming(w) PROVE OutcomeOK'
  <2>1. ASSUME NEW t \in Tasks, NEW j \in Jobs, Claim(w, t, j) PROVE OutcomeOK'
    BY <2>1 DEF Claim, IdleTask
  <2>. QED BY <1>1, <1>7, <2>1 DEF Claiming, StartScan, NothingToClaim, ClaimRefused
<1>8. ASSUME NEW w \in Workers, Beating(w) \/ Reap(w) \/ Stopping(w) PROVE OutcomeOK'
  <2>1. CASE Vanish(w)
    BY <2>1 DEF Vanish, IdleTask
  <2>. QED BY <1>1, <1>8, <2>1
      DEF Beating, StartHeartbeat, HeartbeatRenew, Reap, Stopping, Crash, RequestShutdown, Drained
<1>9. ASSUME NEW j \in Jobs,
             LeaseLapses(j) \/ LeaseLapsesInStall(j) \/ PinJob(j) \/ UnpinJob(j)
      PROVE  OutcomeOK'
    BY <1>1, <1>9 DEF LeaseLapses, LeaseLapsesInStall, PinJob, UnpinJob
<1>10. CASE Preempting
    BY <1>1, <1>10 DEF CommitPin, Preempting, PreemptScan, PreemptRegistered, PreemptSignal, PreemptDone, PreemptPick
<1>11. CASE UNCHANGED vars
    BY <1>1, <1>11 DEF vars
<1>. QED BY <1>3, <1>4, <1>5, <1>6, <1>7, <1>8, <1>9, <1>10, <1>11 DEF Next

-----------------------------------------------------------------------------
(* Type correctness. *)
TypeInv == TypeOK /\ TaskOK /\ OutcomeOK /\ AdminOK

LEMMA TypeInvInit == Init => TypeInv
BY ModelOfType DEF Init, DispatchInit, TypeInv, TypeOK, QueueTypeOK, TaskOK, OutcomeOK, AdminOK, Signals,
    JobStatus, TaskType, IdleTask, IdleAdmin, AdminType

LEMMA TypeInvStep == TypeInv /\ [Next]_vars => TypeInv'
<1>. SUFFICES ASSUME TypeInv, [Next]_vars PROVE TypeInv'
    OBVIOUS
<1>1. QueueTypeOK'
    BY QueueSteps, QueueTypeStep DEF TypeInv, TypeOK
<1>2. task' \in [Tasks -> TaskType] /\ TaskOK'
    BY TaskTypeStep DEF TypeInv
<1>3. OutcomeOK'
    BY OutcomeStep DEF TypeInv
<1>4. DispatchType' /\ AdminOK'
    BY DispatchTypeStep DEF TypeInv
<1>. QED BY <1>1, <1>2, <1>3, <1>4 DEF TypeInv, TypeOK, DispatchType

(* Every variable of the dispatch system keeps its type, and no task is    *)
(* half blank, in every instance and through every fault.                  *)
THEOREM TypeCorrect == Spec => []TypeOK
<1>1. Spec => []TypeInv
    BY TypeInvInit, TypeInvStep, PTL DEF Spec
<1>2. TypeInv => TypeOK
    BY DEF TypeInv
<1>. QED BY <1>1, <1>2, PTL

(* The running set of a limited model is bounded under the workers, the    *)
(* reaper and the preemptions, stalled workers included.                   *)
THEOREM SlotsBoundedInDispatch == Spec => []SlotsBounded
<1>1. Init => SlotsBounded
  <2>. SUFFICES ASSUME Init, NEW m \in Models, JobLimit[m] > 0
                PROVE  Cardinality(modelRunning[m]) <= JobLimit[m]
      BY DEF SlotsBounded
  <2>1. modelRunning[m] = {} /\ JobLimit[m] \in Nat
      BY JobLimitType DEF Init, DispatchInit
  <2>. QED BY <2>1, FS_EmptySet
<1>2. TypeInv /\ SlotsBounded /\ [Next]_vars => SlotsBounded'
    BY QueueSteps, SlotsStep DEF TypeInv, TypeOK
<1>. QED BY <1>1, <1>2, TypeInvInit, TypeInvStep, PTL DEF Spec
-----------------------------------------------------------------------------
(* One runner per job.  A live task's lease does not lapse as long as no   *)
(* worker stalls: then a job in hand is out of reach of the claim, which   *)
(* takes from the queue, and of the reaper, which feeds it.                *)
Exclusive ==
    /\ SingleRunner
    /\ \A t \in Tasks : Engaged(t) =>
          task[t].job \notin queue /\ lease[task[t].job] # "expired"
    /\ \A t \in Tasks : Held(t) =>
          LET j == task[t].job IN
          /\ HasLease(j)
          /\ ModelOf[j] # NoModel => j \in modelRunning[ModelOf[j]]

(* A step of the task that has j in hand: it keeps the job or ends, and    *)
(* disturbs no other job.                                                  *)
LEMMA OneTaskKeeps ==
    ASSUME TypeOK, TaskOK, Exclusive, NEW t \in Tasks, Engaged(t), NEW j, j = task[t].job,
           \A u \in Tasks \ {t} : task'[u] = task[u],
           \/ task'[t].pc = "idle"
           \/ /\ task'[t].job = j
              /\ j \notin queue'
              /\ lease'[j] # "expired"
              /\ task'[t].pc \in HeldPcs =>
                    /\ lease'[j] # "none"
                    /\ ModelOf[j] # NoModel => j \in modelRunning'[ModelOf[j]],
           \A k \in Jobs \ {j} :
              /\ k \in queue' => k \in queue
              /\ lease'[k] = lease[k]
              /\ \A m \in Models : k \in modelRunning[m] => k \in modelRunning'[m]
    PROVE  Exclusive'
<1>1. "idle" \notin HeldPcs
    BY DEF HeldPcs
<1>2. \A u \in Tasks : Engaged(u) => task[u].job \in Jobs
    BY DEF TaskOK, Engaged
<1>3. \A u \in Tasks : Engaged(u) /\ u # t => task[u].job # j
    BY DEF Exclusive, SingleRunner
<1>4. SingleRunner'
    BY <1>2, <1>3 DEF Exclusive, SingleRunner, Engaged
<1>5. \A u \in Tasks : Engaged(u)' =>
          task'[u].job \notin queue' /\ lease'[task'[u].job] # "expired"
    BY <1>2, <1>3 DEF Exclusive, Engaged
<1>6. ASSUME NEW u \in Tasks, Held(u)', u # t
      PROVE  LET k == task'[u].job IN
             /\ lease'[k] # "none"
             /\ ModelOf[k] # NoModel => k \in modelRunning'[ModelOf[k]]
  <2>1. task'[u] = task[u] /\ Held(u) /\ Engaged(u)
    BY <1>1, <1>6 DEF Held, Engaged
  <2>2. task[u].job \in Jobs \ {j} /\ ModelOf[task[u].job] \in Models \cup {NoModel}
    BY <1>2, <1>3, <1>6, <2>1, ModelOfType
  <2>. QED BY <2>1, <2>2 DEF Exclusive, HasLease
<1>. QED BY <1>1, <1>4, <1>5, <1>6 DEF Exclusive, Held, HasLease

(* A step that leaves the tasks alone, queues and expires no job in hand,  *)
(* and takes no place from one that has a lease.                           *)
LEMMA QuietKeeps ==
    ASSUME TypeOK, TaskOK, Exclusive, task' = task,
           \A t \in Tasks : LET j == task[t].job IN Engaged(t) =>
              /\ j \in queue' => j \in queue
              /\ lease'[j] \in {lease[j], "fresh"},
           \A m \in Models : \A k \in Jobs :
              HasLease(k) /\ k \in modelRunning[m] => k \in modelRunning'[m]
    PROVE  Exclusive'
<1>1. \A t \in Tasks : Held(t) => Engaged(t)
    BY DEF Held, Engaged, HeldPcs
<1>2. \A t \in Tasks : Engaged(t) =>
          task[t].job \in Jobs /\ ModelOf[task[t].job] \in Models \cup {NoModel}
    BY ModelOfType DEF TaskOK, Engaged
<1>3. SingleRunner'
    BY DEF Exclusive, SingleRunner, Engaged
<1>4. \A t \in Tasks : Engaged(t)' =>
          task'[t].job \notin queue' /\ lease'[task'[t].job] # "expired"
    BY DEF Exclusive, Engaged
<1>5. ASSUME NEW t \in Tasks, Held(t)'
      PROVE  LET k == task'[t].job IN
             /\ lease'[k] # "none"
             /\ ModelOf[k] # NoModel => k \in modelRunning'[ModelOf[k]]
  <2>1. Held(t) /\ Engaged(t)
    BY <1>1, <1>5 DEF Held
  <2>2. lease'[task[t].job] # "none" /\ HasLease(task[t].job)
    BY <2>1 DEF Exclusive, HasLease
  <2>. QED BY <1>2, <2>1, <2>2 DEF Exclusive
<1>. QED BY <1>3, <1>4, <1>5 DEF Exclusive, HasLease

(* The claimed job was in the queue, so nobody had it in hand.             *)
LEMMA ClaimKeeps ==
    ASSUME TypeOK, TaskOK, Exclusive,
           NEW w \in Workers, NEW t \in Tasks, NEW j \in Jobs, Claim(w, t, j)
    PROVE  Exclusive'
<1>1. /\ task'[t].pc = "load" /\ task'[t].job = j
      /\ \A u \in Tasks \ {t} : task'[u] = task[u]
    BY DEF Claim, IdleTask, TypeOK
<1>2. /\ j \in queue /\ queue' = queue \ {j}
      /\ lease' = [lease EXCEPT ![j] = "fresh"]
      /\ ModelOf[j] = NoModel => modelRunning' = modelRunning
      /\ ModelOf[j] # NoModel =>
            modelRunning' = [modelRunning EXCEPT ![ModelOf[j]] = Purged(ModelOf[j]) \cup {j}]
    BY DEF Claim, ClaimJob
<1>3. \A u \in Tasks \ {t} : Engaged(u) => task[u].job \in Jobs \ {j}
    BY <1>2 DEF Exclusive, TaskOK, Engaged
<1>4. \A u \in Tasks : Held(u) => Engaged(u)
    BY DEF Held, Engaged, HeldPcs
<1>5. SingleRunner'
    BY <1>1, <1>3 DEF Exclusive, SingleRunner, Engaged
<1>6. \A u \in Tasks : Engaged(u)' =>
          task'[u].job \notin queue' /\ lease'[task'[u].job] # "expired"
    BY <1>1, <1>2, <1>3 DEF Exclusive, Engaged, TypeOK, QueueTypeOK
<1>7. ASSUME NEW k \in Jobs \ {j}, NEW m \in Models, HasLease(k), k \in modelRunning[m]
      PROVE  k \in modelRunning'[m]
    BY <1>2, <1>7, ModelOfType DEF Purged, CountedOn, TypeOK, QueueTypeOK
<1>8. ASSUME NEW u \in Tasks, u # t, Held(u)'
      PROVE  LET k == task'[u].job IN
             /\ lease'[k] # "none"
             /\ ModelOf[k] # NoModel => k \in modelRunning'[ModelOf[k]]
  <2>1. Held(u) /\ task'[u] = task[u] /\ task[u].job \in Jobs \ {j}
    BY <1>1, <1>3, <1>4, <1>8 DEF Held
  <2>2. ModelOf[task[u].job] \in Models \cup {NoModel}
    BY <2>1, ModelOfType
  <2>. QED BY <1>2, <1>7, <2>1, <2>2 DEF Exclusive, HasLease, TypeOK, QueueTypeOK
<1>9. lease'[j] # "none" /\ (ModelOf[j] # NoModel => j \in modelRunning'[ModelOf[j]])
  <2>1. lease'[j] = "fresh"
    BY <1>2 DEF TypeOK, QueueTypeOK
  <2>2. CASE ModelOf[j] # NoModel
    <3>1. ModelOf[j] \in Models /\ modelRunning \in [Models -> SUBSET Jobs]
      BY <2>2, ModelOfType DEF TypeOK, QueueTypeOK
    <3>2. modelRunning'[ModelOf[j]] = Purged(ModelOf[j]) \cup {j}
      BY <1>2, <2>2, <3>1
    <3>. QED BY <2>1, <3>2
  <2>. QED BY <2>1, <2>2
<1>. QED BY <1>1, <1>5, <1>6, <1>8, <1>9 DEF Exclusive, HasLease

(* Steps of a task that keeps its job, on a queue that changes at most by  *)
(* the renewal of the job's lease.                                         *)
LEMMA MovedKeeps ==
    ASSUME TypeOK, TaskOK, Exclusive, NEW t \in Tasks, Engaged(t),
           \A u \in Tasks \ {t} : task'[u] = task[u],
           task'[t].pc = "idle" \/ task'[t].job = task[t].job,
           task'[t].pc \in HeldPcs => Held(t),
           queue' = queue, modelRunning' = modelRunning,
           lease' = lease \/ lease' = [lease EXCEPT ![task[t].job] = "fresh"]
    PROVE  Exclusive'
<1>. DEFINE j == task[t].job
<1>1. j \in Jobs /\ j \notin queue /\ lease[j] # "expired"
    BY DEF TaskOK, Engaged, Exclusive
<1>2. lease'[j] \in {lease[j], "fresh"} /\ \A k \in Jobs \ {j} : lease'[k] = lease[k]
    BY <1>1 DEF TypeOK, QueueTypeOK
<1>3. Held(t) => lease[j] # "none" /\ (ModelOf[j] # NoModel => j \in modelRunning[ModelOf[j]])
    BY DEF Exclusive, HasLease
<1>. HIDE DEF j
<1>4. task'[t].pc \in HeldPcs =>
          lease'[j] # "none" /\ (ModelOf[j] # NoModel => j \in modelRunning'[ModelOf[j]])
    BY <1>2, <1>3
<1>5. j = task[t].job /\ lease'[j] # "expired" /\ j \notin queue'
    BY <1>1, <1>2 DEF j
<1>. QED BY <1>2, <1>4, <1>5, OneTaskKeeps

(* What a step of a task does to the tasks: it keeps its job or ends.      *)
TaskFrame(t) ==
    /\ \A u \in Tasks \ {t} : task'[u] = task[u]
    /\ task'[t].pc = "idle" \/ task'[t].job = task[t].job

LEMMA BecomeFrame ==
    ASSUME TypeOK, NEW t \in Tasks, NEW p, NEW o,
           Become(t, p) \/ BecomeWith(t, p, o) \/ Idle(t)
    PROVE  TaskFrame(t)
BY DEF TypeOK, TaskType, TaskFrame, Become, BecomeWith, Idle, IdleTask

LEMMA RunningFrame ==
    ASSUME TypeOK, NEW t \in Tasks, Running(t)
    PROVE  TaskFrame(t) /\ Engaged(t) /\ Held(t)
<1>1. Engaged(t) /\ Held(t)
    BY DEF Return, Running, Load, CheckPin, YieldBeforeStart, MarkRunning, EndDispatch,
        Finalize, ClearOwnSignal, Release, Engaged, Held, HeldPcs
<1>2. \E p, o : Become(t, p) \/ BecomeWith(t, p, o) \/ Idle(t)
  <2>1. CASE Load(t) \/ CheckPin(t) \/ EndDispatch(t) \/ MarkRunning(t)
    BY <2>1 DEF Return, Load, CheckPin, EndDispatch, MarkRunning
  <2>2. CASE YieldBeforeStart(t) \/ Finalize(t) \/ ClearOwnSignal(t)
    BY <2>2 DEF Return, YieldBeforeStart, Finalize, ClearOwnSignal
  <2>3. CASE Release(t)
    BY <2>3 DEF Release, AfterRelease
  <2>. QED BY <2>1, <2>2, <2>3 DEF Running
<1>. QED BY <1>1, <1>2, BecomeFrame

LEMMA HandoverFrame ==
    ASSUME TypeOK, NEW t \in Tasks, HandingOver(t)
    PROVE  TaskFrame(t) /\ Engaged(t) /\ task'[t].pc \notin HeldPcs
<1>1. CASE SettleSignal(t)
  <2>1. PICK p \in HandoverPcs, o \in JobStatus : Become(t, p) \/ BecomeWith(t, p, o)
    BY <1>1 DEF SettleSignal, HandoverPcs, JobStatus
  <2>2. task'[t].pc = p
    BY <2>1 DEF Become, BecomeWith, TypeOK, TaskType
  <2>. QED BY <1>1, <2>1, <2>2, BecomeFrame DEF SettleSignal, Engaged, HeldPcs, HandoverPcs
<1>2. CASE Handover(t) \/ Land(t) \/ ClearBeforeEnqueue(t)
  <2>1. PICK p \in HandoverPcs : Become(t, p) \/ Idle(t)
    BY <1>2 DEF Handover, Land, ClearBeforeEnqueue, HandoverPcs
  <2>2. task'[t].pc \in {p, "idle"}
    BY <2>1 DEF Become, Idle, IdleTask, TypeOK, TaskType
  <2>. QED BY <1>2, <2>1, <2>2, BecomeFrame
        DEF Handover, Land, ClearBeforeEnqueue, Engaged, HeldPcs, HandoverPcs
<1>3. CASE ClearLanded(t) \/ EnqueueYielded(t)
  <2>1. Idle(t) /\ Engaged(t)
    BY <1>3 DEF ClearLanded, EnqueueYielded, Engaged
  <2>. QED BY <2>1, BecomeFrame DEF Idle, IdleTask, HeldPcs, TypeOK, TaskType
<1>. QED BY <1>1, <1>2, <1>3 DEF HandingOver

(* The release forgets one job's lease and place; the task is no longer    *)
(* obliged to have them.                                                   *)
LEMMA ReleaseKeeps ==
    ASSUME TypeInv, Exclusive, NEW t \in Tasks, Release(t)
    PROVE  Exclusive'
<1>. DEFINE j == task[t].job
<1>1. TaskFrame(t) /\ Engaged(t)
    BY RunningFrame DEF TypeInv, Running
<1>2. task'[t].pc \in {"idle", "handover"}
    BY DEF Release, AfterRelease, Become, Idle, IdleTask, TypeInv, TypeOK, TaskType
<1>3. /\ queue' = queue
      /\ lease' = [lease EXCEPT ![j] = "none"]
      /\ modelRunning' = [m \in Models |->
             IF m = jobModel[j] THEN modelRunning[m] \ {j} ELSE modelRunning[m]]
    BY DEF Release, ReleaseLease, DropLease
<1>4. j \in Jobs /\ j \notin queue
    BY <1>1 DEF TypeInv, TaskOK, Engaged, Exclusive
<1>5. task'[t].pc \notin HeldPcs
    BY <1>2 DEF HeldPcs
<1>6. \A k \in Jobs \ {j} :
          /\ lease'[k] = lease[k]
          /\ \A m \in Models : k \in modelRunning[m] => k \in modelRunning'[m]
    BY <1>3 DEF TypeInv, TypeOK, QueueTypeOK
<1>7. lease'[j] # "expired"
    BY <1>3, <1>4 DEF TypeInv, TypeOK, QueueTypeOK
<1>. HIDE DEF j
<1>8. j = task[t].job
    BY DEF j
<1>. QED BY <1>1, <1>3, <1>4, <1>5, <1>6, <1>7, <1>8, OneTaskKeeps DEF TypeInv, TaskFrame

LEMMA HandoverKeeps ==
    ASSUME TypeInv, Exclusive, NEW t \in Tasks, HandingOver(t)
    PROVE  Exclusive'
<1>1. TaskFrame(t) /\ Engaged(t) /\ task'[t].pc \notin HeldPcs
    BY HandoverFrame DEF TypeInv
<1>2. CASE EnqueueYielded(t)
  <2>. DEFINE j == task[t].job
  <2>1. queue' = queue \cup {j} /\ lease' = lease /\ modelRunning' = modelRunning
    BY <1>2 DEF EnqueueYielded, Enqueue
  <2>2. task'[t].pc = "idle"
    BY <1>2 DEF EnqueueYielded, Idle, IdleTask, TypeInv, TypeOK
  <2>. HIDE DEF j
  <2>3. j = task[t].job
    BY DEF j
  <2>. QED BY <1>1, <2>1, <2>2, <2>3, OneTaskKeeps DEF TypeInv, TaskFrame
<1>3. CASE ~EnqueueYielded(t)
  <2>1. queue' = queue /\ modelRunning' = modelRunning /\ lease' = lease
    BY <1>3 DEF HandingOver, Handover, SettleSignal, Land, ClearLanded, ClearBeforeEnqueue,
        ClearSignal, Signal, TaskOnly, DbOnly, queueVars
  <2>. QED BY <1>1, <2>1, MovedKeeps DEF TypeInv, TaskFrame
<1>. QED BY <1>2, <1>3

LEMMA MishapKeeps ==
    ASSUME TypeInv, Exclusive, NEW t \in Tasks, Mishap(t)
    PROVE  Exclusive'
<1>1. queue' = queue /\ modelRunning' = modelRunning /\ lease' = lease
    BY DEF Return, Mishap, PauseForBilling, StopForBilling, FailJob, ReleaseFails, HandoverFails,
        RunnerRaises, TaskOnly, DbOnly, queueVars
<1>2. CASE PauseForBilling(t) \/ FailJob(t) \/ RunnerRaises(t)
  <2>1. TaskFrame(t) /\ Engaged(t) /\ Held(t)
    BY <1>2, BecomeFrame DEF Return, PauseForBilling, FailJob, RunnerRaises, Engaged, Held, HeldPcs, TypeInv
  <2>. QED BY <1>1, <2>1, MovedKeeps DEF TypeInv, TaskFrame
<1>3. CASE StopForBilling(t)
  <2>1. TaskFrame(t) /\ Engaged(t) /\ Held(t)
    BY <1>3 DEF StopForBilling, TaskFrame, Engaged, Held, HeldPcs, TypeInv, TypeOK, TaskType
  <2>. QED BY <1>1, <2>1, MovedKeeps DEF TypeInv, TaskFrame
<1>4. CASE ReleaseFails(t)
  <2>1. TaskFrame(t) /\ Engaged(t) /\ Held(t)
    BY <1>4, BecomeFrame DEF ReleaseFails, AfterRelease, Engaged, Held, HeldPcs, TypeInv
  <2>. QED BY <1>1, <2>1, MovedKeeps DEF TypeInv, TaskFrame
<1>5. CASE HandoverFails(t)
  <2>1. TaskFrame(t) /\ Engaged(t) /\ task'[t].pc \notin HeldPcs
    BY <1>5, BecomeFrame DEF HandoverFails, Engaged, HandoverPcs, HeldPcs, TypeInv,
        Idle, IdleTask, TypeOK
  <2>. QED BY <1>1, <2>1, MovedKeeps DEF TypeInv, TaskFrame
<1>. QED BY <1>2, <1>3, <1>4, <1>5 DEF Mishap

LEMMA ExclusiveStep ==
    ASSUME TypeInv, Exclusive, [Next]_vars, "stall" \notin FaultKinds
    PROVE  Exclusive'
<1>. USE DEF TypeInv
<1>1. ASSUME NEW t \in Tasks, Running(t) PROVE Exclusive'
  <2>1. TaskFrame(t) /\ Engaged(t) /\ Held(t)
    BY <1>1, RunningFrame
  <2>2. CASE ~Release(t)
    <3>1. queue' = queue /\ modelRunning' = modelRunning /\ lease' = lease
      BY <1>1, <2>2 DEF Return, Running, Load, CheckPin, YieldBeforeStart, MarkRunning, EndDispatch,
          Finalize, ClearOwnSignal, ClearSignal, Signal, TaskOnly, DbOnly, queueVars
    <3>. QED BY <2>1, <3>1, MovedKeeps DEF TaskFrame
  <2>. QED BY <2>2, ReleaseKeeps
<1>2. ASSUME NEW t \in Tasks, Watching(t) PROVE Exclusive'
  <2>1. Engaged(t) /\ Held(t)
    BY <1>2 DEF Watching, PollSignal, CheckRequeue, DropStaleSignal, Engaged, Held, HeldPcs
  <2>2. /\ queue' = queue /\ modelRunning' = modelRunning
        /\ lease' = lease \/ lease' = [lease EXCEPT ![task[t].job] = "fresh"]
    BY <1>2 DEF Watching, PollSignal, CheckRequeue, DropStaleSignal, RenewLease,
        ClearSignal, Signal, TaskOnly, queueVars
  <2>3. TaskFrame(t)
    <3>1. PICK o \in JobStatus \cup {"none"}, v \in {"sleep", "requeue", "stale", "off"} :
              task' = [task EXCEPT ![t] = [task[t] EXCEPT !.outcome = o, !.watch = v]]
      BY <1>2, WatchMoves
    <3>. QED BY <3>1 DEF TaskFrame, TypeOK, TaskType
  <2>4. CASE lease' = lease
    BY <2>1, <2>2, <2>3, <2>4, MovedKeeps DEF TaskFrame
  <2>5. CASE lease' = [lease EXCEPT ![task[t].job] = "fresh"]
    BY <2>1, <2>2, <2>3, <2>5, MovedKeeps DEF TaskFrame
  <2>. QED BY <2>2, <2>4, <2>5
<1>3. ASSUME NEW w \in Workers, Claiming(w) PROVE Exclusive'
  <2>1. CASE StartScan(w) \/ NothingToClaim(w)
    BY <2>1, QuietKeeps DEF StartScan, NothingToClaim, queueVars
  <2>2. ASSUME NEW j \in Jobs, ClaimRefused(w, j) PROVE Exclusive'
    <3>1. ModelOf[j] \in Models /\ CountedOn(ModelOf[j]) \subseteq modelRunning[ModelOf[j]]
      BY <2>2, ModelOfType DEF ClaimRefused, ClaimBlocked, CountedOn
    <3>2. /\ queue' = queue /\ lease' = lease /\ task' = task
          /\ modelRunning' = [modelRunning EXCEPT ![ModelOf[j]] = CountedOn(ModelOf[j])]
      BY <2>2 DEF ClaimRefused, ClaimBlocked
    <3>3. ASSUME NEW m \in Models, NEW k \in Jobs, HasLease(k), k \in modelRunning[m]
          PROVE  k \in modelRunning'[m]
      BY <3>1, <3>2, <3>3 DEF CountedOn, TypeOK, QueueTypeOK
    <3>. QED BY <3>2, <3>3, QuietKeeps
  <2>3. ASSUME NEW j \in Jobs, NEW t \in Tasks, Claim(w, t, j) PROVE Exclusive'
    BY <2>3, ClaimKeeps
  <2>. QED BY <1>3, <2>1, <2>2, <2>3 DEF Claiming
<1>4. ASSUME NEW w \in Workers, Beating(w) PROVE Exclusive'
  <2>1. CASE StartHeartbeat(w)
    BY <2>1, QuietKeeps DEF StartHeartbeat, queueVars
  <2>2. ASSUME NEW j \in Jobs, HeartbeatRenew(w, j) PROVE Exclusive'
    <3>1. /\ queue' = queue /\ modelRunning' = modelRunning /\ task' = task
          /\ lease' = [lease EXCEPT ![j] = "fresh"]
      BY <2>2 DEF HeartbeatRenew, RenewLease
    <3>2. \A t \in Tasks : Engaged(t) =>
              lease'[task[t].job] \in {lease[task[t].job], "fresh"}
      BY <3>1 DEF TaskOK, Engaged, TypeOK, QueueTypeOK
    <3>. QED BY <3>1, <3>2, QuietKeeps
  <2>. QED BY <1>4, <2>1, <2>2 DEF Beating
<1>5. ASSUME NEW w \in Workers, Reap(w) PROVE Exclusive'
  <2>1. /\ queue' = queue \cup Expired /\ modelRunning' = modelRunning /\ task' = task
        /\ lease' = [k \in Jobs |-> IF k \in Expired THEN "none" ELSE lease[k]]
    BY <1>5 DEF Reap, ReapExpired
  <2>2. \A t \in Tasks : Engaged(t) => task[t].job \in Jobs \ Expired
    BY DEF Exclusive, Expired, TaskOK, Engaged
  <2>. QED BY <2>1, <2>2, QuietKeeps
<1>6. ASSUME NEW w \in Workers, Stopping(w) PROVE Exclusive'
  <2>1. CASE Vanish(w)
    <3>1. /\ task' = [t \in Tasks |-> IF task[t].host = w THEN IdleTask ELSE task[t]]
          /\ queue' = queue /\ lease' = lease /\ modelRunning' = modelRunning
      BY <2>1 DEF Vanish, queueVars
    <3>2. \A t \in Tasks : Engaged(t)' => task'[t] = task[t] /\ Engaged(t)
      BY <3>1 DEF Engaged, IdleTask
    <3>3. \A t \in Tasks : Held(t)' => task'[t] = task[t] /\ Held(t)
      BY <3>1, <3>2 DEF Engaged, Held, HeldPcs
    <3>. QED BY <3>1, <3>2, <3>3 DEF Exclusive, SingleRunner, HasLease
  <2>2. CASE RequestShutdown(w)
    BY <2>2, QuietKeeps DEF RequestShutdown, queueVars
  <2>. QED BY <1>6, <2>1, <2>2 DEF Stopping, Crash, Drained
<1>7. ASSUME NEW j \in Jobs, LeaseLapses(j) PROVE Exclusive'
  <2>1. /\ queue' = queue /\ modelRunning' = modelRunning /\ task' = task
        /\ lease' = [lease EXCEPT ![j] = "expired"]
    BY <1>7 DEF LeaseLapses, LapseLease
  <2>2. \A t \in Tasks : Engaged(t) => lease'[task[t].job] = lease[task[t].job]
    BY <1>7, <2>1 DEF LeaseLapses, TaskOK, Engaged, TypeOK, QueueTypeOK
  <2>. QED BY <2>1, <2>2, QuietKeeps
<1>8. ASSUME NEW j \in Jobs PROVE ~LeaseLapsesInStall(j)
    BY DEF LeaseLapsesInStall, Fault
<1>9. CASE Preempting \/ (\E j \in Jobs : PinJob(j) \/ UnpinJob(j)) \/ UNCHANGED vars
  <2>1. queue' = queue /\ lease' = lease /\ modelRunning' = modelRunning /\ task' = task
    <3>1. CASE CommitPin \/ PreemptScan \/ PreemptRegistered \/ PreemptSignal \/ PreemptDone
      BY <3>1 DEF CommitPin, PreemptScan, PreemptRegistered, PreemptSignal, PreemptDone, SignalIfAbsent, queueVars
    <3>2. ASSUME NEW j \in Jobs, PreemptPick(j) \/ PinJob(j) \/ UnpinJob(j)
          PROVE  queue' = queue /\ lease' = lease /\ modelRunning' = modelRunning /\ task' = task
      BY <3>2 DEF PreemptPick, PinJob, UnpinJob, queueVars
    <3>3. CASE UNCHANGED vars
      BY <3>3 DEF queueVars, vars
    <3>. QED BY <1>9, <3>1, <3>2, <3>3 DEF Preempting
  <2>. QED BY <2>1, QuietKeeps
<1>. QED BY <1>1, <1>2, <1>3, <1>4, <1>5, <1>6, <1>7, <1>8, <1>9,
            HandoverKeeps, MishapKeeps DEF Next

LEMMA ExclusiveInit == Init => Exclusive
BY DEF Init, DispatchInit, Exclusive, SingleRunner, Engaged, Held, HeldPcs, IdleTask

(* No job is in the hands of two live tasks, however workers crash, leases *)
(* are reaped and releases or handovers fail, as long as no worker stalls  *)
(* for the length of a lease.                                              *)
THEOREM OneRunnerPerJob ==
    ASSUME "stall" \notin FaultKinds
    PROVE  Spec => []SingleRunner
<1>1. TypeInv /\ Exclusive /\ [Next]_vars => Exclusive'
    BY ExclusiveStep
<1>2. Exclusive => SingleRunner
    BY DEF Exclusive
<1>. QED BY <1>1, <1>2, TypeInvInit, TypeInvStep, ExclusiveInit, PTL DEF Spec

(* Every job in hand has its place in the bounded running set.             *)
LEMMA HeldFitTheLimit ==
    ASSUME TypeInv, Exclusive, SlotsBounded
    PROVE  ModelLimit
<1>. SUFFICES ASSUME NEW m \in Models, JobLimit[m] > 0
              PROVE  Cardinality(JobsOn(m)) <= JobLimit[m]
    BY DEF ModelLimit
<1>1. JobsOn(m) \subseteq modelRunning[m] /\ modelRunning[m] \subseteq Jobs /\ m # NoModel
    BY NoModelIsNoModel DEF JobsOn, Exclusive, TypeInv, TypeOK, QueueTypeOK
<1>2. IsFiniteSet(modelRunning[m])
    BY <1>1, JobsFinite, FS_Subset
<1>3. /\ Cardinality(JobsOn(m)) \in Nat /\ Cardinality(modelRunning[m]) \in Nat
      /\ Cardinality(JobsOn(m)) <= Cardinality(modelRunning[m])
    BY <1>1, <1>2, FS_Subset, FS_CardinalityType
<1>4. Cardinality(modelRunning[m]) <= JobLimit[m] /\ JobLimit[m] \in Nat
    BY JobLimitType DEF SlotsBounded
<1>. QED BY <1>3, <1>4

(* No more jobs are held on a model than its limit, under the same         *)
(* assumption.                                                             *)
THEOREM LimitRespected ==
    ASSUME "stall" \notin FaultKinds
    PROVE  Spec => []ModelLimit
<1>1. TypeInv /\ Exclusive /\ SlotsBounded => ModelLimit
    BY HeldFitTheLimit
<1>2. TypeInv /\ Exclusive /\ [Next]_vars => Exclusive'
    BY ExclusiveStep
<1>. QED BY <1>1, <1>2, TypeInvInit, TypeInvStep, ExclusiveInit, SlotsBoundedInDispatch, PTL DEF Spec

-----------------------------------------------------------------------------
(* No job is lost.  What the jobs table says by the time a task lets go.   *)
LettingGo(t) ==
    /\ task[t].pc \in {"clear", "landed"} => task[t].outcome # "queued"
    /\ task[t].pc = "handover" => task[t].outcome = "queued"
    /\ task[t].pc \in {"clear", "release", "landed"} /\ task[t].outcome # "queued"
          => status[task[t].job] \notin {"queued", "running"}
    /\ task[t].pc \in {"release"} \cup HandoverPcs /\ task[t].outcome = "queued"
          => status[task[t].job] \in {"queued", "deleted"}

StatusOK == \A t \in Tasks : LettingGo(t)

LEMMA StatusOneTask ==
    ASSUME TypeInv, Exclusive, StatusOK, NEW t \in Tasks, TaskFrame(t), Engaged(t),
           \A k \in Jobs \ {task[t].job} : status'[k] = status[k],
           task'[t].pc = "idle" \/ LettingGo(t)'
    PROVE  StatusOK'
<1>1. LettingGo(t)'
    BY DEF LettingGo, HandoverPcs
<1>2. ASSUME NEW u \in Tasks \ {t} PROVE LettingGo(u)'
  <2>1. task'[u] = task[u] /\ LettingGo(u)
    BY DEF StatusOK, TaskFrame
  <2>2. CASE ~Engaged(u)
    BY <2>1, <2>2 DEF LettingGo, Engaged, HandoverPcs
  <2>3. CASE Engaged(u)
    <3>1. status'[task[u].job] = status[task[u].job]
      BY <2>3 DEF Exclusive, SingleRunner, TypeInv, TaskOK, Engaged
    <3>. QED BY <2>1, <3>1 DEF LettingGo
  <2>. QED BY <2>2, <2>3
<1>. QED BY <1>1, <1>2 DEF StatusOK

LEMMA StatusStep ==
    ASSUME TypeInv, Exclusive, StatusOK, [Next]_vars, "runner" \notin FaultKinds
    PROVE  StatusOK'
<1>. USE DEF TypeInv
<1>0. task \in [Tasks -> TaskType] /\ status \in [Jobs -> JobStatus]
    BY DEF TypeOK
<1>1. ASSUME NEW t \in Tasks, Running(t) PROVE StatusOK'
  <2>1. TaskFrame(t) /\ Engaged(t) /\ task[t].job \in Jobs
    BY <1>1, RunningFrame DEF TaskOK, Engaged
  <2>2. \A k \in Jobs \ {task[t].job} : status'[k] = status[k]
    BY <1>0, <1>1 DEF Return, Running, Load, CheckPin, YieldBeforeStart, MarkRunning, EndDispatch,
        Finalize, ClearOwnSignal, Release, AfterRelease, SetStatus, TaskOnly, RedisOnly, dbVars
  <2>3. task'[t].pc = "idle" \/ LettingGo(t)'
    <3>. USE <1>0, <2>1 DEF TaskType, Become, BecomeWith, HandoverPcs
    <3>1. CASE Load(t)
      BY <3>1 DEF Return, Load, TaskOnly, dbVars, LettingGo
    <3>2. CASE CheckPin(t)
      BY <3>2 DEF CheckPin, LettingGo
    <3>7. CASE MarkRunning(t)
      BY <3>7 DEF MarkRunning, LettingGo
    <3>8. CASE EndDispatch(t)
      BY <3>8 DEF EndDispatch, LettingGo
    <3>3. CASE YieldBeforeStart(t)
      BY <3>3 DEF Return, YieldBeforeStart, SetStatus, LettingGo
    <3>4. CASE Finalize(t)
      BY <3>4 DEF Finalize, SetStatus, LettingGo, OutcomeOK
    <3>5. CASE ClearOwnSignal(t)
      <4>1. task' = [task EXCEPT ![t].pc = "release"] /\ status' = status
            /\ task[t].pc = "clear"
        BY <3>5 DEF ClearOwnSignal, RedisOnly, dbVars
      <4>2. LettingGo(t) /\ task[t].outcome # "queued"
        BY <4>1 DEF StatusOK, LettingGo
      <4>. QED BY <4>1, <4>2 DEF LettingGo
    <3>6. CASE Release(t)
      BY <3>6 DEF Release, AfterRelease, Idle, IdleTask, LettingGo, StatusOK, dbVars
    <3>. QED BY <1>1, <3>1, <3>2, <3>3, <3>4, <3>5, <3>6, <3>7, <3>8 DEF Running
  <2>. QED BY <2>1, <2>2, <2>3, StatusOneTask
<1>2. ASSUME NEW t \in Tasks, Watching(t) PROVE StatusOK'
  <2>1. PICK o \in JobStatus \cup {"none"}, v \in {"sleep", "requeue", "stale", "off"} :
            task' = [task EXCEPT ![t] = [task[t] EXCEPT !.outcome = o, !.watch = v]]
    BY <1>2, WatchMoves
  <2>2. status' = status /\ task[t].pc = "work"
    BY <1>2 DEF Watching, PollSignal, CheckRequeue, DropStaleSignal, TaskOnly, RedisOnly, dbVars
  <2>3. TaskFrame(t) /\ Engaged(t) /\ LettingGo(t)'
    BY <1>0, <2>1, <2>2 DEF TaskFrame, TaskType, LettingGo, Engaged, HandoverPcs
  <2>. QED BY <2>2, <2>3, StatusOneTask
<1>3. ASSUME NEW t \in Tasks, HandingOver(t) PROVE StatusOK'
  <2>1. TaskFrame(t) /\ Engaged(t) /\ task[t].job \in Jobs
    BY <1>3, HandoverFrame DEF TaskOK, Engaged
  <2>2. \A k \in Jobs \ {task[t].job} : status'[k] = status[k]
    BY <1>0, <1>3 DEF HandingOver, Handover, SettleSignal, Land, ClearLanded, ClearBeforeEnqueue,
        EnqueueYielded, SetStatus, TaskOnly, RedisOnly, dbVars
  <2>3. task'[t].pc = "idle" \/ LettingGo(t)'
    <3>. USE <1>0, <2>1 DEF TaskType, Become, BecomeWith, HandoverPcs
    <3>1. CASE SettleSignal(t)
      <4>1. status' = status /\ task[t].pc = "settle"
        BY <3>1 DEF SettleSignal, TaskOnly, dbVars
      <4>2. CASE ctrl[task[t].job] = "cancel"
        BY <3>1, <4>2 DEF SettleSignal, LettingGo
      <4>3. CASE ctrl[task[t].job] = "pause"
        BY <3>1, <4>3 DEF SettleSignal, LettingGo
      <4>4. CASE ctrl[task[t].job] \notin {"cancel", "pause"}
        BY <3>1, <4>1, <4>4 DEF SettleSignal, LettingGo, StatusOK
      <4>. QED BY <4>2, <4>3, <4>4
    <3>2. CASE Land(t)
      <4>1. CASE status[task[t].job] = "deleted"
        BY <3>2, <4>1 DEF Land, Idle, IdleTask
      <4>2. CASE status[task[t].job] # "deleted"
        BY <3>2, <4>2 DEF Land, SetStatus, LettingGo, OutcomeOK
      <4>. QED BY <4>1, <4>2
    <3>3. CASE Handover(t) \/ ClearBeforeEnqueue(t)
      <4>1. /\ status' = status
            /\ task[t].pc \in HandoverPcs
            /\ \/ Idle(t)
               \/ task' = [task EXCEPT ![t].pc = "settle"]
               \/ task' = [task EXCEPT ![t].pc = "enqueue"]
        BY <3>3 DEF Handover, ClearBeforeEnqueue, TaskOnly, RedisOnly, dbVars
      <4>. QED BY <4>1 DEF LettingGo, StatusOK, Idle, IdleTask
    <3>4. CASE ClearLanded(t) \/ EnqueueYielded(t)
      BY <3>4 DEF ClearLanded, EnqueueYielded, Idle, IdleTask
    <3>. QED BY <1>3, <3>1, <3>2, <3>3, <3>4 DEF HandingOver
  <2>. QED BY <2>1, <2>2, <2>3, StatusOneTask
<1>4. ASSUME NEW t \in Tasks, Mishap(t) PROVE StatusOK'
  <2>. USE <1>0 DEF TaskType
  <2>1. CASE PauseForBilling(t) \/ FailJob(t)
    <3>1. TaskFrame(t) /\ Engaged(t) /\ task[t].job \in Jobs
      BY <2>1, BecomeFrame DEF PauseForBilling, FailJob, Engaged, TaskOK
    <3>2. /\ \A k \in Jobs \ {task[t].job} : status'[k] = status[k]
          /\ LettingGo(t)'
      BY <2>1, <3>1 DEF PauseForBilling, FailJob, SetStatus, BecomeWith, LettingGo, HandoverPcs
    <3>. QED BY <3>1, <3>2, StatusOneTask
  <2>2. CASE StopForBilling(t)
    <3>1. TaskFrame(t) /\ Engaged(t) /\ LettingGo(t)' /\ status' = status
      BY <2>2 DEF StopForBilling, TaskFrame, Engaged, LettingGo, HandoverPcs, TaskOnly, dbVars
    <3>. QED BY <3>1, StatusOneTask
  <2>3. CASE ReleaseFails(t)
    <3>1. TaskFrame(t) /\ Engaged(t) /\ status' = status
      BY <2>3, BecomeFrame DEF ReleaseFails, AfterRelease, Engaged, dbVars
    <3>2. task'[t].pc = "idle" \/ LettingGo(t)'
      BY <2>3, <3>1 DEF ReleaseFails, AfterRelease, Idle, IdleTask, Become, LettingGo, StatusOK,
          HandoverPcs
    <3>. QED BY <3>1, <3>2, StatusOneTask
  <2>4. CASE HandoverFails(t)
    <3>1. TaskFrame(t) /\ Engaged(t) /\ status' = status /\ task'[t].pc = "idle"
      BY <2>4, BecomeFrame DEF HandoverFails, Engaged, HandoverPcs, Idle, IdleTask, dbVars
    <3>. QED BY <3>1, StatusOneTask
  <2>5. ~RunnerRaises(t)
    BY DEF Return, RunnerRaises, Fault
  <2>. QED BY <1>4, <2>1, <2>2, <2>3, <2>4, <2>5 DEF Mishap
<1>5. ASSUME NEW w \in Workers, NEW t \in Tasks, NEW j \in Jobs, Claim(w, t, j)
      PROVE  StatusOK'
  <2>1. /\ status' = status
        /\ task'[t].pc = "load"
        /\ \A u \in Tasks \ {t} : task'[u] = task[u]
    BY <1>0, <1>5 DEF Claim, IdleTask, dbVars
  <2>. QED BY <2>1 DEF StatusOK, LettingGo, HandoverPcs
<1>6. ASSUME NEW w \in Workers, Vanish(w) PROVE StatusOK'
  <2>1. /\ status' = status
        /\ \A t \in Tasks : task'[t] = task[t] \/ task'[t].pc = "idle"
    BY <1>0, <1>6 DEF Vanish, IdleTask, dbVars
  <2>. QED BY <2>1 DEF StatusOK, LettingGo, HandoverPcs
<1>7. CASE UNCHANGED <<status, task>>
    BY <1>7 DEF StatusOK, LettingGo
<1>8. ASSUME NEW w \in Workers, Claiming(w) \/ Beating(w) \/ Reap(w) \/ Stopping(w)
      PROVE  StatusOK'
    BY <1>5, <1>6, <1>7, <1>8 DEF Claiming, StartScan, NothingToClaim, ClaimRefused,
        Beating, StartHeartbeat, HeartbeatRenew, Reap, Stopping, Crash, RequestShutdown, Drained, dbVars
<1>9. ASSUME NEW j \in Jobs,
             LeaseLapses(j) \/ LeaseLapsesInStall(j) \/ PinJob(j) \/ UnpinJob(j)
      PROVE  StatusOK'
    BY <1>7, <1>9 DEF LeaseLapses, LeaseLapsesInStall, PinJob, UnpinJob, dbVars
<1>10. CASE Preempting
  <2>1. CASE CommitPin \/ PreemptScan \/ PreemptRegistered \/ PreemptSignal \/ PreemptDone
    BY <1>7, <2>1 DEF CommitPin, PreemptScan, PreemptRegistered, PreemptSignal, PreemptDone, dbVars
  <2>. QED BY <1>7, <1>10, <2>1 DEF Preempting, PreemptPick, dbVars
<1>11. CASE UNCHANGED vars
    BY <1>7, <1>11 DEF vars, dbVars
<1>. QED BY <1>1, <1>2, <1>3, <1>4, <1>8, <1>9, <1>10, <1>11 DEF Next

(* A step of the task that has a job in hand: it keeps the job, or the job *)
(* is queued, leased or over.                                              *)
LEMMA LostOneTask ==
    ASSUME TypeInv, NoLostJob, NEW t \in Tasks, TaskFrame(t), Engaged(t),
           NEW j, j = task[t].job,
           \A k \in Jobs \ {j} :
              /\ status'[k] = status[k] /\ lease'[k] = lease[k]
              /\ k \in queue => k \in queue',
           \/ task'[t].pc # "idle"
           \/ j \in queue' \/ lease'[j] # "none"
           \/ status'[j] \notin {"queued", "running"}
    PROVE  NoLostJob'
<1>. SUFFICES ASSUME NEW k \in Jobs, status'[k] \in {"queued", "running"},
                     k \notin queue', lease'[k] = "none"
              PROVE  \E u \in Tasks : task'[u].pc # "idle" /\ task'[u].job = k
    BY DEF NoLostJob, HasLease, Engaged
<1>1. CASE k = j
    BY <1>1 DEF TaskFrame
<1>2. CASE k # j
  <2>1. PICK u \in Tasks : Engaged(u) /\ task[u].job = k
    BY <1>2 DEF NoLostJob, HasLease
  <2>. QED BY <1>2, <2>1 DEF TaskFrame, Engaged
<1>. QED BY <1>1, <1>2

LEMMA LostQuiet ==
    ASSUME NoLostJob, task' = task, status' = status,
           \A j \in Jobs : j \in queue \/ HasLease(j) => j \in queue' \/ lease'[j] # "none"
    PROVE  NoLostJob'
BY DEF NoLostJob, HasLease, Engaged

(* Where a task may be when its worker dies or exits.                      *)
CrashAssumption == CrashPcs \subseteq HeldPcs \cup {"idle"}

LEMMA NoLostJobStep ==
    ASSUME TypeInv, Exclusive, StatusOK, NoLostJob, [Next]_vars,
           "handover" \notin FaultKinds, "runner" \notin FaultKinds, CrashAssumption
    PROVE  NoLostJob'
<1>. USE DEF TypeInv
<1>0. /\ task \in [Tasks -> TaskType] /\ status \in [Jobs -> JobStatus]
      /\ queue \subseteq Jobs /\ lease \in [Jobs -> {"none", "fresh", "expired"}]
    BY DEF TypeOK, QueueTypeOK
<1>1. ASSUME NEW t \in Tasks, Running(t) PROVE NoLostJob'
  <2>1. TaskFrame(t) /\ Engaged(t) /\ task[t].job \in Jobs
    BY <1>1, RunningFrame DEF TaskOK, Engaged
  <2>2. \A k \in Jobs \ {task[t].job} :
            status'[k] = status[k] /\ lease'[k] = lease[k] /\ (k \in queue => k \in queue')
    <3>1. CASE Release(t)
      BY <1>0, <3>1 DEF Release, AfterRelease, ReleaseLease, DropLease, dbVars
    <3>2. CASE ~Release(t)
      BY <1>0, <1>1, <3>2 DEF Return, Running, Load, CheckPin, YieldBeforeStart, MarkRunning,
          EndDispatch, Finalize, ClearOwnSignal, ClearSignal, Signal, SetStatus,
          TaskOnly, DbOnly, RedisOnly, dbVars, queueVars
    <3>. QED BY <3>1, <3>2
  <2>3. task'[t].pc # "idle" \/ status'[task[t].job] \notin {"queued", "running"}
    <3>1. CASE Release(t) /\ task[t].outcome = "queued"
      BY <1>0, <3>1 DEF Release, AfterRelease, Become, TaskType
    <3>2. CASE Release(t) /\ task[t].outcome # "queued"
      <4>1. task[t].pc = "release" /\ status' = status
        BY <3>2 DEF Release, AfterRelease, dbVars
      <4>. QED BY <3>2, <4>1 DEF StatusOK, LettingGo
    <3>3. CASE Load(t) \/ CheckPin(t)
      BY <1>0, <3>3 DEF Return, Load, CheckPin, Become, BecomeWith, TaskType
    <3>4. CASE EndDispatch(t)
      <4>1. PICK o : BecomeWith(t, "final", o)
        BY <3>4 DEF EndDispatch
      <4>. QED BY <1>0, <4>1 DEF BecomeWith, TaskType
    <3>6. CASE MarkRunning(t)
      BY <1>0, <3>6 DEF MarkRunning, Become, TaskType
    <3>5. CASE YieldBeforeStart(t) \/ Finalize(t) \/ ClearOwnSignal(t)
      BY <1>0, <3>5 DEF Return, YieldBeforeStart, Finalize, ClearOwnSignal, Become, BecomeWith,
            TaskType
    <3>. QED BY <1>1, <3>1, <3>2, <3>3, <3>4, <3>5, <3>6 DEF Running
  <2>. QED BY <2>1, <2>2, <2>3, LostOneTask
<1>2. ASSUME NEW t \in Tasks, Watching(t) PROVE NoLostJob'
  <2>1. PICK o \in JobStatus \cup {"none"}, v \in {"sleep", "requeue", "stale", "off"} :
            task' = [task EXCEPT ![t] = [task[t] EXCEPT !.outcome = o, !.watch = v]]
    BY <1>2, WatchMoves
  <2>2. /\ status' = status /\ queue' = queue /\ task[t].pc = "work"
        /\ lease' = lease \/ lease' = [lease EXCEPT ![task[t].job] = "fresh"]
    BY <1>2 DEF Watching, PollSignal, CheckRequeue, DropStaleSignal, RenewLease, ClearSignal,
        Signal, TaskOnly, RedisOnly, dbVars, queueVars
  <2>3. TaskFrame(t) /\ Engaged(t) /\ task'[t].pc # "idle"
    BY <1>0, <2>1, <2>2 DEF TaskFrame, TaskType, Engaged
  <2>4. \A k \in Jobs \ {task[t].job} : lease'[k] = lease[k]
    BY <1>0, <2>2
  <2>. QED BY <2>2, <2>3, <2>4, LostOneTask
<1>3. ASSUME NEW t \in Tasks, HandingOver(t) PROVE NoLostJob'
  <2>1. TaskFrame(t) /\ Engaged(t) /\ task[t].job \in Jobs
    BY <1>3, HandoverFrame DEF TaskOK, Engaged
  <2>2. \A k \in Jobs \ {task[t].job} :
            status'[k] = status[k] /\ lease'[k] = lease[k] /\ (k \in queue => k \in queue')
    BY <1>0, <1>3 DEF HandingOver, Handover, SettleSignal, Land, ClearLanded, ClearBeforeEnqueue,
        EnqueueYielded, Enqueue, ClearSignal, Signal, SetStatus,
        TaskOnly, DbOnly, RedisOnly, dbVars, queueVars
  <2>3. \/ task'[t].pc # "idle"
        \/ task[t].job \in queue' \/ status'[task[t].job] \notin {"queued", "running"}
    <3>1. CASE Handover(t)
      <4>1. Become(t, "settle") \/ status'[task[t].job] = "deleted"
        BY <3>1 DEF Handover, StatusOK, LettingGo, HandoverPcs, TaskOnly, dbVars
      <4>. QED BY <1>0, <4>1 DEF Become, TaskType
    <3>2. CASE SettleSignal(t)
      <4>1. PICK p \in HandoverPcs, o \in JobStatus : Become(t, p) \/ BecomeWith(t, p, o)
        BY <3>2 DEF SettleSignal, HandoverPcs, JobStatus
      <4>. QED BY <1>0, <4>1 DEF Become, BecomeWith, HandoverPcs, TaskType
    <3>3. CASE Land(t)
      <4>1. Become(t, "landed") \/ status'[task[t].job] = "deleted"
        BY <1>0, <2>1, <3>3 DEF Land, SetStatus
      <4>. QED BY <1>0, <4>1 DEF Become, TaskType
    <3>6. CASE ClearBeforeEnqueue(t)
      BY <1>0, <3>6 DEF ClearBeforeEnqueue, Become, TaskType
    <3>4. CASE ClearLanded(t)
      <4>1. task[t].pc = "landed" /\ status' = status /\ LettingGo(t)
        BY <3>4 DEF ClearLanded, RedisOnly, dbVars, StatusOK
      <4>. QED BY <4>1 DEF LettingGo
    <3>5. CASE EnqueueYielded(t)
      BY <3>5 DEF EnqueueYielded, Enqueue
    <3>. QED BY <1>3, <3>1, <3>2, <3>3, <3>4, <3>5, <3>6 DEF HandingOver
  <2>. QED BY <2>1, <2>2, <2>3, LostOneTask
<1>4. ASSUME NEW t \in Tasks, Mishap(t) PROVE NoLostJob'
  <2>1. queue' = queue /\ lease' = lease
    BY <1>4 DEF Return, Mishap, PauseForBilling, StopForBilling, FailJob, ReleaseFails, HandoverFails,
        RunnerRaises, TaskOnly, DbOnly, queueVars
  <2>2. CASE PauseForBilling(t) \/ FailJob(t)
    <3>1. TaskFrame(t) /\ Engaged(t)
      BY <2>2, BecomeFrame DEF PauseForBilling, FailJob, Engaged
    <3>2. \A k \in Jobs \ {task[t].job} : status'[k] = status[k]
      BY <1>0, <2>2 DEF PauseForBilling, FailJob, SetStatus
    <3>3. task'[t].pc = "clear"
      BY <1>0, <2>2 DEF PauseForBilling, FailJob, BecomeWith, TaskType
    <3>. QED BY <2>1, <3>1, <3>2, <3>3, LostOneTask
  <2>3. CASE StopForBilling(t)
    <3>1. TaskFrame(t) /\ Engaged(t) /\ task'[t].pc # "idle" /\ status' = status
      BY <1>0, <2>3 DEF StopForBilling, TaskFrame, TaskType, Engaged, TaskOnly, dbVars
    <3>. QED BY <2>1, <3>1, LostOneTask
  <2>4. CASE ReleaseFails(t)
    <3>1. TaskFrame(t) /\ Engaged(t) /\ status' = status /\ task[t].pc = "release"
      BY <2>4, BecomeFrame DEF ReleaseFails, AfterRelease, Engaged, dbVars
    <3>2. task'[t].pc # "idle" \/ task[t].outcome # "queued"
      BY <1>0, <2>4 DEF ReleaseFails, AfterRelease, Become, TaskType
    <3>3. task'[t].pc # "idle" \/ status'[task[t].job] \notin {"queued", "running"}
      BY <3>1, <3>2 DEF StatusOK, LettingGo
    <3>. QED BY <2>1, <3>1, <3>3, LostOneTask
  <2>5. ~HandoverFails(t) /\ ~RunnerRaises(t)
    BY DEF Return, HandoverFails, RunnerRaises, Fault
  <2>. QED BY <1>4, <2>2, <2>3, <2>4, <2>5 DEF Mishap
<1>5. ASSUME NEW w \in Workers, Claiming(w) PROVE NoLostJob'
  <2>1. CASE StartScan(w) \/ NothingToClaim(w)
    BY <2>1, LostQuiet DEF StartScan, NothingToClaim, queueVars, dbVars, HasLease
  <2>2. ASSUME NEW j \in Jobs, ClaimRefused(w, j) PROVE NoLostJob'
    BY <2>2, LostQuiet DEF ClaimRefused, ClaimBlocked, dbVars, HasLease
  <2>3. ASSUME NEW j \in Jobs, NEW t \in Tasks, Claim(w, t, j) PROVE NoLostJob'
    <3>1. /\ status' = status
          /\ \A u \in Tasks : Engaged(u) => task'[u] = task[u]
          /\ \A k \in Jobs : k \in queue \/ HasLease(k) => k \in queue' \/ lease'[k] # "none"
      BY <1>0, <2>3 DEF Claim, ClaimJob, HasLease, Engaged, IdleTask, dbVars
    <3>. QED BY <3>1 DEF NoLostJob, HasLease, Engaged
  <2>. QED BY <1>5, <2>1, <2>2, <2>3 DEF Claiming
<1>6. ASSUME NEW w \in Workers, Beating(w) PROVE NoLostJob'
  <2>1. CASE StartHeartbeat(w)
    BY <2>1, LostQuiet DEF StartHeartbeat, queueVars, dbVars, HasLease
  <2>2. ASSUME NEW j \in Jobs, HeartbeatRenew(w, j) PROVE NoLostJob'
    BY <1>0, <2>2, LostQuiet DEF HeartbeatRenew, RenewLease, HasLease, dbVars
  <2>. QED BY <1>6, <2>1, <2>2 DEF Beating
<1>7. ASSUME NEW w \in Workers, Reap(w) PROVE NoLostJob'
  <2>1. /\ task' = task /\ status' = status /\ queue' = queue \cup Expired
        /\ \A k \in Jobs : k \notin Expired => lease'[k] = lease[k]
    BY <1>7 DEF Reap, ReapExpired, dbVars
  <2>. QED BY <2>1, LostQuiet DEF HasLease
<1>8. ASSUME NEW w \in Workers, Stopping(w) PROVE NoLostJob'
  <2>1. CASE Vanish(w)
    <3>1. /\ status' = status /\ queue' = queue /\ lease' = lease
          /\ task' = [t \in Tasks |-> IF task[t].host = w THEN IdleTask ELSE task[t]]
          /\ \A t \in Tasks : task[t].host = w => task[t].pc \in HeldPcs \cup {"idle"}
      BY <2>1 DEF Vanish, CrashAssumption, dbVars, queueVars
    <3>2. \A t \in Tasks : Engaged(t) => task'[t] = task[t] \/ HasLease(task[t].job)
      BY <3>1 DEF Exclusive, Held, Engaged
    <3>. QED BY <3>1, <3>2 DEF NoLostJob, HasLease, Engaged
  <2>2. CASE RequestShutdown(w)
    BY <2>2, LostQuiet DEF RequestShutdown, queueVars, dbVars, HasLease
  <2>. QED BY <1>8, <2>1, <2>2 DEF Stopping, Crash, Drained
<1>9. ASSUME NEW j \in Jobs, LeaseLapses(j) \/ LeaseLapsesInStall(j) PROVE NoLostJob'
    BY <1>0, <1>9, LostQuiet DEF LeaseLapses, LeaseLapsesInStall, LapseLease, HasLease, dbVars
<1>10. CASE Preempting \/ (\E j \in Jobs : PinJob(j) \/ UnpinJob(j)) \/ UNCHANGED vars
  <2>. DEFINE Same == queue' = queue /\ lease' = lease /\ status' = status /\ task' = task
  <2>1. ASSUME CommitPin \/ PreemptScan \/ PreemptRegistered \/ PreemptSignal \/ PreemptDone PROVE Same
    BY <2>1 DEF CommitPin, PreemptScan, PreemptRegistered, PreemptSignal, PreemptDone, SignalIfAbsent, queueVars, dbVars
  <2>2. ASSUME NEW j \in Jobs, PreemptPick(j) \/ PinJob(j) \/ UnpinJob(j)
        PROVE  Same
    BY <2>2 DEF PreemptPick, PinJob, UnpinJob, queueVars, dbVars
  <2>3. ASSUME UNCHANGED vars PROVE Same
    BY <2>3 DEF queueVars, dbVars, vars
  <2>4. Same
    BY <1>10, <2>1, <2>2, <2>3 DEF Preempting
  <2>. QED BY <2>4, LostQuiet DEF HasLease
<1>. QED BY <1>1, <1>2, <1>3, <1>4, <1>5, <1>6, <1>7, <1>8, <1>9, <1>10 DEF Next

(* No crash, failed release, reaped lease, preemption, stop or graceful    *)
(* exit loses a job, as long as no worker stalls, no run or handover       *)
(* raises, and no worker dies or exits while it hands a job over: the      *)
(* assumption on CrashPcs is about both.  _drain does not wait for a       *)
(* handover, so the code does not keep it (README, section 6).             *)
THEOREM NoJobIsLost ==
    ASSUME "stall" \notin FaultKinds, "handover" \notin FaultKinds,
           "runner" \notin FaultKinds, CrashAssumption
    PROVE  Spec => []NoLostJob
<1>1. Init => StatusOK /\ NoLostJob
    BY DEF Init, DispatchInit, StatusOK, LettingGo, IdleTask, HandoverPcs, NoLostJob
<1>2. TypeInv /\ Exclusive /\ StatusOK /\ NoLostJob /\ [Next]_vars
          => Exclusive' /\ StatusOK' /\ NoLostJob'
    BY ExclusiveStep, StatusStep, NoLostJobStep
<1>. QED BY <1>1, <1>2, TypeInvInit, TypeInvStep, ExclusiveInit, PTL DEF Spec
-----------------------------------------------------------------------------
(* What has run to its end stays so.  A task that may still write its      *)
(* job's status is past a check that refuses finished jobs, the one of     *)
(* Load or the one of Handover, and no other task has the job in hand that *)
(* could finish it meanwhile.                                              *)
Finished(j) == status[j] \in {"succeeded", "completed"}

RewritingPcs == {"check", "yield", "prepare", "work", "final", "settle", "land"}

Untouched(t) == task[t].pc \in RewritingPcs => ~Finished(task[t].job)

FinishedUntouched == \A t \in Tasks : Untouched(t)

FinishedKept == \A j \in Jobs : Finished(j) => status'[j] = status[j]

(* A step of the task that has a job in hand, which writes the status of   *)
(* no other job, and not of a finished one.                                *)
LEMMA FinishedOneTask ==
    ASSUME TypeInv, Exclusive, FinishedUntouched, NEW t \in Tasks, TaskFrame(t), Engaged(t),
           \A k \in Jobs \ {task[t].job} : status'[k] = status[k],
           Finished(task[t].job) => status'[task[t].job] = status[task[t].job],
           task'[t].pc = "idle" \/ Untouched(t)'
    PROVE  FinishedUntouched' /\ FinishedKept
<1>1. Untouched(t)'
    BY DEF Untouched, RewritingPcs
<1>2. ASSUME NEW u \in Tasks \ {t} PROVE Untouched(u)'
  <2>1. task'[u] = task[u] /\ Untouched(u)
    BY DEF FinishedUntouched, TaskFrame
  <2>2. CASE ~Engaged(u)
    BY <2>1, <2>2 DEF Untouched, Engaged, RewritingPcs
  <2>3. CASE Engaged(u)
    <3>1. status'[task[u].job] = status[task[u].job]
      BY <2>3 DEF Exclusive, SingleRunner, TypeInv, TaskOK, Engaged
    <3>. QED BY <2>1, <3>1 DEF Untouched, Finished
  <2>. QED BY <2>2, <2>3
<1>3. FinishedKept
    BY DEF FinishedKept
<1>. QED BY <1>1, <1>2, <1>3 DEF FinishedUntouched

(* The step of a task at one of these places goes on from a job that is    *)
(* not finished, or to a place where nothing more is written.              *)
LEMMA FinishedStep ==
    ASSUME TypeInv, Exclusive, FinishedUntouched, [Next]_vars
    PROVE  FinishedUntouched' /\ FinishedKept
<1>. USE DEF TypeInv
<1>. DEFINE Goal == FinishedUntouched' /\ FinishedKept
<1>0. task \in [Tasks -> TaskType] /\ status \in [Jobs -> JobStatus]
    BY DEF TypeOK
<1>a. ASSUME NEW t \in Tasks, TaskFrame(t), Engaged(t),
             \A k \in Jobs \ {task[t].job} : status'[k] = status[k],
             Untouched(t) /\ Finished(task[t].job) => status'[task[t].job] = status[task[t].job],
             Untouched(t) => task'[t].pc = "idle" \/ Untouched(t)'
      PROVE  Goal
    BY <1>a, FinishedOneTask DEF FinishedUntouched
<1>b. ASSUME status' = status,
             \A t \in Tasks : task'[t] = task[t] \/ task'[t].pc \in {"idle", "load"}
      PROVE  Goal
    BY <1>b DEF FinishedUntouched, FinishedKept, Untouched, Finished, RewritingPcs
<1>1. ASSUME NEW t \in Tasks, Running(t) PROVE Goal
  <2>1. TaskFrame(t) /\ Engaged(t) /\ task[t].job \in Jobs
    BY <1>1, RunningFrame DEF TaskOK, Engaged
  <2>2. \A k \in Jobs \ {task[t].job} : status'[k] = status[k]
    BY <1>0, <1>1 DEF Return, Running, Load, CheckPin, YieldBeforeStart, MarkRunning, EndDispatch,
        Finalize, ClearOwnSignal, Release, AfterRelease, SetStatus, TaskOnly, RedisOnly, dbVars
  <2>3. /\ Untouched(t) /\ Finished(task[t].job)
                => status'[task[t].job] = status[task[t].job]
        /\ Untouched(t) => task'[t].pc = "idle" \/ Untouched(t)'
    <3>. USE <1>0, <2>1 DEF TaskType, Become, BecomeWith, RewritingPcs, Untouched, Finished
    <3>1. CASE Load(t)
      BY <3>1 DEF Return, Load, TaskOnly, dbVars
    <3>2. CASE CheckPin(t)
      BY <3>2 DEF CheckPin, TaskOnly, dbVars
    <3>3. CASE YieldBeforeStart(t)
      BY <3>3 DEF Return, YieldBeforeStart
    <3>4. CASE MarkRunning(t)
      BY <3>4 DEF MarkRunning, SetStatus
    <3>5. CASE EndDispatch(t)
      BY <3>5 DEF EndDispatch, TaskOnly, dbVars
    <3>6. CASE Finalize(t)
      BY <3>6 DEF Finalize
    <3>7. CASE ClearOwnSignal(t)
      BY <3>7 DEF ClearOwnSignal, RedisOnly, dbVars
    <3>8. CASE Release(t)
      BY <3>8 DEF Release, AfterRelease, Idle, IdleTask, dbVars
    <3>. QED BY <1>1, <3>1, <3>2, <3>3, <3>4, <3>5, <3>6, <3>7, <3>8 DEF Running
  <2>. QED BY <1>a, <2>1, <2>2, <2>3
<1>2. ASSUME NEW t \in Tasks, Watching(t) PROVE Goal
  <2>1. PICK o \in JobStatus \cup {"none"}, v \in {"sleep", "requeue", "stale", "off"} :
            task' = [task EXCEPT ![t] = [task[t] EXCEPT !.outcome = o, !.watch = v]]
    BY <1>2, WatchMoves
  <2>2. status' = status /\ task[t].pc = "work"
    BY <1>2 DEF Watching, PollSignal, CheckRequeue, DropStaleSignal, TaskOnly, RedisOnly, dbVars
  <2>3. TaskFrame(t) /\ Engaged(t) /\ (Untouched(t) => Untouched(t)')
    BY <1>0, <2>1, <2>2 DEF TaskFrame, TaskType, Engaged, Untouched, Finished
  <2>. QED BY <1>a, <2>2, <2>3
<1>3. ASSUME NEW t \in Tasks, HandingOver(t) PROVE Goal
  <2>1. TaskFrame(t) /\ Engaged(t) /\ task[t].job \in Jobs
    BY <1>3, HandoverFrame DEF TaskOK, Engaged
  <2>2. \A k \in Jobs \ {task[t].job} : status'[k] = status[k]
    BY <1>0, <1>3 DEF HandingOver, Handover, SettleSignal, Land, ClearLanded, ClearBeforeEnqueue,
        EnqueueYielded, SetStatus, TaskOnly, RedisOnly, dbVars
  <2>4. ASSUME SettleSignal(t) PROVE task'[t].job = task[t].job
    <3>1. PICK p \in HandoverPcs, o \in JobStatus : Become(t, p) \/ BecomeWith(t, p, o)
      BY <2>4 DEF SettleSignal, HandoverPcs, JobStatus
    <3>. QED BY <1>0, <3>1 DEF Become, BecomeWith, TaskType
  <2>3. /\ Untouched(t) /\ Finished(task[t].job)
                => status'[task[t].job] = status[task[t].job]
        /\ Untouched(t) => task'[t].pc = "idle" \/ Untouched(t)'
    <3>. USE <1>0, <2>1 DEF TaskType, Become, BecomeWith, RewritingPcs, Untouched, Finished
    <3>1. CASE Handover(t)
      BY <3>1 DEF Handover, Idle, IdleTask, TaskOnly, dbVars
    <3>2. CASE SettleSignal(t)
      <4>1. /\ status' = status /\ task[t].pc = "settle"
            /\ task'[t].job = task[t].job
        BY <2>4, <3>2 DEF SettleSignal, TaskOnly, dbVars
      <4>. QED BY <4>1
    <3>3. CASE Land(t)
      BY <3>3 DEF Land, Idle, IdleTask
    <3>4. CASE ClearBeforeEnqueue(t)
      BY <3>4 DEF ClearBeforeEnqueue, RedisOnly, dbVars
    <3>5. CASE ClearLanded(t) \/ EnqueueYielded(t)
      BY <3>5 DEF ClearLanded, EnqueueYielded, Idle, IdleTask, RedisOnly, dbVars
    <3>. QED BY <1>3, <3>1, <3>2, <3>3, <3>4, <3>5 DEF HandingOver
  <2>. QED BY <1>a, <2>1, <2>2, <2>3
<1>4. ASSUME NEW t \in Tasks, Mishap(t) PROVE Goal
  <2>. USE <1>0 DEF TaskType
  <2>1. CASE PauseForBilling(t) \/ FailJob(t)
    <3>1. /\ TaskFrame(t) /\ Engaged(t) /\ task[t].job \in Jobs
          /\ task[t].pc \in RewritingPcs
      BY <2>1, BecomeFrame DEF PauseForBilling, FailJob, Engaged, TaskOK, RewritingPcs
    <3>2. /\ \A k \in Jobs \ {task[t].job} : status'[k] = status[k]
          /\ task'[t].pc = "clear"
      BY <2>1, <3>1 DEF PauseForBilling, FailJob, SetStatus, BecomeWith
    <3>. QED BY <1>a, <3>1, <3>2 DEF Untouched, RewritingPcs
  <2>2. CASE StopForBilling(t)
    <3>1. /\ TaskFrame(t) /\ Engaged(t) /\ status' = status
          /\ task'[t].pc = task[t].pc /\ task'[t].job = task[t].job
      BY <2>2 DEF StopForBilling, TaskFrame, Engaged, TaskOnly, dbVars
    <3>. QED BY <1>a, <3>1 DEF Untouched, Finished
  <2>3. CASE ReleaseFails(t) \/ HandoverFails(t) \/ RunnerRaises(t)
    <3>1. TaskFrame(t) /\ Engaged(t) /\ status' = status
      BY <2>3, BecomeFrame DEF Return, ReleaseFails, AfterRelease, HandoverFails, RunnerRaises, Engaged,
          HeldPcs, HandoverPcs, dbVars
    <3>2. task'[t].pc \notin RewritingPcs
      BY <2>3 DEF Return, ReleaseFails, AfterRelease, HandoverFails, RunnerRaises, Idle, IdleTask,
          Become, BecomeWith, RewritingPcs
    <3>. QED BY <1>a, <3>1, <3>2 DEF Untouched
  <2>. QED BY <1>4, <2>1, <2>2, <2>3 DEF Mishap
<1>5. ASSUME NEW w \in Workers, Claiming(w) PROVE Goal
  <2>1. ASSUME NEW t \in Tasks, NEW j \in Jobs, Claim(w, t, j) PROVE Goal
    <3>1. /\ status' = status
          /\ task'[t].pc = "load"
          /\ \A u \in Tasks \ {t} : task'[u] = task[u]
      BY <1>0, <2>1 DEF Claim, IdleTask, dbVars
    <3>. QED BY <1>b, <3>1
  <2>. QED BY <1>5, <1>b, <2>1 DEF Claiming, StartScan, NothingToClaim, ClaimRefused, dbVars
<1>6. ASSUME NEW w \in Workers, Stopping(w) PROVE Goal
  <2>1. /\ status' = status
        /\ \A t \in Tasks : task'[t] = task[t] \/ task'[t].pc = "idle"
    BY <1>0, <1>6 DEF Vanish, Stopping, Crash, RequestShutdown, Drained, IdleTask, dbVars
  <2>. QED BY <1>b, <2>1
<1>7. CASE UNCHANGED <<status, task>>
    BY <1>b, <1>7
<1>8. ASSUME NEW w \in Workers, Beating(w) \/ Reap(w) PROVE Goal
    BY <1>7, <1>8 DEF Beating, StartHeartbeat, HeartbeatRenew, Reap, dbVars
<1>9. ASSUME NEW j \in Jobs,
             LeaseLapses(j) \/ LeaseLapsesInStall(j) \/ PinJob(j) \/ UnpinJob(j)
      PROVE  Goal
    BY <1>7, <1>9 DEF LeaseLapses, LeaseLapsesInStall, PinJob, UnpinJob, dbVars
<1>10. CASE Preempting
  <2>1. CASE CommitPin \/ PreemptScan \/ PreemptRegistered \/ PreemptSignal \/ PreemptDone
    BY <1>7, <2>1 DEF CommitPin, PreemptScan, PreemptRegistered, PreemptSignal, PreemptDone, dbVars
  <2>2. ASSUME NEW k \in Jobs, PreemptPick(k) PROVE Goal
    BY <1>7, <2>2 DEF PreemptPick, dbVars
  <2>. QED BY <1>10, <2>1, <2>2 DEF Preempting
<1>11. CASE UNCHANGED vars
    BY <1>7, <1>11 DEF vars, dbVars
<1>. QED BY <1>1, <1>2, <1>3, <1>4, <1>5, <1>6, <1>8, <1>9, <1>10, <1>11 DEF Next

LEMMA FinishedInit == Init => FinishedUntouched
BY DEF Init, DispatchInit, FinishedUntouched, Untouched, RewritingPcs, IdleTask

(* A job that has run to its end is never rewritten, although heartbeats   *)
(* renew leases of jobs that are over and the reaper then queues them, and *)
(* although every fault of the model but a stalled worker may happen.      *)
THEOREM FinishedIsFinal ==
    ASSUME "stall" \notin FaultKinds
    PROVE  Spec => FinishedStaysFinished
<1>1. Init => FinishedUntouched
    BY FinishedInit
<1>2. TypeInv /\ Exclusive /\ FinishedUntouched /\ [Next]_vars
          => Exclusive' /\ FinishedUntouched'
    BY ExclusiveStep, FinishedStep
<1>3. TypeInv /\ Exclusive /\ FinishedUntouched /\ [Next]_vars
          => [\A j \in Jobs : status[j] \in {"succeeded", "completed"}
                                  => status'[j] = status[j]]_vars
    BY FinishedStep DEF FinishedKept, Finished
<1>. QED BY <1>1, <1>2, <1>3, TypeInvInit, TypeInvStep, ExclusiveInit, PTL
         DEF Spec, FinishedStaysFinished
-----------------------------------------------------------------------------
(* Pins reach the runners.  Four things the code does not rule out have    *)
(* to stay away (README, section 6): a second pin on a model, which an     *)
(* unpin turns against a job nobody then preempts ...                      *)
OnePinPerModel ==
    \A j, k \in Jobs :
        pinned[j] /\ pinned[k] /\ ModelOf[j] = ModelOf[k] /\ ModelOf[j] # NoModel => j = k

(* ... a pinned job that has stopped without succeeding (it was paused, or *)
(* failed while its pin was being committed), and blocks its model anew    *)
(* when it is started again without a pin_job ...                          *)
PinnedRuns ==
    \A k \in Jobs : pinned[k] => status[k] \in {"queued", "running", "succeeded", "completed"}

(* ... a job that pin_job read as paused, and so preempts nobody for, and  *)
(* that has been started by the time the pin is committed ...              *)
PinReadHolds ==
    admin.pc = "commit" /\ status[admin.job] \in PinBlockingStatuses => admin.preempts

(* ... and a pin that comes between the watcher's verdict that its requeue *)
(* signal is out of date and the deletion of the key.                      *)
StaleMeetsNoPin ==
    \A t \in Tasks : Engaged(t) /\ task[t].watch = "stale" => ~BlockedByPin(task[t].job)

PinsAreQuiet == OnePinPerModel /\ PinnedRuns /\ PinReadHolds /\ StaleMeetsNoPin

(* A run that has passed the pin check and decided nothing yet ...         *)
Listening(t) == task[t].pc \in {"prepare", "work"} /\ task[t].outcome = "none"

(* ... of a job that has to make room ...                                  *)
Displaced(j) == ~pinned[j] /\ BlockedByPin(j)

(* ... has been told, or the request that tells it is on its way: each     *)
(* stage of preempt_for still has the job within its reach.                *)
Told(t) ==
    LET j == task[t].job IN
    \/ ctrl[j] # "none"
    \/ task[t].watch = "requeue"
    \/ admin.pc \in {"scan", "registered"} /\ ModelOf[admin.job] = ModelOf[j] /\ admin.job # j
    \/ admin.pc = "walk" /\ j \in admin.todo
    \/ admin.pc = "signal" /\ (j \in admin.todo \/ admin.job = j)

ToldOK == \A t \in Tasks : Listening(t) /\ Displaced(task[t].job) => Told(t)

(* What ends a pinned job unpins it in the same write.                     *)
Live(j) == status[j] \in {"queued", "running", "paused"}

EndUnpins == \A k \in Jobs : pinned[k] /\ Live(k) /\ ~Live(k)' => ~pinned'[k]

LEMMA EndUnpinsStep ==
    ASSUME TypeInv, [Next]_vars
    PROVE  EndUnpins
<1>. USE DEF TypeInv
<1>0. pinned \in [Jobs -> BOOLEAN] /\ status \in [Jobs -> JobStatus]
    BY DEF TypeOK
<1>1. ASSUME UNCHANGED status PROVE EndUnpins
    BY <1>1 DEF EndUnpins, Live
<1>2. ASSUME NEW j \in Jobs, NEW s \in {"queued", "running", "paused"},
             SetStatus(j, s), UNCHANGED pinned \/ Unpin(j)
      PROVE  EndUnpins
    BY <1>0, <1>2 DEF EndUnpins, Live, SetStatus, Unpin
<1>3. ASSUME NEW j \in Jobs, NEW s, SetStatus(j, s), Unpin(j)
      PROVE  EndUnpins
    BY <1>0, <1>3 DEF EndUnpins, Live, SetStatus, Unpin
<1>4. ASSUME NEW t \in Tasks, Running(t) PROVE EndUnpins
  <2>1. CASE YieldBeforeStart(t) \/ MarkRunning(t)
    <3>1. task[t].job \in Jobs /\ UNCHANGED pinned
      BY <2>1 DEF Return, YieldBeforeStart, MarkRunning, TaskOK
    <3>2. SetStatus(task[t].job, "queued") \/ SetStatus(task[t].job, "running")
      BY <2>1 DEF Return, YieldBeforeStart, MarkRunning
    <3>. QED BY <3>1, <3>2, <1>2
  <2>2. CASE Finalize(t)
    <3>1. task[t].job \in Jobs /\ SetStatus(task[t].job, task[t].outcome)
      BY <2>2 DEF Finalize, TaskOK
    <3>2. CASE task[t].outcome \in {"paused", "queued"}
      <4>1. UNCHANGED pinned
        BY <2>2, <3>2 DEF Finalize
      <4>. QED BY <1>2, <3>1, <3>2, <4>1
    <3>3. CASE task[t].outcome \in {"succeeded", "completed", "canceled"}
      <4>1. Unpin(task[t].job)
        BY <2>2, <3>3 DEF Finalize
      <4>. QED BY <1>3, <3>1, <4>1
    <3>. QED BY <2>2, <3>2, <3>3 DEF Finalize, OutcomeOK
  <2>3. CASE Load(t) \/ CheckPin(t) \/ EndDispatch(t) \/ ClearOwnSignal(t) \/ Release(t)
    BY <2>3, <1>1 DEF Return, Load, CheckPin, EndDispatch, ClearOwnSignal, Release, AfterRelease,
        TaskOnly, RedisOnly, dbVars
  <2>. QED BY <1>4, <2>1, <2>2, <2>3 DEF Running
<1>5. ASSUME NEW t \in Tasks, Watching(t) PROVE EndUnpins
    BY <1>1, <1>5 DEF Watching, PollSignal, CheckRequeue, DropStaleSignal, TaskOnly, RedisOnly, dbVars
<1>6. ASSUME NEW t \in Tasks, HandingOver(t) PROVE EndUnpins
  <2>1. CASE Land(t)
    <3>1. task[t].job \in Jobs /\ SetStatus(task[t].job, task[t].outcome)
      BY <2>1 DEF Land, TaskOK
    <3>2. CASE task[t].outcome = "paused"
      <4>1. UNCHANGED pinned
        BY <2>1, <3>2 DEF Land
      <4>. QED BY <1>2, <3>1, <3>2, <4>1
    <3>3. CASE task[t].outcome = "canceled"
      <4>1. Unpin(task[t].job)
        BY <2>1, <3>3 DEF Land
      <4>. QED BY <1>3, <3>1, <4>1
    <3>. QED BY <2>1, <3>2, <3>3 DEF Land, OutcomeOK
  <2>. QED BY <1>1, <1>6, <2>1 DEF HandingOver, Handover, SettleSignal, ClearLanded,
        ClearBeforeEnqueue, EnqueueYielded, TaskOnly, RedisOnly, dbVars
<1>7. ASSUME NEW t \in Tasks, Mishap(t) PROVE EndUnpins
  <2>1. CASE PauseForBilling(t)
    BY <2>1, <1>2 DEF PauseForBilling, TaskOK
  <2>2. CASE FailJob(t)
    BY <2>2, <1>3 DEF FailJob, TaskOK
  <2>. QED BY <1>1, <1>7, <2>1, <2>2 DEF Return, Mishap, StopForBilling, ReleaseFails, AfterRelease,
        HandoverFails, RunnerRaises, TaskOnly, dbVars
<1>8. ASSUME NEW w \in Workers, Claiming(w) \/ Beating(w) \/ Reap(w) \/ Stopping(w)
      PROVE  EndUnpins
  <2>1. CASE Claiming(w)
    BY <1>1, <2>1 DEF Claiming, StartScan, NothingToClaim, ClaimRefused, Claim, dbVars
  <2>2. CASE Beating(w) \/ Reap(w) \/ Stopping(w)
    BY <1>1, <2>2 DEF Vanish, Beating, StartHeartbeat, HeartbeatRenew, Reap, Stopping, Crash,
        RequestShutdown, Drained, dbVars
  <2>. QED BY <1>8, <2>1, <2>2
<1>9. ASSUME NEW j \in Jobs, LeaseLapses(j) \/ LeaseLapsesInStall(j) PROVE EndUnpins
    BY <1>1, <1>9 DEF LeaseLapses, LeaseLapsesInStall, dbVars
<1>10. ASSUME NEW j \in Jobs, PinJob(j) \/ UnpinJob(j) PROVE EndUnpins
    BY <1>1, <1>10 DEF PinJob, UnpinJob, dbVars
<1>11. CASE Preempting
    BY <1>1, <1>11 DEF CommitPin, Preempting, PreemptScan, PreemptRegistered, PreemptSignal, PreemptDone,
        PreemptPick, dbVars
<1>12. CASE UNCHANGED vars
    BY <1>1, <1>12 DEF vars, dbVars
<1>. QED BY <1>4, <1>5, <1>6, <1>7, <1>8, <1>9, <1>10, <1>11, <1>12 DEF Next

(* A job that has to make room after a step had to before it, unless the   *)
(* step pins some job or takes its own pin away.                           *)
LEMMA DisplacedBefore ==
    ASSUME TypeInv, FinishedKept, PinnedRuns, NEW j \in Jobs,
           Displaced(j)', ~pinned[j],
           \A k \in Jobs : pinned'[k] => pinned[k]
    PROVE  Displaced(j)
<1>1. PICK k \in Jobs :
          pinned'[k] /\ status'[k] \in PinBlockingStatuses /\ ModelOf[k] = ModelOf[j]
    BY DEF Displaced, BlockedByPin, BlockedBy, PinHolders
<1>2. k \in PinHolders
  <2>1. pinned[k] /\ status'[k] \in PinBlockingStatuses
    BY <1>1
  <2>2. ~Finished(k)
    BY <2>1 DEF FinishedKept, Finished, PinBlockingStatuses
  <2>. QED BY <2>1, <2>2 DEF PinnedRuns, PinHolders, PinBlockingStatuses, Finished
<1>3. ModelOf[j] # NoModel
    BY DEF Displaced, BlockedByPin, BlockedBy
<1>4. j \notin PinHolders
    BY DEF PinHolders
<1>. QED BY <1>1, <1>2, <1>3, <1>4 DEF Displaced, BlockedByPin, BlockedBy

(* A step of one task that leaves the other jobs' signals and pins alone.  *)
LEMMA ToldOneTask ==
    ASSUME TypeInv, Exclusive, FinishedKept, PinnedRuns, ToldOK,
           NEW t \in Tasks, TaskFrame(t), Engaged(t), admin' = admin,
           \A k \in Jobs : pinned'[k] => pinned[k],
           \A k \in Jobs \ {task[t].job} : pinned'[k] = pinned[k] /\ ctrl'[k] = ctrl[k],
           Listening(t)' /\ Displaced(task[t].job)' => Told(t)'
    PROVE  ToldOK'
<1>. SUFFICES ASSUME NEW u \in Tasks, Listening(u)', Displaced(task[u].job)' PROVE Told(u)'
    BY DEF ToldOK
<1>1. CASE u = t
    BY <1>1
<1>2. CASE u # t
  <2>1. task'[u] = task[u] /\ Listening(u) /\ Engaged(u)
    BY <1>2 DEF TaskFrame, Listening, Engaged
  <2>2. PICK k \in Jobs \ {task[t].job} : k = task[u].job
    BY <1>2, <2>1 DEF TypeInv, TaskOK, Engaged, Exclusive, SingleRunner
  <2>3. Displaced(k)'
    BY <2>1, <2>2 DEF Displaced, BlockedByPin, BlockedBy, PinHolders
  <2>4. Displaced(k)
    <3>1. ~pinned[k]
      BY <2>2, <2>3 DEF Displaced
    <3>. QED BY <2>2, <2>3, <3>1, DisplacedBefore
  <2>5. Told(u)
    BY <2>1, <2>2, <2>4 DEF ToldOK
  <2>. QED BY <2>1, <2>2, <2>5 DEF Told
<1>. QED BY <1>1, <1>2

(* A step that leaves signals, pins and the administrator alone, and tasks *)
(* too, but for those it ends and a new one.                               *)
LEMMA ToldQuiet ==
    ASSUME TypeInv, FinishedKept, PinnedRuns, ToldOK,
           admin' = admin, pinned' = pinned, ctrl' = ctrl,
           \A t \in Tasks : Listening(t)' => task'[t] = task[t]
    PROVE  ToldOK'
<1>. SUFFICES ASSUME NEW t \in Tasks, Listening(t)', Displaced(task[t].job)' PROVE Told(t)'
    BY DEF ToldOK
<1>1. task'[t] = task[t] /\ Listening(t)
    BY DEF Listening
<1>2. PICK k \in Jobs : k = task[t].job
    BY <1>1 DEF Listening, TypeInv, TaskOK
<1>3. Displaced(k)'
    BY <1>1, <1>2 DEF Displaced, BlockedByPin, BlockedBy, PinHolders
<1>4. Displaced(k)
    <2>1. ~pinned[k]
      BY <1>3 DEF Displaced
    <2>. QED BY <1>3, <2>1, DisplacedBefore
<1>5. Told(t)
    BY <1>1, <1>2, <1>4 DEF ToldOK
<1>. QED BY <1>1, <1>5 DEF Told

(* What a run may do while it listens: pass the pin check, start, and hear *)
(* the signal.                                                             *)
LEMMA ToldInRun ==
    ASSUME TypeInv, Exclusive, FinishedKept, PinsAreQuiet, ToldOK,
           NEW t \in Tasks, Running(t) \/ Watching(t)
    PROVE  ToldOK'
<1>. USE DEF TypeInv, PinsAreQuiet
<1>0. task \in [Tasks -> TaskType] /\ pinned \in [Jobs -> BOOLEAN] /\ ctrl \in [Jobs -> Signals]
    BY DEF TypeOK, QueueTypeOK
<1>1. Engaged(t) /\ task[t].job \in Jobs
    BY RunningFrame DEF Watching, PollSignal, CheckRequeue, DropStaleSignal, Engaged, TaskOK
<1>2. TaskFrame(t) /\ (Watching(t) => task'[t].job = task[t].job)
  <2>1. CASE Running(t) /\ ~Watching(t)
    BY <2>1, RunningFrame
  <2>2. CASE Watching(t)
    <3>1. PICK o \in JobStatus \cup {"none"}, v \in {"sleep", "requeue", "stale", "off"} :
              task' = [task EXCEPT ![t] = [task[t] EXCEPT !.outcome = o, !.watch = v]]
      BY <2>2, WatchMoves
    <3>. QED BY <1>0, <3>1 DEF TaskFrame, TaskType
  <2>. QED BY <2>1, <2>2
<1>3. admin' = admin
    BY DEF Return, Running, Watching, Load, CheckPin, YieldBeforeStart, MarkRunning, EndDispatch,
        Finalize, ClearOwnSignal, Release, AfterRelease, PollSignal, CheckRequeue,
        DropStaleSignal, TaskOnly, DbOnly, RedisOnly
<1>4. /\ pinned' = pinned \/ Unpin(task[t].job)
      /\ ctrl' = ctrl \/ ClearSignal(task[t].job)
    BY DEF Return, Running, Watching, Load, CheckPin, YieldBeforeStart, MarkRunning, EndDispatch,
        Finalize, ClearOwnSignal, Release, ReleaseLease, DropLease, AfterRelease, PollSignal, RenewLease,
        CheckRequeue, DropStaleSignal, TaskOnly, DbOnly, RedisOnly, dbVars, queueVars
<1>5. /\ \A k \in Jobs : pinned'[k] => pinned[k]
      /\ \A k \in Jobs \ {task[t].job} : pinned'[k] = pinned[k] /\ ctrl'[k] = ctrl[k]
    BY <1>0, <1>1, <1>4 DEF Unpin, ClearSignal, Signal
<1>6. ASSUME Listening(t)', Displaced(task[t].job)' PROVE Told(t)'
  <2>. PICK j \in Jobs : j = task[t].job
    BY <1>1
  <2>1. task'[t].job = j /\ Displaced(j)'
    BY <1>2, <1>6 DEF TaskFrame, Listening, Displaced, BlockedByPin, BlockedBy, PinHolders
  <2>2. ASSUME pinned' = pinned PROVE Displaced(j)
    BY <2>1, <2>2, DisplacedBefore DEF Displaced
  <2>3. CASE CheckPin(t)
    <3>1. pinned' = pinned /\ status' = status
      BY <2>3 DEF CheckPin, TaskOnly, dbVars
    <3>2. BlockedByPin(j)
      BY <2>2, <3>1 DEF Displaced
    <3>3. Become(t, "yield")
      BY <2>3, <3>2 DEF CheckPin
    <3>. QED BY <1>0, <1>6, <3>3 DEF Become, TaskType, Listening
  <2>4. CASE MarkRunning(t)
    <3>1. pinned' = pinned /\ ctrl' = ctrl /\ Become(t, "work")
          /\ task[t].pc = "prepare"
      BY <2>4 DEF MarkRunning, DbOnly, queueVars
    <3>2. task'[t].outcome = task[t].outcome /\ task'[t].watch = task[t].watch
      BY <1>0, <3>1 DEF Become, TaskType
    <3>3. Listening(t) /\ Displaced(task[t].job)
      BY <1>6, <2>2, <3>1, <3>2 DEF Listening
    <3>. QED BY <1>3, <2>1, <3>1, <3>2, <3>3 DEF ToldOK, Told
  <2>5. CASE PollSignal(t)
    <3>1. pinned' = pinned /\ ctrl' = ctrl /\ task[t].pc = "work" /\ task[t].watch = "sleep"
      BY <2>5 DEF PollSignal, RedisOnly, RenewLease, dbVars
    <3>2. CASE ctrl[j] = "none"
      <4>. DEFINE v == IF task[t].outcome # "none" THEN "off" ELSE "sleep"
      <4>1. task' = [task EXCEPT ![t].outcome = task[t].outcome, ![t].watch = v]
        BY <2>5, <3>2, Zenon DEF PollSignal
      <4>. HIDE DEF v
      <4>2. task'[t].outcome = task[t].outcome
        BY <1>0, <4>1 DEF TaskType
      <4>3. Listening(t) /\ Displaced(task[t].job)
        BY <1>6, <2>2, <3>1, <4>2 DEF Listening
      <4>4. Told(t)
        BY <4>3 DEF ToldOK
      <4>. QED BY <1>3, <2>1, <3>1, <4>4 DEF Told
    <3>3. CASE ctrl[j] # "none"
      BY <2>1, <3>1, <3>3 DEF Told
    <3>. QED BY <3>2, <3>3
  <2>6. CASE CheckRequeue(t)
    <3>1. pinned' = pinned
      BY <2>6 DEF CheckRequeue, TaskOnly, dbVars
    <3>2. BlockedByPin(j)
      BY <2>2, <3>1 DEF Displaced
    <3>3. task' = [task EXCEPT ![t].outcome = "queued", ![t].watch = "off"]
      BY <2>6, <3>2 DEF CheckRequeue
    <3>. QED BY <1>0, <1>6, <3>3 DEF TaskType, Listening
  <2>7. CASE DropStaleSignal(t)
    <3>1. pinned' = pinned /\ task[t].watch = "stale"
      BY <2>7 DEF DropStaleSignal, RedisOnly, dbVars
    <3>. QED BY <1>1, <2>2, <3>1 DEF Displaced, StaleMeetsNoPin
  <2>8. ASSUME NEW p \in HeldPcs \cup HandoverPcs, NEW o, p \notin {"prepare", "work"},
               Become(t, p) \/ BecomeWith(t, p, o)
        PROVE  FALSE
    BY <1>0, <1>6, <2>8 DEF Become, BecomeWith, TaskType, Listening
  <2>9. CASE Load(t)
    <3>1. \/ BecomeWith(t, "release", status[task[t].job]) \/ BecomeWith(t, "release", "failed")
          \/ Become(t, "check")
      BY <2>9 DEF Return, Load
    <3>. QED BY <2>8, <3>1 DEF HeldPcs
  <2>10. CASE YieldBeforeStart(t) \/ EndDispatch(t) \/ Finalize(t) \/ ClearOwnSignal(t)
    <3>1. \E p \in HeldPcs \ {"prepare", "work"} : Become(t, p) \/ \E o : BecomeWith(t, p, o)
      BY <2>10 DEF Return, YieldBeforeStart, EndDispatch, Finalize, ClearOwnSignal, HeldPcs
    <3>. QED BY <2>8, <3>1
  <2>11. CASE Release(t)
    <3>1. Become(t, "handover") \/ Idle(t)
      BY <2>11 DEF Release, AfterRelease
    <3>2. ~Idle(t)
      BY <1>0, <1>6 DEF Idle, IdleTask, Listening
    <3>. QED BY <2>8, <3>1, <3>2 DEF HandoverPcs
  <2>. QED BY <2>3, <2>4, <2>5, <2>6, <2>7, <2>9, <2>10, <2>11 DEF Running, Watching
<1>. QED BY <1>1, <1>2, <1>3, <1>5, <1>6, ToldOneTask

(* A mishap or a step of the handover leaves no one listening but others.  *)
LEMMA ToldInHandover ==
    ASSUME TypeInv, Exclusive, FinishedKept, PinsAreQuiet, ToldOK,
           NEW t \in Tasks, HandingOver(t) \/ Mishap(t)
    PROVE  ToldOK'
<1>. USE DEF TypeInv, PinsAreQuiet
<1>0. task \in [Tasks -> TaskType] /\ pinned \in [Jobs -> BOOLEAN] /\ ctrl \in [Jobs -> Signals]
    BY DEF TypeOK, QueueTypeOK
<1>1. TaskFrame(t) /\ Engaged(t) /\ ~Listening(t)'
  <2>1. CASE HandingOver(t)
    BY <2>1, HandoverFrame DEF Listening, HeldPcs
  <2>2. CASE StopForBilling(t)
    BY <1>0, <2>2 DEF StopForBilling, TaskFrame, Engaged, Listening, TaskType
  <2>3. CASE PauseForBilling(t) \/ FailJob(t) \/ RunnerRaises(t)
    <3>1. /\ Engaged(t)
          /\ \/ BecomeWith(t, "clear", "paused") \/ BecomeWith(t, "clear", "failed")
             \/ BecomeWith(t, "release", "none")
      BY <2>3 DEF Return, PauseForBilling, FailJob, RunnerRaises, Engaged, HeldPcs
    <3>2. TaskFrame(t)
      BY <3>1, BecomeFrame
    <3>3. task'[t].pc \in {"clear", "release"}
      BY <1>0, <3>1 DEF BecomeWith, TaskType
    <3>. QED BY <3>1, <3>2, <3>3 DEF Listening
  <2>4. CASE ReleaseFails(t) \/ HandoverFails(t)
    <3>1. Engaged(t) /\ (Become(t, "handover") \/ Idle(t))
      BY <2>4 DEF ReleaseFails, HandoverFails, AfterRelease, Engaged, HandoverPcs
    <3>. QED BY <1>0, <3>1, BecomeFrame DEF Become, Idle, IdleTask, Listening, TaskType
  <2>. QED BY <2>1, <2>2, <2>3, <2>4 DEF Mishap
<1>2. admin' = admin
    BY DEF Return, HandingOver, Mishap, Handover, SettleSignal, Land, ClearLanded, ClearBeforeEnqueue,
        EnqueueYielded, PauseForBilling, StopForBilling, FailJob, ReleaseFails, AfterRelease,
        HandoverFails, RunnerRaises, TaskOnly, DbOnly, RedisOnly
<1>3. /\ pinned' = pinned \/ Unpin(task[t].job)
      /\ ctrl' = ctrl \/ ClearSignal(task[t].job)
    BY DEF Return, HandingOver, Mishap, Handover, SettleSignal, Land, ClearLanded, ClearBeforeEnqueue,
        EnqueueYielded, Enqueue, PauseForBilling, StopForBilling, FailJob, ReleaseFails, AfterRelease,
        HandoverFails, RunnerRaises, TaskOnly, DbOnly, RedisOnly, dbVars, queueVars
<1>4. task[t].job \in Jobs
    BY <1>1 DEF TaskOK, Engaged
<1>5. /\ \A k \in Jobs : pinned'[k] => pinned[k]
      /\ \A k \in Jobs \ {task[t].job} : pinned'[k] = pinned[k] /\ ctrl'[k] = ctrl[k]
    BY <1>0, <1>3, <1>4 DEF Unpin, ClearSignal, Signal
<1>. QED BY <1>1, <1>2, <1>5, ToldOneTask

(* The pins themselves: a new one is about to be followed up, and one that *)
(* goes uncovers nobody, because it was alone on its model.                *)
LEMMA ToldAtPin ==
    ASSUME TypeInv, PinsAreQuiet, ToldOK,
           NEW k \in Jobs, PinJob(k) \/ UnpinJob(k) \/ (CommitPin /\ admin.job = k)
    PROVE  ToldOK'
<1>. USE DEF TypeInv, PinsAreQuiet
<1>0. pinned \in [Jobs -> BOOLEAN]
    BY DEF TypeOK
<1>1. task' = task /\ status' = status /\ ctrl' = ctrl /\ admin.pc \in {"idle", "commit"}
    BY DEF PinJob, UnpinJob, CommitPin, queueVars, dbVars
<1>. SUFFICES ASSUME NEW t \in Tasks, Listening(t), Displaced(task[t].job)' PROVE Told(t)'
    BY <1>1 DEF ToldOK, Listening
<1>. PICK j \in Jobs : j = task[t].job
    BY DEF Listening, TaskOK
<1>2. Displaced(j)'
    BY <1>1 DEF Displaced, BlockedByPin, BlockedBy, PinHolders
<1>3. PICK h \in Jobs : /\ pinned'[h] /\ status[h] \in PinBlockingStatuses
                        /\ ModelOf[h] = ModelOf[j] /\ ModelOf[j] # NoModel
    BY <1>1, <1>2 DEF Displaced, BlockedByPin, BlockedBy, PinHolders
<1>4. ASSUME ~pinned[j], pinned[h] PROVE Told(t)'
  <2>1. Displaced(j)
    BY <1>3, <1>4 DEF Displaced, BlockedByPin, BlockedBy, PinHolders
  <2>2. Told(t)
    BY <2>1 DEF ToldOK
  <2>3. ctrl[j] # "none" \/ task[t].watch = "requeue"
    BY <1>1, <2>2 DEF Told
  <2>. QED BY <1>1, <2>3 DEF Told
<1>5. CASE PinJob(k)
  <2>1. pinned' = pinned
    BY <1>5 DEF PinJob, dbVars
  <2>. QED BY <1>2, <1>3, <1>4, <2>1 DEF Displaced
<1>7. CASE CommitPin /\ admin.job = k
  <2>1. pinned' = [pinned EXCEPT ![k] = pinned[k] \/ (admin.pins /\ status[k] # "deleted")]
    BY <1>7 DEF CommitPin
  <2>2. ~pinned[j] /\ ~pinned'[j]
    BY <1>0, <1>2, <2>1 DEF Displaced
  <2>3. CASE pinned[h]
    BY <1>4, <2>2, <2>3
  <2>4. CASE ~pinned[h]
    <3>1. h = k /\ j # k
      BY <1>0, <1>3, <2>1, <2>2, <2>4
    <3>2. admin.preempts /\ status[k] # "deleted"
      BY <1>3, <1>7, <3>1 DEF PinReadHolds, CommitPin, PinBlockingStatuses
    <3>3. admin' = [IdleAdmin EXCEPT !.pc = "scan", !.job = k]
      BY <1>7, <3>2 DEF CommitPin
    <3>4. admin'.pc = "scan" /\ admin'.job = k
      BY <3>3 DEF IdleAdmin
    <3>. QED BY <1>1, <1>3, <3>1, <3>4 DEF Told
  <2>. QED BY <2>3, <2>4
<1>6. CASE UnpinJob(k)
  <2>1. pinned' = [pinned EXCEPT ![k] = FALSE] /\ pinned[k]
    BY <1>6 DEF UnpinJob, Unpin
  <2>2. pinned[h] /\ h # k
    BY <1>0, <1>3, <2>1
  <2>3. j # k
    BY <1>3, <2>1, <2>2 DEF OnePinPerModel
  <2>4. ~pinned[j]
    BY <1>0, <1>2, <2>1, <2>3 DEF Displaced
  <2>. QED BY <1>4, <2>2, <2>4
<1>. QED BY <1>5, <1>6, <1>7

(* preempt_for: the database names the jobs that run on the model, Redis   *)
(* those that hold a place on it, which every job in hand does; each has a *)
(* lease, so each gets the signal.                                         *)
LEMMA ToldInPreemption ==
    ASSUME TypeInv, Exclusive, FinishedKept, PinsAreQuiet, ToldOK, Preempting, ~CommitPin
    PROVE  ToldOK'
<1>. USE DEF TypeInv
<1>0. /\ ctrl \in [Jobs -> Signals]
      /\ admin \in AdminType
    BY DEF TypeOK, QueueTypeOK
<1>1. task' = task /\ status' = status /\ pinned' = pinned
    BY DEF Preempting, PreemptScan, PreemptRegistered, PreemptPick, PreemptSignal, PreemptDone, dbVars
<1>. SUFFICES ASSUME NEW t \in Tasks, Listening(t), Displaced(task[t].job)' PROVE Told(t)'
    BY <1>1 DEF ToldOK, Listening
<1>. PICK j \in Jobs : j = task[t].job
    BY DEF Listening, TaskOK
<1>2. Displaced(j)
    BY <1>1 DEF Displaced, BlockedByPin, BlockedBy, PinHolders
<1>3. Told(t) /\ ~pinned[j] /\ ModelOf[j] # NoModel
    BY <1>2 DEF ToldOK, Displaced, BlockedByPin, BlockedBy
<1>4. HasLease(j) /\ j \in modelRunning[ModelOf[j]]
    BY <1>3 DEF Exclusive, Held, HeldPcs, Listening
<1>5. ASSUME ctrl'[j] # "none" \/ task[t].watch = "requeue" PROVE Told(t)'
    BY <1>1, <1>5 DEF Told
<1>6. CASE PreemptScan
  <2>1. ctrl' = ctrl
    BY <1>6 DEF PreemptScan, queueVars
  <2>2. CASE ctrl[j] # "none" \/ task[t].watch = "requeue"
    BY <1>5, <2>1, <2>2
  <2>3. CASE ModelOf[admin.job] = ModelOf[j] /\ admin.job # j
    <3>1. admin'.pc = "registered" /\ admin'.job = admin.job
      BY <1>0, <1>3, <1>6, <2>3 DEF AdminType, PreemptScan
    <3>. QED BY <1>1, <2>3, <3>1 DEF Told
  <2>. QED BY <1>3, <1>6, <2>2, <2>3 DEF Told, PreemptScan
<1>7. CASE PreemptRegistered
  <2>1. ctrl' = ctrl
    BY <1>7 DEF PreemptRegistered, queueVars
  <2>2. CASE ctrl[j] # "none" \/ task[t].watch = "requeue"
    BY <1>5, <2>1, <2>2
  <2>3. CASE ModelOf[admin.job] = ModelOf[j] /\ admin.job # j
    <3>1. admin'.pc = "walk" /\ j \in admin'.todo
      BY <1>0, <1>3, <1>4, <1>7, <2>3 DEF AdminType, PreemptRegistered
    <3>. QED BY <1>1, <3>1 DEF Told
  <2>. QED BY <1>3, <1>7, <2>2, <2>3 DEF Told, PreemptRegistered
<1>8. ASSUME NEW k \in Jobs, PreemptPick(k) PROVE Told(t)'
  <2>1. ctrl' = ctrl
    BY <1>8 DEF PreemptPick, queueVars
  <2>2. CASE ctrl[j] # "none" \/ task[t].watch = "requeue"
    BY <1>5, <2>1, <2>2
  <2>3. CASE j \in admin.todo /\ k = j
    <3>1. admin'.pc = "signal" /\ admin'.job = j
      BY <1>0, <1>4, <1>8, <2>3 DEF AdminType, PreemptPick
    <3>. QED BY <1>1, <3>1 DEF Told
  <2>4. CASE j \in admin.todo /\ k # j
    <3>1. admin'.pc \in {"walk", "signal"} /\ j \in admin'.todo
      BY <1>0, <1>8, <2>4 DEF AdminType, PreemptPick
    <3>. QED BY <1>1, <3>1 DEF Told
  <2>. QED BY <1>3, <1>8, <2>2, <2>3, <2>4 DEF Told, PreemptPick
<1>9. CASE PreemptSignal
  <2>1. /\ ctrl' = [ctrl EXCEPT ![admin.job] = IF @ = "none" THEN "requeue" ELSE @]
        /\ admin.pc = "signal" /\ admin' = [admin EXCEPT !.pc = "walk"]
    BY <1>9 DEF PreemptSignal, SignalIfAbsent
  <2>2. CASE ctrl[j] # "none" \/ task[t].watch = "requeue" \/ admin.job = j
    BY <1>0, <1>5, <2>1, <2>2 DEF AdminType
  <2>3. CASE j \in admin.todo
    <3>1. admin'.pc = "walk" /\ j \in admin'.todo
      BY <1>0, <2>1, <2>3 DEF AdminType
    <3>. QED BY <1>1, <3>1 DEF Told
  <2>. QED BY <1>3, <2>1, <2>2, <2>3 DEF Told
<1>10. CASE PreemptDone
  <2>1. ctrl' = ctrl /\ admin.pc = "walk" /\ admin.todo = {}
    BY <1>10 DEF PreemptDone, queueVars
  <2>2. ctrl[j] # "none" \/ task[t].watch = "requeue"
    BY <1>3, <2>1 DEF Told
  <2>. QED BY <1>5, <2>1, <2>2
<1>. QED BY <1>6, <1>7, <1>8, <1>9, <1>10 DEF Preempting

LEMMA ToldStep ==
    ASSUME TypeInv, Exclusive, FinishedKept, PinsAreQuiet, ToldOK, [Next]_vars
    PROVE  ToldOK'
<1>1. ASSUME NEW t \in Tasks, Running(t) \/ Watching(t) \/ HandingOver(t) \/ Mishap(t)
      PROVE  ToldOK'
    BY <1>1, ToldInRun, ToldInHandover
<1>2. ASSUME NEW w \in Workers, Claiming(w) \/ Beating(w) \/ Reap(w) \/ Stopping(w)
      PROVE  ToldOK'
  <2>1. admin' = admin /\ pinned' = pinned /\ ctrl' = ctrl
    <3>1. CASE Claiming(w)
      BY <3>1 DEF Claiming, StartScan, NothingToClaim, ClaimRefused, ClaimBlocked, Claim, ClaimJob,
          dbVars, queueVars
    <3>2. CASE Beating(w) \/ Reap(w) \/ Stopping(w)
      BY <3>2 DEF Vanish, Beating, StartHeartbeat, HeartbeatRenew, RenewLease, Reap, ReapExpired, Stopping,
          Crash, RequestShutdown, Drained, dbVars, queueVars
    <3>. QED BY <1>2, <3>1, <3>2
  <2>2. \A t \in Tasks : Listening(t)' => task'[t] = task[t]
    <3>1. ASSUME NEW j \in Jobs, NEW u \in Tasks, Claim(w, u, j) PROVE \A t \in Tasks : Listening(t)' => task'[t] = task[t]
      BY <3>1 DEF Claim, IdleTask, Listening, TypeInv, TypeOK
    <3>2. CASE Vanish(w)
      BY <3>2 DEF Vanish, IdleTask, Listening
    <3>3. ASSUME task' = task PROVE \A t \in Tasks : Listening(t)' => task'[t] = task[t]
      BY <3>3
    <3>. QED BY <1>2, <3>1, <3>2, <3>3 DEF Claiming, StartScan, NothingToClaim, ClaimRefused,
          Beating, StartHeartbeat, HeartbeatRenew, Reap, Stopping, Crash, RequestShutdown, Drained
  <2>. QED BY <2>1, <2>2, ToldQuiet DEF PinsAreQuiet
<1>3. ASSUME NEW j \in Jobs, LeaseLapses(j) \/ LeaseLapsesInStall(j) PROVE ToldOK'
  <2>1. admin' = admin /\ pinned' = pinned /\ ctrl' = ctrl /\ task' = task
    BY <1>3 DEF LeaseLapses, LeaseLapsesInStall, LapseLease, dbVars
  <2>. QED BY <2>1, ToldQuiet DEF PinsAreQuiet
<1>4. CASE UNCHANGED vars
  <2>1. admin' = admin /\ pinned' = pinned /\ ctrl' = ctrl /\ task' = task
    BY <1>4 DEF vars, dbVars, queueVars
  <2>. QED BY <2>1, ToldQuiet DEF PinsAreQuiet
<1>5. CASE CommitPin
  <2>1. admin.job \in Jobs
    BY <1>5 DEF CommitPin, TypeInv, AdminOK
  <2>. QED BY <1>5, <2>1, ToldAtPin
<1>. QED BY <1>1, <1>2, <1>3, <1>4, <1>5, ToldAtPin, ToldInPreemption DEF Next

LEMMA PinsInit == Init => ToldOK
BY DEF Init, DispatchInit, ToldOK, Listening, IdleTask

(* Once pin_job has finished preempting, every run that is on its model    *)
(* and has not made up its mind has been told to make room, in any number  *)
(* of jobs and workers and through crashes and failing releases, runs and  *)
(* handovers, for as long as leases are kept up and pins are quiet.        *)
THEOREM PinsAreHeard ==
    ASSUME "stall" \notin FaultKinds
    PROVE  Spec /\ []PinsAreQuiet => []PinReachesRunners
<1>1. TypeInv /\ Exclusive /\ [Next]_vars => Exclusive'
    BY ExclusiveStep
<1>2. TypeInv /\ Exclusive /\ FinishedUntouched /\ [Next]_vars => FinishedUntouched'
    BY FinishedStep
<1>3. TypeInv /\ Exclusive /\ FinishedUntouched /\ PinsAreQuiet /\ ToldOK /\ [Next]_vars => ToldOK'
    BY FinishedStep, ToldStep
<1>4. ToldOK => PinReachesRunners
    BY DEF ToldOK, PinReachesRunners, Listening, Displaced, Told
<1>. QED BY <1>1, <1>2, <1>3, <1>4, TypeInvInit, TypeInvStep, ExclusiveInit, FinishedInit, PinsInit, PTL DEF Spec

(* Whatever ends a job takes its pin away in the same write: a job that    *)
(* has ended and is pinned was pinned after its end, by a pin_job that had *)
(* read it before (jobs.py:647-654).                                       *)
THEOREM EndsUnpin == Spec => [][EndUnpins]_vars
<1>1. TypeInv /\ [Next]_vars => EndUnpins
    BY EndUnpinsStep
<1>. QED BY <1>1, TypeInvInit, TypeInvStep, PTL DEF Spec

(* One pin, no job billed separately and none that fails: then every job   *)
(* is queued, running or done, and pins are quiet.  Before the pin there   *)
(* is no signal; after it, pins only go, so that a signal once out of date *)
(* stays so.                                                               *)
NoPinYet == pinOps = 0 \/ admin.pc = "commit"

Plain == {"queued", "running", "succeeded", "completed"}

SinglePinOK ==
    /\ \A j, k \in Jobs : pinned[j] /\ pinned[k] => j = k
    /\ \A k \in Jobs : status[k] \in Plain /\ ctrl[k] \in {"none", "requeue"}
    /\ \A t \in Tasks : task[t].outcome \notin {"paused", "canceled"}
    /\ StaleMeetsNoPin
    /\ admin.pc = "commit" => admin.preempts
    /\ pinOps = 0 => admin.pc = "idle"
    /\ NoPinYet =>
          /\ \A k \in Jobs : ~pinned[k] /\ ctrl[k] = "none"
          /\ \A t \in Tasks : task[t].watch \notin {"requeue", "stale"}

(* A step that pins nothing ...                                            *)
LEMMA SinglePinFrame ==
    ASSUME TypeInv, FinishedKept, SinglePinOK, pinOps' = pinOps,
           \A k \in Jobs : pinned'[k] => pinned[k],
           \A k \in Jobs : status'[k] \in Plain,
           \A k \in Jobs : \/ ctrl'[k] \in {ctrl[k], "none"}
                           \/ ~NoPinYet /\ ctrl'[k] \in {"none", "requeue"},
           admin' = admin \/ (~NoPinYet /\ admin'.pc # "commit"),
           \A t \in Tasks :
              /\ task'[t].outcome \notin {"paused", "canceled"}
              /\ task'[t].watch \in {"requeue", "stale"} => ~NoPinYet
              /\ Engaged(t)' /\ task'[t].watch = "stale" =>
                    task'[t].job \in Jobs /\ ~BlockedByPin(task'[t].job)
    PROVE  SinglePinOK'
<1>1. ASSUME NEW j \in Jobs, BlockedByPin(j)' PROVE BlockedByPin(j)
  <2>1. PICK k \in Jobs :
            /\ k # j /\ pinned'[k] /\ ModelOf[k] = ModelOf[j]
            /\ status'[k] \in PinBlockingStatuses
    BY <1>1 DEF BlockedByPin, BlockedBy, PinHolders
  <2>2. pinned[k] /\ ~pinned[j]
    BY <2>1 DEF SinglePinOK
  <2>3. ~Finished(k) /\ status[k] \in Plain
    BY <2>1 DEF FinishedKept, Finished, PinBlockingStatuses, SinglePinOK
  <2>4. status[k] \in PinBlockingStatuses
    BY <2>3 DEF Plain, Finished, PinBlockingStatuses
  <2>. QED BY <1>1, <2>1, <2>2, <2>4 DEF BlockedByPin, BlockedBy, PinHolders
<1>2. ASSUME NEW t \in Tasks, Engaged(t)', task'[t].watch = "stale" PROVE ~BlockedByPin(task[t].job)'
  <2>1. PICK j \in Jobs : j = task'[t].job /\ ~BlockedByPin(j)
    BY <1>2
  <2>2. ~BlockedByPin(j)'
    BY <1>1, <2>1
  <2>. QED BY <2>1, <2>2 DEF BlockedByPin, BlockedBy, PinHolders
<1>3. StaleMeetsNoPin'
    BY <1>2 DEF StaleMeetsNoPin
<1>4. NoPinYet' => NoPinYet
    BY DEF NoPinYet
<1>5. \A k \in Jobs : ctrl'[k] \in {"none", "requeue"} /\ (NoPinYet => ctrl'[k] = "none")
    BY DEF SinglePinOK
<1>6. (admin'.pc = "commit" => admin'.preempts) /\ (pinOps' = 0 => admin'.pc = "idle")
    BY DEF SinglePinOK, NoPinYet
<1>7. \A j, k \in Jobs : pinned'[j] /\ pinned'[k] => j = k
    BY DEF SinglePinOK
<1>8. NoPinYet' =>
          /\ \A k \in Jobs : ~pinned'[k] /\ ctrl'[k] = "none"
          /\ \A t \in Tasks : task'[t].watch \notin {"requeue", "stale"}
    BY <1>4, <1>5 DEF SinglePinOK
<1>. QED BY <1>3, <1>5, <1>6, <1>7, <1>8 DEF SinglePinOK

(* ... and lets no task hear a signal.                                     *)
LEMMA SinglePinQuiet ==
    ASSUME TypeInv, FinishedKept, SinglePinOK, pinOps' = pinOps,
           \A k \in Jobs : pinned'[k] => pinned[k],
           \A k \in Jobs : status'[k] \in Plain,
           \A k \in Jobs : \/ ctrl'[k] \in {ctrl[k], "none"}
                           \/ ~NoPinYet /\ ctrl'[k] \in {"none", "requeue"},
           admin' = admin \/ (~NoPinYet /\ admin'.pc # "commit"),
           \A t \in Tasks :
              \/ task'[t] = task[t]
              \/ task'[t].outcome \notin {"paused", "canceled"} /\ task'[t].watch \in {"sleep", "off"}
              \/ task'[t] = [task[t] EXCEPT !.pc = task'[t].pc] /\ Engaged(t)
    PROVE  SinglePinOK'
<1>1. task \in [Tasks -> TaskType]
    BY DEF TypeInv, TypeOK
<1>2. ASSUME NEW t \in Tasks
      PROVE  /\ task'[t].outcome \notin {"paused", "canceled"}
             /\ task'[t].watch \in {"requeue", "stale"} => ~NoPinYet
             /\ Engaged(t)' /\ task'[t].watch = "stale" =>
                    task'[t].job \in Jobs /\ ~BlockedByPin(task'[t].job)
  <2>1. CASE task'[t].outcome \notin {"paused", "canceled"} /\ task'[t].watch \in {"sleep", "off"}
    BY <2>1
  <2>2. CASE task'[t] = task[t]
    BY <2>2 DEF SinglePinOK, StaleMeetsNoPin, TypeInv, TaskOK, Engaged
  <2>3. CASE task'[t] = [task[t] EXCEPT !.pc = task'[t].pc] /\ Engaged(t)
    <3>1. /\ task'[t].outcome = task[t].outcome /\ task'[t].watch = task[t].watch
          /\ task'[t].job = task[t].job
      BY <1>1, <2>3 DEF TaskType
    <3>. QED BY <2>3, <3>1 DEF SinglePinOK, StaleMeetsNoPin, TypeInv, TaskOK, Engaged
  <2>. QED BY <2>1, <2>2, <2>3
<1>. QED BY <1>2, SinglePinFrame

(* The steps of tasks, but for the watcher's.                              *)
LEMMA SinglePinInRun ==
    ASSUME TypeInv, FinishedKept, SinglePinOK, BilledJobs = {}, FailingJobs = {},
           NEW t \in Tasks, Running(t) \/ HandingOver(t) \/ Mishap(t)
    PROVE  SinglePinOK'
<1>. USE DEF TypeInv
<1>0. /\ task \in [Tasks -> TaskType] /\ pinned \in [Jobs -> BOOLEAN] /\ ctrl \in [Jobs -> Signals]
      /\ status \in [Jobs -> JobStatus]
    BY DEF TypeOK, QueueTypeOK
<1>1. /\ pinOps' = pinOps /\ admin' = admin
      /\ \A k \in Jobs : ctrl'[k] \in {ctrl[k], "none"}
    BY <1>0 DEF Return, Running, Load, CheckPin, YieldBeforeStart, MarkRunning, EndDispatch, Finalize,
        ClearOwnSignal, Release, ReleaseLease, DropLease, AfterRelease, HandingOver, Handover, SettleSignal,
        Land, ClearLanded, ClearBeforeEnqueue, EnqueueYielded, Enqueue, Mishap, PauseForBilling,
        StopForBilling, FailJob, ReleaseFails, HandoverFails, RunnerRaises, ClearSignal, Signal,
        TaskOnly, DbOnly, RedisOnly, rest, queueVars
<1>2. /\ \A k \in Jobs : pinned'[k] => pinned[k]
      /\ \A k \in Jobs : status'[k] \in Plain
  <2>1. \A k \in Jobs : status[k] \in Plain
    BY DEF SinglePinOK
  <2>2. task[t].outcome \notin {"paused", "canceled"}
    BY DEF SinglePinOK
  <2>3. ASSUME NEW j, NEW s, SetStatus(j, s), s \in Plain PROVE \A k \in Jobs : status'[k] \in Plain
    BY <1>0, <2>1, <2>3 DEF SetStatus
  <2>4. ASSUME NEW j, Unpin(j) PROVE \A k \in Jobs : pinned'[k] => pinned[k]
    BY <1>0, <2>4 DEF Unpin
  <2>5. CASE YieldBeforeStart(t) \/ MarkRunning(t)
    BY <2>5, <2>3 DEF Return, YieldBeforeStart, MarkRunning, Plain
  <2>6. CASE Finalize(t)
    <3>0. task[t].outcome \in Plain
      BY <2>2, <2>6 DEF Finalize, OutcomeOK, Plain
    <3>1. \A k \in Jobs : status'[k] \in Plain
      BY <3>0, <2>3, <2>6 DEF Finalize
    <3>2. UNCHANGED pinned \/ Unpin(task[t].job)
      BY <2>6 DEF Finalize
    <3>. QED BY <2>4, <3>1, <3>2
  <2>7. ~Land(t)
    BY <2>2 DEF Land, OutcomeOK
  <2>8. ~FailJob(t)
    BY DEF FailJob
  <2>9. ASSUME UNCHANGED <<status, pinned>>
        PROVE  (\A k \in Jobs : pinned'[k] => pinned[k]) /\ \A k \in Jobs : status'[k] \in Plain
    BY <2>1, <2>9
  <2>. QED BY <2>5, <2>6, <2>7, <2>8, <2>9 DEF Return, Running, Load, CheckPin, EndDispatch,
        ClearOwnSignal, Release, AfterRelease, HandingOver, Handover, SettleSignal,
        ClearLanded, ClearBeforeEnqueue, EnqueueYielded, Mishap, PauseForBilling,
        StopForBilling, ReleaseFails, HandoverFails, RunnerRaises, TaskOnly, RedisOnly, dbVars
<1>3. ASSUME NEW p, Become(t, p), Engaged(t)
      PROVE  \A u \in Tasks : task'[u] = task[u] \/ (task'[u] = [task[u] EXCEPT !.pc = task'[u].pc] /\ Engaged(u))
  <2>1. task'[t] = [task[t] EXCEPT !.pc = p] /\ \A u \in Tasks \ {t} : task'[u] = task[u]
    BY <1>0, <1>3 DEF Become
  <2>2. task'[t].pc = p
    BY <1>0, <2>1 DEF TaskType
  <2>3. task'[t] = [task[t] EXCEPT !.pc = task'[t].pc]
    BY <2>1, <2>2
  <2>. QED BY Zenon, <1>3, <2>1, <2>3
<1>4. ASSUME NEW p, NEW o, BecomeWith(t, p, o), o \notin {"paused", "canceled"}
      PROVE  \A u \in Tasks : task'[u] = task[u] \/ (task'[u].outcome \notin {"paused", "canceled"} /\ task'[u].watch \in {"sleep", "off"})
  <2>1. task' = [task EXCEPT ![t] = [task[t] EXCEPT !.pc = p, !.outcome = o, !.watch = "off"]]
    BY <1>0, <1>4 DEF BecomeWith
  <2>2. task'[t].outcome = o /\ task'[t].watch = "off" /\ \A u \in Tasks \ {t} : task'[u] = task[u]
    BY <1>0, <2>1 DEF TaskType
  <2>3. task'[t].outcome \notin {"paused", "canceled"} /\ task'[t].watch \in {"sleep", "off"}
    BY <1>4, <2>2
  <2>. QED BY Zenon, <2>2, <2>3
<1>5. ASSUME Idle(t)
      PROVE  \A u \in Tasks : task'[u] = task[u] \/ (task'[u].outcome \notin {"paused", "canceled"} /\ task'[u].watch \in {"sleep", "off"})
  <2>1. task'[t] = IdleTask /\ \A u \in Tasks \ {t} : task'[u] = task[u]
    BY <1>0, <1>5 DEF Idle
  <2>2. task'[t].outcome \notin {"paused", "canceled"} /\ task'[t].watch \in {"sleep", "off"}
    BY <2>1 DEF IdleTask
  <2>. QED BY Zenon, <2>1, <2>2
<1>6. \A u \in Tasks :
         \/ task'[u] = task[u]
         \/ task'[u].outcome \notin {"paused", "canceled"} /\ task'[u].watch \in {"sleep", "off"}
         \/ task'[u] = [task[u] EXCEPT !.pc = task'[u].pc] /\ Engaged(u)
  <2>1. Engaged(t)
    BY DEF Return, Running, Load, CheckPin, YieldBeforeStart, MarkRunning, EndDispatch, Finalize,
        ClearOwnSignal, Release, HandingOver, Handover, SettleSignal, Land, ClearLanded,
        ClearBeforeEnqueue, EnqueueYielded, Mishap, PauseForBilling, StopForBilling, FailJob,
        ReleaseFails, HandoverFails, RunnerRaises, HeldPcs, HandoverPcs, Engaged
  <2>2. (\E p : Become(t, p)) \/ (\E p, o : BecomeWith(t, p, o) /\ o \notin {"paused", "canceled"}) \/ Idle(t)
    <3>1. CASE SettleSignal(t)
      <4>1. ctrl[task[t].job] # "pause"
        BY <2>1 DEF SinglePinOK, TaskOK, Engaged
      <4>2. ctrl[task[t].job] # "cancel"
        BY <2>1 DEF SinglePinOK, TaskOK, Engaged
      <4>. QED BY <3>1, <4>1, <4>2 DEF SettleSignal
    <3>2. CASE EndDispatch(t)
      <4>1. task[t].outcome \notin {"paused", "canceled"}
        BY DEF SinglePinOK
      <4>. QED BY <3>2, <4>1 DEF EndDispatch
    <3>3. CASE Running(t) /\ ~EndDispatch(t) /\ ~Load(t)
      BY <3>3 DEF Return, Running, CheckPin, YieldBeforeStart, MarkRunning, Finalize, ClearOwnSignal,
          Release, AfterRelease
    <3>4. CASE HandingOver(t) /\ ~SettleSignal(t)
      BY <3>4 DEF HandingOver, Handover, Land, ClearLanded, ClearBeforeEnqueue, EnqueueYielded
    <3>5. CASE Mishap(t)
      BY <3>5 DEF Return, Mishap, PauseForBilling, StopForBilling, FailJob, ReleaseFails, AfterRelease,
          HandoverFails, RunnerRaises
    <3>6. CASE Load(t)
      <4>1. status[task[t].job] \in Plain
        BY <2>1 DEF SinglePinOK, TaskOK, Engaged
      <4>. QED BY <3>6, <4>1 DEF Return, Load, Plain
    <3>. QED BY <3>6, <3>1, <3>2, <3>3, <3>4, <3>5
  <2>. QED BY <2>1, <2>2, <1>3, <1>4, <1>5
<1>. QED BY <1>1, <1>2, <1>6, SinglePinQuiet

(* The watcher: a signal is one of the administrator's, after the pin, and *)
(* out of date is one that no pin answers for.                             *)
LEMMA SinglePinInWatch ==
    ASSUME TypeInv, FinishedKept, SinglePinOK, NEW t \in Tasks, Watching(t)
    PROVE  SinglePinOK'
<1>. USE DEF TypeInv
<1>0. /\ task \in [Tasks -> TaskType] /\ ctrl \in [Jobs -> Signals]
      /\ task[t].job \in Jobs /\ Engaged(t)
    BY DEF TypeOK, QueueTypeOK, TaskOK, Engaged, Watching, PollSignal, CheckRequeue, DropStaleSignal
<1>1. /\ pinOps' = pinOps /\ admin' = admin /\ status' = status /\ pinned' = pinned
      /\ \A k \in Jobs : ctrl'[k] \in {ctrl[k], "none"}
    BY <1>0 DEF Watching, PollSignal, CheckRequeue, DropStaleSignal, RenewLease, ClearSignal, Signal,
        TaskOnly, RedisOnly, rest, queueVars, dbVars
<1>2. \A k \in Jobs : status'[k] \in Plain
    BY <1>1 DEF SinglePinOK
<1>3. /\ \A u \in Tasks \ {t} : task'[u] = task[u]
      /\ task'[t].outcome \notin {"paused", "canceled"} /\ task'[t].job = task[t].job
      /\ task'[t].watch \in {"requeue", "stale"} => ~NoPinYet
      /\ task'[t].watch = "stale" => ~BlockedByPin(task[t].job)
  <2>1. CASE PollSignal(t)
    <3>0. PICK o, v : task' = [task EXCEPT ![t].outcome = o, ![t].watch = v]
                      /\ o = task[t].outcome /\ v \in {"off", "sleep", "requeue"}
                      /\ (v = "requeue" => ctrl[task[t].job] = "requeue")
      <4>. DEFINE c == ctrl[task[t].job]
                  o == CASE c = "cancel" -> "canceled" [] c = "pause" -> "paused" [] OTHER -> task[t].outcome
                  v == CASE c \in {"cancel", "pause"} -> "off" [] c = "requeue" -> "requeue"
                         [] OTHER -> IF task[t].outcome # "none" THEN "off" ELSE "sleep"
      <4>1. c # "pause" /\ c # "cancel"
        BY <1>0 DEF SinglePinOK
      <4>2. task' = [task EXCEPT ![t].outcome = o, ![t].watch = v]
        BY <2>1 DEF PollSignal
      <4>3. /\ o = task[t].outcome /\ v \in {"off", "sleep", "requeue"}
            /\ v = "requeue" => c = "requeue"
        BY <4>1
      <4>. HIDE DEF o, v
      <4>. QED BY <4>2, <4>3
    <3>1. task' = [task EXCEPT ![t] = [task[t] EXCEPT !.outcome = o, !.watch = v]]
      BY <1>0, <3>0
    <3>2. task'[t].outcome = o /\ task'[t].watch = v /\ task'[t].job = task[t].job
      BY <1>0, <3>1 DEF TaskType
    <3>3. \A u \in Tasks \ {t} : task'[u] = task[u]
      BY <1>0, <3>1
    <3>4. o \notin {"paused", "canceled"} /\ (v = "requeue" => ~NoPinYet) /\ v # "stale"
      BY <1>0, <3>0 DEF SinglePinOK
    <3>. QED BY <3>2, <3>3, <3>4
  <2>2. CASE CheckRequeue(t)
    <3>1. ~NoPinYet /\ task[t].outcome \notin {"paused", "canceled"}
      BY <2>2 DEF CheckRequeue, SinglePinOK
    <3>2. CASE BlockedByPin(task[t].job)
      <4>1. task' = [task EXCEPT ![t] = [task[t] EXCEPT !.outcome = "queued", !.watch = "off"]]
        BY <1>0, <2>2, <3>2 DEF CheckRequeue
      <4>2. task'[t].outcome = "queued" /\ task'[t].watch = "off" /\ task'[t].job = task[t].job
        BY <1>0, <4>1 DEF TaskType
      <4>. QED BY <1>0, <4>1, <4>2
    <3>3. CASE ~BlockedByPin(task[t].job)
      <4>1. task' = [task EXCEPT ![t] = [task[t] EXCEPT !.watch = "stale"]]
        BY <1>0, <2>2, <3>3 DEF CheckRequeue
      <4>2. task'[t].outcome = task[t].outcome /\ task'[t].job = task[t].job
        BY <1>0, <4>1 DEF TaskType
      <4>. QED BY <1>0, <3>1, <3>3, <4>1, <4>2
    <3>. QED BY <3>2, <3>3
  <2>3. CASE DropStaleSignal(t)
    <3>1. PICK v \in {"sleep", "off"} : task' = [task EXCEPT ![t].watch = v]
      BY <2>3 DEF DropStaleSignal
    <3>2. task' = [task EXCEPT ![t] = [task[t] EXCEPT !.watch = v]]
      BY <1>0, <3>1
    <3>3. task'[t].outcome = task[t].outcome /\ task'[t].watch = v /\ task'[t].job = task[t].job
      BY <1>0, <3>2 DEF TaskType
    <3>. QED BY <1>0, <3>2, <3>3 DEF SinglePinOK
  <2>. QED BY <2>1, <2>2, <2>3 DEF Watching
<1>4. ASSUME NEW u \in Tasks
      PROVE  /\ task'[u].outcome \notin {"paused", "canceled"}
             /\ task'[u].watch \in {"requeue", "stale"} => ~NoPinYet
             /\ Engaged(u)' /\ task'[u].watch = "stale" =>
                    task'[u].job \in Jobs /\ ~BlockedByPin(task'[u].job)
  <2>1. CASE u = t
    BY <1>0, <1>3, <2>1
  <2>2. CASE u # t
    BY <1>3, <2>2 DEF SinglePinOK, StaleMeetsNoPin, TaskOK, Engaged
  <2>. QED BY <2>1, <2>2
<1>. QED BY <1>1, <1>2, <1>4, SinglePinFrame

(* The workers' other steps, and the leases.                               *)
LEMMA SinglePinElsewhere ==
    ASSUME TypeInv, FinishedKept, SinglePinOK,
           \/ \E w \in Workers : Claiming(w) \/ Beating(w) \/ Reap(w) \/ Stopping(w)
           \/ \E j \in Jobs : LeaseLapses(j) \/ LeaseLapsesInStall(j)
           \/ UNCHANGED vars
    PROVE  SinglePinOK'
<1>1. /\ pinOps' = pinOps /\ admin' = admin /\ status' = status /\ pinned' = pinned /\ ctrl' = ctrl
      /\ \A t \in Tasks : task'[t] = task[t] \/ (task'[t].outcome \notin {"paused", "canceled"} /\ task'[t].watch = "sleep")
  <2>1. ASSUME NEW w \in Workers, Claiming(w)
        PROVE  /\ pinOps' = pinOps /\ admin' = admin /\ status' = status /\ pinned' = pinned /\ ctrl' = ctrl
               /\ \A t \in Tasks : task'[t] = task[t] \/ (task'[t].outcome \notin {"paused", "canceled"} /\ task'[t].watch = "sleep")
    <3>1. /\ pinOps' = pinOps /\ admin' = admin /\ status' = status /\ pinned' = pinned /\ ctrl' = ctrl
      BY <2>1 DEF Claiming, StartScan, NothingToClaim, ClaimRefused, ClaimBlocked, Claim, ClaimJob,
          rest, dbVars, queueVars
    <3>2. ASSUME NEW j \in Jobs, NEW u \in Tasks, Claim(w, u, j)
          PROVE  \A t \in Tasks : task'[t] = task[t] \/ (task'[t].outcome \notin {"paused", "canceled"} /\ task'[t].watch = "sleep")
      BY <3>2 DEF Claim, IdleTask, TypeInv, TypeOK
    <3>. QED BY <2>1, <3>1, <3>2 DEF Claiming, StartScan, NothingToClaim, ClaimRefused
  <2>2. ASSUME NEW w \in Workers, Beating(w) \/ Reap(w) \/ Stopping(w)
        PROVE  /\ pinOps' = pinOps /\ admin' = admin /\ status' = status /\ pinned' = pinned /\ ctrl' = ctrl
               /\ \A t \in Tasks : task'[t] = task[t] \/ (task'[t].outcome \notin {"paused", "canceled"} /\ task'[t].watch = "sleep")
    BY <2>2 DEF Vanish, Beating, StartHeartbeat, HeartbeatRenew, RenewLease, Reap, ReapExpired, Stopping,
        Crash, RequestShutdown, Drained, IdleTask, rest, dbVars, queueVars
  <2>3. ASSUME NEW j \in Jobs, LeaseLapses(j) \/ LeaseLapsesInStall(j)
        PROVE  pinOps' = pinOps /\ admin' = admin /\ status' = status /\ pinned' = pinned /\ ctrl' = ctrl
               /\ task' = task
    BY <2>3 DEF LeaseLapses, LeaseLapsesInStall, LapseLease, rest, dbVars
  <2>4. CASE UNCHANGED vars
    BY <2>4 DEF vars, rest, dbVars, queueVars
  <2>. QED BY <2>1, <2>2, <2>3, <2>4
<1>2. \A k \in Jobs : status'[k] \in Plain
    BY <1>1 DEF SinglePinOK
<1>. QED BY <1>1, <1>2, SinglePinQuiet

(* The administrator: the one pin, and what follows it.                    *)
LEMMA SinglePinByAdmin ==
    ASSUME TypeInv, FinishedKept, SinglePinOK, MaxPins = 1,
           Preempting \/ \E j \in Jobs : PinJob(j) \/ UnpinJob(j)
    PROVE  SinglePinOK'
<1>0. /\ pinOps \in Nat /\ pinned \in [Jobs -> BOOLEAN] /\ ctrl \in [Jobs -> Signals]
      /\ admin.pc # "idle" => admin.job \in Jobs
    BY DEF TypeInv, TypeOK, QueueTypeOK, AdminOK
<1>1. ASSUME NEW j \in Jobs, PinJob(j) PROVE SinglePinOK'
  <2>0. pinOps < MaxPins /\ pinOps' = pinOps + 1
    BY <1>1 DEF PinJob
  <2>1. pinOps = 0 /\ pinOps' # 0 /\ NoPinYet
    BY <1>0, <2>0 DEF NoPinYet
  <2>2. pinned' = pinned /\ status' = status /\ ctrl' = ctrl /\ task' = task
    BY <1>1 DEF PinJob, queueVars, dbVars
  <2>3. status[j] \in PinBlockingStatuses
    BY <1>1 DEF PinJob, SinglePinOK, Plain, PinBlockingStatuses
  <2>4. admin'.preempts
    BY <1>1, <2>3 DEF PinJob, IdleAdmin
  <2>5. StaleMeetsNoPin'
    BY <2>1, <2>2 DEF StaleMeetsNoPin, SinglePinOK
  <2>. QED BY <2>1, <2>2, <2>4, <2>5 DEF SinglePinOK
<1>2. ASSUME NEW j \in Jobs, UnpinJob(j) PROVE SinglePinOK'
  <2>1. /\ pinOps' = pinOps /\ admin' = admin /\ status' = status /\ ctrl' = ctrl /\ task' = task
        /\ \A k \in Jobs : pinned'[k] => pinned[k]
    BY <1>0, <1>2 DEF UnpinJob, Unpin, rest, queueVars
  <2>. QED BY <2>1, SinglePinQuiet DEF SinglePinOK
<1>4. CASE CommitPin
  <2>1. NoPinYet /\ pinOps # 0 /\ pinOps' = pinOps
    BY <1>4 DEF CommitPin, NoPinYet, SinglePinOK, rest
  <2>2. status' = status /\ ctrl' = ctrl /\ task' = task
    BY <1>4 DEF CommitPin, queueVars
  <2>3. \A k \in Jobs : pinned'[k] => k = admin.job
    BY <1>0, <1>4, <2>1 DEF CommitPin, SinglePinOK
  <2>4. admin'.pc # "commit"
    BY <1>4 DEF CommitPin, IdleAdmin
  <2>5. StaleMeetsNoPin'
    BY <2>1, <2>2 DEF StaleMeetsNoPin, SinglePinOK
  <2>6. ~NoPinYet'
    BY <2>1, <2>4 DEF NoPinYet
  <2>. QED BY <2>1, <2>2, <2>3, <2>4, <2>5, <2>6 DEF SinglePinOK
<1>3. CASE Preempting /\ ~CommitPin
  <2>0. admin.pc \in {"scan", "registered", "walk", "signal"} /\ admin \in AdminType
    BY <1>3 DEF Preempting, PreemptScan, PreemptRegistered, PreemptPick, PreemptSignal, PreemptDone,
        TypeInv, TypeOK
  <2>3. admin'.pc # "commit"
    <3>0. IdleAdmin.pc = "idle"
      BY DEF IdleAdmin
    <3>1. CASE PreemptScan
      <4>1. admin' = IdleAdmin \/ admin'.pc = "registered"
        BY <3>1, <2>0 DEF PreemptScan, AdminType
      <4>. QED BY <3>0, <4>1
    <3>5. CASE PreemptDone
      BY <3>0, <3>5 DEF PreemptDone
    <3>2. CASE PreemptRegistered
      BY <3>2, <2>0 DEF PreemptRegistered, AdminType
    <3>3. CASE PreemptSignal
      BY <3>3, <2>0 DEF PreemptSignal, AdminType
    <3>4. ASSUME NEW k \in Jobs, PreemptPick(k) PROVE admin'.pc # "commit"
      BY <3>4, <2>0 DEF PreemptPick, AdminType
    <3>. QED BY <1>3, <3>1, <3>2, <3>3, <3>4, <3>5 DEF Preempting
  <2>4. pinOps' = pinOps /\ status' = status /\ pinned' = pinned /\ task' = task
    BY <1>3 DEF Preempting, PreemptScan, PreemptRegistered, PreemptPick, PreemptSignal, PreemptDone,
        rest, dbVars
  <2>1. ~NoPinYet
    BY <2>0 DEF SinglePinOK, NoPinYet
  <2>2. \A k \in Jobs : ctrl'[k] \in {ctrl[k], "none", "requeue"}
    BY <1>0, <1>3 DEF Preempting, PreemptScan, PreemptRegistered, PreemptPick, PreemptSignal, PreemptDone,
        SignalIfAbsent, queueVars
  <2>. QED BY <2>1, <2>2, <2>3, <2>4, SinglePinQuiet DEF SinglePinOK
<1>. QED BY <1>1, <1>2, <1>3, <1>4

(* Where one job is pinned once and none is billed separately or fails,    *)
(* nothing more is asked of the pins (run dispatch_pins): every run that   *)
(* has to make room has been told, in any number of jobs, workers and      *)
(* models.                                                                 *)
THEOREM FirstPinIsHeard ==
    ASSUME "stall" \notin FaultKinds, MaxPins = 1, BilledJobs = {}, FailingJobs = {}
    PROVE  Spec => []PinReachesRunners
<1>1. TypeInv /\ Exclusive /\ FinishedUntouched /\ [Next]_vars
          => Exclusive' /\ FinishedUntouched' /\ FinishedKept
    BY ExclusiveStep, FinishedStep
<1>2. TypeInv /\ FinishedKept /\ SinglePinOK /\ [Next]_vars => SinglePinOK'
    BY SinglePinInRun, SinglePinInWatch, SinglePinElsewhere, SinglePinByAdmin DEF Next
<1>3. Init => SinglePinOK
    BY DEF Init, DispatchInit, SinglePinOK, NoPinYet, Plain, StaleMeetsNoPin, Engaged, IdleTask, IdleAdmin
<1>4. SinglePinOK => PinsAreQuiet
    BY DEF SinglePinOK, PinsAreQuiet, OnePinPerModel, PinnedRuns, PinReadHolds, Plain
<1>5. TypeInv /\ Exclusive /\ FinishedUntouched /\ SinglePinOK /\ [Next]_vars => SinglePinOK'
    BY <1>1, <1>2
<1>6. Spec /\ []PinsAreQuiet => []PinReachesRunners
    BY PinsAreHeard
<1>7. TypeInv /\ Exclusive /\ FinishedUntouched /\ [Next]_vars => Exclusive' /\ FinishedUntouched'
    BY <1>1
<1>. QED BY <1>3, <1>4, <1>5, <1>6, <1>7, TypeInvInit, TypeInvStep, ExclusiveInit, FinishedInit, PTL DEF Spec
=============================================================================
