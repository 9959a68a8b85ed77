------------------------------ MODULE JobQueue ------------------------------
(***************************************************************************)
(* The Redis queue of services/queue.py: every operation the API and the   *)
(* workers call is one Redis command, one Lua script or one MULTI          *)
(* pipeline, hence one action here.  The callers are JobDispatch and       *)
(* JobControl; Spec below lets anybody call anything at any time, so that  *)
(* what holds of it holds whatever the callers do.                         *)
(*                                                                         *)
(*   queue         ZSET queue         jobs waiting (not their order)       *)
(*   lease         ZSET leases        none, fresh (score > now), expired   *)
(*   jobModel      HASH job_model     model a job was claimed under        *)
(*   modelRunning  SETs model_running jobs registered under a model        *)
(*   ctrl          STRING ctrl:<job>  control signal                       *)
(*                                                                         *)
(* The owner HASH is written with the lease and read by nobody: left out.  *)
(* _drop is an HGET followed by a pipeline; the two are one action here.   *)
(* If a claim slips in between, the pipeline forgets one SREM and leaves a *)
(* member without lease, which ClaimJob purges like any other.             *)
(*                                                                         *)
(* A definition marked "mutant", here and in the modules that extend this  *)
(* one, is a plausible bug in the definition that follows it, and no part  *)
(* of the model: a property is known to bite when a mutant breaks it.      *)
(***************************************************************************)
EXTENDS Naturals, FiniteSets

CONSTANTS
    Jobs,       \* job ids
    Models,     \* real model names
    NoModel,    \* the empty model name: the job takes no slot
    JobLimit    \* job_limit_for: model -> max running jobs, 0 = no limit

ASSUME JobsFinite == IsFiniteSet(Jobs)
ASSUME JobLimitType == JobLimit \in [Models -> Nat]
ASSUME NoModelIsNoModel == NoModel \notin Models

VARIABLES queue, lease, jobModel, modelRunning, ctrl

queueVars == <<queue, lease, jobModel, modelRunning, ctrl>>

Signals == {"none", "cancel", "pause", "requeue"}

QueueTypeOK ==
    /\ queue \subseteq Jobs
    /\ lease \in [Jobs -> {"none", "fresh", "expired"}]
    /\ jobModel \in [Jobs -> Models \cup {NoModel}]
    /\ modelRunning \in [Models -> SUBSET Jobs]
    /\ ctrl \in [Jobs -> Signals]

QueueInit ==
    /\ queue = {}
    /\ lease = [j \in Jobs |-> "none"]
    /\ jobModel = [j \in Jobs |-> NoModel]
    /\ modelRunning = [m \in Models |-> {}]
    /\ ctrl = [j \in Jobs |-> "none"]

HasLease(j) == lease[j] # "none"

CountedOn_NoPurge(m) == modelRunning[m]                           \* mutant

(* The members of a running set the claim script counts; it removes the    *)
(* others on the way.                                                      *)
CountedOn(m) == {k \in modelRunning[m] : HasLease(k)}

HasRoom_OneTooMany(m) == Cardinality(CountedOn(m)) <= JobLimit[m]  \* mutant

HasRoom(m) == JobLimit[m] = 0 \/ Cardinality(CountedOn(m)) < JobLimit[m]
Purged(m) == IF JobLimit[m] = 0 THEN modelRunning[m] ELSE CountedOn(m)

(* CLAIM_OK: off the queue, under a lease, in the model's running set.     *)
ClaimJob(j, m) ==
    /\ j \in queue
    /\ m # NoModel => HasRoom(m)
    /\ queue' = queue \ {j}
    /\ lease' = [lease EXCEPT ![j] = "fresh"]
    /\ IF m = NoModel
       THEN UNCHANGED <<jobModel, modelRunning>>
       ELSE /\ jobModel' = [jobModel EXCEPT ![j] = m]
            /\ modelRunning' = [modelRunning EXCEPT ![m] = Purged(m) \cup {j}]
    /\ UNCHANGED ctrl

(* CLAIM_BLOCKED: the model is full; dead members are purged all the same. *)
ClaimBlocked(j, m) ==
    /\ j \in queue
    /\ m # NoModel /\ ~HasRoom(m)
    /\ modelRunning' = [modelRunning EXCEPT ![m] = CountedOn(m)]
    /\ UNCHANGED <<queue, lease, jobModel, ctrl>>

Enqueue(j) ==
    /\ queue' = queue \cup {j}
    /\ UNCHANGED <<lease, jobModel, modelRunning, ctrl>>

(* _drop without the dequeue: lease, job_model entry and model slot go.    *)
DropLease(j) ==
    /\ lease' = [lease EXCEPT ![j] = "none"]
    /\ jobModel' = [jobModel EXCEPT ![j] = NoModel]
    /\ modelRunning' = [m \in Models |->
           IF m = jobModel[j] THEN modelRunning[m] \ {j} ELSE modelRunning[m]]
    /\ UNCHANGED ctrl

ReleaseLease(j) == DropLease(j) /\ UNCHANGED queue
Remove(j) == DropLease(j) /\ queue' = queue \ {j}

(* ZADD with no condition: it also creates a lease that does not exist.    *)
RenewLease(j) ==
    /\ lease' = [lease EXCEPT ![j] = "fresh"]
    /\ UNCHANGED <<queue, jobModel, modelRunning, ctrl>>

(* Time passes the score of a lease.                                       *)
LapseLease(j) ==
    /\ lease[j] = "fresh"
    /\ lease' = [lease EXCEPT ![j] = "expired"]
    /\ UNCHANGED <<queue, jobModel, modelRunning, ctrl>>

Expired_AnyLease == {j \in Jobs : lease[j] # "none"}               \* mutant

Expired == {j \in Jobs : lease[j] = "expired"}

ReapExpired_NotRequeued ==                                         \* mutant
    /\ Expired # {}
    /\ lease' = [j \in Jobs |-> IF j \in Expired THEN "none" ELSE lease[j]]
    /\ UNCHANGED <<queue, jobModel, modelRunning, ctrl>>

(* Every expired lease at once; neither model_running nor the signal is    *)
(* touched.                                                                *)
ReapExpired ==
    /\ Expired # {}
    /\ lease' = [j \in Jobs |-> IF j \in Expired THEN "none" ELSE lease[j]]
    /\ queue' = queue \cup Expired
    /\ UNCHANGED <<jobModel, modelRunning, ctrl>>

Signal(j, s) ==
    /\ ctrl' = [ctrl EXCEPT ![j] = s]
    /\ UNCHANGED <<queue, lease, jobModel, modelRunning>>

(* SET NX: only_if_absent, used for requeue.                               *)
SignalIfAbsent(j, s) ==
    /\ ctrl' = [ctrl EXCEPT ![j] = IF @ = "none" THEN s ELSE @]
    /\ UNCHANGED <<queue, lease, jobModel, modelRunning>>

ClearSignal(j) == Signal(j, "none")

QueueNext ==
    \E j \in Jobs :
        \/ \E m \in Models \cup {NoModel} : ClaimJob(j, m) \/ ClaimBlocked(j, m)
        \/ Enqueue(j)
        \/ ReleaseLease(j)
        \/ Remove(j)
        \/ RenewLease(j)
        \/ LapseLease(j)
        \/ ReapExpired
        \/ Signal(j, "cancel") \/ Signal(j, "pause")
        \/ SignalIfAbsent(j, "requeue")
        \/ ClearSignal(j)

QueueSpec == QueueInit /\ [][QueueNext]_queueVars

-----------------------------------------------------------------------------
(* A model's running set never outgrows its limit, whoever claims, renews, *)
(* releases or reaps what: dead members are purged before one is added.    *)
(* queue.py:12-13 promises it of concurrent claims.                        *)
SlotsBounded ==
    \A m \in Models : JobLimit[m] > 0 => Cardinality(modelRunning[m]) <= JobLimit[m]
=============================================================================
