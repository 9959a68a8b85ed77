----------------------------- MODULE Submission -----------------------------
(***************************************************************************)
(* The files of a user: uploads waiting to be submitted, the inputs and    *)
(* results of jobs, the quotas they count against (services/storage.py),   *)
(* the handlers that create, resume, retry and delete jobs (api/jobs.py)   *)
(* and the retention sweep that removes what is old (services/retention.py)*)
(*                                                                         *)
(* Files and rows change at different times: a handler checks, awaits, and *)
(* acts on what it saw.  Handlers run at once, also for a caller who gave  *)
(* up waiting.  Jobs run as the modules JobControl and Items have it; here *)
(* only what a run leaves behind counts, one unit of results.              *)
(***************************************************************************)
EXTENDS Naturals, Sequences, FiniteSets, FiniteSetsExt

CONSTANTS
    Requests,     \* handlers that can run at once
    Size(_),      \* how long the file of a part is
    Limit,        \* the user's quota; the one of all users is checked alike
    MaxActive,    \* users.max_concurrent_jobs
    MaxUploads,   \* bound: files uploaded
    MaxEvents     \* bound: requests for jobs, sweeps, timeouts and failures

ASSUME SubmissionAssumption ==
    /\ Limit \in Nat \ {0} /\ MaxActive \in Nat \ {0} /\ MaxUploads \in Nat /\ MaxEvents \in Nat

VARIABLES
    part,        \* upload -> what the caller sent
    staged,      \* <user>__<upload>.jsonl on disk
    jobs,        \* job -> its row; a job exists as a file before it has one
    inputs,      \* <job>.jsonl on disk
    req,         \* the handlers
    sweep,       \* the retention sweep
    broken,      \* history: jobs whose file a handler left behind when it stopped
    overlap,     \* history: jobs a sweep and a handler had read at the same time
    revived,     \* history: jobs resumed or retried
    rushed,      \* history: which requests were handled two at a time
    events       \* bound

filesVars == <<part, staged, jobs, inputs>>
history == <<broken, overlap, revived, rushed>>
server == <<part, staged, jobs, inputs, req, sweep, broken, overlap, revived, rushed, events>>

Happens == events < MaxEvents /\ events' = events + 1

Uploads == DOMAIN part
Jobs == DOMAIN jobs
Terminal == {"succeeded", "completed", "failed", "canceled"}
Active == {"queued", "running"}
Rows == {j \in Jobs : jobs[j].status \notin {"new", "gone"}}
NewJob(u) == [from |-> u, status |-> "new", purged |-> FALSE, failed |-> FALSE, result |-> "none"]

Idle == [pc |-> "idle"]
Free == {r \in Requests : req[r] = Idle}
Asked(op) == {r \in Requests : req[r] # Idle /\ req[r].op = op /\ req[r].pc # "done"}
Rush(op, with) == rushed' = IF with = {} THEN rushed ELSE rushed \cup {op}

Init ==
    /\ part = <<>> /\ staged = {} /\ jobs = <<>> /\ inputs = {}
    /\ req = [r \in Requests |-> Idle]
    /\ sweep = [pc |-> "idle", rows |-> {}]
    /\ broken = {} /\ overlap = {} /\ revived = {} /\ rushed = {} /\ events = 0

-----------------------------------------------------------------------------
(* A handler is opened by a caller, and answers it if it still waits. *)
Refused == 0
Request(op, by, what) == [op |-> op, pc |-> "done", by |-> by, what |-> what, answer |-> Refused]
Open(r, request) == req' = [req EXCEPT ![r] = request]
Goto(r, pc) == req' = [req EXCEPT ![r].pc = pc]
Answered(request) == IF request.by = "cli" THEN request ELSE Idle
Reply(r, answer) ==
    req' = [req EXCEPT ![r] = Answered([@ EXCEPT !.pc = "done", !.answer = answer])]
At(r, op, pc) == req[r] # Idle /\ req[r].op = op /\ req[r].pc = pc

(* Handlers that stop before they changed anything. *)
Refuse(r) == Reply(r, Refused) /\ UNCHANGED <<filesVars, sweep, history, events>>
Proceed(r, pc) == Goto(r, pc) /\ UNCHANGED <<filesVars, sweep, history, events>>

-----------------------------------------------------------------------------
(* check_before_upload: what the rows of jobs that were not purged and the *)
(* files that wait in the upload directory take.                           *)
InputSize(j) == Size(part[jobs[j].from])
Kept == {j \in Rows : ~jobs[j].purged}
JobBytes == MapThenSumSet(InputSize, Kept) + Cardinality({j \in Kept : jobs[j].result # "none"})
PendingUploadBytes == MapThenSumSet(LAMBDA u : Size(part[u]), staged)
Used_Submitted == JobBytes    \* mutant
Used == JobBytes + PendingUploadBytes
Remaining == IF Used < Limit THEN Limit - Used ELSE 0
WouldExceed == Used > Limit

(* A file that create_job has moved and not yet inserted counts nowhere. *)
Moved == {r \in Requests : At(r, "create", "insert")}
(* upload_jsonl, until the body arrives ... *)
AskUpload(r, request) ==
    /\ Open(r, IF WouldExceed THEN Answered(request)
               ELSE [request EXCEPT !.pc = "store", !.answer = Remaining])
    /\ Rush("upload", Asked("upload") \cup Moved) /\ UNCHANGED <<filesVars, sweep, broken, overlap, revived>>
(* ... and until it is stored and validated. *)
Store(r) ==
    /\ At(r, "upload", "store")
    /\ IF Size(req[r].what) > req[r].answer THEN Refuse(r)
       ELSE /\ part' = Append(part, req[r].what)
            /\ staged' = staged \cup {Len(part) + 1}
            /\ Reply(r, Len(part) + 1)
            /\ UNCHANGED <<jobs, inputs, sweep, history, events>>

(* create_job: the upload is there ... *)
AskCreate(r, request) ==
    /\ Open(r, IF request.what \in staged THEN [request EXCEPT !.pc = "count"] ELSE Answered(request))
    /\ Rush("create", Asked("create")) /\ UNCHANGED <<filesVars, sweep, broken, overlap, revived>>

ActiveJobs == {j \in Jobs : jobs[j].status \in Active}
(* ... the user has room for it, if the model and the project exist ... *)
Count(r) ==
    /\ At(r, "create", "count")
    /\ \/ Cardinality(ActiveJobs) < MaxActive /\ Proceed(r, "move")
       \/ Refuse(r)

Taken_Copied(u) == staged    \* mutant
Taken(u) == staged \ {u}
(* ... and it is valid: it becomes the input of a job, unless another      *)
(* handler or the sweep took it meanwhile.                                 *)
Move(r) ==
    /\ At(r, "create", "move")
    /\ LET u == req[r].what
       IN IF u \notin staged THEN Refuse(r)
          ELSE /\ staged' = Taken(u)
               /\ jobs' = Append(jobs, NewJob(u)) /\ inputs' = inputs \cup {Len(jobs) + 1}
               /\ req' = [req EXCEPT ![r].pc = "insert", ![r].answer = Len(jobs) + 1]
               /\ UNCHANGED <<part, sweep, history, events>>
(* Only now the parameters are resolved and the row is inserted; if either *)
(* fails the file stays.  enqueue_job follows; if the queue cannot be      *)
(* reached the job has failed.                                             *)
Insert(r) ==
    /\ At(r, "create", "insert")
    /\ LET j == req[r].answer
       IN \/ /\ jobs' = [jobs EXCEPT ![j].status = "queued"] /\ Reply(r, j)
             /\ UNCHANGED <<part, staged, inputs, sweep, history, events>>
          \/ /\ Happens /\ jobs' = [jobs EXCEPT ![j].status = "failed"] /\ Reply(r, Refused)
             /\ UNCHANGED <<part, staged, inputs, sweep, history>>
          \/ /\ Happens /\ broken' = broken \cup {j} /\ Reply(r, Refused)
             /\ UNCHANGED <<filesVars, sweep, overlap, revived, rushed>>

-----------------------------------------------------------------------------
(* Requests for a job that exists. *)

Restartable(j) ==
    /\ jobs[j].status \in {"paused", "failed", "canceled"}
    /\ ~jobs[j].purged /\ j \in inputs
Retryable_PurgedToo(j) == jobs[j].status \in Terminal /\ jobs[j].failed    \* mutant
Retryable(j) ==
    /\ jobs[j].status \in Terminal /\ jobs[j].failed
    /\ ~jobs[j].purged /\ j \in inputs

(* A handler and the sweep hold the same row. *)
Held(j) == IF j \in sweep.rows THEN overlap \cup {j} ELSE overlap

(* resume_job reads the row, clears the signal ... *)
AskResume(r, request) ==
    /\ Restartable(request.what)
    /\ Open(r, [request EXCEPT !.pc = "commit"]) /\ overlap' = Held(request.what)
    /\ UNCHANGED <<filesVars, sweep, broken, revived, rushed>>
(* ... retry_failed, before it clears the errors ... *)
AskRetry(r, request) ==
    /\ Retryable(request.what)
    /\ Open(r, [request EXCEPT !.pc = "commit"]) /\ overlap' = Held(request.what)
    /\ jobs' = [jobs EXCEPT ![request.what].result = "none"]
    /\ UNCHANGED <<part, staged, inputs, sweep, broken, revived, rushed>>
(* ... and both write what they read, unless the job was deleted. *)
Restart(r) ==
    /\ req[r] # Idle /\ req[r].pc = "commit"
    /\ LET j == req[r].what
       IN IF jobs[j].status = "gone" THEN Refuse(r)
          ELSE /\ jobs' = [jobs EXCEPT ![j].status = "queued",
                                       ![j].failed = @ /\ req[r].op = "resume"]
               /\ revived' = revived \cup {j} /\ Reply(r, j)
               /\ UNCHANGED <<part, staged, inputs, sweep, broken, overlap, rushed, events>>

(* delete_job reads the row, and cuts what was not billed ... *)
AskDelete(r, request) ==
    /\ jobs[request.what].status \notin Active
    /\ Open(r, [request EXCEPT !.pc = "erase"])
    /\ UNCHANGED <<filesVars, sweep, history>>
(* ... deletes it, whatever it says by now; another handler may have ... *)
Erase(r) ==
    /\ At(r, "delete", "erase")
    /\ \/ jobs[req[r].what].status = "gone" /\ Refuse(r)
       \/ /\ jobs' = [jobs EXCEPT ![req[r].what].status = "gone"]
          /\ Goto(r, "files")
          /\ UNCHANGED <<part, staged, inputs, sweep, history, events>>
DeleteJobFiles_Results(r) ==    \* mutant
    /\ At(r, "delete", "files") /\ Reply(r, req[r].what)
    /\ UNCHANGED <<filesVars, sweep, history, events>>
(* ... and the files, unless it cannot reach the queue before. *)
DeleteJobFiles(r) ==
    /\ At(r, "delete", "files")
    /\ \/ inputs' = inputs \ {req[r].what} /\ Reply(r, req[r].what) /\ UNCHANGED <<broken, events>>
       \/ broken' = broken \cup {req[r].what} /\ Reply(r, Refused) /\ Happens /\ UNCHANGED inputs
    /\ UNCHANGED <<part, staged, jobs, sweep, overlap, revived, rushed>>

(* The server stops: its handlers with it. *)
Half == {req[r].answer : r \in {q \in Requests : At(q, "create", "insert")}}
        \cup {req[r].what : r \in {q \in Requests : At(q, "delete", "files")}}
Crash ==
    /\ Happens /\ \E r \in Requests : req[r] \notin {Idle}
    /\ req' = [r \in Requests |->
                  IF req[r] # Idle /\ req[r].by = "cli"
                  THEN [req[r] EXCEPT !.pc = "done", !.answer = Refused] ELSE Idle]
    /\ broken' = broken \cup Half
    /\ UNCHANGED <<filesVars, sweep, overlap, revived, rushed>>

Handler(r) ==
    Store(r) \/ Count(r) \/ Move(r) \/ Insert(r) \/ Restart(r) \/ Erase(r) \/ DeleteJobFiles(r)

-----------------------------------------------------------------------------
(* A run, from outside: it fails to start, as without its input it must,   *)
(* or starts; pauses, fails, or ends with its item answered or failed.     *)
Runs(j) ==
    /\ \/ /\ jobs[j].status = "queued" /\ j \in inputs
          /\ jobs' = [jobs EXCEPT ![j].status = "running"]
       \/ /\ jobs[j].status = "queued"
          /\ jobs' = [jobs EXCEPT ![j].status = "failed"]
       \/ /\ jobs[j].status = "running"
          /\ \E stop \in {"paused", "failed"} : jobs' = [jobs EXCEPT ![j].status = stop]
       \/ /\ jobs[j].status = "running" /\ jobs[j].result # "error"
          /\ jobs' = [jobs EXCEPT ![j].status = "succeeded", ![j].result = "ok", ![j].failed = FALSE]
       \/ /\ jobs[j].status = "running" /\ jobs[j].result # "ok"
          /\ jobs' = [jobs EXCEPT ![j].status = "completed", ![j].result = "error", ![j].failed = TRUE]
    /\ UNCHANGED <<part, staged, inputs, req, sweep, history, events>>

-----------------------------------------------------------------------------
(* retention.sweep, in the worker or for an administrator *)

Expired(j) == jobs[j].status \in Terminal /\ ~jobs[j].purged

Handled(rows) ==
    {j \in rows : \E r \in Asked("resume") \cup Asked("retry") : req[r].what = j /\ req[r].pc = "commit"}
(* Which rows are old enough is left open ... *)
SweepRead ==
    /\ sweep.pc = "idle" /\ Happens
    /\ \E rows \in SUBSET {j \in Rows : Expired(j)} \ {{}}, withInputs \in BOOLEAN :
        /\ sweep' = [pc |-> "files", rows |-> rows, withInputs |-> withInputs]
        /\ overlap' = overlap \cup Handled(rows)
    /\ UNCHANGED <<filesVars, req, broken, revived, rushed>>
(* ... their files go ... *)
SweepFiles ==
    /\ sweep.pc = "files"
    /\ inputs' = IF sweep.withInputs THEN inputs \ sweep.rows ELSE inputs
    /\ jobs' = [j \in Jobs |-> IF j \in sweep.rows THEN [jobs[j] EXCEPT !.result = "none"] ELSE jobs[j]]
    /\ sweep' = [sweep EXCEPT !.pc = "commit"]
    /\ UNCHANGED <<part, staged, req, history, events>>
(* ... and the rows are marked, all or, when one was deleted, none. *)
SweepCommit ==
    /\ sweep.pc = "commit"
    /\ jobs' = IF sweep.rows \subseteq Rows
               THEN [j \in Jobs |-> [jobs[j] EXCEPT !.purged = @ \/ j \in sweep.rows]] ELSE jobs
    /\ sweep' = [pc |-> "idle", rows |-> {}]
    /\ UNCHANGED <<part, staged, inputs, req, history, events>>
(* It may stop before it commits. *)
SweepStops ==
    /\ sweep.pc = "commit" /\ Happens
    /\ sweep' = [pc |-> "idle", rows |-> {}]
    /\ UNCHANGED <<filesVars, req, history>>
(* _purge_stale_uploads: nobody submitted it for hours *)
PurgeStale ==
    /\ Happens /\ \E u \in staged : staged' = staged \ {u}
    /\ UNCHANGED <<part, jobs, inputs, req, sweep, history>>

Sweeper == SweepRead \/ SweepFiles \/ SweepCommit \/ SweepStops \/ PurgeStale
ServerStep == (\E r \in Requests : Handler(r)) \/ (\E j \in Jobs : Runs(j)) \/ Sweeper \/ Crash

-----------------------------------------------------------------------------
(* An upload becomes the input of one job only (shutil.move, api/jobs.py:  *)
(* 284) and waits no more, though a caller who timed out asks for it a     *)
(* second time while the first handler still runs.                         *)
OneJobPerUpload ==
    /\ \A j \in Jobs : jobs[j].from \in Uploads \ staged
    /\ \A i, j \in Jobs : jobs[i].from = jobs[j].from => i = j

(* A job that is to run has its input (api/jobs.py:947, 1026), unless a    *)
(* resume or a retry and a sweep both held its row.                        *)
NoInputLost == \A j \in Jobs : jobs[j].status \in Active => j \in inputs \cup overlap

(* An input file without a row is under a handler's care or was left by    *)
(* one that broke off: nothing else would ever remove it.                  *)
NoStrayInput == \A j \in inputs \ (Rows \cup broken) :
    \E r \in Requests : \/ At(r, "create", "insert") /\ req[r].answer = j
                        \/ At(r, "delete", "files") /\ req[r].what = j

(* What was uploaded stays within the quota (services/storage.py:104),     *)
(* whether it waits or was submitted and however long an upload takes,     *)
(* unless two were under way at the same time or one was checked while a   *)
(* job took over its file; and max_concurrent_jobs (api/jobs.py:268) holds *)
(* for all but resumed jobs, unless two were created at the same time.     *)
StorageBounded == "upload" \notin rushed =>
    PendingUploadBytes + MapThenSumSet(InputSize, Kept) =< Limit
JobsBounded == "create" \notin rushed =>
    Cardinality({j \in Jobs \ revived : jobs[j].status \in Active}) =< MaxActive
QuotasKept == StorageBounded /\ JobsBounded
=============================================================================
