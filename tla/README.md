# Batch inference console: a TLA+ model

This directory models the parts of the program where things go wrong without
anybody noticing: several worker processes, an API, administrators and a
command-line client act on one job through a Redis queue, a database and files,
and no transaction spans them.  TLC checks the modules on small instances, TLAPS
proves most of their invariants for every instance.

## 1. Inventory

### Components

| Component | State | Operations | What makes it correct |
|---|---|---|---|
| Redis queue (`services/queue.py`) | queue and order ZSETs, leases ZSET, `job_model` HASH, one running SET per model, one signal key per job | claim (Lua), enqueue, remove, release, renew, reap (Lua), signal, clear, rescore, reorder | a job is claimed once; running sets stay within the model's limit; an expired lease puts its job back; the order is priority, then age |
| Worker process (`worker/main.py`) | tasks, `running`, draining flag | claim loop, `_run_job`, heartbeat, reaper, retention and billing loops, shutdown | one task per job; every claimed job is released; a yielding job is released *before* it is queued |
| Job runner (`worker/runner.py`) | the outcome its watcher chose, result buffers, counters | load, check pin, prepare billing, mark running, dispatch, watch signals, finalize, fail | stops when told to; never starts what is finished; final status written once |
| Pins (`services/pins.py`, `pin_job`, `unpin_job`) | `jobs.pinned` | pin, unpin, preempt, requeue the preempted | nothing else runs on a pinned job's model; a preempted job comes back |
| Model limits (`services/model_limits.py`) | configuration | name and limit of a job's model | no more jobs run on a model than its limit |
| Job control API (`api/jobs.py`) | none of its own: a handler holds what it read | upload, create, cancel, pause, pause-all, resume, retry-failed, change priority or model, reorder, delete | a request that was accepted takes effect, whatever the worker does meanwhile |
| Results (`services/results.py`, `services/jsonl.py`) | output and error files, buffers, what the scan found | append, flush, scan, mark done, clear errors for a retry | an item is answered once, none is skipped, the row's counts are those of the files |
| Inference client (`services/inference.py`) | bucket of the limiter | acquire, settle, complete, merge parameters | waiting ends; a request ends; forced parameters win |
| Billing (`services/billing.py`, `api/billing.py`) | billed counters, billing records, claims | cut, claim, send, save, sweep, rebase, retry, settle | no token is in two records; no record is charged twice; what is shown adds up; every bill comes to an end |
| Retention (`services/retention.py`) | purge marks, files | sweep, purge | files of a job that may run are kept, others go |
| Storage quota (`services/storage.py`) | sums over rows and staged files | check, usage | what is stored stays within the quota |
| Projects and users (`services/projects.py`, `services/users.py`, `api/projects.py`, `api/users.py`) | rows | default project, create, rename, delete; roles, disabling, deletion | one default project; one administrator left; no job without a project |
| Authentication and tokens (`api/auth.py`, `core/oidc.py`, `api/api_tokens.py`) | pending sign-ins in memory, tokens | sign in, role from groups, create and revoke tokens | an account gets the role its groups say; tokens are capped |
| Settings (`services/settings_store.py`, `api/admin_settings.py`) | one row of JSON | read, merge, write | nobody's edit or secret is lost; defaults fill in what is not set |
| Gateway client, model configurations (`services/gateway.py`, `api/model_configs.py`) | rules, keys, billing mode, encrypted secrets | resolve route, prepare, mark, load configuration | endpoint, key, batch mark and charge of a run belong together |
| Command-line plug-in (`plugins/batch-inference/scripts/bic.py`) | the manifest, downloaded results | upload, submit, status and control, fetch, join | one job for each part, all of them in the manifest; the join loses no answer |
| Notifications, script generator, prompts, tools, front end, migrations | text, rows of one user | | see section 9 |

### Interactions

    browser, bic.py -> API --- reads and commits ------> database <---- reads, commits ---- worker
                       |  \---- enqueue, remove, signal -> Redis <--- claim, renew, release --/ |
                       \-------- inputs, staged uploads --> files <--- results, sweep ----------/
    administrator   -> API --- pin, preempt, settings, users                 worker -> model, gateway

The status in the database and the queue, leases and signals in Redis say the
same thing twice; so do the result files and the counters of a row, the row's
`billed` and the billing records, the files on disk and the rows they belong
to, and the server's jobs and the client's manifest.  Every component updates
them in an order of its own, with an `await` between any two writes.

### Hard behaviours

* A handler acts on a status it read several awaits earlier: the job has been
  claimed, has yielded, has ended or has been reaped since.
* A lease belongs to a job and not to a run: renew and release do not ask whose
  it is.  The same holds of the signal key.
* A heartbeat round works through a copy of the running jobs, so that it renews
  (re-creates) the lease of a job that has just ended.
* A worker dies, or is cut off, between any two steps; a step raises.
* Preemption asks the database and Redis who runs on a model while jobs are
  being claimed, marked running, released and queued again.
* Runner, sweep and API cut and send bills of one job at the same time, from
  counters that a crash takes back, to a gateway whose answers may be lost.
* Lines are counted when they enter a buffer, reach the disk later, and may be
  torn there; a stopped append goes on in its thread.
* The sweep deletes files it chose rows for earlier; resume, retry, create and
  delete run meanwhile.
* Two administrators write the same row of settings, or demote each other.
* A client that gave up waiting runs its command again while the first request
  is still being handled.

`PROJECT.json` lists these and the others, each at its line, as hazards.

## 2. Plan

| | Module | State |
|---|---|---|
| 1 | `JobQueue`: the operations on Redis | done; safety proved |
| 2 | `JobDispatch` extends it: workers, runs, pins, faults | done; safety proved |
| 3 | `JobControl` extends that: the users' requests | done, safety proved, but for creation (`Submission`) and change of model (`Billing`) |
| 4 | `Ledger`, `Billing`: the bills of a job, and the abstract ledger they implement | done; all but liveness proved |
| 5 | `Items`: dispatch loop, result files, resume, limiter | done; all but liveness proved |
| 6 | `Gateway`: settings, rules, secrets, parameters | done; safety proved |
| 7 | `Accounts`: administrators, sign-in, tokens, projects | done; proved |
| 8 | `Submission`, `BatchCli`: files, quotas, retention, the client and its manifest | done; safety proved |
| 9 | `QueueOrder`: `_score`, `rescore`, reaped and reordered jobs against the reference order (pinned, then priority, then age) | to come |
| 10 | `JobLifecycle`: the abstract state machine of a job's status, implemented by `JobControl` | to come |

## 3. Modules

| Module | Models | Extends or uses |
|---|---|---|
| `JobQueue` | `services/queue.py`: one action per command, script or pipeline | |
| `JobDispatch` | `worker/main.py`, `worker/runner.py`, `services/pins.py`, `pin_job`, `unpin_job` | `JobQueue` |
| `JobControl` | cancel, pause, resume, retry-failed, priority, delete in `api/jobs.py` | `JobDispatch` |
| `Ledger` | abstract: usage is noted in bills, each is charged at most once | |
| `Billing` | `services/billing.py`, and what `worker/runner.py`, the sweep, `api/jobs.py` and `api/billing.py` do with it | `Ledger` (refinement) |
| `Items` | the dispatch loop of `worker/runner.py`, `services/results.py`, `services/inference.py`, resume and retry | |
| `Accounts` | `api/users.py`, `api/auth.py`, `core/oidc.py`, `api/api_tokens.py`, `api/projects.py`, `services/projects.py`, `services/users.py` | |
| `Gateway` | `api/admin_settings.py`, `services/settings_store.py`, `services/gateway.py`, `api/model_configs.py`, the start of a run, `build_request_body` | |
| `Submission` | upload, create, resume, retry and delete as far as files and quotas go; `services/storage.py`, `services/retention.py` | |
| `BatchCli` | `bic.py` against that server, with the web page beside it | `Submission` |
| `MC*` | instances for TLC | |
| `Sums` | lemmas about sums over finite sets | |
| `JobDispatchProofs`, `JobControlProofs`, `BillingProofs`, `ItemsProofs`, `AccountsProofs`, `SubmissionProofs`, `GatewayProofs` | theorems | each extends the module it is named for (`SubmissionProofs`: `BatchCli`); `JobDispatchProofs` has those about `JobQueue`, `JobControlProofs` extends it, `BillingProofs` and `SubmissionProofs` extend `Sums` |

The modules divide the life of a job: what one of them assumes of a part it
abstracts is what another one checks.  `Billing` and `Items` assume that one run
has a job at a time, which is `SingleRunner` (proved of `JobDispatch`, and of
`JobControl` as far as it goes: section 7); `Submission` takes
a run to be something that starts, leaves a result and ends, which `JobControl`
and `Items` spell out.

A definition marked `\* mutant` is not part of the model: it is a plausible bug
(a dropped guard, a missing purge, a swapped order) in the definition it
stands before.  Put in that definition's place, it breaks the property it is
paired with in `PROJECT.json`; that is how the properties are known to depend
on the code.

### State and code: dispatch and control

| Variable | Code |
|---|---|
| `queue`, `lease`, `jobModel`, `modelRunning`, `ctrl` | the Redis keys; a lease is absent, fresh or expired rather than a time |
| `status`, `pinned`, `workerId` | columns of `jobs`; status `deleted` stands for a row that is gone |
| `mode`, `running`, `beat`, `scanning`, `seenPins` | a worker: shutdown flag and life, `Worker.running`, the heartbeat's copy of its keys, `_claim` under way and the pins it read |
| `task[t]` | one `_run_job`: where it is, its worker, its job, the outcome it will write, its watcher |
| `admin` | a `pin_job` request: what it has read of the job (`pins`, `preempts`), and how far it is in `preempt_for` |
| `req[r]` | a user's request: what it read of the job and what it has still to do (declared in `JobDispatch`, whose steps leave it alone, so that `JobControl` can use them as they are) |
| `pinOps`, `faults`, `requests` | counters that bound pins, faults and requests |

A task goes `load` (the row is read, finished jobs refused), `check` (pin),
`prepare` (billing, model, input), `work` (the dispatch, the watcher and the
billing loop side by side), `final` (status), `clear` (signal), `release`
(lease).  With the step that leads to `release` the job leaves `Worker.running`
(`Return`); `_drain` waits for the jobs in there, and an exit cuts off the tasks
that are further on.  A run that yielded skips `clear` and goes on to `handover`, `settle`
(read the signal), `land`/`landed` (the user's wish) or `unsignal`, `enqueue`.
Each step is what happens between two awaits on Redis or the database.

A request's `todo` is the list of writes its handler still makes, in order:

| Request | Writes |
|---|---|
| cancel, pause of a queued job (cancel of a paused one) | signal, remove, commit, clear signal |
| cancel, pause of a running job | ask for the worker's heartbeat; signal, remove; commit too if the worker is gone |
| resume | clear signal, commit, enqueue, preempt if pinned |
| retry-failed | commit, clear signal, enqueue |
| change of priority | remove, enqueue (of a job read as queued) |
| delete | delete the row, remove, clear signal |

Abstractions of the dispatch:

* The work of a job (items, requests, results, charges) is one state, `work`,
  which may end in any way the runner's code allows; `Items` and `Billing` open it.
* A worker tries *any* candidate of the queue; which one comes first is the
  subject of QueueOrder.  The models a scan has found full are not remembered:
  a refused candidate may be tried again.
* `_drop` (a read and a pipeline) is one action, and so are a round of the watcher
  that reads the signal and renews the lease (`PollSignal`) and the two reads by
  which a preemption finds the jobs on its model (`PreemptRegistered`).  The owner
  HASH, which nobody reads, is left out.
* ORM writes change the columns that differ from what was read; an UPDATE of a
  missing row does nothing, an ORM write to one raises.
* One preemption is in progress at a time.  pause-all is several pauses read at
  the start.  Creation is the initial state
  (`Submission` has it).
* A worker that has died seems alive to the API for 45 s, less than the 60 s its
  leases last: `MaySeemAlive` allows it until one of its jobs has been reaped.  A
  living one whose heartbeats are late for that long seems gone: `MaySeemGone`, the
  fault `slow`.
* A pin check that fails on a database error (which counts as "not blocked") is
  not modelled.

### State and code: billing

| Variable | Code |
|---|---|
| `status` | `jobs.status`, as far as billing tells states apart |
| `row` | the counters of the row: usage, billed, `billing_seq`, `billing_enabled` |
| `files`, `run` | tokens of the answers on disk; the run, whether it bills and what its memory counts |
| `proc[p]` | a cutter or sender (the run, the sweep, one of the `Handlers` of API requests): `cut`, `write` (it has read the counters), `settle`, `send`, `post` (it has claimed a record), `save` (it has an answer), for a change of model `rebase` and `commit`, for a delete `drop`, and what it holds |
| `records` | `billing_records`, by number: amount, status, attempts, claim, whether its waiting time has passed |
| `spent`, `noted`, `charged` | history: tokens used, tokens cut into records, the numbers the gateway has booked |
| `rebased`, `overtaken` | history: `billed` was moved without a record; a run was at work during a change of model |

Cutting reads the counters in one transaction and inserts and advances in a
second, conditional one; sending claims, posts and saves.  The gateway charges a
request id once; an answer may be lost, or come after the claim has lapsed.

* A token stands for the prompt and the completion tokens of some items.
* Which key a record is charged with (`rekey_failed`) and records of a dry run
  are left out.
* A run that yields its slot is one that stops and is resumed.
* Requests that bill or change the model (change of model, delete, retry) have a
  handler each and interleave with everything.  A resume and the settlement of an orphan
  are one commit, and may come between any two steps of the others; a resume of
  a job not billed so far may follow the last event while the model is being changed, or none
  would overtake that change.
* `Switch` refreshes the row and commits in one step.

### State and code: items

| Variable | Code |
|---|---|
| `row` | status, `completed_items`, `failed_items` |
| `file` | `output.jsonl` and `errors.jsonl`: lines, and a torn tail |
| `run`, `item` | where the run is, what its scan found done, its counters; each item's task, its attempts and outcome |
| `buf`, `flush`, `stray` | the writer's buffers, the flush that holds its lock, appends that go on in their thread after a stop |
| `bucket` | tokens of the limiter |
| `harmed` | history: items whose line was lost or spoilt since the last scan |

* One run at a time, one request for resume or retry at a time.  The requeue by
  the reaper is part of `Crash`.
* Requests per minute are a second bucket of the same kind and left out.
* An estimate larger than the bucket waits for ever (section 6) and is excluded.
* The rows of `job_errors`, which nothing reads back, are left out.

### State and code: accounts

| Variable | Code |
|---|---|
| `user`, `tokens`, `project`, `job` | the tables, as far as these operations read them |
| `req[r]` | a handler: its request, where it is (`idp`, `check`, `look`, `move`, `commit`) and what it has read |
| `served` | bound on requests |
| `overlap`, `named`, `excused` | history: which of the known races has happened (section 6) |

* A name stands for an account and for the subject of the identity provider; a
  deleted account is not made again.
* Passwords and preferences are not modelled.  A pending sign-in is a handler at
  `idp`: it lives in the memory of the process and a restart loses it.
* The statements of one commit are atomic, but for `delete_project`, whose
  UPDATE and DELETE other requests may separate.

### State and code: gateway

| Variable | Code |
|---|---|
| `settings` | the row `runtime`: rules, platform key, billing mode and token, the switches that matter |
| `era` | the `SECRET_KEY` in use; a secret of another era cannot be read |
| `own`, `model` | the user's saved token, one row of `model_configs` |
| `edit[a]` | an administrator's `update_settings`: what it has read |
| `job`, `run`, `call` | what was submitted, the configuration the run was given, a request of a dry run |

* Two rules, one of which matches the model.  A secret is what it was entered
  for, so that a property can ask whose key a request carries.
* A dry run, whose merge of parameters does not depend on the settings, is
  tried in the initial settings only, with every model, user and line that say
  something of one field; the value of a field says who set it.  `build_request_body`
  also merges messages and the batch mark, which are no parameters.
* An administrator's page is loaded and handled in one step (`ReadSettings`): what is
  lost by sending a page that was loaded long ago is more than the model shows.

### State and code: files, quotas and the client

| Variable | Code |
|---|---|
| `staged`, `inputs` | the files on disk |
| `part` | what each upload has in it |
| `jobs` | rows: the upload, status, purge mark, failed items, result; a job that was moved and not inserted (`new`) is a file only |
| `req[r]` | a handler at the point its code awaits: `store`, `count`, `move`, `insert`, `commit`, `erase`, `files`, and who asked |
| `sweep` | what the retention sweep has selected and deleted but not committed |
| `cli`, `manifest`, `local` | the command under way, `batch_manifest.json`, the result files downloaded (of which job, for which item, answer or error) |
| `broken`, `overlap`, `revived`, `rushed`, `unheard` | history: which faults and races have happened |

* One user.  The quotas of the user and of the platform are the same check.
* A file's contents are its length; a refusal for its contents may happen to
  any upload.  A result is one unit.
* A job's run is abstract (`Runs`).  Cancel is in `JobControl`.
* The sweep's loop of deletions is one step, its commit another.  A failing
  enqueue belongs to the insert; a delete whose steps on the queue fail has
  deleted the row and leaves the files.
* An upload is on disk when it is complete: the part of it that is there while it
  arrives, and goes when it breaks off, is left out (`Store`).
* One command of the client at a time; the web page makes requests beside it,
  and a request the client gave up on goes on.

### Environment and faults

`Crash` kills a worker anywhere in `CrashPcs`, `RequestShutdown` drains it.
`FaultKinds` selects further faults, `MaxFaults` of them: `release` (the release
is refused), `handover` (the handover raises), `runner` (the run raises under
its own error handling), `stall` (a lease lapses under a live task), `request`
(the API process dies within a request), `slow` (a living worker's heartbeat is so
late that the API takes it for gone).  A restarted worker is a new id. In the other modules every
fault, request, edit and restart counts against `MaxEvents` (`MaxRequests` in
`Accounts`): lost processes, lost, late and refusing answers, settings switched
under a run (`Billing`); stops, failed and torn writes, crashes (`Items`);
restarts of the API (`Accounts`); a new `SECRET_KEY` (`Gateway`); failing
inserts, timeouts of the client, a server that stops between two steps
(`Submission`, `BatchCli`).

## 4. Properties and runs

Jobs, workers, tasks, users and requests are model values.  TLC is told not to
report deadlock: finished jobs, spent budgets and lost workers let the system
stop.  Symmetry is used only where no liveness property is checked, and of the jobs only
where nothing tells them apart (`SymmetricInJobs`).

| Run | Instance | Properties | Shows |
|---|---|---|---|
| `dispatch_crash` | 2 jobs on a model with one slot, 2 workers, one of which crashes or shuts down, one refused release; j1 may fail, j2's charge may be refused | `TypeOK` `SingleRunner` `SlotsBounded` `ModelLimit` `NoLostJob` `FinishedStaysFinished` | no crash outside the handover breaks them |
| `dispatch_pins` | 2 jobs, 2 slots, 2 workers, one pin and any unpins, a run or a handover that raises | `SingleRunner` `PinReachesRunners` | each runner to be displaced is told; a yielding job is not run twice |
| `dispatch_settles` | 2 jobs, 1 slot, 2 workers, one of them lost at any moment | `EveryJobSettles` | leases are reaped and slots freed |
| `control_stop` | 1 job that may run for ever, 2 workers, one of them lost, one worker that seems gone while it lives, one cancel or pause | `StopIsHeard` `OrphanStaysCanceled` | a stop is heard; a settled orphan is not revived, and a settled job whose worker was only slow comes to its end |
| `control_delete` | 1 job, 1 worker, two requests (cancel, delete) at once; one dies half way, or the lease lapses under the run | `DeletedFadesOut` | the queue entry, the lease and the place in the running set of a deleted job go in the end (the signal key may stay) |
| `control_yields` | 2 jobs, 1 slot, one worker with room for 2 tasks, one pin and any unpins, one cancel | `SingleRunner` | a yielding job that is canceled on the way is not run twice |
| `control_requests` | 1 job that may fail, 2 tasks, one pin, two requests of any kind | `NoJobForgotten` | somebody is in charge of every queued or running job |
| `billing` | a job that is new, billed or not, or one whose worker died with a token used and not noted; 2 tokens, one handler, records give up after 1 attempt, 1 event and a resume that overtakes a change of model | `BillingTypeOK` `NotOvercharged` `SummaryAddsUp` `SucceededIsCharged` `KeepsTheLedger` `FinishedIsNoted` `BillsSettle` | no token is charged twice unless a run overtakes a change of model, the summary adds up, what a finished job used is noted, every bill settles; the system implements the ledger |
| `items` | 3 items, 2 at a time, flushed in pairs, one retry, one token per refill, 2 events | `ItemsTypeOK` `NoneTwice` `AllAnswered` `CountsMatch` `RunEnds` | stops, crashes and failed writes repeat no item and lose none that was not harmed; a run that is left alone ends |
| `accounts` | 2 accounts, 4 projects, 1 job, 2 requests at a time and 4 in all, with an administrators' group | `LastAdminKept` `OneDefault` `JobsHaveProject` `ActiveJobsKept` | what goes wrong needs requests that overlap |
| `gateway` | defaults, or any of a family of configured settings; 2 events; requests about 1 field each | `MarkedIffPassedOn` `RunIsSound` `RuleKeysKept` `ParamsObeyed` | endpoint, key, batch mark and charge of a run belong together, whatever is edited or cannot be read |
| `submission` | 2 handlers, quota 2, 1 active job, 2 uploads (parts of size 1, a web file of size 2), 2 events | `OneJobPerUpload` `NoInputLost` `NoStrayInput` `QuotasKept` `ManifestComplete` `JoinKeepsAnswers` | an upload makes one job and an input is lost only to the races named; what the manifest misses is what the client was not told |

Why these bounds are enough to meet the interesting cases.  *Dispatch*: two jobs
on one model are what a limit or a pin needs (one to hold the slot, one to want
it); two workers or tasks are what a double run needs; one crash leaves one
worker to reap, and a restarted worker is a new one; one pin races claim, load,
run and handover; two requests in a row include resume after stop and delete
after cancel, and with a pin the resume that preempts.  `Capacity` is 1 where
two processes are wanted, 2 where one worker runs two jobs.  `JobDispatch_settles.cfg`
with one worker of capacity 2, `MaxLost = 0` and `MaxPins = 1` passes as well: pins
starve no job.  *Billing*: two
tokens make two records or one cut twice, and one event puts a crash, a lost
answer, a switch or a change of model before, between or behind them; the resume
beyond it (`OneMore`) lets a run overtake that change, and charge twice.  The third
initial state puts a crash before that event, so that a refusal or a stop of an
orphan meets a job that has run, and from the second one billing begins when a switch
or a change of model turns it on.  *Items*: three items at two a time and two a
flush leave one in the buffer and one waiting while another ends; two events are
a failure and the resume after it.  *Accounts*: two accounts that are both
administrators can take each other's role; two requests at a time are a race,
and four in all first build what they race for.  *Gateway*: two edits overlap,
or an edit and a new `SECRET_KEY` follow each other.  Parameters are merged one by
one, and only the list of those a user may set makes one depend on another, so that a
request about one field shows every merge; the list is of any fields.  *Submission*: two handlers
with room for one are a race for the quota, for the active job and for the
upload; the web file is as large as the whole quota; the two parts
are alike, so that the first upload may as well begin with the first (`FirstParts`); two events are a timeout
and the command run again.

Where a property excuses a case (`LastAdminKept`, `OneDefault`,
`JobsHaveProject`, `AllAnswered`, `NoInputLost`, `QuotasKept`,
`ManifestComplete` and others name a history variable), the case is a race or a fault
that the code does not guard against, and section 6 has it; the property then
says that nothing else leads there.

Every property is also checked to fail on a mutant of the code (`mutants` in
`PROJECT.json`): dead members counted, an off-by-one in the limit, live leases
reaped, finished jobs not refused, a job queued before its release, a yielded
job only rescored, pause not watched for, a cut that does not compare the
counters it read, a claim that does not lapse, a scan that skips errors, a
retry that keeps them, a limiter that is not refilled, secrets merged by place
instead of by rule, a quota that forgets staged files, and others.

## 5. Fairness

`Fairness` and `ControlFairness` assume of the scheduling of the dispatch:

* *Weak fairness of each task and of the handover*: every await on Redis or the
  database returns, or raises.  Finite dispatch (`EndDispatch`) is assumed in
  `FairSpec` and `FairFiniteSpec`: each request to the model has a timeout and a
  bounded number of tries.  `FairControlSpec` does not assume it, so that
  `StopIsHeard` says that the stop, and not the end of the items, ends the job;
  only a run that has been told to stop is sure to end.
* *Weak fairness of the watcher, claim loop, heartbeat and reaper*: loops with a
  sleep.
* *Strong fairness of the claim of each job*: candidates are tried in the order
  of the queue, and a job keeps its place, so that it is not overtaken for ever;
  claims of others and full models disable it for a while.
* *Weak fairness of lapse*: time passes.
* *Weak fairness of requests and of the preemption*: the API carries its
  handlers through (`RequestDies` excepted).

`Billing`'s `FairSpec` assumes no more than that the sweep returns (a loop with a
sleep, worker/main.py:221) and goes through with what it has begun, and that a
record's waiting time passes.  A run or a handler may stop for ever at any point:
what it leaves behind, the sweep settles.

`Items`' `FairSpec` assumes that the scan, the loop, the tasks and the
appends go on (requests have a timeout and a bounded number of tries) and that
time refills the bucket.

Nothing is assumed of crashes, faults, pins, administrators, users and new
requests.  `Accounts`, `Gateway`, `Submission` and `BatchCli` state no liveness:
what they promise is about what overlapping requests leave behind.

## 6. Where code and comments disagree

What the models showed, with the place in the code.  None of it is a run; the
models have the behaviour, and the properties name it as an exception or are
stated so that it does not count.

*Dispatch and control*

* cancel reads a job as queued, a worker claims it, cancel writes *canceled*, and
  `_mark_running` (runner.py:436) overwrites it with *running*.  jobs.py:871 says
  that no worker will answer for a queued job.
* `patch_job` (jobs.py:804) removes and enqueues a job it read as queued; a
  worker has claimed it meanwhile; its lease goes and a second worker claims it.
  queue.py:12-13 excludes that.
* A worker dies after it has released a yielded job and before it queues it
  (main.py:158-167): the job is queued in the database only.  README.md:24 says
  that a crashed worker's job is requeued.  A graceful shutdown does the same:
  `_drain` (main.py:177-181) waits for the jobs in `running`, from which `_run_job`
  has taken the job (main.py:156) before it releases and hands it over, so that the
  process may exit in between (`Drained`).
* `pin_job` reads the status (jobs.py:647) and commits later (:654): a job that ends in
  between stays pinned, and is pinned when a retry queues it again; one that was
  paused when read and has been resumed is pinned and displaces nobody.
* `unpin_job` (jobs.py:666) tells nobody: with two pinned jobs on a model, the one
  that loses its pin goes on beside the other.  README.md:83-86 says that nothing
  else runs on that model.
* cancel that finds its job handed back by a yield (jobs.py:861-864) takes it out of the
  queue and counts on a runner that is gone: queued for ever in the database.
  So does one that has read a job as running which then fails and is resumed.
* cancel or pause of a job whose worker has died less than 45 s ago, or whose
  heartbeat cannot be read, takes the lease away (`RemoveJob`) by which the reaper would
  have found the job: it stays running in the database until it is stopped again.
* `patch_job` that breaks off between its removal and its enqueue (`RequestDies`)
  leaves the job queued in the database only.
* A heartbeat that overlaps the end of a failed or paused job re-creates its
  lease (`HeartbeatRenew`); the reaper queues it, and `Load` refuses finished and
  canceled jobs only, so it runs again.
* The watcher decides that a requeue signal is out of date and deletes the key
  in a later round trip (`CheckRequeue`, `DropStaleSignal`): it may delete a new one.
* A pinned job that billing has paused and that the late heartbeat brings back
  displaces nobody: only `pin_job` and resume preempt.
* The handover reads the signal and clears it in two steps (`SettleSignal`,
  `ClearBeforeEnqueue`): a cancel in between is lost.
* cancel and pause free the slot of a running job before its runner stops
  (`RemoveJob`): for one round of the watcher the model runs one job too many.
* A job resumed before its old runner has quite ended shares the signal key
  with it (`ClearOwnSignal`): the old run deletes what is meant for the new one.
* cancel or pause that finds the worker's heartbeat 45 s old settles the job in its
  stead (jobs.py:837, 868).  If the worker is only slow, it goes on until it sees the
  signal; should a bill be refused before, `_pause_for_billing` or the end of the
  dispatch overwrites *canceled* with *paused*, and the job can be resumed.
* An exception that escapes `run()` (`RunnerRaises`) leaves the job running in the
  database with a worker that is alive: cancel and pause signal nobody.
* A job whose handover failed is not on the queue page, which lists pinned jobs
  and the members of the queue, although main.py:168 says it is.
* After a stalled lease has made a job run twice, the first runner releases the
  lease of the second; if that worker then dies, the job is lost.

*Billing*

* A change of model whose commit comes after a resume has started a run moves
  `billed` back under it and charges tokens twice: the change reads the usage after its cut
  (billing.py:164-172) and commits it as `billed` (jobs.py:1012), and nothing keeps `resume_job` out in between.  The
  model has the overlap (`overtaken`), and *NotOvercharged* and *KeepsTheLedger* excuse
  it and nothing else; with `MaxTokens = 3` and without the excuse TLC notes more
  than was spent in 34 steps.
* The counters of the row lag behind the result files.  After a change of model,
  tokens of the old model that only the files had are charged to the new one.
* A record that the sweep gets refused is not seen by the run, which goes on
  without being paid for (README.md:54-55 says that it stops).
* An answer of the gateway that comes after the claim has lapsed may overwrite
  what the second sender has written.

*Items*

* A torn line is never cut off: the next append is glued to it (results.py:143-146)
  and both are lost to a reader.
* A flush empties the buffer before it writes: when the write fails, the lines
  have been counted, and the job may end as succeeded without them.
* A stopped flush's append may land after the next run's scan: the item is
  answered a second time.
* An item whose estimate exceeds the bucket waits for ever (inference.py:81-100).
* A retry that dies between removing `errors.jsonl` and its commit leaves a job
  whose failures are gone from the files.
* An upload is validated with `errors="replace"`, a run reads it as strict UTF-8:
  what passed may fail.

*Files, quotas and the client*

* `files_purged_at` is set also when inputs are kept, so that resume refuses a job
  whose input is there (settings_store.py:82 says it can be run again), and the
  input kept is no longer counted.
* A sweep that has selected a job deletes its input although the job has been
  resumed meanwhile (`overlap`).
* The sweep commits all its marks at once: if one row has been deleted, the
  files are gone and no row says so.
* create_job that fails after `shutil.move` leaves `<job>.jsonl` without a row.
  Between move and insert a file is in no sum: uploads may exceed the quota.
* delete_job deletes the row whatever its status says by then (jobs.py:1050-1060): a job
  resumed while its last bill is cut is deleted under its run.  When the queue
  cannot be reached after the commit, its files stay (jobs.py:1061).
* create_job whose enqueue fails answers 503 and leaves a failed job.
* The check of active jobs and the insert are two steps: requests that overlap
  may exceed the limit (`rushed`).
* `bic.py`: an upload that fails half way leaves uploads no manifest names; a lost
  answer leaves a job out of the manifest, and the command run again stops at the
  upload that has been used; an upload run again overwrites the manifest's list
  of jobs.

*Accounts, settings and gateway*

* Two administrators who demote, disable or delete each other at the same time
  leave none (`overlap`).  create_job and a concurrent delete_user, the adoption
  and the deletion of a default project, and a project deleted while a job is filed
  in it race likewise; renaming can make two default projects.
* update_settings reads, merges and writes: of two at once one is lost (`raced`).
* A rule whose own key cannot be read, beside a readable platform key, is called
  with the latter (gateway.py:185).
* `max_tokens_cap`, the upper limit of one request (models.py:231), is applied before the
  model's reasoning payload is merged (inference.py:164-174), so that a payload with
  `max_tokens` exceeds it; it does not cut what the line itself says, nor a number that is not an
  integer, which `extra` lets a user enter (jobs.py:475).  *ParamsObeyed* names the three.
* The reasoning payload is also merged over the forced parameters, which are to
  win always (models.py:200); those edited after the submission do not apply,
  the job keeping a copy.

*The queue's order, which is not modelled yet*: a reaped job is queued with the
scores of priority 0, behind jobs it was before, even if it is pinned.

## 7. Proofs

The theorems hold for any sets of jobs, models, workers and tasks, any limits,
any bounds on tokens, events, faults and pins.  Assumptions on the constants are those
named in the modules: the jobs are a finite set (so that running sets have a
size), and so are the handlers of the accounts API (so that the projects they
may make can be counted), limits are natural numbers, the null values are new, the
parts of a data set are numbered from 1 (the command names the first and the last),
and a file's size is a natural number (`BatchAssumption`).

| Theorem | Says | Further assumption |
|---|---|---|
| `QueueTypeCorrect` | types of the queue | |
| `SlotsNeverExceeded` | `SlotsBounded` for any callers in any order | |
| `TypeCorrect` | types of the whole dispatch | |
| `SlotsBoundedInDispatch` | `SlotsBounded` of the running system | |
| `OneRunnerPerJob` | `SingleRunner` | no stalls |
| `LimitRespected` | `ModelLimit` | no stalls |
| `NoJobIsLost` | `NoLostJob` | no stalls, no run or handover that raises, no crash or exit during a handover |
| `FinishedIsFinal` | `FinishedStaysFinished` | no stalls |
| `PinsAreHeard` | `PinReachesRunners` | no stalls; one pin to a model at a time, no pinned job pauses or fails, the status `pin_job` has read still holds at its commit, and no pin comes between a watcher's verdict on a signal and its deletion |
| `FirstPinIsHeard` | `PinReachesRunners` | no stalls; one call of `pin_job` (`MaxPins = 1`), no job billed separately or failing |
| `EndsUnpin` | whatever ends a job unpins it in the same write (a `pin_job` that read it before may pin it after) | |
| `ControlTypeCorrect` | `ControlTypeOK`: types while users make requests | |
| `SlotsBoundedUnderControl` | `SlotsBounded` of the system with its users | |
| `NobodyForgotten` | `NoJobForgotten` | no worker is lost, no run, handover or request breaks off (leases may stall and releases fail); requests to one job do not overlap, and no stop meets a yield |
| `OneRunnerUnderControl` | `SingleRunner` with requests of any kind | no stalls; no request queues a job that a task has in hand |
| `StopsKeepOneRunner` | `SingleRunner` with users who stop and delete | no stalls; `Ops` is at most cancel, pause and delete |
| `LimitUnderControl` | the limit of `ModelLimit` with requests of any kind, for the jobs no request has taken out of Redis | no stalls; no request queues a job that a task has in hand |
| `OnlyQueueOperations` | one step of the whole is at most one operation of `JobQueue` | |
| `BillingTypeCorrect` | `BillingTypeOK` | |
| `NeverOvercharged` | `NotOvercharged`, for any number of handlers; it excuses a run at work during a change of model | |
| `LedgerKept` | `KeepsTheLedger`: `Billing` implements `Ledger`, with the same excuse for what is noted | |
| `PaidIsCharged` | `SucceededIsCharged` | |
| `SummaryIsComplete` | `SummaryAddsUp` | |
| `NobodyPaysForMore` | what the gateway has charged, in tokens, is at most what was used; the same excuse | |
| `TypesHold` | `ItemsTypeOK` | |
| `NoItemTwice` | `NoneTwice` | |
| `EveryItemAnswered` | `AllAnswered` | |
| `CountersMatch` | `CountsMatch` | |
| `AnAdminIsLeft` | `LastAdminKept` | |
| `OneDefaultEach` | `OneDefault` | |
| `JobsAreInProjects` | `JobsHaveProject` | |
| `NoActiveJobDeleted` | `ActiveJobsKept` | |
| `UploadsUsedOnce` | `OneJobPerUpload` with the client and the web page | |
| `InputsKept` | `NoInputLost` | |
| `InputsCaredFor` | `NoStrayInput` | |
| `QuotasHold` | `QuotasKept` | |
| `ManifestNamesJobs` | `ManifestComplete` | |
| `JoinIsRight` | `JoinKeepsAnswers` | |
| `MarksAreRight` | `MarkedIffPassedOn` | |
| `RunsCanCall` | `RunIsSound` | |
| `KeysStay` | `RuleKeysKept` | |
| `RequestsObey` | `ParamsObeyed` | |

*SlotsBounded* is inductive by itself: only a claim adds to a running set, and
it adds one member to a purged set that has room.  The proof that it carries
over to the dispatch shows that every step of the system is a step of the queue
or leaves it alone.  Under `ControlSpec` the same is true of each step of a request:
the signal it sends is the name of its operation, which has to be a cancel or a
pause, so the invariant adds `PlansOK`: no other request has a signal among the
writes it still makes.

*SingleRunner* is not inductive.  The invariant that is, `Exclusive`, adds that
a job a task has in hand is not in the queue and has no expired lease (so that
neither a claim nor the reaper can reach it), and that a job that is *held*, from
the claim to the release, has a lease and its place in its model's running set
(so that no purge drops it).  With it, `ModelLimit` follows from
`SlotsBounded`, the jobs held on a model being members of its running set.  The
late heartbeat, which renews a job with no task, is why a lease does not imply
a task.

*NoLostJob* needs `StatusOK` in addition: what the status of a job in hand may be
at each point of its task (a job in the last steps of a run is in the status
the run has written), so that a release leaves no queued or running job behind
other than one that is handed over.  The assumptions are necessary: without each
of them TLC loses a job (section 6).  That nobody dies in a handover (`CrashPcs`) is
about crashes and about the exit of a worker that has drained, which the code
does not keep from cutting a handover off.  *FinishedStaysFinished* is an action
property.  A task that is where it may still write a status has no finished job in
hand (`FinishedUntouched`): `Load` refuses it, and by `Exclusive` nobody else finishes
the job meanwhile.

*NoJobForgotten* cannot lean on `Exclusive`: a stop takes the lease from a running job, and
one that is resumed early has two runners.  The invariant that carries it, `ChargeInv`,
does without leases.  A task *carries* its job until it has written a status the
job may rest in, or has queued it (`Carrying`), and a request *owes* the job as long as
a settlement or an enqueue is among the writes it has left (`Owes`); an active
job is queued, carried or owed, and a running one is executed by some task
(`InCharge`).  The stop of a job whose worker is alive owes nothing and still takes the job
off the queue: it is harmless because it has not met a queued job (`PlanOK`).
That is what the two temporal assumptions are for, `RequestsApart` and `StopsMeetNoYield`;
the theorem has them under a box on the left.  Every one of the assumptions is
necessary: TLC forgets a job without it, in 3 to 23 steps (section 6).  The run
`control_requests` is an instance in which all of them hold.

*PinReachesRunners* needs to know how far `preempt_for` has got.  `ToldOK` says of every
run that has passed the check for pins, has not made up its mind and has to make
room, that a signal waits for it, or its watcher has read one, or the
preemption still has it within reach: before the scan all of the model's jobs
are, for by `Exclusive` a job that is held is in the running set; after it those
on the list that have a lease.  Four things that section 6 has
break it, and the theorem `PinsAreHeard` excludes just these (`PinsAreQuiet`): a second pin on
the model, which an unpin turns against its fellow; a pinned job that pauses, or
fails while its pin is being committed, and
blocks the model anew when it comes back without a `pin_job`; a job that `pin_job` has
read as one that displaces nobody and that does when it commits; and a pin that comes
before a stale signal is deleted.  Who pins once, where no job is billed or fails,
needs none of them, for then nobody pauses a job, one that has ended does not come
back, and a signal out of date stays so (`SinglePinOK`, from which `FirstPinIsHeard`).
*EndsUnpin* is an action property for the same reason: that no ended job is pinned
is not true, but no write that ends one leaves the pin.

Under `ControlSpec` *SingleRunner* has to do without `Exclusive`, since a cancel or a
pause takes the lease and the slot of a job in hand away.  What is left, `Alone`,
is that a job in hand is not in the queue and has no expired lease, and only an
enqueue can break it: a job resumed before its old runner has ended, or a change
of priority that has lost its job to a worker.  `OneRunnerUnderControl` excludes that case
under a box (`EnqueuesFindNoRunner`), and without it TLC finds two runners;
`StopsKeepOneRunner` needs no such box, as a cancel, a pause or a delete plans no enqueue
(`NoPlanEnqueues`), and the run `control_yields` is an instance of it.

*ModelLimit* does not survive a cancel or a pause of a running job: it gives the
job's place away while its runner has still to hear of it (section 6).  How far it
goes wrong is what `LimitUnderControl` says.  The history variable `evicted` of
`EvictionSpec`, which adds nothing to what the system can do, holds the jobs that a
request has taken out of Redis since their last claim, and the invariant `PlaceKept`
that every other job that is held has its lease and its place.  Those
jobs (`KeptOn`) never outgrow the limit, whatever users do: each job too many is
the successor of one that has been stopped.

*NotOvercharged* is about two history variables, and what keeps them in order is
spread over the counters of the row, the memory of the run, the result files
and what each cutter has read.  The inductive invariant `IInv` has three parts:
`TypesAndProcs` (types, and what a process holds at each of its points), which
always holds, and `CountersOK` and `RequestsOK`, which hold as long as no run has
been at work during a change of model (`overtaken \/ Counting`).  A cut adds to what is noted the usage beyond `billed`,
so `CountersOK` says that none of the three counters a later usage is taken
from (files, memory, row) is further beyond `billed` than what was spent is
beyond what is noted (`Covers`), that the same holds of a cut which has been read
and not yet written, if the row still has the `billing_seq` it read (`WriteOK`),
and of the row's usage, to which a change of model moves `billed`.  `RequestsOK`
says of every handler that is changing the model that no run is at work, and,
when it is about to commit, that what it has read of the usage is still the row's.

*LedgerKept* is the refinement: under the mapping of `Billing`'s records to
amounts, `Init` implies `Ledger`'s, and each step uses a token, notes an amount
not more than what is not noted, charges a number not charged, or leaves the
ledger alone; once `overtaken` is set, a note may be for more, and that is all.  `NotOvercharged` is what makes the second kind a step of the
ledger; that the gateway books a number once is `Charge`'s guard.

*SummaryAddsUp* is about sums over the records, and what a step does to a sum has
to be proved for sets of any size.  `Sums` does that once: a family of subsets of a
finite set that is closed under adding one element holds all subsets, because
strict inclusion is well founded there (`SubsetInduction`); from it follow that the
community modules' fold gives the sum whatever order it takes, and what one
element more or another weight does to it.  With these the inductive invariant
says that the records add up to what was noted (`NotedIsTotal`) and that `billed`
is what was noted as long as nothing has moved it (`BilledIsNoted`).  The charged numbers are
those of records (`BooksOK`), so that what was charged is part of what was noted,
and with *NotOvercharged*, where it is not excused, no more than what was used:
`NobodyPaysForMore`.
*SucceededIsCharged* is inductive with one addition: an answer that says a record
was paid for, still on its way, is of a number the gateway has charged.

The invariant `IInv` of `ItemsProofs` follows a line from its item to the files.
The counters of a run count what its scan found done and what it has counted since
(`CountOK`); an item not answered yet has no line in a file, a buffer or a flush
under way (`FreshOK`), no item has two in these (`OnceOK`, from which *NoneTwice*
follows), and an item that is settled has a line unless it is among the
`harmed` (`CoveredOK`, *AllAnswered*).  An item that flushes the buffer has a line
before it is counted, and a flush that fails is counted without one, so
*CountsMatch* needs the numbers of lines while the run goes on, without the
item that flushes (`TallyOK`).  What makes these inductive is control: who holds
the lock, which points of a task go with which phase of the run, and that an
abandoned append is that of a run which has ended (`PhaseOK`, `ItemsOK`).

*LastAdminKept* needs what each handler may rely on between its reads and its
commit.  The invariant `Inv` of `AccountsProofs` says for every handler that, as
long as no other has taken an administrator away since it began (its request
is not `stale`): its caller is still an administrator, and once its check has
passed, so is somebody other than its target (`Relies`); a login that is about
to take the role away relies on the same.  A handler that may make an account
without that role (`Makes`) knows that there is an administrator (`Somebody`),
so that the first account of all is one.  A commit that loses an administrator
makes the other requests stale (`CommitStep`), and a second loss that relies
on what it read before is the overlap the property excludes.

The other three theorems about `Accounts` share the invariant `ProjectsInv`.  *OneDefault*
holds because names are unique to a user and, but for users who gave the name
away, the project marked as the default is the one of that name
(`DefaultNamed`).  *JobsHaveProject* needs what a handler knows of the project it
deletes (`Knows`): that it is not the default one, and that the jobs inside are
those it has moved or were filed since; *ActiveJobsKept* needs the same of a user.
The model has a finite supply of projects, so the invariant also says that it lasts
(`RoomLeft`): there is one for every handler that may still make one.

The first three theorems of `SubmissionProofs` share one invariant, for *OneJobPerUpload*
holds step by step but the others do not.  It says what a handler knows of the
job in its care (`Knows`): the one that has moved a file and not inserted the row
has that job alone, with its file; the one that is to delete the row has seen it, and the one that
deletes the files has deleted it;
the one that restarts a job has seen its input, and if the sweep has read the
same row, both are on record as overlapping.  `SweepOK` says the same from the
side of the sweep: a row it has read is not active unless such a handler met it.

*ManifestComplete* speaks of the client alone, but between its commands.  `ClientInv`
adds to that invariant what holds while one runs: a request of the client is for the
next item of the command (`CallsOK`), the uploads of an upload command are nobody
else's until the manifest names them (`New`), and a job made from an upload in the
manifest is listed there, or lost to the client, or one the client is about to be
told of (`Told`, `Accounted`).  A handler whose caller has gone can still make a job;
`CallOK` says that its upload is then among the `unheard`.

*QuotasKept* is about sums again.  `Bytes` counts what waits, what jobs keep, and
what a handler has moved and not inserted, which the check of an upload does not
see: so a moved file leaves `Bytes` as it is (`MoveQuotas`), and `StorageOK` says
that `Bytes` with what the upload under way was allowed is within the quota as long
as uploads came one at a time.  `LimitsOK` says that there is room for one more
job while a handler is past its count.

*JoinKeepsAnswers* is about a function that goes through the files in order.  An
induction along an interval, from the one over finite sets (`IntervalInduction`), shows
that after any number of files an item is what the best of them says of it
(`LoadedIsBest`), which does not depend on the order.

`GatewayProofs` has one invariant too.  A secret knows what it was entered for, so
no stored one is the user's (`SettingsOK`, `KeysOfOthers`), and the two functions
that decide on the key and on the mark agree case by case (`MarkMatchesKey`, which
`Load` needs).  For *RuleKeysKept* the invariant says of every page under way that
its rules have names of their own (`PageOK`), so that the merge finds one old rule
for each (`MergeKeeps`), and of the history that it agrees with the stored rules
until two edits overlap (`TypedMatchesMerge`).  The model has two names for rules,
and the first match is shown to exist from that (`OneIsFirst`).
*ParamsObeyed* is about what `BuildRequestBody` makes of any request body: layer by layer,
what the user's values, the model's defaults and forced values, the cap and the reasoning
payload leave of a name (`CapTo`, `Resolved`, `BodyOK`), and the same for the request of the dry run.

Liveness under fairness, and whatever depends on ENABLED, is beyond the prover and
only model-checked: `EveryJobSettles`, `StopIsHeard`, `DeletedFadesOut`,
`FinishedIsNoted`, `BillsSettle`, `RunEnds`, `OrphanStaysCanceled`.  Each
safety property of the runs is stated by a theorem, those of `JobDispatch` and
`JobControl` under the assumptions of the table.

## 8. How to run

    tlc -workers 2 -config JobDispatch_crash.cfg MCJobDispatch
    tlc -workers 2 -config Billing.cfg MCBilling
    tlc -workers 2 -config Submission.cfg MCBatchCli
    tlapm BillingProofs.tla

`PROJECT.json` names the module of each configuration.  The longest run takes
about three minutes.

## 9. Not modelled

* *Planned* (section 2): the order of the queue and of the candidates of a scan.
* *Not planned*: HTTP to models and to the gateway, e-mail, passwords,
  preferences, the cryptography of secrets, prompts, script generator and tools, table
  definitions, migrations, the back-fill of file sizes, the front end, the
  preparation of data and the display in `bic.py`: sequential code, I/O or
  declarations, without a state that two actors change.
* *Left out within modelled parts*: progress counters in Redis, `job_errors`, the
  owner HASH, worker records in Redis (`MaySeemAlive` and `MaySeemGone` stand for them), audit log,
  permissions, validation of payloads, the matching of model names by patterns.
