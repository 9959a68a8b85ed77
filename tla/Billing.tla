------------------------------ MODULE Billing -------------------------------
(***************************************************************************)
(* The billing of one job of a personal gateway model: the tokens its run  *)
(* uses, the counters in its database row, the records cut from them and   *)
(* the requests that charge them (services/billing.py), driven by the      *)
(* runner (worker/runner.py), the billing sweep of the workers and the API *)
(* (api/jobs.py, api/billing.py).                                          *)
(*                                                                         *)
(* Four things count tokens and may disagree: the result files, the memory *)
(* of the run, the row's usage (written every few seconds) and the row's   *)
(* billed, up to where the usage has been cut into records.  One token     *)
(* stands for the prompt and the completion tokens of some items.  At most *)
(* one run at a time (JobDispatch!SingleRunner) is assumed; everything     *)
(* else interleaves, the requests too: cut reads and writes the row in two *)
(* round trips, a send claims, posts and saves in three, a change of model *)
(* reads, cuts, reads again and commits.                                   *)
(***************************************************************************)
EXTENDS Naturals, Sequences, FiniteSets, FiniteSetsExt

CONSTANTS
    Starts,         \* bound: what the job is at the start
    Handlers,       \* the handlers of requests that bill or change the model
    SoftFailLimit,  \* attempts after which an unpaid record stops the job
    MaxTokens,      \* bound: tokens used
    MaxEvents       \* bound: requests, switches of the settings, lost processes,
                    \* failed runs, answers that are lost, late or a refusal;
                    \* a resume may follow them (OneMore)

ASSUME BillingAssumption ==
    /\ Starts \subseteq {"new", "unbilled", "orphaned"} /\ {"runner", "sweep"} \cap Handlers = {}
    /\ SoftFailLimit \in Nat \ {0} /\ MaxTokens \in Nat /\ MaxEvents \in Nat

VARIABLES
    status,     \* the job's status, as far as billing tells them apart
    row,        \* its counters: usage, billed, seq (billing_seq), enabled
    files,      \* tokens of the items in output.jsonl
    run,        \* the run: where it is, whether it bills, its memory's count
    proc,       \* the cutters and senders
    records,    \* billing_records, by number
    mode,       \* whether the model and the settings say to bill
    spent, noted, charged,  \* history: tokens used, cut; the gateway's books
    rebased,                \* history: billed was moved without a record
    overtaken,              \* history: a run was at work during a change of model
    events      \* bound: how many of them happened

rowVars == <<status, row>>
runVars == <<files, run, spent>>
bookVars == <<records, noted, charged>>
history == <<rebased, overtaken>>
Happens == events < MaxEvents /\ events' = events + 1
vars == <<rowVars, runVars, proc, bookVars, mode, history, events>>

Procs == {"runner", "sweep"} \cup Handlers
Statuses == {"queued", "running", "stopped", "failed", "finished", "deleted"}

IdleProc == [pc |-> "idle", then |-> "idle", usage |-> 0, billed |-> 0, seq |-> 0,
             todo |-> {}, rec |-> 0, force |-> FALSE, answer |-> "none", problem |-> FALSE,
             attempts |-> 0, enabled |-> FALSE, was |-> FALSE]

NoRun == [pc |-> "off", billing |-> FALSE, mem |-> 0]

ProcType ==
    [pc : {"idle", "cut", "write", "switch", "settle", "due", "send", "post", "save", "settled",
           "rebase", "commit", "drop"},
     then : {"idle", "switch", "settle", "due", "rebase", "drop"},
     usage : Nat, billed : Nat, seq : Nat, todo : SUBSET Nat, rec : Nat, force : BOOLEAN,
     answer : {"none", "paid", "retry", "refused"}, problem : BOOLEAN,
     attempts : Nat, enabled : BOOLEAN, was : BOOLEAN]

RecordType ==
    [amount : Nat, status : {"pending", "succeeded", "failed"}, due : BOOLEAN, attempts : Nat]

BillingTypeOK ==
    /\ status \in Statuses
    /\ row \in [usage : Nat, billed : Nat, seq : Nat, enabled : BOOLEAN]
    /\ files \in Nat
    /\ run \in [pc : {"off", "prepare", "work", "final"}, billing : BOOLEAN, mem : Nat]
    /\ proc \in [Procs -> ProcType]
    /\ records \in Seq(RecordType)
    /\ row.seq = Len(records)
    /\ mode \in BOOLEAN
    /\ spent \in Nat /\ noted \in Nat /\ charged \subseteq Nat
    /\ rebased \in BOOLEAN /\ overtaken \in BOOLEAN /\ events \in Nat

(* A job that is new, billed or not, or one whose worker died before its   *)
(* first record.                                                           *)
Init ==
    /\ \/ "new" \in Starts /\ status = "queued" /\ spent = 0 /\ mode = TRUE
       \/ "unbilled" \in Starts /\ status = "queued" /\ spent = 0 /\ mode = FALSE
       \/ "orphaned" \in Starts /\ status = "running" /\ spent = 1 /\ mode = TRUE
    /\ row = [usage |-> spent, billed |-> 0, seq |-> 0, enabled |-> mode]
    /\ files = spent /\ run = NoRun
    /\ proc = [p \in Procs |-> IdleProc]
    /\ records = <<>>
    /\ noted = 0 /\ charged = {} /\ rebased = FALSE /\ overtaken = FALSE
    /\ events = 0

Goto(p, pc) == proc' = [proc EXCEPT ![p].pc = pc]
At(p, pc) == proc[p].pc = pc

(* cut, then go on at "then"; settle_job starts at "settle".               *)
Continue(p) == proc' = [proc EXCEPT ![p] = [IdleProc EXCEPT !.pc = proc[p].then, !.force = proc[p].force,
                                                            !.enabled = proc[p].enabled]]
Cutting(then) == [IdleProc EXCEPT !.pc = "cut", !.then = then]
CuttingForced(then) == [Cutting(then) EXCEPT !.force = TRUE]

-----------------------------------------------------------------------------
(* billing.cut: read the row ...                                           *)
CutRead(p) ==
    /\ At(p, "cut")
    /\ IF status # "deleted" /\ row.enabled /\ row.usage > row.billed
       THEN proc' = [proc EXCEPT ![p].pc = "write", ![p].usage = row.usage,
                                 ![p].billed = row.billed, ![p].seq = row.seq]
       ELSE Continue(p)
    /\ UNCHANGED <<rowVars, runVars, bookVars, mode, history, events>>

StillCurrent_NoLock(p) == status # "deleted"                       \* mutant
StillCurrent(p) == status # "deleted" /\ row.seq = proc[p].seq

RowAfterCut_KeepsSeq(p) == [row EXCEPT !.billed = proc[p].usage]   \* mutant
RowAfterCut_BilledToNow(p) == [row EXCEPT !.seq = @ + 1, !.billed = row.usage] \* mutant
RowAfterCut(p) == [row EXCEPT !.seq = @ + 1, !.billed = proc[p].usage]

(* ... and move billed up and add the record in one transaction, unless    *)
(* billing_seq says that somebody else has.                                *)
CutWrite(p) ==
    /\ At(p, "write")
    /\ IF StillCurrent(p)
       THEN /\ row' = RowAfterCut(p)
            /\ records' = Append(records,
                   [amount |-> proc[p].usage - proc[p].billed, status |-> "pending",
                    due |-> TRUE, attempts |-> 0])
            /\ noted' = noted + (proc[p].usage - proc[p].billed)
       ELSE UNCHANGED <<row, records, noted>>
    /\ Continue(p)
    /\ UNCHANGED <<status, runVars, charged, mode, history, events>>

-----------------------------------------------------------------------------
(* settle_job, sweep and the retry of one record: send the records of      *)
(* todo one by one.                                                        *)
Sendable(force) == IF force THEN {"pending", "failed"} ELSE {"pending"}

Settle(p) ==
    /\ At(p, "settle")
    /\ proc' = [proc EXCEPT ![p].pc = "send",
                   ![p].todo = {n \in DOMAIN records : records[n].status \in Sendable(proc[p].force)
                                                         /\ status # "deleted"}]
    /\ UNCHANGED <<rowVars, runVars, bookVars, mode, history, events>>

(* _claim: a record that another process is sending, or that is to wait,   *)
(* is passed over, the others are read.  The smallest number comes first.  *)
Claim(p) ==
    /\ At(p, "send")
    /\ \E n \in proc[p].todo :
        /\ \A m \in proc[p].todo : n <= m
        /\ IF records[n].due /\ records[n].status \in Sendable(proc[p].force)
           THEN /\ records' = [records EXCEPT ![n].status = "pending", ![n].due = FALSE]
                /\ proc' = [proc EXCEPT ![p].pc = "post", ![p].rec = n, ![p].todo = @ \ {n},
                                         ![p].attempts = records[n].attempts]
           ELSE /\ proc' = [proc EXCEPT ![p].todo = @ \ {n}]
                /\ UNCHANGED records
    /\ UNCHANGED <<rowVars, runVars, noted, charged, mode, history, events>>

(* post_billing.  The gateway knows a request by its number: a number it   *)
(* has charged it does not charge again.  Its answer may be lost or tell   *)
(* to come back later.                                                     *)
Post(p) ==
    LET n == proc[p].rec
        Answered(a, c) == /\ proc' = [proc EXCEPT ![p].pc = "save", ![p].answer = a]
                          /\ charged' = c
        Paid == Answered("paid", charged \cup {n}) /\ UNCHANGED events
        Lost == Answered("retry", charged \cup {n})
        Later == Answered("retry", charged)
        Refused == n \notin charged /\ Answered("refused", charged)
    IN
    /\ At(p, "post")
    /\ Paid \/ (Happens /\ (Lost \/ Later \/ Refused))
    /\ UNCHANGED <<rowVars, runVars, records, noted, mode, history>>

StatusAfter_LateIsPaid(a, now) == IF a = "refused" THEN "failed" ELSE "succeeded" \* mutant
StatusAfter(a, now) == CASE a = "paid" -> "succeeded" [] a = "refused" -> "failed" [] a = "retry" -> now

(* send: whatever the record says by now, the result is written, but for   *)
(* a status that is still pending, as it was read.  A refusal ends         *)
(* settle_job; the sweep goes on.                                          *)
Save(p) ==
    LET n == proc[p].rec
        a == proc[p].answer
        tries == IF proc[p].attempts < SoftFailLimit THEN proc[p].attempts + 1 ELSE SoftFailLimit
        refused == a = "refused"
    IN
    /\ At(p, "save")
    /\ records' = [records EXCEPT ![n].attempts = tries,
                                  ![n].status = StatusAfter(a, records[n].status),
                                  ![n].due = (a # "retry")]
    /\ proc' = [proc EXCEPT ![p] =
           IF refused /\ p = "runner" THEN [IdleProc EXCEPT !.pc = "settled", !.problem = TRUE]
           ELSE IF refused /\ p \in Handlers THEN IdleProc
           ELSE [@ EXCEPT !.pc = "send", !.rec = 0, !.answer = "none", !.attempts = 0]]
    /\ UNCHANGED <<rowVars, runVars, noted, charged, mode, history, events>>

Stuck == \E n \in DOMAIN records : records[n].status = "pending" /\ records[n].attempts >= SoftFailLimit

Settled(p) ==
    /\ At(p, "send") /\ proc[p].todo = {}
    /\ proc' = IF p = "runner" THEN [proc EXCEPT ![p] = [IdleProc EXCEPT !.pc = "settled", !.problem = Stuck]]
               ELSE [proc EXCEPT ![p] = IdleProc]
    /\ UNCHANGED <<rowVars, runVars, bookVars, mode, history, events>>

(* The time a claim or a back-off holds a record back is over.             *)
Ripen(n) ==
    /\ ~records[n].due
    /\ records' = [records EXCEPT ![n].due = TRUE]
    /\ UNCHANGED <<rowVars, runVars, proc, noted, charged, mode, history, events>>

Bill(p) == CutRead(p) \/ CutWrite(p) \/ Settle(p) \/ Claim(p) \/ Post(p) \/ Save(p) \/ Settled(p)

-----------------------------------------------------------------------------
(* The run.  It starts from the tokens of the result files.                *)
SetStatus(s) == status' = IF status = "deleted" THEN status ELSE s

Changing(p) == proc[p].then = "rebase" \/ proc[p].pc \in {"rebase", "commit"}

Load ==
    /\ run = NoRun /\ status \in {"queued", "running"}
    /\ run' = [pc |-> "prepare", billing |-> mode, mem |-> files]
    /\ proc' = [proc EXCEPT !["runner"] =
           IF row.enabled # mode THEN IF row.enabled THEN Cutting("switch")
                                      ELSE [IdleProc EXCEPT !.pc = "switch"]
           ELSE IF mode THEN CuttingForced("settle") ELSE [IdleProc EXCEPT !.pc = "settled"]]
    /\ overtaken' = (overtaken \/ \E p \in Handlers : Changing(p))
    /\ UNCHANGED <<rowVars, files, spent, bookVars, mode, rebased, events>>

(* _prepare_billing, the way of billing has changed: the counters start    *)
(* from the files.                                                         *)
Switch ==
    /\ run.pc = "prepare" /\ At("runner", "switch")
    /\ row' = [row EXCEPT !.usage = run.mem, !.billed = run.mem, !.enabled = run.billing]
    /\ proc' = [proc EXCEPT !["runner"] = IF run.billing THEN CuttingForced("settle")
                                          ELSE [IdleProc EXCEPT !.pc = "settled"]]
    /\ rebased' = TRUE
    /\ UNCHANGED <<status, runVars, bookVars, mode, overtaken, events>>

StartWork ==
    /\ run.pc = "prepare" /\ At("runner", "settled") /\ ~proc["runner"].problem
    /\ SetStatus("running")
    /\ run' = [run EXCEPT !.pc = "work"]
    /\ proc' = [proc EXCEPT !["runner"] = IdleProc]
    /\ UNCHANGED <<row, files, spent, bookVars, mode, history, events>>

PauseForBilling ==
    /\ run.pc = "prepare" /\ At("runner", "settled") /\ proc["runner"].problem
    /\ SetStatus("stopped")
    /\ run' = NoRun
    /\ proc' = [proc EXCEPT !["runner"] = IdleProc]
    /\ UNCHANGED <<row, files, spent, bookVars, mode, history, events>>

(* An item is answered; its result waits in the writer's buffer.           *)
Consume ==
    /\ run.pc = "work" /\ spent < MaxTokens
    /\ run' = [run EXCEPT !.mem = @ + 1]
    /\ spent' = spent + 1
    /\ UNCHANGED <<rowVars, files, proc, bookVars, mode, history, events>>

FlushFiles ==
    /\ run.pc = "work" /\ files # run.mem
    /\ files' = run.mem
    /\ UNCHANGED <<rowVars, run, spent, proc, bookVars, mode, history, events>>

FlushDb ==
    /\ run.pc = "work" /\ row.usage # run.mem
    /\ row' = [row EXCEPT !.usage = run.mem]
    /\ UNCHANGED <<status, runVars, proc, bookVars, mode, history, events>>

(* _billing_loop: now and then _bill, beside the items.                    *)
BillNow ==
    /\ run.pc = "work" /\ run.billing /\ At("runner", "idle")
    /\ row' = [row EXCEPT !.usage = run.mem]
    /\ proc' = [proc EXCEPT !["runner"] = Cutting("settle")]
    /\ UNCHANGED <<status, runVars, bookVars, mode, history, events>>

BilledOn ==
    /\ run.pc = "work" /\ At("runner", "settled") /\ ~proc["runner"].problem
    /\ proc' = [proc EXCEPT !["runner"] = IdleProc]
    /\ UNCHANGED <<rowVars, runVars, bookVars, mode, history, events>>

(* The end of the items, a signal or a problem of the biller, whichever    *)
(* comes first: the biller is canceled wherever it is, the results are     *)
(* flushed, _finalize writes counters and status and bills what is left.   *)
EndRun ==
    /\ run.pc = "work"
    /\ files' = run.mem
    /\ row' = [row EXCEPT !.usage = run.mem]
    /\ \E s \in {"finished", "stopped"} : SetStatus(s)
    /\ IF run.billing
       THEN /\ run' = [run EXCEPT !.pc = "final"]
            /\ proc' = [proc EXCEPT !["runner"] = Cutting("settle")]
       ELSE /\ run' = NoRun
            /\ proc' = [proc EXCEPT !["runner"] = IdleProc]
    /\ UNCHANGED <<spent, bookVars, mode, history, events>>

FinalBilled ==
    /\ run.pc = "final" /\ At("runner", "settled")
    /\ run' = NoRun
    /\ proc' = [proc EXCEPT !["runner"] = IdleProc]
    /\ UNCHANGED <<rowVars, files, spent, bookVars, mode, history, events>>

(* An error, which may be one of flushing the results: only then are the   *)
(* counters not flushed after them.  _fail_job writes the status, and bills*)
(* what is left, which flushes the counters once more.                     *)
FailRun ==
    /\ run.pc = "work"
    /\ Happens
    /\ \E flushed \in BOOLEAN :
          /\ files' = IF flushed THEN run.mem ELSE files
          /\ row' = IF flushed \/ run.billing THEN [row EXCEPT !.usage = run.mem] ELSE row
    /\ SetStatus("failed")
    /\ IF run.billing
       THEN /\ run' = [run EXCEPT !.pc = "final"]
            /\ proc' = [proc EXCEPT !["runner"] = Cutting("settle")]
       ELSE /\ run' = NoRun
            /\ proc' = [proc EXCEPT !["runner"] = IdleProc]
    /\ UNCHANGED <<spent, bookVars, mode, history>>

(* The worker dies: what was not flushed is gone.  Its job is loaded again *)
(* after the reaper has queued it.                                         *)
CrashRun ==
    /\ run.pc # "off"
    /\ Happens
    /\ run' = NoRun
    /\ proc' = [proc EXCEPT !["runner"] = IdleProc]
    /\ UNCHANGED <<rowVars, files, spent, bookVars, mode, history>>

(* The process of a sweep or of a request dies.                            *)
CrashProc(p) ==
    /\ p # "runner" /\ ~At(p, "idle")
    /\ Happens
    /\ proc' = [proc EXCEPT ![p] = IdleProc]
    /\ UNCHANGED <<rowVars, runVars, bookVars, mode, history>>

-----------------------------------------------------------------------------

(* billing.sweep, of one worker at a time: what jobs that do not run have  *)
(* not cut, then the records that are due.                                 *)
Uncut_OfPaused == status = "stopped" /\ row.enabled /\ row.usage > row.billed \* mutant
Uncut == status \notin {"running", "deleted"} /\ row.enabled /\ row.usage > row.billed
Due_NewOnly == {n \in DOMAIN records : records[n].status = "pending" /\ records[n].attempts = 0} \* mutant
Due == {n \in DOMAIN records : records[n].status = "pending" /\ records[n].due}

Sweep ==
    /\ At("sweep", "idle") /\ (Uncut \/ Due # {})
    /\ proc' = [proc EXCEPT !["sweep"] = IF Uncut THEN Cutting("due") ELSE [IdleProc EXCEPT !.pc = "due"]]
    /\ UNCHANGED <<rowVars, runVars, bookVars, mode, history, events>>

SweepDue ==
    /\ At("sweep", "due")
    /\ proc' = [proc EXCEPT !["sweep"].pc = "send", !["sweep"].todo = Due]
    /\ UNCHANGED <<rowVars, runVars, bookVars, mode, history, events>>

-----------------------------------------------------------------------------
(* Requests.  Those that do more than one thing are at work in a handler   *)
(* each, beside the others.                                                *)
Request(p, state) == At(p, "idle") /\ Happens /\ proc' = [proc EXCEPT ![p] = state]

(* Bound: beyond the last event, a job not billed so far may still be      *)
(* resumed while its model is being changed.                               *)
OneMore ==
    /\ events = MaxEvents /\ events' = events + 1
    /\ records = <<>> /\ \E p \in Handlers : Changing(p)

(* resume and retry-failed: the job runs again. *)
Resume ==
    /\ status \in {"stopped", "failed", "finished"}
    /\ Happens \/ OneMore
    /\ status' = "queued"
    /\ UNCHANGED <<row, runVars, proc, bookVars, mode, history>>

(* _settle_orphan: cancel or pause of a job whose worker has died, or is   *)
(* so slow that it seems to have.                                          *)
SettleOrphan ==
    /\ status = "running" /\ Happens
    /\ status' = "stopped"
    /\ UNCHANGED <<row, runVars, proc, bookVars, mode, history>>

(* change_model: cut_before_change cuts, reads the row again and moves     *)
(* billed up to its usage.  A job that is not billed is read once.         *)
ChangeModel(p) ==
    /\ status \in {"stopped", "failed"}
    /\ \E after \in BOOLEAN :
         Request(p, IF row.enabled THEN [Cutting("rebase") EXCEPT !.enabled = after]
                    ELSE [IdleProc EXCEPT !.pc = "commit", !.usage = row.usage, !.billed = row.billed,
                                          !.enabled = after])
    /\ overtaken' = (overtaken \/ run.pc \in {"prepare", "work"})
    /\ UNCHANGED <<rowVars, runVars, bookVars, mode, rebased>>

Rebase(p) ==
    /\ At(p, "rebase")
    /\ proc' = [proc EXCEPT ![p] =
           IF status = "deleted" THEN IdleProc
           ELSE [@ EXCEPT !.pc = "commit", !.usage = row.usage, !.billed = row.billed, !.was = row.enabled]]
    /\ UNCHANGED <<rowVars, runVars, bookVars, mode, history, events>>

(* The session writes the columns that differ from what it read.           *)
CommitChange(p) ==
    /\ At(p, "commit")
    /\ IF status = "deleted" THEN UNCHANGED <<row, mode, rebased>>
       ELSE /\ row' = [row EXCEPT !.enabled = IF proc[p].was = proc[p].enabled THEN @ ELSE proc[p].enabled,
                                  !.billed = IF proc[p].usage = proc[p].billed THEN @ ELSE proc[p].usage]
            /\ rebased' = TRUE
            /\ mode' = proc[p].enabled
    /\ proc' = [proc EXCEPT ![p] = IdleProc]
    /\ UNCHANGED <<status, runVars, bookVars, overtaken, events>>

Delete(p) ==
    /\ status \in {"stopped", "failed", "finished"}
    /\ Request(p, IF row.enabled THEN Cutting("drop") ELSE [IdleProc EXCEPT !.pc = "drop"])
    /\ UNCHANGED <<rowVars, runVars, bookVars, mode, history>>

Drop(p) ==
    /\ At(p, "drop")
    /\ status' = "deleted"
    /\ proc' = [proc EXCEPT ![p] = IdleProc]
    /\ UNCHANGED <<row, runVars, bookVars, mode, history, events>>

(* The user's retry of a job's records, the administrator's of one.        *)
RetryBilling(p) ==
    /\ status # "deleted"
    /\ Request(p, IF status # "running" THEN CuttingForced("settle")
                  ELSE [IdleProc EXCEPT !.pc = "settle", !.force = TRUE])
    /\ UNCHANGED <<rowVars, runVars, bookVars, mode, history>>

RetryRecord(p, n) ==
    /\ records[n].status # "succeeded"
    /\ Request(p, [IdleProc EXCEPT !.pc = "send", !.todo = {n}, !.force = TRUE])
    /\ UNCHANGED <<rowVars, runVars, bookVars, mode, history>>

(* The administrator switches billing, or the billing of this model.       *)
ToggleMode ==
    /\ Happens
    /\ mode' = ~mode
    /\ UNCHANGED <<rowVars, runVars, proc, bookVars, history>>

Running == Load \/ Switch \/ StartWork \/ PauseForBilling \/ BilledOn \/ EndRun \/ FinalBilled
Working == Consume \/ FlushFiles \/ FlushDb \/ BillNow
Failing == FailRun \/ CrashRun \/ \E p \in Procs : CrashProc(p)
Sweeping == Sweep \/ SweepDue
Requesting ==
    \/ Resume \/ SettleOrphan \/ ToggleMode
    \/ \E p \in Handlers :
          \/ ChangeModel(p) \/ Rebase(p) \/ CommitChange(p) \/ Delete(p) \/ Drop(p) \/ RetryBilling(p)
          \/ \E n \in DOMAIN records : RetryRecord(p, n)

Next ==
    \/ \E p \in Procs : Bill(p)
    \/ \E n \in DOMAIN records : Ripen(n)
    \/ Running \/ Working \/ Failing \/ Sweeping \/ Requesting

Spec == Init /\ [][Next]_vars

(* The sweep returns (worker/main.py:221) and goes through with what it    *)
(* has begun, and the waiting times of records pass, one after the other.  *)
(* Nothing makes a user, an administrator, a failure or even a run act.    *)
Fairness ==
    /\ WF_proc(Sweeping \/ Bill("sweep"))
    /\ WF_records(\E n \in DOMAIN records : Ripen(n))

FairSpec == Spec /\ Fairness

-----------------------------------------------------------------------------
(* No more tokens are ever cut into records than were really used, however *)
(* cuts by the runner, the sweep and the API interleave with resumes and   *)
(* changes of model, and although a crash makes the counters fall and      *)
(* tokens are used again (billing.py:3).  It does not hold once a run was  *)
(* at work while a change of model was under way: resume_job does not keep *)
(* one from the other, and the commit (api/jobs.py:1012) takes billed back *)
(* to the usage that the change had read.                                  *)
NotOvercharged == overtaken \/ noted <= spent

(* The summary a user sees (job_summary) accounts for all of the usage:    *)
(* what is charged, waiting or refused and what is not cut yet add up, as  *)
(* long as billed was never moved without a record.                        *)
Amount(s) == MapThenSumSet(LAMBDA n : records[n].amount, {n \in DOMAIN records : records[n].status = s})
Unbilled == IF row.enabled /\ row.usage > row.billed THEN row.usage - row.billed ELSE 0

SummaryAddsUp ==
    ~rebased /\ row.enabled =>
        Amount("succeeded") + Amount("pending") + Amount("failed") + Unbilled
            = IF row.usage > row.billed THEN row.usage ELSE row.billed

(* A record that says it is paid is paid: no late answer, lapse of a claim *)
(* or second sender makes one of a request the gateway has not charged.    *)
SucceededIsCharged ==
    \A n \in DOMAIN records : records[n].status = "succeeded" => n \in charged

(* Billing keeps the ledger it promises: bills are numbered, never change  *)
(* and are charged once, and they are for tokens not billed before, unless *)
(* a run has overtaken a change of model.                                  *)
OurLedger == INSTANCE Ledger WITH bills <- [n \in DOMAIN records |-> records[n].amount]
KeepsTheLedger ==
    /\ OurLedger!Init
    /\ [][OurLedger!Next \/ (overtaken' /\ noted' > noted /\ OurLedger!Note(noted' - noted))]_(OurLedger!vars)

(* The usage of a finished job is cut into records, by its run or, when    *)
(* that died or lost a race, by the sweep.                                 *)
FinishedIsNoted ==
    status = "finished" /\ row.enabled ~>
        status # "finished" \/ ~row.enabled \/ files <= row.billed

(* A record waiting to be sent is answered for good, paid or refused,      *)
(* whoever died with it in hand.                                           *)
BillsSettle ==
    \A n \in 1..MaxTokens :
        n \in DOMAIN records /\ records[n].status = "pending"
            ~> n \in DOMAIN records /\ records[n].status # "pending"
=============================================================================
