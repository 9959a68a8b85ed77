------------------------------- MODULE Items -------------------------------
(***************************************************************************)
(* The items of one job and their answers: the dispatch loop of a run      *)
(* (worker/runner.py), the inference client with its rate limiter          *)
(* (services/inference.py), the buffered result files and the scan that    *)
(* resumes from them (services/results.py), and the requests that start    *)
(* the job again (api/jobs.py).                                            *)
(*                                                                         *)
(* An answer counts in memory once it is in the writer's buffer, and       *)
(* reaches the disk with a later flush.  A flush may fail, a crash may     *)
(* tear the line being written, and a stop abandons an append that its     *)
(* thread finishes all the same.  One run at a time is assumed             *)
(* (JobDispatch!SingleRunner).                                             *)
(***************************************************************************)
EXTENDS Naturals, Sequences, FiniteSets, Functions

CONSTANTS
    N,              \* the items of the input file are 1..N
    Concurrency,    \* requests in flight
    FlushSize,      \* lines a buffer holds before it is flushed
    MaxRetries,     \* of the model configuration
    Tpm,            \* tokens the limiter's bucket holds; 0: no limit
    Estimate,       \* what an item takes from it
    MaxEvents       \* bound: stops, faults, crashes and requests

ASSUME ItemsAssumption ==
    /\ N \in Nat /\ Concurrency \in Nat \ {0} /\ FlushSize \in Nat \ {0}
    /\ MaxRetries \in Nat /\ Tpm \in Nat /\ Estimate \in [1..N -> Nat \ {0}]
    /\ MaxEvents \in Nat

VARIABLES
    row,        \* the job's row: status, completed_items, failed_items
    file,       \* output.jsonl and errors.jsonl
    run,        \* the run: where it is, what it found done, its counters
    item,       \* the tasks of its items: where they are, attempts, outcome
    buf,        \* the writer's buffers
    flush,      \* the flush that holds the writer's lock, if one does
    stray,      \* appends whose item was cancelled under them
    bucket,     \* tokens left in the limiter
    harmed,     \* history: items whose line was lost or spoilt, or came late,
                \* since the last scan
    events      \* bound: how many events happened

memory == <<run, item, buf, flush, bucket>>
vars == <<row, file, memory, stray, harmed, events>>

Items == 1..N
Files == {"out", "err"}
Finished == {"succeeded", "completed"}
Terminal == Finished \cup {"failed", "canceled"}
Happens == events < MaxEvents /\ events' = events + 1

NewItem == [pc |-> "new", tries |-> 0, good |-> TRUE]
Counted == [NewItem EXCEPT !.pc = "counted"]
NoFlush == [by |-> 0, out |-> <<>>, err |-> <<>>]
Empty == [lines |-> <<>>, open |-> FALSE]
NoRun == [pc |-> "off", done |-> {}, next |-> 1, completed |-> 0, failed |-> 0,
          stop |-> "none", end |-> "none"]
TheRun == N + 1     \* holds the lock like an item does

ItemsTypeOK ==
    /\ row \in [status : Terminal \cup {"queued", "running", "paused"},
                completed : 0..N, failed : 0..N]
    /\ \A f \in Files : file[f].lines \in Seq(0..N) /\ file[f].open \in BOOLEAN
    /\ run.pc \in {"off", "loop", "gather", "drain", "write", "final"}
    /\ run.done \subseteq Items /\ run.next \in 1..(N + 1)
    /\ run.completed + run.failed <= N
    /\ run.completed + run.failed >= Cardinality(run.done)
    /\ item \in [Items -> [pc : {"new", "waiting", "limited", "posted", "answered", "flushing",
                                 "counted", "skipped", "raised"},
                           tries : 0..(MaxRetries + 1), good : BOOLEAN]]
    /\ \A f \in Files : buf[f] \in Seq(Items) /\ Len(buf[f]) < FlushSize
    /\ flush.by \in 0..TheRun
    /\ \A s \in stray : s.file \in Files /\ Range(s.lines) \subseteq Items /\ s.landed \in BOOLEAN
    /\ bucket \in 0..Tpm /\ harmed \subseteq Items /\ events \in 0..MaxEvents

Init ==
    /\ row = [status |-> "queued", completed |-> 0, failed |-> 0]
    /\ file = [f \in Files |-> Empty]
    /\ run = NoRun /\ item = [i \in Items |-> NewItem]
    /\ buf = [f \in Files |-> <<>>] /\ flush = NoFlush
    /\ stray = {} /\ bucket = Tpm /\ harmed = {} /\ events = 0

-----------------------------------------------------------------------------
(* Files.  A line is the item it answers, or 0 when it does not parse; the *)
(* last line of an open file lacks its newline, so that the next one is    *)
(* glued to it and neither parses.                                         *)
Readable(f) == Range(f.lines) \ {0}

(* _append_lines *)
Appended(f, ls) ==
    IF ls = <<>> THEN f
    ELSE IF f.open THEN [lines |-> [f.lines EXCEPT ![Len(f.lines)] = 0] \o Tail(ls), open |-> FALSE]
    ELSE [lines |-> f.lines \o ls, open |-> FALSE]

(* The same, cut short: whole lines, perhaps a part of the next one, or a  *)
(* last line that is whole but for its newline.                            *)
CutShort(f, ls) ==
    {f} \cup UNION {
        LET g == Appended(f, SubSeq(ls, 1, k))
            torn == Appended(f, SubSeq(ls, 1, k - 1) \o <<0>>)
        IN  {g, [g EXCEPT !.open = TRUE], [torn EXCEPT !.open = TRUE]} : k \in 1..Len(ls)}

Damaged(f, ls, g) == (Readable(f) \cup Range(ls)) \ Readable(g)

-----------------------------------------------------------------------------
(* scan_resume_state and _mark_running: the answered items are those the   *)
(* files name, an item of both files being a success.                      *)
Scanned_OutOnly == Readable(file["out"])                                \* mutant
Scanned == Readable(file["out"]) \cup Readable(file["err"])
Successes == Readable(file["out"])

Restored_FromRow == [completed |-> row.completed, failed |-> row.failed] \* mutant
Restored == [completed |-> Cardinality(Successes), failed |-> Cardinality(Scanned \ Successes)]

Load ==
    /\ row.status = "queued" /\ run.pc = "off"
    /\ run' = [NoRun EXCEPT !.pc = "loop", !.done = Scanned,
                            !.completed = Restored.completed, !.failed = Restored.failed]
    /\ row' = [status |-> "running", completed |-> Restored.completed, failed |-> Restored.failed]
    /\ item' = [i \in Items |-> NewItem]
    /\ bucket' = Tpm /\ harmed' = {}
    /\ UNCHANGED <<file, buf, flush, stray, events>>

-----------------------------------------------------------------------------
(* _dispatch: one task per item that is not done, at most four per slot.   *)
Busy == {i \in Items : item[i].pc \in {"limited", "posted", "answered", "flushing"}}
Pending == Busy \cup {i \in Items : item[i].pc = "waiting"}

Dispatch(i) ==
    /\ run.pc = "loop" /\ run.next = i /\ run.stop = "none"
    /\ Cardinality(Pending) < 4 * Concurrency
    /\ run' = [run EXCEPT !.next = i + 1]
    /\ item' = IF i \in run.done THEN item ELSE [item EXCEPT ![i].pc = "waiting"]
    /\ UNCHANGED <<row, file, buf, flush, stray, bucket, harmed, events>>

AllDispatched ==
    /\ run.pc = "loop" /\ run.next > N
    /\ run' = [run EXCEPT !.pc = "gather"]
    /\ UNCHANGED <<row, file, item, buf, flush, stray, bucket, harmed, events>>

(* The loop raises: the pending tasks are cancelled.  The append of one    *)
(* that was flushing goes on in its thread; what was still to follow it is *)
(* gone with the task, as are answers that wait for the lock.              *)
Abort(end) ==
    LET f == IF flush.out # <<>> THEN "out" ELSE "err" IN
    /\ run' = [run EXCEPT !.pc = "drain", !.end = end]
    /\ item' = [i \in Items |-> IF i \in Pending THEN NewItem ELSE item[i]]
    /\ stray' = IF flush.by \in Items /\ flush[f] # <<>>
                THEN stray \cup {[file |-> f, lines |-> flush[f], landed |-> FALSE]} ELSE stray
    /\ flush' = NoFlush
    /\ UNCHANGED <<row, file, buf, bucket, harmed>>

LoopStops ==
    /\ run.pc = "loop" /\ run.next <= N /\ run.stop # "none"
    /\ Abort(run.stop) /\ UNCHANGED events

(* The database fails in _maybe_flush, the one after the last item too, or *)
(* the input does not parse.                                               *)
LoopFails == run.pc = "loop" /\ Happens /\ Abort("failed")

(* gather is over, whatever the tasks raised.                              *)
EndOf_StopLate(r) == IF r.failed = 0 THEN "succeeded" ELSE "completed"  \* mutant
EndOf(r) ==
    IF r.stop # "none" /\ r.completed + r.failed < N THEN r.stop
    ELSE IF r.failed = 0 THEN "succeeded" ELSE "completed"

Gathered ==
    /\ run.pc = "gather" /\ Pending = {}
    /\ run' = [run EXCEPT !.pc = "drain", !.end = EndOf(run)]
    /\ UNCHANGED <<row, file, item, buf, flush, stray, bucket, harmed, events>>

(* The finally of _dispatch flushes what the buffers hold.                 *)
Drain ==
    /\ run.pc = "drain" /\ flush.by = 0
    /\ flush' = [by |-> TheRun, out |-> buf["out"], err |-> buf["err"]]
    /\ buf' = [f \in Files |-> <<>>]
    /\ run' = [run EXCEPT !.pc = "write"]
    /\ UNCHANGED <<row, file, item, stray, bucket, harmed, events>>

(* _flush_db, then _finalize or _fail_job, which leaves the counters.      *)
Finalize ==
    /\ run.pc = "final"
    /\ row' = IF run.end = "failed" THEN [row EXCEPT !.status = "failed"]
              ELSE [status |-> run.end, completed |-> run.completed, failed |-> run.failed]
    /\ run' = NoRun
    /\ item' = [i \in Items |-> NewItem] /\ bucket' = Tpm
    /\ UNCHANGED <<file, buf, flush, stray, harmed, events>>

-----------------------------------------------------------------------------
(* process: wait for a slot, leave if the run is to stop, ask the model.   *)
Enter(i) ==
    /\ item[i].pc = "waiting" /\ Cardinality(Busy) < Concurrency
    /\ item' = [item EXCEPT ![i].pc = IF run.stop = "none" THEN "limited" ELSE "skipped"]
    /\ UNCHANGED <<row, file, run, buf, flush, stray, bucket, harmed, events>>

(* RateLimiter.acquire *)
Acquire(i) ==
    /\ item[i].pc = "limited"
    /\ Tpm = 0 \/ bucket >= Estimate[i]
    /\ bucket' = IF Tpm = 0 THEN 0 ELSE bucket - Estimate[i]
    /\ item' = [item EXCEPT ![i].pc = "posted", ![i].tries = @ + 1]
    /\ UNCHANGED <<row, file, run, buf, flush, stray, harmed, events>>

Capacity_OffByOne == Tpm - 1    \* mutant
Capacity == Tpm

(* RateLimiter._refill *)
Refill ==
    /\ run.pc # "off" /\ bucket < Capacity
    /\ bucket' = bucket + 1
    /\ UNCHANGED <<row, file, run, item, buf, flush, stray, harmed, events>>

(* complete: an answer, an error that is not tried again, or one that is.  *)
Answer(i) ==
    /\ item[i].pc = "posted"
    /\ \/ \E good \in BOOLEAN :
            item' = [item EXCEPT ![i] = [pc |-> "answered", tries |-> 0, good |-> good]]
       \/ /\ item[i].tries <= MaxRetries
          /\ item' = [item EXCEPT ![i].pc = "limited"]
    /\ UNCHANGED <<row, file, run, buf, flush, stray, bucket, harmed, events>>

Bump(i) == [run EXCEPT !.completed = IF item[i].good THEN @ + 1 ELSE @,
                       !.failed = IF item[i].good THEN @ ELSE @ + 1]

Full_OffByOne(b) == Len(b) > FlushSize      \* mutant
Full(b) == Len(b) >= FlushSize

(* write_success, write_failure: a full buffer takes both to the disk.     *)
Store(i) ==
    LET f == IF item[i].good THEN "out" ELSE "err"
        b == [buf EXCEPT ![f] = Append(@, i)]
    IN
    /\ item[i].pc = "answered" /\ flush.by = 0
    /\ IF Full(b[f])
       THEN /\ flush' = [by |-> i, out |-> b["out"], err |-> b["err"]]
            /\ buf' = [g \in Files |-> <<>>]
            /\ item' = [item EXCEPT ![i].pc = "flushing"]
            /\ UNCHANGED run
       ELSE /\ buf' = b
            /\ item' = [item EXCEPT ![i] = Counted]
            /\ run' = Bump(i)
            /\ UNCHANGED flush
    /\ UNCHANGED <<row, file, stray, bucket, harmed, events>>

(* _flush_locked: output.jsonl first, then errors.jsonl.                   *)
WritingNow == flush.by # 0 /\ (flush.out # <<>> \/ flush.err # <<>>)
Part == IF flush.out # <<>> THEN "out" ELSE "err"

Write ==
    LET g == Appended(file[Part], flush[Part]) IN
    /\ WritingNow
    /\ file' = [file EXCEPT ![Part] = g]
    /\ harmed' = harmed \cup Damaged(file[Part], flush[Part], g)
    /\ flush' = [flush EXCEPT ![Part] = <<>>]
    /\ UNCHANGED <<row, run, item, buf, stray, bucket, events>>

Flushed ==
    /\ flush.by # 0 /\ ~WritingNow
    /\ flush' = NoFlush
    /\ IF flush.by = TheRun
       THEN /\ run' = [run EXCEPT !.pc = "final"]
            /\ row' = [row EXCEPT !.completed = run.completed, !.failed = run.failed]
            /\ UNCHANGED item
       ELSE /\ item' = [item EXCEPT ![flush.by] = Counted]
            /\ run' = Bump(flush.by)
            /\ UNCHANGED row
    /\ UNCHANGED <<file, buf, stray, bucket, harmed, events>>

(* The disk is full: the lines were taken out of the buffers already.  The *)
(* item raises and gather swallows it; the final flush fails the job.      *)
WriteFails ==
    /\ WritingNow /\ Happens
    /\ \E g \in CutShort(file[Part], flush[Part]) :
        /\ file' = [file EXCEPT ![Part] = g]
        /\ harmed' = harmed \cup Damaged(file[Part], flush[Part], g) \cup Range(flush.err)
                            \cup ({flush.by} \cap Items)
    /\ IF flush.by = TheRun
       THEN run' = [run EXCEPT !.pc = "final", !.end = "failed"] /\ UNCHANGED item
       ELSE item' = [item EXCEPT ![flush.by].pc = "raised"] /\ UNCHANGED run
    /\ flush' = NoFlush
    /\ UNCHANGED <<row, buf, stray, bucket>>

(* The thread of an abandoned append gets there.                           *)
Land(s) ==
    LET g == Appended(file[s.file], s.lines) IN
    /\ ~s.landed
    /\ file' = [file EXCEPT ![s.file] = g]
    /\ harmed' = harmed \cup Damaged(file[s.file], s.lines, g) \cup Range(s.lines)
    /\ stray' = (stray \ {s}) \cup {[s EXCEPT !.landed = TRUE]}
    /\ UNCHANGED <<row, memory, events>>

-----------------------------------------------------------------------------
(* _watch_signals and _billing_loop: the first reason to stop is the one.  *)
Stop(status) ==
    /\ run.pc \in {"loop", "gather"} /\ run.stop = "none" /\ Happens
    /\ run' = [run EXCEPT !.stop = status]
    /\ UNCHANGED <<row, file, item, buf, flush, stray, bucket, harmed>>

(* The worker dies; the reaper queues the job again.                       *)
Crash ==
    /\ run.pc # "off" /\ Happens
    /\ IF WritingNow
       THEN \E g \in CutShort(file[Part], flush[Part]) : file' = [file EXCEPT ![Part] = g]
       ELSE UNCHANGED file
    /\ row' = [row EXCEPT !.status = "queued"]
    /\ run' = NoRun /\ item' = [i \in Items |-> NewItem]
    /\ buf' = [f \in Files |-> <<>>] /\ flush' = NoFlush
    /\ stray' = {s \in stray : s.landed}
    /\ bucket' = Tpm
    /\ UNCHANGED harmed

(* resume_job *)
Resume ==
    /\ row.status \in {"paused", "failed", "canceled"} /\ run.pc = "off" /\ Happens
    /\ row' = [row EXCEPT !.status = "queued"]
    /\ UNCHANGED <<file, memory, stray, harmed>>

(* retry_failed: errors.jsonl goes first; the request may die before the   *)
(* commit.                                                                 *)
RetryFailed(commits) ==
    /\ row.status \in Terminal /\ row.failed > 0 /\ run.pc = "off" /\ Happens
    /\ file' = [file EXCEPT !["err"] = Empty]
    /\ harmed' = harmed \cup Readable(file["err"])
    /\ row' = IF commits THEN [row EXCEPT !.status = "queued", !.failed = 0] ELSE row
    /\ UNCHANGED <<memory, stray>>

-----------------------------------------------------------------------------
Looping == (\E i \in Items : Dispatch(i)) \/ AllDispatched \/ LoopStops \/ Gathered \/ Drain \/ Finalize
Processing(i) == Enter(i) \/ Acquire(i) \/ Answer(i) \/ Store(i)
Writing == Write \/ Flushed \/ \E s \in stray : Land(s)
Faults == LoopFails \/ WriteFails \/ Crash
Requests ==
    \/ \E status \in {"paused", "canceled", "queued"} : Stop(status)
    \/ Resume
    \/ \E commits \in BOOLEAN : RetryFailed(commits)

Next ==
    \/ Load \/ Looping \/ Refill \/ Writing
    \/ \E i \in Items : Processing(i)
    \/ Faults \/ Requests

Spec == Init /\ [][Next]_vars

FairSpec ==
    /\ Spec
    /\ WF_vars(Load) /\ WF_vars(Looping) /\ WF_vars(Refill) /\ WF_vars(Writing)
    /\ \A i \in Items : WF_vars(Processing(i))

-----------------------------------------------------------------------------
Twice(i) ==
    \E f, g \in Files : \E k \in DOMAIN file[f].lines, l \in DOMAIN file[g].lines :
        <<f, k>> # <<g, l>> /\ file[f].lines[k] = i /\ file[g].lines[l] = i

(* A download holds no item twice, over both files, however often the run  *)
(* was stopped, killed, resumed or its failures retried: except one whose  *)
(* append was abandoned by a stop and came later than the next scan.       *)
NoneTwice == \A i \in Items : Twice(i) => \E s \in stray : s.landed /\ i \in Range(s.lines)

(* A job that ended well has an answer for every item, but for those whose *)
(* line its last run lost: to a failed write, behind a torn line, or to a  *)
(* retry whose request died.                                               *)
AllAnswered ==
    row.status \in Finished =>
        Items \ (Readable(file["out"]) \cup Readable(file["err"])) \subseteq harmed

(* And then the numbers the user is shown are those of the files.          *)
CountsMatch ==
    row.status \in Finished /\ harmed = {} =>
        /\ row.completed = Cardinality(Readable(file["out"]))
        /\ row.failed = Cardinality(Readable(file["err"]) \ Readable(file["out"]))
        /\ row.completed + row.failed = N

(* A run ends, stopped or not, whatever its requests and writes meet, as   *)
(* long as no item asks for more tokens than the bucket can ever hold.     *)
RunEnds == (\A i \in Items : Tpm = 0 \/ Estimate[i] <= Tpm) => (run.pc # "off" ~> run.pc = "off")
=============================================================================
