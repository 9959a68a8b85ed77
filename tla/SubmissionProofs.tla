-------------------------- MODULE SubmissionProofs --------------------------
(***************************************************************************)
(* Proofs about BatchCli, the server of Submission with its client and web *)
(* page, for any number of handlers and parts and any quotas: an upload    *)
(* becomes the input of one job, a job that is to run has its input, no    *)
(* input file is left that nobody cares for, what was downloaded is joined *)
(* in any order, the manifest names the jobs, and the quotas hold.  The    *)
(* invariants build on each other: Inv is about the files and the handlers *)
(* alone, ClientInv adds what the client knows, QuotaInv the sums.         *)
(***************************************************************************)
EXTENDS BatchCli, Sums

Statuses == {"new", "queued", "running", "paused", "gone"} \cup Terminal
JobType == [from : Nat, status : Statuses, purged : BOOLEAN, failed : BOOLEAN,
            result : {"none", "ok", "error"}]
IsSequence(s) == s \in Seq({s[i] : i \in DOMAIN s})

FilesOK ==
    /\ IsSequence(part) /\ jobs \in Seq(JobType)
    /\ staged \subseteq Uploads
    /\ OneJobPerUpload

(* A handler is a record of these fields, whatever they hold. *)
IsRequest(h) ==
    /\ h = [op |-> h.op, pc |-> h.pc, by |-> h.by, what |-> h.what, answer |-> h.answer]
    /\ h.pc # "idle"
RequestsOK ==
    /\ req = [r \in Requests |-> req[r]]
    /\ \A r \in Requests : req[r] = Idle \/ IsRequest(req[r])

SweepOK ==
    /\ \/ sweep = [pc |-> sweep.pc, rows |-> sweep.rows]
       \/ sweep = [pc |-> sweep.pc, rows |-> sweep.rows, withInputs |-> sweep.withInputs]
    /\ sweep.rows \subseteq Jobs
    /\ \A j \in sweep.rows : jobs[j].status # "new" /\ (jobs[j].status \in Active => j \in overlap)

(* What a handler that is about to change a job knows of it: the one that  *)
(* inserts its row has it for itself; the one that is to delete the row    *)
(* has seen it, and the one that deletes the files has deleted the row;    *)
(* and the one that restarts it has seen its input, which a sweep takes    *)
(* only if it met the handler.                                             *)
Inserts(h, j) ==
    j \in Jobs /\ jobs[j].status = "new" /\ j \in inputs
Deletes(h, j) ==
    j \in Jobs /\ jobs[j].status = "gone"
Erases(h, j) ==
    j \in Jobs /\ jobs[j].status # "new"
Restarts(h, j) ==
    /\ h.op \in {"resume", "retry"}
    /\ j \in Jobs /\ jobs[j].status # "new"
    /\ jobs[j].status = "gone" \/ j \in inputs \cup overlap
    /\ j \in sweep.rows => j \in overlap
Knows(h) ==
    /\ h.pc = "insert" => Inserts(h, h.answer)
    /\ h.pc = "files" => Deletes(h, h.what)
    /\ h.pc = "erase" => Erases(h, h.what)
    /\ h.pc = "commit" => Restarts(h, h.what)
HandlersOK ==
    /\ \A r \in Requests : Knows(req[r])
    /\ \A r, q \in Requests : req[r].pc = "insert" /\ req[q].pc = "insert" /\ req[r].answer = req[q].answer => r = q

(* For NoStrayInput by itself. *)
Cared(j) ==
    \E r \in Requests : \/ At(r, "create", "insert") /\ req[r].answer = j
                        \/ At(r, "delete", "files") /\ req[r].what = j

Inv == FilesOK /\ RequestsOK /\ SweepOK /\ HandlersOK /\ NoInputLost /\ NoStrayInput

-----------------------------------------------------------------------------

LEMMA InvAtStart == Init => Inv
<1>. SUFFICES ASSUME Init PROVE Inv
    OBVIOUS
<1>1. Jobs = {} /\ Uploads = {} /\ IsSequence(part) /\ jobs \in Seq(JobType)
    BY DEF Init, Jobs, Uploads, IsSequence
<1>2. FilesOK
    BY <1>1 DEF Init, FilesOK, OneJobPerUpload
<1>3. RequestsOK /\ HandlersOK
    BY DEF Init, RequestsOK, HandlersOK, Knows, Idle
<1>4. SweepOK
    BY DEF Init, SweepOK
<1>5. NoInputLost /\ NoStrayInput
    BY <1>1 DEF Init, NoInputLost, NoStrayInput
<1>. QED BY <1>2, <1>3, <1>4, <1>5 DEF Inv

-----------------------------------------------------------------------------
(* Sequences of jobs and uploads. *)
LEMMA Appended ==
    ASSUME NEW s, IsSequence(s), NEW x
    PROVE  LET t == Append(s, x)
           IN /\ IsSequence(t) /\ Len(s) \in Nat /\ DOMAIN s = 1..Len(s)
              /\ DOMAIN t = 1..(Len(s) + 1)
              /\ \A i \in DOMAIN s : t[i] = s[i]
              /\ t[Len(s) + 1] = x
<1>. DEFINE S == {s[i] : i \in DOMAIN s}
            T == S \cup {x}
            t == Append(s, x)
<1>1. s \in Seq(S) /\ Len(s) \in Nat /\ DOMAIN s = 1..Len(s)
    BY DEF IsSequence
<1>2. s \in Seq(T) /\ x \in T
    BY <1>1
<1>. HIDE DEF T, S
<1>3. t \in Seq(T) /\ Len(t) = Len(s) + 1
    BY <1>2
<1>4. /\ DOMAIN t = 1..(Len(s) + 1)
      /\ \A i \in DOMAIN s : t[i] = s[i]
      /\ t[Len(s) + 1] = x
    BY <1>1, <1>2, <1>3
<1>5. IsSequence(t)
  <2>. DEFINE U == {t[i] : i \in DOMAIN t}
  <2>. HIDE DEF t
  <2>1. DOMAIN t = 1..Len(t) /\ Len(t) \in Nat /\ t = [i \in 1..Len(t) |-> t[i]]
      BY <1>3
  <2>2. \A i \in 1..Len(t) : t[i] \in U
      BY <2>1
  <2>. HIDE DEF U
  <2>3. t \in [1..Len(t) -> U]
      BY <2>1, <2>2
  <2>4. t \in Seq(U)
      BY <2>1, <2>2, <2>3
  <2>. QED BY <2>4 DEF IsSequence, U
<1>. QED BY <1>1, <1>4, <1>5

(* Steps that change no job's upload: sizes and lists stay, states change. *)
LEMMA SameUploads ==
    ASSUME FilesOK, part' = part, staged' \subseteq staged,
           jobs' \in Seq(JobType), Len(jobs') = Len(jobs),
           \A j \in Jobs : jobs'[j].from = jobs[j].from
    PROVE  FilesOK'
<1>1. Jobs' = Jobs /\ Uploads' = Uploads
    BY DEF FilesOK, Jobs, Uploads
<1>2. OneJobPerUpload'
    BY <1>1 DEF FilesOK, OneJobPerUpload
<1>. QED BY <1>1, <1>2 DEF FilesOK, IsSequence

LEMMA JobUpdate ==
    ASSUME jobs \in Seq(JobType), NEW j \in Jobs, NEW new \in JobType
    PROVE  LET after == [jobs EXCEPT ![j] = new]
           IN /\ after \in Seq(JobType) /\ Len(after) = Len(jobs) /\ DOMAIN after = DOMAIN jobs
              /\ \A i \in Jobs : after[i] = IF i = j THEN new ELSE jobs[i]
BY DEF Jobs

-----------------------------------------------------------------------------
(* Handlers. *)
IsQuiet(h) == h = Idle \/ (IsRequest(h) /\ h.pc \notin {"insert", "files", "commit", "erase"})

LEMMA RequestsKept ==
    ASSUME RequestsOK, NEW r \in Requests, NEW h, req' = [req EXCEPT ![r] = h], h = Idle \/ IsRequest(h)
    PROVE  RequestsOK' /\ \A q \in Requests : req'[q] = IF q = r THEN h ELSE req[q]
<1>1. \A q \in Requests : req'[q] = IF q = r THEN h ELSE req[q]
    BY DEF RequestsOK
<1>. QED BY <1>1 DEF RequestsOK, IsRequest, Idle

LEMMA ReplyIsQuiet ==
    ASSUME RequestsOK, NEW r \in Requests, req[r] # Idle, NEW answer, Reply(r, answer)
    PROVE  \E h : req' = [req EXCEPT ![r] = h] /\ IsQuiet(h)
<1>. DEFINE f == [req[r] EXCEPT !.pc = "done"]
            g == [f EXCEPT !.answer = answer]
            h == Answered(g)
<1>1. IsRequest(req[r])
    BY DEF RequestsOK
<1>2. req' = [req EXCEPT ![r] = h]
    BY DEF Reply
<1>3. IsRequest(f) /\ f.pc = "done"
    BY <1>1 DEF IsRequest
<1>. HIDE DEF f
<1>4. IsRequest(g) /\ g.pc = "done"
    BY <1>3 DEF IsRequest
<1>. HIDE DEF g
<1>5. IsQuiet(h)
    BY <1>4 DEF IsQuiet, Answered
<1>. QED BY <1>2, <1>5

(* A handler that had no job in its care moves on, and takes none. *)
LEMMA QuietStep ==
    ASSUME Inv, UNCHANGED <<jobs, inputs, sweep, broken, overlap>>, FilesOK',
           NEW r \in Requests, NEW h, req' = [req EXCEPT ![r] = h], IsQuiet(h),
           req[r].pc \notin {"insert", "files"}
    PROVE  Inv'
<1>1. RequestsOK' /\ \A q \in Requests : req'[q] = IF q = r THEN h ELSE req[q]
    BY RequestsKept DEF Inv, IsQuiet
<1>2. h.pc \notin {"insert", "files", "commit", "erase"}
    BY DEF IsQuiet, Idle
<1>3. Jobs' = Jobs /\ Rows' = Rows
    BY DEF Jobs, Rows
<1>4. HandlersOK'
    BY <1>1, <1>2, <1>3 DEF Inv, HandlersOK, Knows, Inserts, Deletes, Erases, Restarts
<1>5. SweepOK'
    BY <1>3 DEF Inv, SweepOK
<1>6. NoInputLost'
    BY <1>3 DEF Inv, NoInputLost
<1>7. NoStrayInput'
    BY <1>1, <1>3 DEF Inv, NoStrayInput, At
<1>. QED BY <1>1, <1>4, <1>5, <1>6, <1>7 DEF Inv

LEMMA SameFiles ==
    ASSUME Inv, UNCHANGED <<part, jobs>>, staged' \subseteq staged
    PROVE  FilesOK'
BY SameUploads DEF Inv, FilesOK

LEMMA RefuseStep ==
    ASSUME Inv, NEW r \in Requests, req[r] # Idle, req[r].pc \notin {"insert", "files"}, Refuse(r)
    PROVE  Inv'
<1>1. PICK h : req' = [req EXCEPT ![r] = h] /\ IsQuiet(h)
    BY ReplyIsQuiet DEF Refuse, Inv
<1>. QED BY <1>1, SameFiles, QuietStep DEF Refuse, filesVars, history

LEMMA ProceedStep ==
    ASSUME Inv, NEW r \in Requests, req[r] # Idle, req[r].pc \notin {"insert", "files"}, Proceed(r, "move")
    PROVE  Inv'
<1>. DEFINE h == [req[r] EXCEPT !.pc = "move"]
<1>1. IsRequest(req[r])
    BY DEF Inv, RequestsOK
<1>2. req' = [req EXCEPT ![r] = h]
    BY DEF Proceed, Goto
<1>3. IsQuiet(h)
    BY <1>1 DEF IsQuiet, IsRequest
<1>. QED BY <1>2, <1>3, SameFiles, QuietStep DEF Proceed, filesVars, history

-----------------------------------------------------------------------------
(* Uploads. *)
LEMMA StoreStep == ASSUME Inv, NEW r \in Requests, Store(r) PROVE Inv'
<1>0. req[r] # Idle /\ req[r].pc = "store"
    BY DEF Store, At
<1>1. CASE Refuse(r)
    BY <1>0, <1>1, RefuseStep
<1>2. CASE ~Refuse(r)
  <2>1. /\ part' = Append(part, req[r].what)
        /\ staged' = staged \cup {Len(part) + 1}
        /\ Reply(r, Len(part) + 1)
        /\ UNCHANGED <<jobs, inputs, sweep, broken, overlap>>
      BY <1>2 DEF Store, history
  <2>2. PICK h : req' = [req EXCEPT ![r] = h] /\ IsQuiet(h)
      BY <1>0, <2>1, ReplyIsQuiet DEF Inv
  <2>3. /\ IsSequence(part') /\ Len(part) \in Nat
        /\ Uploads = 1..Len(part) /\ Uploads' = 1..(Len(part) + 1)
      BY <2>1, Appended DEF Inv, FilesOK, Uploads
  <2>4. FilesOK'
    <3>1. Jobs' = Jobs /\ \A j \in Jobs : jobs'[j] = jobs[j]
        BY <2>1 DEF Jobs
    <3>2. \A j \in Jobs : jobs[j].from \in Uploads' \ staged'
        BY <2>1, <2>3 DEF Inv, FilesOK, OneJobPerUpload
    <3>3. staged' \subseteq Uploads'
      <4>1. staged \subseteq 1..Len(part)
          BY <2>3 DEF Inv, FilesOK
      <4>2. 1..Len(part) \subseteq Uploads' /\ Len(part) + 1 \in Uploads'
          BY <2>3
      <4>. QED BY <2>1, <4>1, <4>2
    <3>. QED BY <2>1, <2>3, <3>1, <3>2, <3>3 DEF Inv, FilesOK, OneJobPerUpload
  <2>. QED BY <1>0, <2>1, <2>2, <2>4, QuietStep
<1>. QED BY <1>1, <1>2

LEMMA CountStep == ASSUME Inv, NEW r \in Requests, Count(r) PROVE Inv'
BY RefuseStep, ProceedStep DEF Count, At

-----------------------------------------------------------------------------
(* The row of one job changes; its upload stays what it was, and whether   *)
(* its files were removed.                                                 *)
Changes(s, t, j) ==
    /\ t \in Seq(JobType) /\ Len(t) = Len(s) /\ DOMAIN t = DOMAIN s
    /\ \A i \in DOMAIN s : t[i].from = s[i].from /\ t[i].purged = s[i].purged /\ (i # j => t[i] = s[i])

LEMMA FieldChanges ==
    ASSUME NEW s \in Seq(JobType), NEW j \in DOMAIN s,
           NEW st \in Statuses, NEW res \in {"none", "ok", "error"}, NEW b \in BOOLEAN
    PROVE  LET t == [s EXCEPT ![j].status = st]
               v == [s EXCEPT ![j].result = res]
               w == [s EXCEPT ![j].failed = b]
           IN /\ Changes(s, t, j) /\ t[j].status = st
              /\ Changes(s, v, j) /\ v[j].status = s[j].status
              /\ Changes(s, w, j) /\ w[j].status = s[j].status
<1>. DEFINE t == [s EXCEPT ![j].status = st]
            v == [s EXCEPT ![j].result = res]
            w == [s EXCEPT ![j].failed = b]
<1>0. s[j] \in JobType
    OBVIOUS
<1>1. [s[j] EXCEPT !.status = st] \in JobType /\ [s[j] EXCEPT !.status = st].from = s[j].from
      /\ [s[j] EXCEPT !.status = st].status = st /\ [s[j] EXCEPT !.status = st].purged = s[j].purged
    BY <1>0 DEF JobType
<1>2. [s[j] EXCEPT !.result = res] \in JobType /\ [s[j] EXCEPT !.result = res].from = s[j].from
      /\ [s[j] EXCEPT !.result = res].status = s[j].status /\ [s[j] EXCEPT !.result = res].purged = s[j].purged
    BY <1>0 DEF JobType
<1>3. [s[j] EXCEPT !.failed = b] \in JobType /\ [s[j] EXCEPT !.failed = b].from = s[j].from
      /\ [s[j] EXCEPT !.failed = b].status = s[j].status /\ [s[j] EXCEPT !.failed = b].purged = s[j].purged
    BY <1>0 DEF JobType
<1>4. \A new \in JobType : new.from = s[j].from /\ new.purged = s[j].purged =>
        Changes(s, [s EXCEPT ![j] = new], j) /\ [s EXCEPT ![j] = new][j] = new
    BY DEF Changes
<1>5. /\ t = [s EXCEPT ![j] = [s[j] EXCEPT !.status = st]]
      /\ v = [s EXCEPT ![j] = [s[j] EXCEPT !.result = res]]
      /\ w = [s EXCEPT ![j] = [s[j] EXCEPT !.failed = b]]
    OBVIOUS
<1>. QED BY <1>1, <1>2, <1>3, <1>4, <1>5

LEMMA ChangesFollow ==
    ASSUME NEW s, NEW t, NEW v, NEW j, Changes(s, t, j), Changes(t, v, j)
    PROVE  Changes(s, v, j)
BY DEF Changes

LEMMA ChangedFiles ==
    ASSUME Inv, NEW j, Changes(jobs, jobs', j), part' = part, staged' \subseteq staged
    PROVE  FilesOK' /\ Jobs' = Jobs
BY SameUploads DEF Inv, FilesOK, Changes, Jobs

(* A run changes the state of a queued or running job, to another one. *)
LEMMA RunChanges ==
    ASSUME Inv, NEW j \in Jobs, Runs(j)
    PROVE  /\ jobs[j].status \in Active
           /\ Changes(jobs, jobs', j)
           /\ jobs'[j].status \in Statuses \ {"new", "gone"}
<1>0. jobs \in Seq(JobType) /\ j \in DOMAIN jobs
    BY DEF Inv, FilesOK, Jobs
<1>1. ASSUME NEW st \in {"running", "failed", "paused"}, jobs' = [jobs EXCEPT ![j].status = st]
      PROVE  Changes(jobs, jobs', j) /\ jobs'[j].status \in Statuses \ {"new", "gone"}
  <2>1. st \in Statuses
      BY DEF Statuses, Terminal
  <2>. QED BY <1>0, <1>1, <2>1, FieldChanges
<1>2. ASSUME NEW st \in {"succeeded", "completed"}, NEW res \in {"ok", "error"}, NEW b \in BOOLEAN,
             jobs' = [jobs EXCEPT ![j].status = st, ![j].result = res, ![j].failed = b]
      PROVE  Changes(jobs, jobs', j) /\ jobs'[j].status \in Statuses \ {"new", "gone"}
  <2>. DEFINE t == [jobs EXCEPT ![j].status = st]
              v == [t EXCEPT ![j].result = res]
              w == [v EXCEPT ![j].failed = b]
  <2>1. st \in Statuses
      BY DEF Statuses, Terminal
  <2>2. jobs' = w
      BY <1>2
  <2>3. Changes(jobs, t, j) /\ t[j].status = st
      BY <1>0, <2>1, FieldChanges
  <2>. HIDE DEF t
  <2>4. t \in Seq(JobType) /\ j \in DOMAIN t
      BY <1>0, <2>3 DEF Changes
  <2>5. Changes(t, v, j) /\ v[j].status = st
      BY <1>2, <2>1, <2>3, <2>4, FieldChanges
  <2>. HIDE DEF v
  <2>6. v \in Seq(JobType) /\ j \in DOMAIN v
      BY <2>4, <2>5 DEF Changes
  <2>7. Changes(v, w, j) /\ w[j].status = st
      BY <1>2, <2>1, <2>5, <2>6, FieldChanges
  <2>. HIDE DEF w
  <2>. QED BY <2>1, <2>2, <2>3, <2>5, <2>7, ChangesFollow
<1>3. \/ \E st \in {"running", "failed", "paused"} : jobs' = [jobs EXCEPT ![j].status = st]
      \/ \E st \in {"succeeded", "completed"}, res \in {"ok", "error"}, b \in BOOLEAN :
            jobs' = [jobs EXCEPT ![j].status = st, ![j].result = res, ![j].failed = b]
    BY Zenon DEF Runs
<1>4. jobs[j].status \in Active
    BY DEF Runs, Active
<1>. QED BY <1>1, <1>2, <1>3, <1>4

LEMMA RunsStep == ASSUME Inv, NEW j \in Jobs, Runs(j) PROVE Inv'
<1>1. /\ jobs[j].status \in Active
      /\ Changes(jobs, jobs', j)
      /\ jobs'[j].status \in Statuses \ {"new", "gone"}
    BY RunChanges
<1>2. UNCHANGED <<part, staged, inputs, req, sweep, broken, overlap>>
    BY DEF Runs, history
<1>3. FilesOK' /\ Jobs' = Jobs
    BY <1>1, <1>2, ChangedFiles
<1>4. \A i \in Jobs : i # j => jobs'[i] = jobs[i]
    BY <1>1 DEF Changes, Jobs
<1>5. Rows' = Rows
    BY <1>1, <1>3, <1>4 DEF Rows, Active
<1>6. HandlersOK'
    BY <1>1, <1>2, <1>3, <1>4 DEF Inv, HandlersOK, Knows, Inserts, Deletes, Erases, Restarts, Active
<1>7. SweepOK' /\ RequestsOK'
    BY <1>1, <1>2, <1>3, <1>4 DEF Inv, SweepOK, RequestsOK, IsRequest, Active
<1>8. NoInputLost'
    BY <1>1, <1>2, <1>3, <1>4 DEF Inv, NoInputLost
<1>9. NoStrayInput'
    BY <1>2, <1>5 DEF Inv, NoStrayInput, At
<1>. QED BY <1>3, <1>6, <1>7, <1>8, <1>9 DEF Inv

-----------------------------------------------------------------------------
(* An upload becomes a job. *)
LEMMA MoveStep == ASSUME Inv, NEW r \in Requests, Move(r) PROVE Inv'
<1>. DEFINE u == req[r].what
            n == Len(jobs) + 1
<1>0. req[r] # Idle /\ req[r].pc = "move"
    BY DEF Move, At
<1>1. CASE u \notin staged
    BY <1>0, <1>1, RefuseStep DEF Move
<1>2. CASE u \in staged
  <2>1. /\ staged' = staged \ {u} /\ inputs' = inputs \cup {n}
        /\ jobs' = Append(jobs, NewJob(u))
        /\ req' = [req EXCEPT ![r].pc = "insert", ![r].answer = n]
        /\ UNCHANGED <<part, sweep, broken, overlap>>
      BY <1>2 DEF Move, Taken, history
  <2>2. u \in Uploads /\ u \in Nat
      BY <1>2, Appended DEF Inv, FilesOK, Uploads
  <2>3. NewJob(u) \in JobType /\ NewJob(u).from = u /\ NewJob(u).status = "new"
      BY <2>2 DEF NewJob, JobType, Statuses
  <2>4. /\ jobs' \in Seq(JobType) /\ Jobs = 1..Len(jobs) /\ Jobs' = 1..n /\ Len(jobs) \in Nat
        /\ \A j \in Jobs : jobs'[j] = jobs[j]
        /\ jobs'[n].from = u /\ jobs'[n].status = "new"
      BY <2>1, <2>3 DEF Inv, FilesOK, Jobs
  <2>5. n \notin Jobs /\ n \in Jobs' /\ Jobs \subseteq Jobs' /\ \A j \in Jobs' : j \in Jobs \/ j = n
      BY <2>4
  <2>6. OneJobPerUpload'
    <3>1. Uploads' = Uploads
        BY <2>1 DEF Uploads
    <3>. QED BY <1>2, <2>1, <2>2, <2>4, <2>5, <3>1 DEF Inv, FilesOK, OneJobPerUpload
  <2>7. FilesOK'
      BY <2>1, <2>4, <2>6 DEF Inv, FilesOK, IsSequence, Uploads
  <2>. DEFINE f == [req[r] EXCEPT !.pc = "insert"]
              h == [f EXCEPT !.answer = n]
  <2>8. IsRequest(req[r])
      BY <1>0 DEF Inv, RequestsOK
  <2>9. req' = [req EXCEPT ![r] = h]
    <3>1. req' = [[req EXCEPT ![r] = f] EXCEPT ![r] = [@ EXCEPT !.answer = n]]
        BY <2>1
    <3>. QED BY <3>1 DEF Inv, RequestsOK
  <2>10. IsRequest(f) /\ f.pc = "insert"
      BY <2>8 DEF IsRequest
  <2>. HIDE DEF f, n
  <2>11. IsRequest(h) /\ h.pc = "insert" /\ h.answer = n
      BY <2>10 DEF IsRequest
  <2>. HIDE DEF h
  <2>12. RequestsOK' /\ \A q \in Requests : req'[q] = IF q = r THEN h ELSE req[q]
      BY <2>9, <2>11, RequestsKept DEF Inv
  <2>13. req'[r] # Idle /\ req'[r].op = "create" /\ req'[r].pc = "insert" /\ req'[r].answer = n
    <3>1. req[r].op = "create" /\ h.op = req[r].op /\ h # Idle
        BY <2>8, <2>11 DEF Move, At, IsRequest, Idle, f, h
    <3>. QED BY <2>11, <2>12, <3>1
  <2>14. HandlersOK'
    <3>1. ASSUME NEW q \in Requests PROVE Knows(req[q])'
      <4>1. CASE q = r
        <5>1. req'[q] = h /\ h.pc = "insert" /\ h.answer = n
            BY <2>11, <2>12, <4>1
        <5>2. n \in Jobs' /\ jobs'[n].status = "new" /\ n \in inputs'
            BY <2>1, <2>4, <2>5
        <5>. QED BY <5>1, <5>2 DEF Knows, Inserts
      <4>2. CASE q # r
        <5>1. Knows(req[q]) /\ req'[q] = req[q]
            BY <2>12, <4>2 DEF Inv, HandlersOK
        <5>2. \A j \in Jobs : /\ j \in Jobs' /\ jobs'[j] = jobs[j] /\ (j \in inputs => j \in inputs')
                              /\ (j \in overlap <=> j \in overlap') /\ (j \in sweep.rows <=> j \in sweep'.rows)
            BY <2>1, <2>4, <2>5
        <5>. QED BY <5>1, <5>2 DEF Knows, Inserts, Deletes, Erases, Restarts
      <4>. QED BY <4>1, <4>2
    <3>2. ASSUME NEW q \in Requests, req[q].pc = "insert" PROVE req[q].answer # n
        BY <2>5, <3>2 DEF Inv, HandlersOK, Knows, Inserts
    <3>. QED BY <2>11, <2>12, <3>1, <3>2 DEF Inv, HandlersOK
  <2>15. SweepOK'
      BY <2>1, <2>4, <2>5 DEF Inv, SweepOK
  <2>16. NoInputLost'
      BY <2>1, <2>4, <2>5 DEF Inv, NoInputLost, Active, n
  <2>17. NoStrayInput'
    <3>1. Rows \subseteq Rows'
        BY <2>4, <2>5 DEF Rows
    <3>2. ASSUME NEW q \in Requests, At(q, "create", "insert") \/ At(q, "delete", "files")
          PROVE  q # r /\ req'[q] = req[q]
        BY <1>0, <2>12, <3>2 DEF At
    <3>3. ASSUME NEW j \in inputs' \ (Rows' \cup broken') PROVE Cared(j)'
      <4>1. CASE j = n
          BY <2>13, <4>1 DEF Cared, At
      <4>2. CASE j # n
        <5>1. j \in inputs \ (Rows \cup broken)
            BY <2>1, <3>1, <4>2 DEF n
        <5>. QED BY <3>2, <5>1 DEF Inv, NoStrayInput, Cared, At
      <4>. QED BY <4>1, <4>2
    <3>. QED BY <3>3 DEF NoStrayInput, Cared
  <2>. QED BY <2>7, <2>12, <2>14, <2>15, <2>16, <2>17 DEF Inv
<1>. QED BY <1>1, <1>2

LEMMA InsertStep == ASSUME Inv, NEW r \in Requests, Insert(r) PROVE Inv'
<1>. DEFINE j == req[r].answer
<1>1. req[r] # Idle /\ req[r].pc = "insert" /\ Inserts(req[r], j)
    BY DEF Insert, At, Inv, HandlersOK, Knows
<1>2. \E a : Reply(r, a)
    BY DEF Insert
<1>3. PICK h : req' = [req EXCEPT ![r] = h] /\ IsQuiet(h)
    BY <1>1, <1>2, ReplyIsQuiet DEF Inv
<1>4. RequestsOK' /\ \A q \in Requests : req'[q] = IF q = r THEN h ELSE req[q]
    BY <1>3, RequestsKept DEF Inv, IsQuiet
<1>5. h.pc \notin {"insert", "files", "commit", "erase"}
    BY <1>3 DEF IsQuiet, Idle
<1>6. \A q \in Requests : q # r /\ req[q].pc = "insert" => req[q].answer # j
    BY <1>1 DEF Inv, HandlersOK
<1>7. CASE \E st \in {"queued", "failed"} :
              jobs' = [jobs EXCEPT ![j].status = st] /\ UNCHANGED <<part, staged, inputs, sweep, broken, overlap>>
  <2>1. PICK st \in {"queued", "failed"} :
              jobs' = [jobs EXCEPT ![j].status = st] /\ UNCHANGED <<part, staged, inputs, sweep, broken, overlap>>
      BY <1>7
  <2>2. j \in Jobs /\ jobs[j].status = "new" /\ j \in inputs /\ j \notin sweep.rows
      BY <1>1 DEF Inserts, Inv, SweepOK
  <2>3. Changes(jobs, jobs', j) /\ jobs'[j].status = st
    <3>1. st \in Statuses /\ "ok" \in {"none", "ok", "error"} /\ TRUE \in BOOLEAN
        BY DEF Statuses, Terminal
    <3>. QED BY <2>1, <2>2, <3>1, FieldChanges DEF Inv, FilesOK, Jobs
  <2>4. FilesOK' /\ Jobs' = Jobs
      BY <2>1, <2>3, ChangedFiles
  <2>5. \A i \in Jobs : i # j => jobs'[i] = jobs[i]
      BY <2>3 DEF Changes, Jobs
  <2>6. Rows' = Rows \cup {j}
      BY <2>2, <2>3, <2>4, <2>5 DEF Rows
  <2>. HIDE DEF j
  <2>7. HandlersOK'
    <3>1. ASSUME NEW q \in Requests PROVE Knows(req[q])'
      <4>1. CASE q = r
          BY <1>4, <1>5, <4>1 DEF Knows
      <4>2. CASE q # r
          BY <1>4, <1>6, <2>1, <2>2, <2>4, <2>5, <4>2 DEF Inv, HandlersOK, Knows, Inserts, Deletes, Erases, Restarts
      <4>. QED BY <4>1, <4>2
    <3>. QED BY <1>4, <1>5, <3>1 DEF Inv, HandlersOK
  <2>8. SweepOK'
      BY <2>1, <2>2, <2>4, <2>5 DEF Inv, SweepOK
  <2>9. NoInputLost'
      BY <2>1, <2>2, <2>4, <2>5 DEF Inv, NoInputLost
  <2>10. NoStrayInput'
    <3>1. ASSUME NEW i \in inputs' \ (Rows' \cup broken') PROVE Cared(i)'
      <4>1. i \in inputs \ (Rows \cup broken) /\ i # j
          BY <2>1, <2>6
      <4>2. PICK q \in Requests : \/ At(q, "create", "insert") /\ req[q].answer = i
                                  \/ At(q, "delete", "files") /\ req[q].what = i
          BY <4>1 DEF Inv, NoStrayInput
      <4>3. q # r
          BY <1>1, <4>1, <4>2 DEF At, j
      <4>. QED BY <1>4, <4>2, <4>3 DEF Cared, At
    <3>. QED BY <3>1 DEF NoStrayInput, Cared
  <2>. QED BY <1>4, <2>4, <2>7, <2>8, <2>9, <2>10 DEF Inv
<1>8. CASE broken' = broken \cup {j} /\ UNCHANGED <<filesVars, sweep, overlap>>
  <2>. HIDE DEF j
  <2>1. UNCHANGED <<part, staged, jobs, inputs, sweep, overlap>> /\ Jobs' = Jobs /\ Rows' = Rows
      BY <1>8 DEF filesVars, Jobs, Rows
  <2>2. FilesOK'
      BY <2>1, SameFiles
  <2>3. HandlersOK'
      BY <1>4, <1>5, <2>1 DEF Inv, HandlersOK, Knows, Inserts, Deletes, Erases, Restarts
  <2>4. SweepOK' /\ NoInputLost'
      BY <2>1 DEF Inv, SweepOK, NoInputLost
  <2>5. NoStrayInput'
    <3>1. ASSUME NEW i \in inputs' \ (Rows' \cup broken') PROVE Cared(i)'
      <4>1. i \in inputs \ (Rows \cup broken) /\ i # j
          BY <1>8, <2>1
      <4>2. PICK q \in Requests : \/ At(q, "create", "insert") /\ req[q].answer = i
                                  \/ At(q, "delete", "files") /\ req[q].what = i
          BY <4>1 DEF Inv, NoStrayInput
      <4>3. q # r
          BY <1>1, <4>1, <4>2 DEF At, j
      <4>. QED BY <1>4, <4>2, <4>3 DEF Cared, At
    <3>. QED BY <3>1 DEF NoStrayInput, Cared
  <2>. QED BY <1>4, <2>2, <2>3, <2>4, <2>5 DEF Inv
<1>. QED BY <1>7, <1>8 DEF Insert, history

-----------------------------------------------------------------------------
(* Callers ask. *)
LEMMA NewRequest ==
    ASSUME NEW op, NEW by, NEW what, NEW pc, pc # "idle"
    PROVE  LET request == Request(op, by, what)
               h == [request EXCEPT !.pc = pc]
           IN /\ IsRequest(request) /\ request.pc = "done"
              /\ IsRequest(h) /\ h.op = op /\ h.pc = pc /\ h.what = what
BY DEF IsRequest, Request

LEMMA AskUploadStep ==
    ASSUME Inv, NEW r \in Requests, req[r] = Idle, NEW by, NEW what,
           AskUpload(r, Request("upload", by, what))
    PROVE  Inv'
<1>. DEFINE request == Request("upload", by, what)
            f == [request EXCEPT !.pc = "store"]
            g == [f EXCEPT !.answer = Remaining]
            h == IF WouldExceed THEN Answered(request) ELSE g
<1>1. req' = [req EXCEPT ![r] = h] /\ UNCHANGED <<filesVars, sweep, broken, overlap>>
    BY DEF AskUpload, Open
<1>2. IsRequest(request) /\ request.pc = "done" /\ IsRequest(f) /\ f.pc = "store"
    BY NewRequest
<1>. HIDE DEF request, f
<1>3. IsRequest(g) /\ g.pc = "store"
    BY <1>2 DEF IsRequest
<1>. HIDE DEF g
<1>4. IsQuiet(h)
    BY <1>2, <1>3 DEF IsQuiet, Answered
<1>. HIDE DEF h
<1>5. req[r].pc = "idle" /\ FilesOK'
    BY <1>1, SameFiles DEF filesVars, Idle
<1>. QED BY <1>1, <1>4, <1>5, QuietStep DEF filesVars

LEMMA AskCreateStep ==
    ASSUME Inv, NEW r \in Requests, req[r] = Idle, NEW by, NEW what,
           AskCreate(r, Request("create", by, what))
    PROVE  Inv'
<1>. DEFINE request == Request("create", by, what)
            f == [request EXCEPT !.pc = "count"]
            h == IF request.what \in staged THEN f ELSE Answered(request)
<1>1. req' = [req EXCEPT ![r] = h] /\ UNCHANGED <<filesVars, sweep, broken, overlap>>
    BY DEF AskCreate, Open
<1>2. IsRequest(request) /\ request.pc = "done" /\ IsRequest(f) /\ f.pc = "count"
    BY NewRequest
<1>. HIDE DEF request, f
<1>3. IsQuiet(h)
    BY <1>2 DEF IsQuiet, Answered
<1>. HIDE DEF h
<1>4. req[r].pc = "idle" /\ FilesOK'
    BY <1>1, SameFiles DEF filesVars, Idle
<1>. QED BY <1>1, <1>3, <1>4, QuietStep DEF filesVars

(* A handler that read the row of a job and goes on to change it, or does. *)
LEMMA TakeStep ==
    ASSUME Inv, NEW r \in Requests, req[r] = Idle \/ req[r].pc = "erase",
           NEW j \in Jobs, NEW h, IsRequest(h), h.what = j, req' = [req EXCEPT ![r] = h],
           UNCHANGED <<part, staged, inputs, sweep, broken>>, overlap \subseteq overlap',
           jobs' \in Seq(JobType), Changes(jobs, jobs', j), jobs[j].status # "new",
           \/ h.pc = "commit" /\ h.op \in {"resume", "retry"} /\ jobs'[j].status = jobs[j].status
              /\ jobs[j].status \notin Active /\ j \in inputs /\ (j \in sweep.rows => j \in overlap')
           \/ h.pc = "erase" /\ jobs' = jobs
           \/ h.pc = "files" /\ h.op = "delete" /\ jobs'[j].status = "gone"
    PROVE  Inv'
<1>2. RequestsOK' /\ \A q \in Requests : req'[q] = IF q = r THEN h ELSE req[q]
    BY RequestsKept DEF Inv
<1>3. FilesOK' /\ Jobs' = Jobs
    BY ChangedFiles
<1>4. /\ \A i \in Jobs : i # j => jobs'[i] = jobs[i]
      /\ jobs'[j].status # "new" /\ (jobs'[j].status \notin Active \/ jobs'[j] = jobs[j])
      /\ jobs[j].status = "gone" => jobs'[j].status = "gone"
    BY DEF Changes, Jobs, Active
<1>5. HandlersOK'
  <2>1. ASSUME NEW q \in Requests PROVE Knows(req[q])'
    <3>1. CASE q = r
      <4>1. req'[q] = h
          BY <1>2, <3>1
      <4>2. CASE h.pc = "commit"
        <5>1. h.op \in {"resume", "retry"} /\ j \in inputs' /\ (j \in sweep'.rows => j \in overlap')
            BY <4>2
        <5>. QED BY <1>3, <1>4, <4>1, <4>2, <5>1 DEF Knows, Restarts
      <4>3. CASE h.pc = "files"
          BY <1>3, <4>1, <4>3 DEF Knows, Deletes
      <4>4. CASE h.pc = "erase"
          BY <1>3, <1>4, <4>1, <4>4 DEF Knows, Erases
      <4>. QED BY <4>2, <4>3, <4>4
    <3>2. CASE q # r
      <4>1. Knows(req[q]) /\ req'[q] = req[q]
          BY <1>2, <3>2 DEF Inv, HandlersOK
      <4>2. \A i \in Jobs : /\ jobs[i].status = "gone" => jobs'[i].status = "gone"
                            /\ jobs[i].status = "new" <=> jobs'[i].status = "new"
                            /\ i \in overlap => i \in overlap'
          BY <1>4
      <4>3. req[q].pc = "insert" =>
              LET i == req[q].answer IN i \in Jobs' /\ jobs'[i].status = "new" /\ i \in inputs'
          BY <1>3, <4>1, <4>2 DEF Knows, Inserts
      <4>4. req[q].pc = "files" => LET i == req[q].what IN i \in Jobs' /\ jobs'[i].status = "gone"
          BY <1>3, <4>1, <4>2 DEF Knows, Deletes
      <4>5. req[q].pc = "commit" =>
              LET i == req[q].what
              IN /\ req[q].op \in {"resume", "retry"} /\ i \in Jobs' /\ jobs'[i].status # "new"
                 /\ jobs'[i].status = "gone" \/ i \in inputs' \cup overlap'
                 /\ i \in sweep'.rows => i \in overlap'
          BY <1>3, <4>1, <4>2 DEF Knows, Restarts
      <4>6. req[q].pc = "erase" => LET i == req[q].what IN i \in Jobs' /\ jobs'[i].status # "new"
          BY <1>3, <4>1, <4>2 DEF Knows, Erases
      <4>. QED BY <4>1, <4>3, <4>4, <4>5, <4>6 DEF Knows, Inserts, Deletes, Erases, Restarts
    <3>. QED BY <3>1, <3>2
  <2>2. h.pc # "insert"
      OBVIOUS
  <2>. QED BY <1>2, <2>1, <2>2 DEF Inv, HandlersOK
<1>6. SweepOK'
    BY <1>3, <1>4 DEF Inv, SweepOK
<1>7. NoInputLost'
    BY <1>3, <1>4 DEF Inv, NoInputLost
<1>8. NoStrayInput'
  <2>1. ASSUME NEW i \in inputs' \ (Rows' \cup broken') PROVE Cared(i)'
    <3>1. CASE i \in Rows
      <4>1. i = j /\ h.pc = "files" /\ h.op = "delete"
          BY <1>3, <1>4, <2>1, <3>1 DEF Rows
      <4>2. req'[r] = h /\ h # Idle
          BY <1>2, <4>1 DEF Idle, IsRequest
      <4>. QED BY <4>1, <4>2 DEF Cared, At
    <3>2. CASE i \notin Rows
      <4>1. PICK q \in Requests : \/ At(q, "create", "insert") /\ req[q].answer = i
                                  \/ At(q, "delete", "files") /\ req[q].what = i
          BY <2>1, <3>2 DEF Inv, NoStrayInput
      <4>2. q # r
          BY <4>1 DEF At
      <4>. QED BY <1>2, <4>1, <4>2 DEF Cared, At
    <3>. QED BY <3>1, <3>2
  <2>. QED BY <2>1 DEF NoStrayInput, Cared
<1>. QED BY <1>2, <1>3, <1>5, <1>6, <1>7, <1>8 DEF Inv

LEMMA AskResumeStep ==
    ASSUME Inv, NEW r \in Requests, req[r] = Idle, NEW by, NEW j \in Rows,
           AskResume(r, Request("resume", by, j))
    PROVE  Inv'
<1>. DEFINE h == [Request("resume", by, j) EXCEPT !.pc = "commit"]
<1>1. Request("resume", by, j).what = j
    BY DEF Request
<1>2. Restartable(j) /\ overlap' = Held(j) /\ UNCHANGED <<part, staged, jobs, inputs, sweep, broken>>
      /\ req' = [req EXCEPT ![r] = h]
    BY <1>1 DEF AskResume, Open, filesVars
<1>3. jobs' \in Seq(JobType) /\ Changes(jobs, jobs', j) /\ j \in Jobs
    BY <1>2 DEF Inv, FilesOK, Changes, Rows
<1>4. /\ jobs[j].status # "new" /\ jobs[j].status \notin Active /\ j \in inputs
      /\ overlap \subseteq overlap' /\ (j \in sweep.rows => j \in overlap')
    BY <1>2 DEF Restartable, Active, Held
<1>5. IsRequest(h) /\ h.op = "resume" /\ h.pc = "commit" /\ h.what = j
    BY NewRequest
<1>. HIDE DEF h
<1>. QED BY <1>2, <1>3, <1>4, <1>5, TakeStep

LEMMA AskRetryStep ==
    ASSUME Inv, NEW r \in Requests, req[r] = Idle, NEW by, NEW j \in Rows,
           AskRetry(r, Request("retry", by, j))
    PROVE  Inv'
<1>. DEFINE h == [Request("retry", by, j) EXCEPT !.pc = "commit"]
<1>1. Request("retry", by, j).what = j
    BY DEF Request
<1>2. Retryable(j) /\ overlap' = Held(j) /\ UNCHANGED <<part, staged, inputs, sweep, broken>>
      /\ jobs' = [jobs EXCEPT ![j].result = "none"]
      /\ req' = [req EXCEPT ![r] = h]
    BY <1>1 DEF AskRetry, Open
<1>3. j \in Jobs /\ jobs \in Seq(JobType)
    BY DEF Inv, FilesOK, Rows
<1>4. Changes(jobs, jobs', j) /\ jobs'[j].status = jobs[j].status
  <2>1. "new" \in Statuses /\ TRUE \in BOOLEAN
      BY DEF Statuses
  <2>. QED BY <1>2, <1>3, <2>1, FieldChanges DEF Jobs
<1>5. /\ jobs[j].status # "new" /\ jobs[j].status \notin Active /\ j \in inputs
      /\ overlap \subseteq overlap' /\ (j \in sweep.rows => j \in overlap')
    BY <1>2 DEF Retryable, Terminal, Active, Held
<1>6. jobs' \in Seq(JobType)
    BY <1>4 DEF Changes
<1>7. IsRequest(h) /\ h.op = "retry" /\ h.pc = "commit" /\ h.what = j
    BY NewRequest
<1>. HIDE DEF h
<1>. QED BY <1>2, <1>3, <1>4, <1>5, <1>6, <1>7, TakeStep

LEMMA AskDeleteStep ==
    ASSUME Inv, NEW r \in Requests, req[r] = Idle, NEW by, NEW j \in Rows,
           AskDelete(r, Request("delete", by, j))
    PROVE  Inv'
<1>. DEFINE h == [Request("delete", by, j) EXCEPT !.pc = "erase"]
<1>1. UNCHANGED <<part, staged, jobs, inputs, sweep, broken, overlap>> /\ req' = [req EXCEPT ![r] = h]
    BY DEF AskDelete, Open, filesVars, history
<1>2. j \in Jobs /\ jobs[j].status # "new" /\ jobs' \in Seq(JobType) /\ Changes(jobs, jobs', j)
    BY <1>1 DEF Inv, FilesOK, Changes, Rows
<1>3. IsRequest(h) /\ h.pc = "erase" /\ h.what = j
    BY NewRequest
<1>. HIDE DEF h
<1>. QED BY <1>1, <1>2, <1>3, TakeStep

(* delete_job deletes the row it read. *)
LEMMA ErasedRow ==
    ASSUME Inv, NEW r \in Requests, At(r, "delete", "erase"),
           jobs' = [jobs EXCEPT ![req[r].what].status = "gone"]
    PROVE  /\ req[r].what \in Jobs /\ jobs[req[r].what].status # "new"
           /\ jobs' \in Seq(JobType) /\ Changes(jobs, jobs', req[r].what)
           /\ jobs'[req[r].what].status = "gone"
<1>1. req[r].what \in Jobs /\ jobs[req[r].what].status # "new"
    BY DEF Inv, HandlersOK, Knows, Erases, At
<1>2. "gone" \in Statuses /\ TRUE \in BOOLEAN /\ "ok" \in {"none", "ok", "error"}
    BY DEF Statuses
<1>3. Changes(jobs, jobs', req[r].what) /\ jobs'[req[r].what].status = "gone"
    BY <1>1, <1>2, FieldChanges DEF Inv, FilesOK, Jobs
<1>. QED BY <1>1, <1>3 DEF Changes

LEMMA ErasedHandler ==
    ASSUME Inv, NEW r \in Requests, At(r, "delete", "erase"), Goto(r, "files")
    PROVE  /\ IsRequest(req[r]) /\ IsRequest(req'[r])
           /\ req' = [req EXCEPT ![r] = req'[r]] /\ \A q \in Requests : q # r => req'[q] = req[q]
           /\ req'[r].op = "delete" /\ req'[r].pc = "files"
           /\ req'[r].what = req[r].what /\ req'[r].by = req[r].by
<1>. DEFINE h == [req[r] EXCEPT !.pc = "files"]
<1>1. IsRequest(req[r]) /\ req[r].op = "delete"
    BY DEF Inv, RequestsOK, At
<1>2. req' = [req EXCEPT ![r] = h]
    BY DEF Goto
<1>3. IsRequest(h) /\ h.op = "delete" /\ h.pc = "files" /\ h.what = req[r].what /\ h.by = req[r].by
    BY <1>1 DEF IsRequest
<1>. HIDE DEF h
<1>4. \A q \in Requests : req'[q] = IF q = r THEN h ELSE req[q]
    BY <1>2, <1>3, RequestsKept DEF Inv
<1>. QED BY <1>1, <1>2, <1>3, <1>4

LEMMA EraseStep == ASSUME Inv, NEW r \in Requests, Erase(r) PROVE Inv'
<1>0. At(r, "delete", "erase") /\ req[r] # Idle /\ req[r].pc = "erase"
    BY DEF Erase, At
<1>1. CASE Refuse(r)
    BY <1>0, <1>1, RefuseStep
<1>2. CASE ~Refuse(r)
  <2>1. /\ jobs' = [jobs EXCEPT ![req[r].what].status = "gone"] /\ Goto(r, "files")
        /\ UNCHANGED <<part, staged, inputs, sweep, broken, overlap>>
      BY <1>2 DEF Erase, history
  <2>. DEFINE j == req[r].what
              h == req'[r]
  <2>2. /\ j \in Jobs /\ jobs[j].status # "new"
        /\ jobs' \in Seq(JobType) /\ Changes(jobs, jobs', j) /\ jobs'[j].status = "gone"
      BY <1>0, <2>1, ErasedRow
  <2>3. IsRequest(h) /\ req' = [req EXCEPT ![r] = h] /\ h.op = "delete" /\ h.pc = "files" /\ h.what = j
      BY <1>0, <2>1, ErasedHandler
  <2>. HIDE DEF j, h
  <2>. QED BY <1>0, <2>1, <2>2, <2>3, TakeStep
<1>. QED BY <1>1, <1>2

-----------------------------------------------------------------------------
(* Handlers that change a job, and a server that stops. *)
LEMMA RestartChanges ==
    ASSUME Inv, NEW r \in Requests, Restart(r), jobs[req[r].what].status # "gone"
    PROVE  /\ req[r].what \in Jobs /\ jobs[req[r].what].status \notin {"new", "gone"}
           /\ Changes(jobs, jobs', req[r].what) /\ jobs'[req[r].what].status = "queued"
<1>. DEFINE j == req[r].what
            b == jobs[j].failed /\ req[r].op = "resume"
            t == [jobs EXCEPT ![j].status = "queued"]
            v == [t EXCEPT ![j].failed = b]
<1>1. jobs' = [jobs EXCEPT ![j].status = "queued", ![j].failed = @ /\ req[r].op = "resume"]
    BY DEF Restart
<1>2. j \in Jobs /\ jobs[j].status \notin {"new", "gone"}
    BY DEF Restart, Inv, HandlersOK, Knows, Restarts
<1>. HIDE DEF j
<1>3. jobs' = v
    BY <1>1, <1>2 DEF Inv, FilesOK, Jobs
<1>4. b \in BOOLEAN /\ "queued" \in Statuses /\ "ok" \in {"none", "ok", "error"}
    BY DEF Statuses
<1>. HIDE DEF b
<1>5. Changes(jobs, t, j) /\ t[j].status = "queued"
    BY <1>2, <1>4, FieldChanges DEF Inv, FilesOK, Jobs
<1>. HIDE DEF t
<1>6. t \in Seq(JobType) /\ j \in DOMAIN t
    BY <1>2, <1>5 DEF Changes, Jobs
<1>7. Changes(t, v, j) /\ v[j].status = "queued"
    BY <1>4, <1>5, <1>6, FieldChanges
<1>. HIDE DEF v
<1>8. Changes(jobs, jobs', j) /\ jobs'[j].status = "queued"
    BY <1>3, <1>5, <1>7, ChangesFollow
<1>. QED BY <1>2, <1>8 DEF j

LEMMA RestartStep == ASSUME Inv, NEW r \in Requests, Restart(r) PROVE Inv'
<1>. DEFINE j == req[r].what
<1>0. req[r] # Idle /\ req[r].pc = "commit" /\ Restarts(req[r], j)
    BY DEF Restart, Inv, HandlersOK, Knows
<1>1. CASE jobs[j].status = "gone"
    BY <1>0, <1>1, RefuseStep DEF Restart
<1>2. CASE jobs[j].status # "gone"
  <2>1. Reply(r, j) /\ UNCHANGED <<part, staged, inputs, sweep, broken, overlap>>
      BY <1>2 DEF Restart
  <2>2. /\ j \in Jobs /\ jobs[j].status \notin {"new", "gone"} /\ j \in inputs \cup overlap
        /\ j \in sweep.rows => j \in overlap
      BY <1>0, <1>2 DEF Restarts
  <2>. HIDE DEF j
  <2>3. Changes(jobs, jobs', j) /\ jobs'[j].status = "queued"
      BY <1>2, RestartChanges DEF j
  <2>4. FilesOK' /\ Jobs' = Jobs
      BY <2>1, <2>3, ChangedFiles
  <2>5. \A i \in Jobs : i # j => jobs'[i] = jobs[i]
      BY <2>3 DEF Changes, Jobs
  <2>6. Rows' = Rows
      BY <2>2, <2>3, <2>4, <2>5 DEF Rows
  <2>7. PICK h : req' = [req EXCEPT ![r] = h] /\ IsQuiet(h)
      BY <1>0, <2>1, ReplyIsQuiet DEF Inv
  <2>8. RequestsOK' /\ \A q \in Requests : req'[q] = IF q = r THEN h ELSE req[q]
      BY <2>7, RequestsKept DEF Inv, IsQuiet
  <2>9. h.pc \notin {"insert", "files", "commit", "erase"}
      BY <2>7 DEF IsQuiet, Idle
  <2>10. HandlersOK'
    <3>1. ASSUME NEW q \in Requests PROVE Knows(req[q])'
      <4>1. CASE q = r
          BY <2>8, <2>9, <4>1 DEF Knows
      <4>2. CASE q # r
        <5>1. Knows(req[q]) /\ req'[q] = req[q]
            BY <2>8, <4>2 DEF Inv, HandlersOK
        <5>. QED BY <2>1, <2>2, <2>3, <2>4, <2>5, <5>1 DEF Knows, Inserts, Deletes, Erases, Restarts
      <4>. QED BY <4>1, <4>2
    <3>. QED BY <2>8, <2>9, <3>1 DEF Inv, HandlersOK
  <2>11. SweepOK'
      BY <2>1, <2>2, <2>3, <2>4, <2>5 DEF Inv, SweepOK
  <2>12. NoInputLost'
      BY <2>1, <2>2, <2>4, <2>5 DEF Inv, NoInputLost
  <2>13. NoStrayInput'
    <3>1. \A q \in Requests : At(q, "create", "insert") \/ At(q, "delete", "files") => req'[q] = req[q]
        BY <1>0, <2>8 DEF At
    <3>. QED BY <2>1, <2>6, <3>1 DEF Inv, NoStrayInput, At
  <2>. QED BY <2>4, <2>8, <2>10, <2>11, <2>12, <2>13 DEF Inv
<1>. QED BY <1>1, <1>2

LEMMA DeleteFilesStep == ASSUME Inv, NEW r \in Requests, DeleteJobFiles(r) PROVE Inv'
<1>. DEFINE j == req[r].what
<1>1. /\ req[r] # Idle /\ req[r].pc = "files" /\ jobs[j].status = "gone"
      /\ \E a : Reply(r, a)
      /\ \/ inputs' = inputs \ {j} /\ broken' = broken
         \/ inputs' = inputs /\ broken' = broken \cup {j}
      /\ UNCHANGED <<part, staged, jobs, sweep, overlap>>
    BY DEF DeleteJobFiles, At, Inv, HandlersOK, Knows, Deletes
<1>2. PICK h : req' = [req EXCEPT ![r] = h] /\ IsQuiet(h)
    BY <1>1, ReplyIsQuiet DEF Inv
<1>3. RequestsOK' /\ \A q \in Requests : req'[q] = IF q = r THEN h ELSE req[q]
    BY <1>2, RequestsKept DEF Inv, IsQuiet
<1>4. h.pc \notin {"insert", "files", "commit", "erase"}
    BY <1>2 DEF IsQuiet, Idle
<1>5. FilesOK' /\ Jobs' = Jobs /\ Rows' = Rows
    BY <1>1, SameFiles DEF Jobs, Rows
<1>. HIDE DEF j
<1>6. HandlersOK'
  <2>1. ASSUME NEW q \in Requests PROVE Knows(req[q])'
    <3>1. CASE q = r
        BY <1>3, <1>4, <3>1 DEF Knows
    <3>2. CASE q # r
      <4>1. Knows(req[q]) /\ req'[q] = req[q]
          BY <1>3, <3>2 DEF Inv, HandlersOK
      <4>. QED BY <1>1, <1>5, <4>1 DEF Knows, Inserts, Deletes, Erases, Restarts
    <3>. QED BY <3>1, <3>2
  <2>. QED BY <1>3, <1>4, <2>1 DEF Inv, HandlersOK
<1>7. SweepOK'
    BY <1>1, <1>5 DEF Inv, SweepOK
<1>8. NoInputLost'
    BY <1>1, <1>5 DEF Inv, NoInputLost, Active
<1>9. NoStrayInput'
  <2>1. ASSUME NEW i \in inputs' \ (Rows' \cup broken') PROVE Cared(i)'
    <3>1. i \in inputs \ (Rows \cup broken) /\ i # j
        BY <1>1, <1>5
    <3>2. PICK q \in Requests : \/ At(q, "create", "insert") /\ req[q].answer = i
                                \/ At(q, "delete", "files") /\ req[q].what = i
        BY <3>1 DEF Inv, NoStrayInput
    <3>3. q # r
        BY <1>1, <3>1, <3>2 DEF At, j
    <3>. QED BY <1>3, <3>2, <3>3 DEF Cared, At
  <2>. QED BY <2>1 DEF NoStrayInput, Cared
<1>. QED BY <1>3, <1>5, <1>6, <1>7, <1>8, <1>9 DEF Inv

LEMMA CrashStep == ASSUME Inv, Crash PROVE Inv'
<1>1. /\ req' = [r \in Requests |->
                   IF req[r] # Idle /\ req[r].by = "cli"
                   THEN [req[r] EXCEPT !.pc = "done", !.answer = Refused] ELSE Idle]
      /\ broken' = broken \cup Half /\ UNCHANGED <<part, staged, jobs, inputs, sweep, overlap>>
    BY DEF Crash, filesVars
<1>2. ASSUME NEW r \in Requests PROVE IsQuiet(req'[r])
  <2>. DEFINE f == [req[r] EXCEPT !.pc = "done"]
              g == [f EXCEPT !.answer = Refused]
  <2>1. CASE req[r] # Idle /\ req[r].by = "cli"
    <3>1. req'[r] = g
        BY <1>1, <2>1
    <3>2. IsRequest(req[r])
        BY <2>1 DEF Inv, RequestsOK
    <3>3. IsRequest(f) /\ f.pc = "done"
        BY <3>2 DEF IsRequest
    <3>. HIDE DEF f
    <3>4. IsRequest(g) /\ g.pc = "done"
        BY <3>3 DEF IsRequest
    <3>. QED BY <3>1, <3>4 DEF IsQuiet
  <2>2. CASE ~(req[r] # Idle /\ req[r].by = "cli")
      BY <1>1, <2>2 DEF IsQuiet
  <2>. QED BY <2>1, <2>2
<1>3. \A r \in Requests : req'[r].pc \notin {"insert", "files", "commit", "erase"}
    BY <1>2 DEF IsQuiet, Idle
<1>4. RequestsOK'
    BY <1>1, <1>2 DEF RequestsOK, IsQuiet, IsRequest, Idle
<1>5. FilesOK' /\ Jobs' = Jobs /\ Rows' = Rows
    BY <1>1, SameFiles DEF Jobs, Rows
<1>6. HandlersOK'
    BY <1>3 DEF HandlersOK, Knows
<1>7. SweepOK' /\ NoInputLost'
    BY <1>1, <1>5 DEF Inv, SweepOK, NoInputLost
<1>8. NoStrayInput'
  <2>1. ASSUME NEW i \in inputs' \ (Rows' \cup broken') PROVE FALSE
    <3>1. i \in inputs \ (Rows \cup broken) /\ i \notin Half
        BY <1>1, <1>5
    <3>2. PICK q \in Requests : \/ At(q, "create", "insert") /\ req[q].answer = i
                                \/ At(q, "delete", "files") /\ req[q].what = i
        BY <3>1 DEF Inv, NoStrayInput
    <3>. QED BY <3>1, <3>2 DEF Half
  <2>. QED BY <2>1 DEF NoStrayInput
<1>. QED BY <1>4, <1>5, <1>6, <1>7, <1>8 DEF Inv

-----------------------------------------------------------------------------
(* The sweep. *)
LEMMA SweepReadStep == ASSUME Inv, SweepRead PROVE Inv'
<1>1. PICK rows \in SUBSET {j \in Rows : Expired(j)}, withInputs \in BOOLEAN :
        /\ sweep' = [pc |-> "files", rows |-> rows, withInputs |-> withInputs]
        /\ overlap' = overlap \cup Handled(rows)
    BY DEF SweepRead
<1>2. UNCHANGED <<part, staged, jobs, inputs, req, broken>> /\ Jobs' = Jobs /\ Rows' = Rows
    BY DEF SweepRead, filesVars, Jobs, Rows
<1>3. FilesOK'
    BY <1>2, SameFiles
<1>4. sweep'.rows = rows /\ \A j \in rows : j \in Jobs /\ jobs[j].status \notin {"new", "queued", "running"}
    BY <1>1 DEF Rows, Expired, Terminal
<1>5. SweepOK'
    BY <1>1, <1>2, <1>4 DEF SweepOK, Active
<1>6. HandlersOK'
  <2>1. ASSUME NEW r \in Requests PROVE Knows(req[r])'
    <3>1. Knows(req[r])
        BY DEF Inv, HandlersOK
    <3>2. req[r].pc = "commit" /\ req[r].what \in rows => req[r].what \in overlap'
      <4>1. SUFFICES ASSUME req[r].pc = "commit", req[r].what \in rows PROVE req[r].what \in Handled(rows)
          BY <1>1
      <4>2. req[r] # Idle /\ req[r].op \in {"resume", "retry"}
          BY <3>1, <4>1 DEF Knows, Restarts, Idle
      <4>3. r \in Asked("resume") \cup Asked("retry")
          BY <4>1, <4>2 DEF Asked
      <4>. QED BY <4>1, <4>3 DEF Handled
    <3>. QED BY <1>1, <1>2, <1>4, <3>1, <3>2 DEF Knows, Inserts, Deletes, Erases, Restarts
  <2>. QED BY <1>2, <2>1 DEF Inv, HandlersOK
<1>7. RequestsOK' /\ NoStrayInput'
    BY <1>2 DEF Inv, RequestsOK, IsRequest, NoStrayInput, At
<1>8. NoInputLost'
    BY <1>1, <1>2 DEF Inv, NoInputLost
<1>. QED BY <1>3, <1>5, <1>6, <1>7, <1>8 DEF Inv

LEMMA SweepFilesStep == ASSUME Inv, SweepFiles PROVE Inv'
<1>1. /\ inputs' = inputs \/ inputs' = inputs \ sweep.rows
      /\ jobs' = [j \in Jobs |-> IF j \in sweep.rows THEN [jobs[j] EXCEPT !.result = "none"] ELSE jobs[j]]
      /\ sweep' = [sweep EXCEPT !.pc = "commit"]
      /\ UNCHANGED <<part, staged, req, broken, overlap>>
    BY DEF SweepFiles, history
<1>2. /\ sweep'.rows = sweep.rows
      /\ \/ sweep' = [pc |-> sweep'.pc, rows |-> sweep'.rows]
         \/ sweep' = [pc |-> sweep'.pc, rows |-> sweep'.rows, withInputs |-> sweep'.withInputs]
    BY <1>1 DEF Inv, SweepOK
<1>3. /\ jobs' \in Seq(JobType) /\ Len(jobs') = Len(jobs) /\ Jobs' = Jobs
      /\ \A j \in Jobs : jobs'[j].from = jobs[j].from /\ jobs'[j].status = jobs[j].status
  <2>1. jobs \in Seq(JobType) /\ Jobs = 1..Len(jobs) /\ Len(jobs) \in Nat
      BY DEF Inv, FilesOK, Jobs
  <2>2. ASSUME NEW j \in Jobs
        PROVE  jobs'[j] \in JobType /\ jobs'[j].from = jobs[j].from /\ jobs'[j].status = jobs[j].status
    <3>1. jobs[j] \in JobType
        BY <2>1
    <3>. QED BY <1>1, <3>1 DEF JobType
  <2>3. jobs' \in [1..Len(jobs) -> JobType]
      BY <1>1, <2>1, <2>2
  <2>4. jobs' \in Seq(JobType) /\ Len(jobs') = Len(jobs)
      BY <2>1, <2>3
  <2>. QED BY <2>1, <2>2, <2>4 DEF Jobs
<1>4. FilesOK'
    BY <1>1, <1>3, SameUploads DEF Inv
<1>5. Rows' = Rows
    BY <1>3 DEF Rows
<1>6. HandlersOK'
  <2>1. ASSUME NEW r \in Requests PROVE Knows(req[r])'
    <3>1. Knows(req[r])
        BY DEF Inv, HandlersOK
    <3>2. \A j \in Jobs : jobs[j].status = "new" => j \notin sweep.rows
        BY DEF Inv, SweepOK
    <3>. QED BY <1>1, <1>2, <1>3, <3>1, <3>2 DEF Knows, Inserts, Deletes, Erases, Restarts
  <2>. QED BY <1>1, <2>1 DEF Inv, HandlersOK
<1>7. SweepOK'
  <2>1. sweep'.rows \subseteq Jobs'
      BY <1>2, <1>3 DEF Inv, SweepOK
  <2>2. ASSUME NEW j \in sweep'.rows
        PROVE  jobs'[j].status # "new" /\ (jobs'[j].status \in Active => j \in overlap')
    <3>1. j \in Jobs /\ jobs[j].status # "new" /\ (jobs[j].status \in Active => j \in overlap)
        BY <1>2 DEF Inv, SweepOK
    <3>. QED BY <1>1, <1>3, <3>1
  <2>. QED BY <1>2, <2>1, <2>2 DEF SweepOK
<1>8. NoInputLost'
    BY <1>1, <1>3 DEF Inv, NoInputLost, SweepOK
<1>9. RequestsOK' /\ NoStrayInput'
    BY <1>1, <1>5 DEF Inv, RequestsOK, IsRequest, NoStrayInput, At
<1>. QED BY <1>4, <1>6, <1>7, <1>8, <1>9 DEF Inv

LEMMA SweepEndStep == ASSUME Inv, SweepCommit \/ SweepStops PROVE Inv'
<1>1. /\ \/ jobs' = jobs
         \/ jobs' = [j \in Jobs |-> [jobs[j] EXCEPT !.purged = @ \/ j \in sweep.rows]]
      /\ sweep' = [pc |-> "idle", rows |-> {}]
      /\ UNCHANGED <<part, staged, inputs, req, broken, overlap>>
    BY DEF SweepCommit, SweepStops, history, filesVars
<1>2. /\ jobs' \in Seq(JobType) /\ Len(jobs') = Len(jobs) /\ Jobs' = Jobs
      /\ \A j \in Jobs : jobs'[j].from = jobs[j].from /\ jobs'[j].status = jobs[j].status
  <2>1. jobs \in Seq(JobType) /\ Jobs = 1..Len(jobs) /\ Len(jobs) \in Nat
      BY DEF Inv, FilesOK, Jobs
  <2>2. CASE jobs' = jobs
      BY <2>1, <2>2 DEF Jobs
  <2>3. CASE jobs' = [j \in Jobs |-> [jobs[j] EXCEPT !.purged = @ \/ j \in sweep.rows]]
    <3>1. ASSUME NEW j \in Jobs
          PROVE  jobs'[j] \in JobType /\ jobs'[j].from = jobs[j].from /\ jobs'[j].status = jobs[j].status
      <4>1. jobs[j] \in JobType /\ jobs'[j] = [jobs[j] EXCEPT !.purged = @ \/ j \in sweep.rows]
          BY <2>1, <2>3
      <4>. QED BY <4>1 DEF JobType
    <3>2. jobs' \in [1..Len(jobs) -> JobType]
        BY <2>1, <2>3, <3>1
    <3>3. jobs' \in Seq(JobType) /\ Len(jobs') = Len(jobs)
        BY <2>1, <3>2
    <3>. QED BY <2>1, <3>1, <3>3 DEF Jobs
  <2>. QED BY <1>1, <2>2, <2>3
<1>3. FilesOK'
    BY <1>1, <1>2, SameUploads DEF Inv
<1>4. Rows' = Rows
    BY <1>2 DEF Rows
<1>5. HandlersOK'
    BY <1>1, <1>2 DEF Inv, HandlersOK, Knows, Inserts, Deletes, Erases, Restarts
<1>6. SweepOK'
    BY <1>1 DEF SweepOK
<1>7. NoInputLost'
    BY <1>1, <1>2 DEF Inv, NoInputLost
<1>8. RequestsOK' /\ NoStrayInput'
    BY <1>1, <1>4 DEF Inv, RequestsOK, IsRequest, NoStrayInput, At
<1>. QED BY <1>3, <1>5, <1>6, <1>7, <1>8 DEF Inv

-----------------------------------------------------------------------------
(* What leaves jobs and handlers alone: stale uploads that are dropped, and *)
(* most of what the client does.                                           *)
LEMMA FrameStep ==
    ASSUME Inv, UNCHANGED <<part, jobs, inputs, req, sweep, broken, overlap>>, staged' \subseteq staged
    PROVE  Inv'
<1>1. FilesOK' /\ Jobs' = Jobs /\ Rows' = Rows
    BY SameFiles DEF Jobs, Rows
<1>2. HandlersOK'
    BY <1>1 DEF Inv, HandlersOK, Knows, Inserts, Deletes, Erases, Restarts
<1>. QED BY <1>1, <1>2 DEF Inv, RequestsOK, IsRequest, SweepOK, NoInputLost, NoStrayInput, At

LEMMA AnswerStep == ASSUME Inv, NEW r \in Requests, Answer(r) PROVE Inv'
<1>1. req' = [req EXCEPT ![r] = Idle] /\ req[r].pc = "done" /\ UNCHANGED <<filesVars, sweep, broken, overlap>>
    BY DEF Answer, history
<1>2. FilesOK' /\ IsQuiet(Idle)
    BY <1>1, SameFiles DEF filesVars, IsQuiet
<1>. QED BY <1>1, <1>2, QuietStep DEF filesVars

LEMMA GivesUpStep == ASSUME Inv, NEW r \in Requests, GivesUp(r) PROVE Inv'
<1>. DEFINE h == [req[r] EXCEPT !.by = "nobody"]
<1>1. /\ req' = [req EXCEPT ![r] = h] /\ req[r] # Idle
      /\ UNCHANGED <<part, staged, jobs, inputs, sweep, broken, overlap>>
    BY DEF GivesUp, filesVars, history
<1>2. IsRequest(req[r])
    BY <1>1 DEF Inv, RequestsOK
<1>3. /\ IsRequest(h) /\ h.pc = req[r].pc /\ h.op = req[r].op /\ h.what = req[r].what
      /\ h.answer = req[r].answer /\ h # Idle
    BY <1>2 DEF IsRequest, Idle
<1>. HIDE DEF h
<1>4. RequestsOK' /\ \A q \in Requests : req'[q] = IF q = r THEN h ELSE req[q]
    BY <1>1, <1>3, RequestsKept DEF Inv
<1>5. \A q \in Requests : /\ req'[q].pc = req[q].pc /\ req'[q].op = req[q].op /\ req'[q].what = req[q].what
                          /\ req'[q].answer = req[q].answer /\ (req'[q] = Idle <=> req[q] = Idle)
    BY <1>1, <1>3, <1>4
<1>6. FilesOK' /\ Jobs' = Jobs /\ Rows' = Rows
    BY <1>1, SameFiles DEF Jobs, Rows
<1>7. HandlersOK'
    BY <1>1, <1>5, <1>6 DEF Inv, HandlersOK, Knows, Inserts, Deletes, Erases, Restarts
<1>8. NoStrayInput'
    BY <1>1, <1>5, <1>6 DEF Inv, NoStrayInput, At
<1>9. SweepOK' /\ NoInputLost'
    BY <1>1, <1>6 DEF Inv, SweepOK, NoInputLost
<1>. QED BY <1>4, <1>6, <1>7, <1>8, <1>9 DEF Inv

-----------------------------------------------------------------------------

LEMMA InvStep == Inv /\ [BatchNext]_vars => Inv'
<1>. SUFFICES ASSUME Inv, [BatchNext]_vars PROVE Inv'
    OBVIOUS
<1>1. ASSUME ServerStep PROVE Inv'
  <2>1. ASSUME NEW r \in Requests, Handler(r) PROVE Inv'
      BY <2>1, StoreStep, CountStep, MoveStep, InsertStep, RestartStep, EraseStep, DeleteFilesStep DEF Handler
  <2>2. ASSUME NEW j \in Jobs, Runs(j) PROVE Inv'
      BY <2>2, RunsStep
  <2>3. CASE PurgeStale
      BY <2>3, FrameStep DEF PurgeStale, history
  <2>4. CASE SweepRead \/ SweepFiles \/ SweepCommit \/ SweepStops
      BY <2>4, SweepReadStep, SweepFilesStep, SweepEndStep
  <2>. QED BY <1>1, <2>1, <2>2, <2>3, <2>4, CrashStep DEF ServerStep, Sweeper
<1>2. ASSUME WebAsks PROVE Inv'
  <2>1. PICK r \in Requests :
          /\ req[r] = Idle
          /\ \/ AskUpload(r, Request("upload", "web", Web))
             \/ \E u \in staged : AskCreate(r, Request("create", "web", u))
             \/ \E j \in Rows : \/ AskResume(r, Request("resume", "web", j))
                               \/ AskRetry(r, Request("retry", "web", j))
                               \/ AskDelete(r, Request("delete", "web", j))
      BY <1>2 DEF WebAsks, Free
  <2>. QED BY <2>1, AskUploadStep, AskCreateStep, AskResumeStep, AskRetryStep, AskDeleteStep
<1>3. ASSUME Send PROVE Inv'
  <2>1. PICK r \in Requests :
          /\ req[r] = Idle
          /\ \/ AskUpload(r, Request("upload", "cli", Head(cli.todo)))
             \/ AskCreate(r, Request("create", "cli", Head(cli.todo)))
      BY <1>3 DEF Send, Free
  <2>. QED BY <2>1, AskUploadStep, AskCreateStep
<1>4. CASE Upload \/ Submit \/ OutOfRoom \/ Download \/ UNCHANGED vars
    BY <1>4, FrameStep DEF Upload, Submit, OutOfRoom, Download, vars, server
<1>5. ASSUME NEW r \in Requests, Answer(r) \/ GivesUp(r) PROVE Inv'
    BY <1>5, AnswerStep, GivesUpStep
<1>. QED BY <1>1, <1>2, <1>3, <1>4, <1>5 DEF BatchNext

LEMMA InvHolds == BatchSpec => []Inv
<1>1. BatchInit => Inv
    BY InvAtStart DEF BatchInit
<1>. QED BY <1>1, InvStep, PTL DEF BatchSpec

(* shutil.move (api/jobs.py:284) gives an upload to one handler, however   *)
(* often it is asked for, and whoever else asks or sweeps.                 *)
THEOREM UploadsUsedOnce == BatchSpec => []OneJobPerUpload
<1>1. Inv => OneJobPerUpload
    BY DEF Inv, FilesOK
<1>. QED BY InvHolds, <1>1, PTL

(* A queued or running job has its input (api/jobs.py:947, 1026), unless a *)
(* handler and a sweep held its row at the same time.                      *)
THEOREM InputsKept == BatchSpec => []NoInputLost
<1>1. Inv => NoInputLost
    BY DEF Inv
<1>. QED BY InvHolds, <1>1, PTL

(* Input files without a row are in a handler's care, or one that broke    *)
(* off left them behind.                                                   *)
THEOREM InputsCaredFor == BatchSpec => []NoStrayInput
<1>1. Inv => NoStrayInput
    BY DEF Inv
<1>. QED BY InvHolds, <1>1, PTL

-----------------------------------------------------------------------------
(* What was downloaded: files of items of the data set, each with an answer *)
(* or an error.                                                            *)
LocalOK == IsFiniteSet(local) /\ \A f \in local : f.item \in Parts /\ f.outcome \in {"ok", "error"}

(* What is known of an item after n of the files: an answer, if one of     *)
(* them has it.                                                            *)
Seen(files, n, p, outcome) == \E i \in 1..n : files[i].item = p /\ files[i].outcome = outcome
Best(files, n, p) ==
    IF Seen(files, n, p, "ok") THEN "ok" ELSE IF Seen(files, n, p, "error") THEN "error" ELSE "missing"
Results(files, n) == [p \in Parts |-> Best(files, n, p)]

LEMMA SeenOneMore ==
    ASSUME NEW files, NEW n \in Nat \ {0}, NEW p, NEW o
    PROVE  Seen(files, n, p, o) <=> Seen(files, n - 1, p, o) \/ (files[n].item = p /\ files[n].outcome = o)
<1>1. 1..n = (1..(n - 1)) \cup {n}
    OBVIOUS
<1>. QED BY <1>1 DEF Seen

LEMMA KeepingIsBest ==
    ASSUME NEW files, NEW n \in Nat \ {0}, files[n].item \in Parts, files[n].outcome \in {"ok", "error"}
    PROVE  Keeping(Results(files, n - 1), files[n]) = Results(files, n)
<1>. DEFINE before == Results(files, n - 1)
            after == Keeping(before, files[n])
            x == files[n].item
            new == IF before[x] = "missing" \/ (before[x] = "error" /\ files[n].outcome = "ok")
                   THEN files[n].outcome ELSE before[x]
<1>1. after = [before EXCEPT ![x] = new]
    BY DEF Keeping
<1>2. ASSUME NEW p \in Parts PROVE after[p] = Best(files, n, p)
  <2>1. before[p] = Best(files, n - 1, p) /\ p \in DOMAIN before
      BY DEF Results
  <2>2. \A o : Seen(files, n, p, o) <=> Seen(files, n - 1, p, o) \/ (x = p /\ files[n].outcome = o)
      BY SeenOneMore
  <2>3. CASE p = x
    <3>1. after[p] = new
        BY <1>1, <2>1, <2>3
    <3>. HIDE DEF before, after, x
    <3>. QED BY <2>1, <2>2, <2>3, <3>1 DEF Best, new
  <2>4. CASE p # x
    <3>1. after[p] = before[p]
        BY <1>1, <2>1, <2>4
    <3>. HIDE DEF before, after, x
    <3>. QED BY <2>1, <2>2, <2>4, <3>1 DEF Best
  <2>. QED BY <2>3, <2>4
<1>3. after = [p \in Parts |-> after[p]]
  <2>1. before = [p \in Parts |-> before[p]]
      BY DEF Results
  <2>. HIDE DEF before
  <2>. QED BY <1>1, <2>1
<1>4. after = Results(files, n)
  <2>. HIDE DEF after
  <2>. QED BY <1>2, <1>3 DEF Results
<1>. QED BY <1>4

Loads(load, files) ==
    load = [n \in 0..Len(files) |->
               IF n = 0 THEN [p \in Parts |-> "missing"] ELSE Keeping(load[n - 1], files[n])]

LEMMA LoadedIsBest ==
    ASSUME NEW files, Len(files) \in Nat,
           \A i \in 1..Len(files) : files[i].item \in Parts /\ files[i].outcome \in {"ok", "error"}
    PROVE  LoadResults(files) = Results(files, Len(files))
<1>. DEFINE N == Len(files)
            best == [n \in 0..N |-> Results(files, n)]
<1>0. Results(files, 0) = [p \in Parts |-> "missing"]
    BY DEF Results, Best, Seen
<1>1. Loads(best, files)
  <2>1. ASSUME NEW n \in 0..N
        PROVE  best[n] = IF n = 0 THEN [p \in Parts |-> "missing"] ELSE Keeping(best[n - 1], files[n])
    <3>1. CASE n = 0
        BY <1>0, <3>1
    <3>2. CASE n # 0
      <4>1. n \in Nat \ {0} /\ n - 1 \in 0..N /\ n \in 1..N
          BY <3>2
      <4>2. Keeping(Results(files, n - 1), files[n]) = Results(files, n)
          BY <4>1, KeepingIsBest
      <4>3. best[n - 1] = Results(files, n - 1)
          BY <4>1
      <4>. QED BY <3>2, <4>2, <4>3
    <3>. QED BY <3>1, <3>2
  <2>2. best = [n \in 0..N |-> best[n]]
      OBVIOUS
  <2>. HIDE DEF best
  <2>. QED BY <2>1, <2>2 DEF Loads
<1>2. \A load : Loads(load, files) => load[N] = Results(files, N)
  <2>. SUFFICES ASSUME NEW load, Loads(load, files) PROVE load[N] = Results(files, N)
      OBVIOUS
  <2>. DEFINE F == {n \in 0..N : load[n] = Results(files, n)}
  <2>0. \A n \in 0..N : load[n] = IF n = 0 THEN [p \in Parts |-> "missing"] ELSE Keeping(load[n - 1], files[n])
      BY DEF Loads
  <2>1. 0 \in F
      BY <1>0, <2>0
  <2>2. ASSUME NEW k \in 1..N, k - 1 \in F PROVE k \in F
    <3>1. load[k] = Keeping(load[k - 1], files[k])
        BY <2>0
    <3>2. Keeping(Results(files, k - 1), files[k]) = Results(files, k)
        BY KeepingIsBest
    <3>. QED BY <2>2, <3>1, <3>2
  <2>3. 0..N \subseteq F
    <3>. HIDE DEF F
    <3>. QED BY <2>1, <2>2, IntervalInduction
  <2>. QED BY <2>3
<1>3. LoadResults(files) = (CHOOSE load : Loads(load, files))[N]
    BY DEF LoadResults, Loads
<1>. HIDE DEF best
<1>. QED BY <1>1, <1>2, <1>3

LEMMA FilesAreAll ==
    ASSUME NEW S, IsFiniteSet(S), NEW files \in SetToSeqs(S)
    PROVE  Len(files) \in Nat /\ (\A i \in 1..Len(files) : files[i] \in S) /\ \A f \in S : \E i \in 1..Len(files) : files[i] = f
<1>. DEFINE n == Cardinality(S)
<1>1. n \in Nat
    BY FS_CardinalityType
<1>2. files \in [1..n -> S] /\ IsInjective(files)
    BY DEF SetToSeqs, IsInjective
<1>3. Len(files) = n
    BY <1>1, <1>2
<1>4. files \in Injection(1..n, S) /\ Cardinality(1..n) = n
    BY <1>1, <1>2, FS_Interval DEF Injection
<1>5. files \in Surjection(1..n, S)
    BY <1>4, FS_Injection
<1>. QED BY <1>1, <1>2, <1>3, <1>5 DEF Surjection

LEMMA JoinFollows == LocalOK => JoinKeepsAnswers
<1>. SUFFICES ASSUME LocalOK, NEW files \in SetToSeqs(local), NEW p \in Parts
              PROVE  LET found == {file.outcome : file \in {f \in local : f.item = p}}
                     IN LoadResults(files)[p] = IF "ok" \in found THEN "ok"
                                                ELSE IF "error" \in found THEN "error" ELSE "missing"
    BY DEF JoinKeepsAnswers
<1>. DEFINE found == {file.outcome : file \in {f \in local : f.item = p}}
            n == Len(files)
<1>1. n \in Nat /\ (\A i \in 1..n : files[i] \in local) /\ \A f \in local : \E i \in 1..n : files[i] = f
    BY FilesAreAll DEF LocalOK
<1>2. LoadResults(files)[p] = Best(files, n, p)
    BY <1>1, LoadedIsBest DEF LocalOK, Results
<1>3. \A o : o \in found <=> Seen(files, n, p, o)
    BY <1>1 DEF Seen
<1>. QED BY <1>2, <1>3 DEF Best

LEMMA LocalStep == Inv /\ LocalOK /\ [BatchNext]_vars => LocalOK'
<1>. SUFFICES ASSUME Inv, LocalOK, [BatchNext]_vars PROVE LocalOK'
    OBVIOUS
<1>1. CASE Download
  <2>1. PICK j \in Rows :
          /\ Downloadable(j) /\ part[jobs[j].from] \in Parts
          /\ local' = {file \in local : file.job # j} \cup
                         {[job |-> j, item |-> part[jobs[j].from], outcome |-> jobs[j].result]}
      BY <1>1 DEF Download
  <2>2. jobs[j].result \in {"ok", "error"}
    <3>1. jobs[j] \in JobType
        BY DEF Rows, Jobs, Inv, FilesOK
    <3>. QED BY <2>1, <3>1 DEF Downloadable, JobType
  <2>. DEFINE old == {file \in local : file.job # j}
              new == [job |-> j, item |-> part[jobs[j].from], outcome |-> jobs[j].result]
  <2>3. IsFiniteSet(old)
      BY FS_Subset DEF LocalOK
  <2>4. new.item \in Parts /\ new.outcome \in {"ok", "error"}
      BY <2>1, <2>2
  <2>5. old \subseteq local /\ local' = old \cup {new}
      BY <2>1
  <2>. HIDE DEF old, new
  <2>6. IsFiniteSet(local')
      BY <2>3, <2>5, FS_AddElement
  <2>. QED BY <2>4, <2>5, <2>6 DEF LocalOK
<1>2. CASE ~Download
  <2>1. local' = local
      BY <1>2 DEF BatchNext, WebAsks, Upload, Submit, Send, OutOfRoom, Answer, GivesUp, vars, client
  <2>. QED BY <2>1 DEF LocalOK
<1>. QED BY <1>1, <1>2

(* An item that some downloaded file answers is joined as answered         *)
(* (bic.py:964), in whatever order the files of its jobs are read and      *)
(* however many there are.                                                 *)
THEOREM JoinIsRight == BatchSpec => []JoinKeepsAnswers
<1>1. BatchInit => LocalOK
    BY FS_EmptySet DEF BatchInit, LocalOK
<1>. QED BY <1>1, LocalStep, InvHolds, JoinFollows, PTL DEF BatchSpec

-----------------------------------------------------------------------------
(* What the client and the handlers know of each other. *)
CommandOK ==
    /\ cli = [command |-> cli.command, todo |-> cli.todo, got |-> cli.got]
    /\ cli.command \in {"none", "upload", "submit"}
    /\ IsSequence(cli.todo) /\ IsSequence(cli.got)
    /\ cli.command = "none" => cli = NoCommand
    /\ cli.command # "none" => cli.todo # <<>>
    /\ cli.command = "upload" => \A i \in DOMAIN cli.todo : cli.todo[i] \in Parts
    /\ cli.command = "submit" => \A i \in DOMAIN cli.todo : cli.todo[i] \in Uploads

ByCli(h) == h # Idle /\ h.by = "cli"
Points(h) ==
    \/ h.op = "upload" /\ h.pc \in {"store", "done"}
    \/ h.op = "create" /\ h.pc \in {"count", "move", "insert", "done"}
    \/ h.op \in {"resume", "retry"} /\ h.pc = "commit"
    \/ h.op = "delete" /\ h.pc \in {"erase", "files"}
CallOK(h) == h # Idle =>
    /\ h.by \in {"cli", "web", "nobody"} /\ Points(h)
    /\ h.pc = "done" => h.by = "cli"
    /\ h.op = "upload" => h.what \in Parts \cup {Web}
    /\ h.op = "create" =>
          /\ h.what \in Uploads
          /\ \/ h.by = "cli"
             \/ h.by = "web" /\ part[h.what] = Web
             \/ h.by = "nobody" /\ h.what \in unheard
    /\ h.by = "cli" =>
          /\ \/ h.op = "upload" /\ cli.command = "upload"
             \/ h.op = "create" /\ cli.command = "submit"
          /\ h.what = Head(cli.todo)
CallsOK ==
    /\ part \in Seq(Parts \cup {Web})
    /\ CommandOK
    /\ \A r \in Requests : CallOK(req[r])
    /\ \A r, q \in Requests : ByCli(req[r]) /\ ByCli(req[q]) => r = q

(* The uploads of the command that runs are nobody else's; a job made from *)
(* one in the manifest is listed, or the client is about to hear of it, or *)
(* never will.                                                             *)
New(u) ==
    /\ u \in Uploads /\ part[u] \in Parts
    /\ \A j \in Jobs : jobs[j].from # u
    /\ \A r \in Requests : req[r] # Idle /\ req[r].op = "create" => req[r].what # u
Told(h, u, j) ==
    /\ ByCli(h) /\ h.op = "create" /\ h.what = u
    /\ \/ h.pc = "insert" /\ h.answer = j
       \/ h.pc = "done" /\ h.answer \in {j, Refused}
Listed(j) == \E k \in DOMAIN manifest.jobs : manifest.jobs[k] = j
Accounted(u) ==
    /\ u \in Uploads /\ part[u] \in Parts
    /\ \A j \in Jobs :
          jobs[j].from = u => Listed(j) \/ u \in unheard \/ \E r \in Requests : Told(req[r], u, j)
HasUpload(h) == h # Idle /\ h.op = "upload" /\ h.pc = "done" /\ h.answer # Refused
ManifestOK ==
    /\ manifest = [uploads |-> manifest.uploads, jobs |-> manifest.jobs]
    /\ IsSequence(manifest.uploads) /\ IsSequence(manifest.jobs)
    /\ \A r \in Requests : HasUpload(req[r]) => New(req[r].answer)
    /\ cli.command = "upload" => \A i \in DOMAIN cli.got : New(cli.got[i])
    /\ \A i \in DOMAIN manifest.uploads : Accounted(manifest.uploads[i])

ClientInv == Inv /\ CallsOK /\ ManifestOK

-----------------------------------------------------------------------------
(* What most steps do to a handler: nothing, or it ends, or the web page   *)
(* has a row changed.                                                      *)
Ends(h, g) ==
    /\ IsRequest(h)
    /\ \/ g = Idle /\ h.by # "cli"
       \/ /\ IsRequest(g) /\ h.by = "cli" /\ g.by = "cli" /\ g.op = h.op /\ g.what = h.what /\ g.pc = "done"
          /\ g.answer = Refused \/ (h.op = "create" /\ h.pc = "insert" /\ g.answer = h.answer)
Opens(h, g) ==
    /\ h = Idle /\ IsRequest(g) /\ g.by = "web"
    /\ \/ g.op \in {"resume", "retry"} /\ g.pc = "commit"
       \/ g.op = "delete" /\ g.pc = "erase"
Proceeds(h, g) ==
    /\ IsRequest(h) /\ IsRequest(g) /\ g.op = h.op /\ g.by = h.by /\ g.what = h.what
    /\ \/ h.op = "create" /\ h.pc = "count" /\ g.pc = "move" /\ Cardinality(ActiveJobs) < MaxActive
       \/ h.op = "delete" /\ h.pc = "erase" /\ g.pc = "files"
Continues(h, g) == g = h \/ Ends(h, g) \/ Opens(h, g) \/ Proceeds(h, g)

Holding == Kept \cup {req[r].answer : r \in Moved}
Fresh == {j \in Jobs \ revived : jobs[j].status \in Active}
Quiet ==
    /\ part' = part /\ staged' \subseteq staged
    /\ Jobs' = Jobs /\ \A j \in Jobs : jobs'[j].from = jobs[j].from
    /\ \A r \in Requests : Continues(req[r], req'[r])

LEMMA Continued ==
    ASSUME NEW h, NEW g, Continues(h, g)
    PROVE  /\ ByCli(g) => ByCli(h)
           /\ g # Idle /\ g.op \in {"upload", "create"} => h # Idle /\ g.op = h.op /\ g.what = h.what
           /\ HasUpload(g) => g = h
           /\ \A u, j : Told(h, u, j) => Told(g, u, j)
<1>1. CASE g = h
    BY <1>1
<1>2. CASE Ends(h, g) /\ g = Idle
    BY <1>2 DEF Ends, ByCli, HasUpload, Told, IsRequest, Idle
<1>3. CASE Ends(h, g) /\ g # Idle
  <2>1. /\ IsRequest(h) /\ IsRequest(g) /\ h.by = "cli" /\ g.by = "cli" /\ g.op = h.op /\ g.what = h.what
        /\ g.pc = "done"
        /\ g.answer = Refused \/ (h.op = "create" /\ h.pc = "insert" /\ g.answer = h.answer)
      BY <1>3 DEF Ends
  <2>2. h # Idle
      BY <2>1 DEF IsRequest, Idle
  <2>. QED BY <1>3, <2>1, <2>2 DEF ByCli, HasUpload, Told
<1>4. CASE Opens(h, g)
    BY <1>4 DEF Opens, ByCli, HasUpload, Told
<1>5. CASE Proceeds(h, g)
  <2>1. h # Idle /\ g # Idle
      BY <1>5 DEF Proceeds, IsRequest, Idle
  <2>. QED BY <1>5, <2>1 DEF Proceeds, ByCli, HasUpload, Told
<1>. QED BY <1>1, <1>2, <1>3, <1>4, <1>5 DEF Continues

LEMMA QuietCalls ==
    ASSUME ClientInv, Quiet, UNCHANGED <<cli, manifest, unheard>>
    PROVE  CallsOK' /\ ManifestOK'
<1>1. Uploads' = Uploads /\ UNCHANGED <<cli, manifest, unheard>> /\ part' = part /\ Jobs' = Jobs
    BY DEF Quiet, Uploads
<1>2. ASSUME NEW r \in Requests PROVE CallOK(req[r])'
  <2>1. CallOK(req[r]) /\ Continues(req[r], req'[r])
      BY DEF ClientInv, CallsOK, Quiet
  <2>2. CASE req'[r] = req[r]
      BY <1>1, <2>1, <2>2 DEF CallOK
  <2>3. CASE Ends(req[r], req'[r])
    <3>1. CASE req'[r] = Idle
        BY <3>1 DEF CallOK
    <3>2. CASE ByCli(req'[r])
      <4>1. req[r] # Idle
          BY <2>3 DEF Ends, IsRequest, Idle
      <4>. QED BY <1>1, <2>1, <2>3, <3>2, <4>1 DEF CallOK, Ends, Points, ByCli, Idle
    <3>. QED BY <2>3, <3>1, <3>2 DEF Ends, ByCli
  <2>4. CASE Opens(req[r], req'[r])
      BY <2>4 DEF Opens, CallOK, Points
  <2>5. CASE Proceeds(req[r], req'[r])
    <3>1. req[r] # Idle
        BY <2>5 DEF Proceeds, IsRequest, Idle
    <3>. QED BY <1>1, <2>1, <2>5, <3>1 DEF CallOK, Proceeds, Points
  <2>. QED BY <2>1, <2>2, <2>3, <2>4, <2>5 DEF Continues
<1>3. \A r \in Requests : ByCli(req'[r]) => ByCli(req[r])
    BY Continued DEF Quiet
<1>4. CommandOK'
    BY <1>1 DEF ClientInv, CallsOK, CommandOK, IsSequence
<1>5. CallsOK'
    BY <1>1, <1>2, <1>3, <1>4 DEF ClientInv, CallsOK
<1>6. \A j \in Jobs : jobs'[j].from = jobs[j].from
    BY DEF Quiet
<1>7. ASSUME NEW u, New(u) PROVE New(u)'
  <2>1. ASSUME NEW r \in Requests, req'[r] # Idle, req'[r].op = "create" PROVE req'[r].what # u
    <3>1. req[r] # Idle /\ req[r].op = "create" /\ req'[r].what = req[r].what
        BY <2>1, Continued DEF Quiet
    <3>. QED BY <1>7, <3>1 DEF New
  <2>. QED BY <1>1, <1>6, <1>7, <2>1 DEF New
<1>8. ASSUME NEW r \in Requests, HasUpload(req'[r]) PROVE New(req[r].answer)'
  <2>1. req'[r] = req[r]
      BY <1>8, Continued DEF Quiet
  <2>2. New(req[r].answer)
      BY <1>8, <2>1 DEF ClientInv, ManifestOK
  <2>. QED BY <1>7, <2>1, <2>2
<1>9. ASSUME NEW u, Accounted(u) PROVE Accounted(u)'
  <2>1. ASSUME NEW r \in Requests, NEW j, Told(req[r], u, j) PROVE Told(req'[r], u, j)
      BY <2>1, Continued DEF Quiet
  <2>. QED BY <1>1, <1>6, <1>9, <2>1 DEF Accounted, Listed
<1>10. ManifestOK'
    BY <1>1, <1>7, <1>8, <1>9 DEF ClientInv, ManifestOK, IsSequence
<1>. QED BY <1>5, <1>10
(* An answer goes to the client; for anybody else the handler just ends. *)
Replied(h, g, answer) ==
    IF h.by = "cli"
    THEN /\ IsRequest(g) /\ g # Idle /\ g.by = "cli" /\ g.op = h.op /\ g.what = h.what
         /\ g.pc = "done" /\ g.answer = answer
    ELSE g = Idle

LEMMA ReplyIs ==
    ASSUME RequestsOK, NEW r \in Requests, req[r] # Idle, NEW answer, Reply(r, answer)
    PROVE  /\ IsRequest(req[r]) /\ Replied(req[r], req'[r], answer)
           /\ \A q \in Requests : q # r => req'[q] = req[q]
<1>. DEFINE f == [req[r] EXCEPT !.pc = "done"]
            g == [f EXCEPT !.answer = answer]
            h == Answered(g)
<1>1. IsRequest(req[r])
    BY DEF RequestsOK
<1>2. req' = [req EXCEPT ![r] = h]
    BY DEF Reply
<1>3. IsRequest(f) /\ f.pc = "done" /\ f.op = req[r].op /\ f.by = req[r].by /\ f.what = req[r].what
    BY <1>1 DEF IsRequest
<1>. HIDE DEF f
<1>4. IsRequest(g) /\ g.pc = "done" /\ g.answer = answer /\ g.op = req[r].op /\ g.by = req[r].by
      /\ g.what = req[r].what
    BY <1>3 DEF IsRequest
<1>. HIDE DEF g
<1>5. Replied(req[r], h, answer) /\ (h = Idle \/ IsRequest(h))
    BY <1>4 DEF Replied, Answered, IsRequest, Idle
<1>. HIDE DEF h
<1>. QED BY <1>1, <1>2, <1>5, RequestsKept

LEMMA NothingToDo == ASSUME cli' = NoCommand PROVE CommandOK'
<1>1. IsSequence(<<>>)
    BY DEF IsSequence
<1>. QED BY <1>1 DEF CommandOK, NoCommand

LEMMA WebIsNoPart == Web \notin Parts
<1>1. Cardinality(Parts) \in Nat /\ Parts = 1..Cardinality(Parts)
    BY BatchAssumption, FS_CardinalityType
<1>. QED BY <1>1 DEF Web

LEMMA StoreCalls ==
    ASSUME ClientInv, UNCHANGED <<cli, manifest, unheard, jobs>>, NEW r \in Requests, At(r, "upload", "store"),
           part' = Append(part, req[r].what), Reply(r, Len(part) + 1)
    PROVE  CallsOK' /\ ManifestOK'
<1>. DEFINE what == req[r].what
<1>u. PICK u : u = Len(part) + 1
    OBVIOUS
<1>0. /\ CallsOK /\ ManifestOK /\ CallOK(req[r]) /\ req[r] # Idle /\ req[r].op = "upload"
      /\ part \in Seq(Parts \cup {Web}) /\ what \in Parts \cup {Web}
    BY DEF ClientInv, CallsOK, CallOK, At
<1>1. Replied(req[r], req'[r], u) /\ \A q \in Requests : q # r => req'[q] = req[q]
    BY <1>u, <1>0, ReplyIs DEF ClientInv, Inv
<1>2. /\ part' \in Seq(Parts \cup {Web}) /\ u \notin Uploads /\ Uploads' = Uploads \cup {u}
      /\ part'[u] = what /\ \A v \in Uploads : part'[v] = part[v]
  <2>. DEFINE S == Parts \cup {Web}
  <2>. HIDE DEF S
  <2>1. part \in Seq(S) /\ what \in S
      BY <1>0 DEF S
  <2>. HIDE DEF what
  <2>2. part' = Append(part, what)
      BY DEF what
  <2>. QED BY <1>u, <2>1, <2>2 DEF Uploads, S
<1>3. Jobs' = Jobs /\ (\A j \in Jobs : jobs'[j] = jobs[j] /\ jobs[j].from \in Uploads)
    BY DEF Jobs, ClientInv, Inv, FilesOK, OneJobPerUpload
<1>4. ASSUME NEW q \in Requests, req'[q] # Idle
      PROVE  /\ req'[q].op = req[q].op /\ req'[q].by = req[q].by /\ req'[q].what = req[q].what /\ req[q] # Idle
             /\ q # r => req'[q] = req[q]
    BY <1>0, <1>1, <1>4 DEF Replied
<1>5. ASSUME NEW q \in Requests PROVE CallOK(req[q])'
  <2>1. CASE q = r
      BY <1>0, <1>1, <2>1 DEF CallOK, Replied, Points
  <2>2. CASE q # r
    <3>1. CallOK(req[q]) /\ req'[q] = req[q]
        BY <1>0, <1>1, <2>2 DEF CallsOK
    <3>. QED BY <1>2, <3>1 DEF CallOK
  <2>. QED BY <2>1, <2>2
<1>6. CommandOK'
    BY <1>0, <1>2 DEF CallsOK, CommandOK, IsSequence
<1>7. CallsOK'
    BY <1>0, <1>2, <1>4, <1>5, <1>6 DEF CallsOK, ByCli
<1>8. ASSUME NEW v, New(v) PROVE New(v)'
    BY <1>2, <1>3, <1>4, <1>8 DEF New
<1>9. req[r].by = "cli" => New(u)'
  <2>. SUFFICES ASSUME req[r].by = "cli" PROVE New(u)'
      OBVIOUS
  <2>1. what \in Parts
    <3>1. cli.command = "upload" /\ what = Head(cli.todo)
        BY <1>0 DEF CallOK
    <3>2. cli.todo # <<>> /\ IsSequence(cli.todo) /\ \A i \in DOMAIN cli.todo : cli.todo[i] \in Parts
        BY <1>0, <3>1 DEF CallsOK, CommandOK
    <3>3. 1 \in DOMAIN cli.todo /\ Head(cli.todo) = cli.todo[1]
        BY <3>2 DEF IsSequence
    <3>. QED BY <3>1, <3>2, <3>3
  <2>2. ASSUME NEW q \in Requests, req'[q] # Idle, req'[q].op = "create" PROVE req'[q].what # u
    <3>1. req[q] # Idle /\ req[q].op = "create" /\ req'[q].what = req[q].what
        BY <1>4, <2>2
    <3>2. CallOK(req[q])
        BY <1>0 DEF CallsOK
    <3>. QED BY <1>2, <3>1, <3>2 DEF CallOK
  <2>. QED BY <1>2, <1>3, <2>1, <2>2 DEF New
<1>10. ASSUME NEW q \in Requests, HasUpload(req'[q]) PROVE New(req[q].answer)'
  <2>1. CASE q = r
    <3>1. req'[q].answer = u /\ req[r].by = "cli"
        BY <1>1, <1>10, <2>1 DEF HasUpload, Replied
    <3>. QED BY <1>9, <3>1
  <2>2. CASE q # r
    <3>1. req'[q] = req[q] /\ New(req[q].answer)
        BY <1>0, <1>1, <1>10, <2>2 DEF ManifestOK
    <3>. QED BY <1>8, <3>1
  <2>. QED BY <2>1, <2>2
<1>11. ASSUME NEW v, Accounted(v) PROVE Accounted(v)'
  <2>1. ASSUME NEW q \in Requests, NEW j, Told(req[q], v, j) PROVE Told(req'[q], v, j)
      BY <1>0, <1>1, <2>1 DEF Told
  <2>. QED BY <1>2, <1>3, <1>11, <2>1 DEF Accounted, Listed
<1>12. ManifestOK'
    BY <1>0, <1>8, <1>10, <1>11 DEF ManifestOK, IsSequence
<1>. QED BY <1>7, <1>12

LEMMA MoveCalls ==
    ASSUME ClientInv, UNCHANGED <<cli, manifest, unheard, part>>, NEW r \in Requests, At(r, "create", "move"),
           jobs' = Append(jobs, NewJob(req[r].what)),
           req' = [req EXCEPT ![r].pc = "insert", ![r].answer = Len(jobs) + 1]
    PROVE  CallsOK' /\ ManifestOK'
<1>. DEFINE n == Len(jobs) + 1
            u == req[r].what
            f == [req[r] EXCEPT !.pc = "insert"]
            h == [f EXCEPT !.answer = n]
<1>0. CallsOK /\ ManifestOK /\ CallOK(req[r]) /\ req[r] # Idle /\ req[r].op = "create" /\ u \in Uploads
    BY DEF ClientInv, CallsOK, CallOK, At
<1>1. IsRequest(req[r]) /\ req' = [req EXCEPT ![r] = h]
  <2>1. req' = [[req EXCEPT ![r] = f] EXCEPT ![r] = [@ EXCEPT !.answer = n]]
      OBVIOUS
  <2>. QED BY <1>0, <2>1 DEF ClientInv, Inv, RequestsOK
<1>2. IsRequest(f) /\ f.pc = "insert" /\ f.op = req[r].op /\ f.by = req[r].by /\ f.what = u
    BY <1>1 DEF IsRequest
<1>. HIDE DEF f
<1>3. IsRequest(h) /\ h.pc = "insert" /\ h.op = req[r].op /\ h.by = req[r].by /\ h.what = u /\ h.answer = n
    BY <1>2 DEF IsRequest
<1>. HIDE DEF h
<1>4. h # Idle /\ req'[r] = h /\ \A q \in Requests : q # r => req'[q] = req[q]
  <2>1. \A q \in Requests : req'[q] = IF q = r THEN h ELSE req[q]
      BY <1>1, <1>3, RequestsKept DEF ClientInv, Inv
  <2>2. h # Idle
      BY <1>3 DEF IsRequest, Idle
  <2>. QED BY <2>1, <2>2
<1>5. /\ Uploads' = Uploads /\ Jobs' = Jobs \cup {n} /\ jobs'[n].from = u
      /\ \A j \in Jobs : jobs'[j] = jobs[j]
  <2>1. NewJob(u) \in JobType /\ NewJob(u).from = u
    <3>1. u \in Nat
        BY <1>0, Appended DEF ClientInv, Inv, FilesOK, Uploads
    <3>. QED BY <3>1 DEF NewJob, JobType, Statuses
  <2>. HIDE DEF u
  <2>2. jobs' = Append(jobs, NewJob(u))
      BY DEF u
  <2>. QED BY <2>1, <2>2 DEF Uploads, Jobs, ClientInv, Inv, FilesOK
<1>6. ASSUME NEW q \in Requests PROVE CallOK(req[q])'
  <2>1. CASE q = r
      BY <1>0, <1>3, <1>4, <1>5, <2>1 DEF CallOK, Points
  <2>2. CASE q # r
    <3>1. CallOK(req[q]) /\ req'[q] = req[q]
        BY <1>0, <1>4, <2>2 DEF CallsOK
    <3>. QED BY <1>5, <3>1 DEF CallOK
  <2>. QED BY <2>1, <2>2
<1>7. CommandOK'
    BY <1>0, <1>5 DEF CallsOK, CommandOK, IsSequence
<1>8. \A q \in Requests : ByCli(req'[q]) => ByCli(req[q])
    BY <1>0, <1>3, <1>4 DEF ByCli
<1>9. CallsOK'
    BY <1>0, <1>6, <1>7, <1>8 DEF CallsOK
<1>10. ASSUME NEW v, New(v) PROVE New(v)'
  <2>1. v # u
      BY <1>0, <1>10 DEF New
  <2>2. ASSUME NEW q \in Requests, req'[q] # Idle, req'[q].op = "create" PROVE req'[q].what # v
      BY <1>3, <1>4, <1>10, <2>1, <2>2 DEF New
  <2>. QED BY <1>5, <1>10, <2>1, <2>2 DEF New
<1>11. ASSUME NEW q \in Requests, HasUpload(req'[q]) PROVE New(req[q].answer)'
  <2>1. q # r
      BY <1>3, <1>4, <1>11 DEF HasUpload
  <2>2. req'[q] = req[q] /\ New(req[q].answer)
      BY <1>0, <1>4, <1>11, <2>1 DEF ManifestOK
  <2>. QED BY <1>10, <2>2
<1>12. ASSUME NEW v, Accounted(v) PROVE Accounted(v)'
  <2>1. ASSUME NEW q \in Requests, NEW j, Told(req[q], v, j) PROVE Told(req'[q], v, j)
      BY <1>4, <2>1 DEF Told, At
  <2>2. u = v => v \in unheard \/ Told(req'[r], v, n)
    <3>1. u = v => part[u] # Web
        BY <1>12, WebIsNoPart DEF Accounted
    <3>. QED BY <1>0, <1>3, <1>4, <3>1 DEF CallOK, Told, ByCli
  <2>3. ASSUME NEW j \in Jobs', jobs'[j].from = v
        PROVE  Listed(j)' \/ v \in unheard' \/ \E q \in Requests : Told(req'[q], v, j)
    <3>1. CASE j = n
        BY <1>5, <2>2, <2>3, <3>1
    <3>2. CASE j # n
        BY <1>5, <1>12, <2>1, <2>3, <3>2 DEF Accounted, Listed
    <3>. QED BY <3>1, <3>2
  <2>. QED BY <1>5, <1>12, <2>3 DEF Accounted
<1>13. ManifestOK'
    BY <1>0, <1>10, <1>11, <1>12 DEF ManifestOK, IsSequence
<1>. QED BY <1>9, <1>13

(* A new request of the web page or the client. *)
LEMMA AskedCalls ==
    ASSUME ClientInv, UNCHANGED <<cli, manifest, unheard, part, jobs>>, NEW r \in Requests, req[r] = Idle,
           NEW h, req' = [req EXCEPT ![r] = h],
           \/ h = Idle
           \/ /\ IsRequest(h) /\ CallOK(h) /\ ~HasUpload(h) /\ h.by \in {"web", "cli"} /\ (h.by = "cli" => ~Waiting)
              /\ h.pc # "insert"
    PROVE  CallsOK' /\ ManifestOK'
<1>0. CallsOK /\ ManifestOK
    BY DEF ClientInv
<1>1. req'[r] = h /\ \A q \in Requests : q # r => req'[q] = req[q]
  <2>1. \A q \in Requests : req'[q] = IF q = r THEN h ELSE req[q]
      BY RequestsKept DEF ClientInv, Inv
  <2>. QED BY <2>1
<1>2. Uploads' = Uploads /\ Jobs' = Jobs
    BY DEF Uploads, Jobs
<1>3. ASSUME NEW q \in Requests PROVE CallOK(req[q])'
  <2>1. CallOK(req'[q])
      BY <1>0, <1>1 DEF CallsOK, CallOK
  <2>. QED BY <1>2, <2>1 DEF CallOK
<1>4. CommandOK'
    BY <1>0, <1>2 DEF CallsOK, CommandOK, IsSequence
<1>5. ASSUME NEW p \in Requests, NEW q \in Requests, ByCli(req'[p]), ByCli(req'[q]) PROVE p = q
    BY <1>0, <1>1, <1>5 DEF CallsOK, ByCli, Waiting
<1>6. CallsOK'
    BY <1>0, <1>3, <1>4, <1>5 DEF CallsOK
<1>7. ASSUME NEW v, New(v), ~(h # Idle /\ h.op = "create" /\ h.what = v) PROVE New(v)'
    BY <1>1, <1>2, <1>7 DEF New
<1>8. ASSUME h # Idle, h.op = "create", h.by = "web", NEW v, New(v) PROVE h.what # v
    BY <1>8, WebIsNoPart DEF New, CallOK
<1>9. ASSUME h # Idle, h.op = "create", h.by = "cli"
      PROVE  cli.command = "submit" /\ \A q \in Requests : ~HasUpload(req[q])
  <2>1. ~Waiting /\ cli.command = "submit"
      BY <1>9 DEF CallOK
  <2>. QED BY <1>0, <2>1 DEF HasUpload, Waiting, CallsOK, CallOK
<1>10. ASSUME NEW q \in Requests, HasUpload(req'[q]) PROVE New(req[q].answer)'
  <2>1. q # r
      BY <1>1, <1>10 DEF HasUpload
  <2>2. req'[q] = req[q] /\ New(req[q].answer) /\ HasUpload(req[q])
      BY <1>0, <1>1, <1>10, <2>1 DEF ManifestOK
  <2>3. ~(h # Idle /\ h.op = "create" /\ h.what = req[q].answer)
      BY <1>8, <1>9, <2>2
  <2>. QED BY <1>7, <2>2, <2>3
<1>11. cli.command = "upload" => \A i \in DOMAIN cli.got : New(cli.got[i])'
    BY <1>0, <1>7, <1>8, <1>9 DEF ManifestOK
<1>12. ASSUME NEW v, Accounted(v) PROVE Accounted(v)'
  <2>1. ASSUME NEW q \in Requests, NEW j, Told(req[q], v, j) PROVE Told(req'[q], v, j)
      BY <1>1, <2>1 DEF Told, ByCli
  <2>. QED BY <1>2, <1>12, <2>1 DEF Accounted, Listed
<1>13. ManifestOK'
    BY <1>0, <1>10, <1>11, <1>12 DEF ManifestOK, IsSequence
<1>. QED BY <1>6, <1>13

LEMMA GivesUpCalls == ASSUME ClientInv, NEW r \in Requests, GivesUp(r) PROVE CallsOK' /\ ManifestOK'
<1>. DEFINE h == [req[r] EXCEPT !.by = "nobody"]
<1>0. /\ req' = [req EXCEPT ![r] = h] /\ req[r] # Idle /\ req[r].by = "cli" /\ req[r].pc # "done"
      /\ UNCHANGED <<part, jobs, manifest>> /\ cli' = NoCommand
      /\ unheard' = IF req[r].op = "create" THEN unheard \cup {req[r].what} ELSE unheard
    BY DEF GivesUp, filesVars
<1>1. CallsOK /\ ManifestOK
    BY DEF ClientInv
<1>2. IsRequest(req[r]) /\ CallOK(req[r])
    BY <1>0, <1>1 DEF ClientInv, Inv, RequestsOK, CallsOK
<1>3. /\ IsRequest(h) /\ h.pc = req[r].pc /\ h.op = req[r].op /\ h.what = req[r].what /\ h.by = "nobody"
    BY <1>2 DEF IsRequest
<1>. HIDE DEF h
<1>4. h # Idle
    BY <1>3 DEF IsRequest, Idle
<1>5. req'[r] = h /\ \A q \in Requests : q # r => req'[q] = req[q]
  <2>1. \A q \in Requests : req'[q] = IF q = r THEN h ELSE req[q]
      BY <1>0, <1>3, RequestsKept DEF ClientInv, Inv
  <2>. QED BY <2>1
<1>6. Uploads' = Uploads /\ Jobs' = Jobs /\ unheard \subseteq unheard'
    BY <1>0 DEF Uploads, Jobs
<1>7. ASSUME NEW q \in Requests PROVE CallOK(req[q])' /\ ~ByCli(req'[q])
  <2>1. CASE q = r
      BY <1>0, <1>2, <1>3, <1>4, <1>5, <1>6, <2>1 DEF CallOK, Points, ByCli
  <2>2. CASE q # r
    <3>1. CallOK(req[q]) /\ req'[q] = req[q] /\ ~ByCli(req[q])
        BY <1>0, <1>1, <1>5, <2>2 DEF CallsOK, ByCli
    <3>. QED BY <1>0, <1>6, <3>1 DEF CallOK, ByCli
  <2>. QED BY <2>1, <2>2
<1>8. CommandOK'
    BY <1>0, NothingToDo
<1>9. CallsOK'
    BY <1>0, <1>1, <1>7, <1>8 DEF CallsOK
<1>10. ASSUME NEW v, Accounted(v) PROVE Accounted(v)'
  <2>1. ASSUME NEW q \in Requests, NEW j, Told(req[q], v, j) PROVE v \in unheard'
    <3>1. q = r
        BY <1>0, <1>1, <2>1 DEF Told, CallsOK, ByCli
    <3>. QED BY <1>0, <2>1, <3>1 DEF Told
  <2>. QED BY <1>0, <1>6, <1>10, <2>1 DEF Accounted, Listed
<1>11. \A q \in Requests : ~HasUpload(req'[q])
    BY <1>7 DEF HasUpload, CallOK, ByCli
<1>12. ManifestOK'
    BY <1>0, <1>1, <1>10, <1>11 DEF ManifestOK, IsSequence, NoCommand
<1>. QED BY <1>9, <1>12

LEMMA Shortened ==
    ASSUME NEW s, IsSequence(s), s # <<>>
    PROVE  /\ IsSequence(Tail(s)) /\ \A i \in DOMAIN Tail(s) : \E k \in DOMAIN s : Tail(s)[i] = s[k]
           /\ Head(s) = s[1] /\ 1 \in DOMAIN s
<1>. DEFINE S == {s[i] : i \in DOMAIN s}
            t == Tail(s)
<1>1. s \in Seq(S)
    BY DEF IsSequence
<1>. HIDE DEF S
<1>2. /\ t \in Seq(S) /\ Len(s) \in Nat \ {0} /\ Len(t) = Len(s) - 1
      /\ \A i \in 1..Len(t) : t[i] = s[i + 1]
      /\ DOMAIN s = 1..Len(s) /\ DOMAIN t = 1..Len(t)
      /\ Head(s) = s[1]
    BY <1>1
<1>3. \A i \in DOMAIN t : \E k \in DOMAIN s : t[i] = s[k]
    BY <1>2
<1>4. IsSequence(t)
  <2>. DEFINE T == {t[i] : i \in DOMAIN t}
  <2>. HIDE DEF t
  <2>1. t = [i \in 1..Len(t) |-> t[i]] /\ Len(t) \in Nat /\ \A i \in 1..Len(t) : t[i] \in T
      BY <1>1, <1>2
  <2>. HIDE DEF T
  <2>2. t \in [1..Len(t) -> T]
      BY <2>1
  <2>3. t \in Seq(T)
      BY <2>1, <2>2
  <2>. QED BY <2>3 DEF T, IsSequence
<1>. QED BY <1>2, <1>3, <1>4

LEMMA AnswerCalls == ASSUME ClientInv, NEW r \in Requests, Answer(r) PROVE CallsOK' /\ ManifestOK'
<1>. DEFINE answer == req[r].answer
            got == Append(cli.got, answer)
            left == Tail(cli.todo)
<1>0. /\ req' = [req EXCEPT ![r] = Idle] /\ req[r] # Idle /\ req[r].pc = "done" /\ UNCHANGED <<part, jobs>>
    BY DEF Answer, filesVars
<1>1. CallsOK /\ ManifestOK /\ CallOK(req[r]) /\ IsRequest(req[r])
    BY <1>0 DEF ClientInv, CallsOK, Inv, RequestsOK
<1>2. ByCli(req[r]) /\ req[r].what = Head(cli.todo)
      /\ \/ req[r].op = "upload" /\ cli.command = "upload"
         \/ req[r].op = "create" /\ cli.command = "submit"
    BY <1>0, <1>1 DEF CallOK, ByCli
<1>3. req'[r] = Idle /\ \A q \in Requests : q # r => req'[q] = req[q]
  <2>1. \A q \in Requests : req'[q] = IF q = r THEN Idle ELSE req[q]
      BY <1>0, RequestsKept DEF ClientInv, Inv
  <2>. QED BY <2>1
<1>4. Uploads' = Uploads /\ Jobs' = Jobs
    BY <1>0 DEF Uploads, Jobs
<1>5. unheard \subseteq unheard'
    BY DEF Answer
<1>6. ASSUME NEW q \in Requests PROVE CallOK(req[q])' /\ ~ByCli(req'[q])
  <2>1. CASE q = r
      BY <1>3, <2>1 DEF CallOK, ByCli
  <2>2. CASE q # r
    <3>1. CallOK(req[q]) /\ req'[q] = req[q] /\ ~ByCli(req[q])
        BY <1>1, <1>2, <1>3, <2>2 DEF CallsOK
    <3>. QED BY <1>0, <1>4, <1>5, <3>1 DEF CallOK, ByCli
  <2>. QED BY <2>1, <2>2
<1>7. \A q \in Requests : ~HasUpload(req'[q])
    BY <1>6 DEF HasUpload, CallOK, ByCli
<1>8. ASSUME NEW v, New(v) PROVE New(v)'
    BY <1>0, <1>3, <1>4, <1>8 DEF New
<1>9. /\ cli.todo # <<>> /\ IsSequence(cli.todo) /\ IsSequence(cli.got)
      /\ cli \in [command : {"upload", "submit"}, todo : {cli.todo}, got : {cli.got}]
    BY <1>1, <1>2 DEF CallsOK, CommandOK, NoCommand
<1>10. ASSUME NEW v, New(v) PROVE Accounted(v)'
    BY <1>8, <1>10 DEF New, Accounted
<1>11. ASSUME NEW v, Accounted(v),
              \A q \in Requests : \A j : Told(req[q], v, j) => v \in unheard' \/ Listed(j)',
              \A j : Listed(j) => Listed(j)'
       PROVE  Accounted(v)'
    BY <1>0, <1>4, <1>5, <1>11 DEF Accounted
<1>12. ASSUME NEW q \in Requests, NEW v, NEW j, Told(req[q], v, j)
       PROVE  q = r /\ req[r].op = "create" /\ req[r].what = v /\ answer \in {j, Refused}
    BY <1>0, <1>1, <1>2, <1>12 DEF Told, CallsOK
<1>13. CASE answer = Refused
  <2>1. cli' = NoCommand /\ manifest' = manifest
        /\ unheard' = IF req[r].op = "create" THEN unheard \cup {req[r].what} ELSE unheard
      BY <1>13 DEF Answer
  <2>2. CallsOK'
      BY <1>0, <1>1, <1>6, <2>1, NothingToDo DEF CallsOK
  <2>3. ASSUME NEW v, Accounted(v) PROVE Accounted(v)'
      BY <1>11, <1>12, <2>1, <2>3 DEF Listed
  <2>4. ManifestOK'
      BY <1>1, <1>7, <2>1, <2>3 DEF ManifestOK, IsSequence, NoCommand
  <2>. QED BY <2>2, <2>4
<1>14. CASE answer # Refused
  <2>1. /\ cli' = IF left = <<>> THEN NoCommand ELSE [cli EXCEPT !.todo = left, !.got = got]
        /\ manifest' = IF cli.command = "upload" THEN Uploaded(got) ELSE Created(got)
        /\ unheard' = unheard
      BY <1>14 DEF Answer
  <2>2. IsSequence(left) /\ \A i \in DOMAIN left : \E k \in DOMAIN cli.todo : left[i] = cli.todo[k]
      BY <1>9, Shortened
  <2>3. IsSequence(got) /\ DOMAIN got = 1..(Len(cli.got) + 1) /\ Len(cli.got) \in Nat /\ DOMAIN cli.got = 1..Len(cli.got)
        /\ (\A i \in DOMAIN cli.got : got[i] = cli.got[i]) /\ got[Len(cli.got) + 1] = answer
      BY <1>9, Appended
  <2>4. Len(got) = Len(cli.got) + 1
      BY <2>3 DEF IsSequence
  <2>. HIDE DEF got, left
  <2>5. left # <<>> => /\ cli' = [command |-> cli.command, todo |-> left, got |-> got]
                         /\ cli'.command = cli.command /\ cli'.todo = left /\ cli'.got = got
      BY <1>9, <2>1
  <2>6. CommandOK'
    <3>1. CASE left = <<>>
        BY <2>1, <3>1, NothingToDo
    <3>2. CASE left # <<>>
      <4>1. cli.command = "upload" => \A i \in DOMAIN left : left[i] \in Parts
          BY <1>1, <2>2 DEF CallsOK, CommandOK
      <4>2. cli.command = "submit" => \A i \in DOMAIN left : left[i] \in Uploads
          BY <1>1, <2>2 DEF CallsOK, CommandOK
      <4>. QED BY <1>2, <1>4, <2>2, <2>3, <2>5, <3>2, <4>1, <4>2 DEF CommandOK
    <3>. QED BY <3>1, <3>2
  <2>7. CallsOK'
      BY <1>0, <1>1, <1>6, <2>6 DEF CallsOK
  <2>8. CASE cli.command = "upload"
    <3>1. HasUpload(req[r])
        BY <1>0, <1>2, <1>14, <2>8 DEF HasUpload
    <3>2. ASSUME NEW i \in DOMAIN got PROVE New(got[i])
        BY <1>1, <2>3, <2>8, <3>1 DEF ManifestOK
    <3>3. ASSUME NEW v, Accounted(v), manifest' = manifest PROVE Accounted(v)'
        BY <1>2, <1>11, <1>12, <2>8, <3>3 DEF Listed
    <3>4. manifest' = manifest \/ manifest' = [uploads |-> got, jobs |-> <<>>]
        BY <2>1, <2>8 DEF Uploaded
    <3>5. /\ manifest' = [uploads |-> manifest'.uploads, jobs |-> manifest'.jobs]
          /\ IsSequence(manifest'.uploads) /\ IsSequence(manifest'.jobs)
      <4>1. CASE manifest' = manifest
          BY <1>1, <4>1 DEF ManifestOK
      <4>2. CASE manifest' = [uploads |-> got, jobs |-> <<>>]
          BY <2>3, <4>2 DEF IsSequence
      <4>. QED BY <3>4, <4>1, <4>2
    <3>6. ASSUME NEW i \in DOMAIN manifest'.uploads PROVE Accounted(manifest.uploads[i])'
      <4>1. CASE manifest' = manifest
          BY <1>1, <3>3, <4>1, <3>6 DEF ManifestOK
      <4>2. CASE manifest' = [uploads |-> got, jobs |-> <<>>]
        <5>1. i \in DOMAIN got /\ manifest'.uploads[i] = got[i]
            BY <3>6, <4>2
        <5>2. New(got[i])
            BY <3>2, <5>1
        <5>3. PICK v : v = got[i]
            OBVIOUS
        <5>4. Accounted(v)'
            BY <1>10, <5>2, <5>3
        <5>. QED BY <5>1, <5>3, <5>4
      <4>. QED BY <3>4, <4>1, <4>2
    <3>7. cli'.command = "upload" => \A i \in DOMAIN cli'.got : New(cli.got[i])'
      <4>. SUFFICES ASSUME cli'.command = "upload", NEW i \in DOMAIN cli'.got PROVE New(cli.got[i])'
          OBVIOUS
      <4>1. cli'.got = got
          BY <2>1, <2>5 DEF NoCommand
      <4>2. PICK v : v = got[i]
          OBVIOUS
      <4>3. New(v)'
          BY <1>8, <3>2, <4>1, <4>2
      <4>. QED BY <4>1, <4>2, <4>3
    <3>. QED BY <1>7, <2>7, <3>5, <3>6, <3>7 DEF ManifestOK
  <2>9. CASE cli.command = "submit"
    <3>1. manifest' = [manifest EXCEPT !.jobs = Append(@, answer)]
        BY <2>1, <2>3, <2>4, <2>9 DEF Created
    <3>2. /\ manifest' = [uploads |-> manifest'.uploads, jobs |-> manifest'.jobs]
          /\ manifest'.uploads = manifest.uploads /\ manifest'.jobs = Append(manifest.jobs, answer)
        BY <1>1, <3>1 DEF ManifestOK
    <3>3. PICK a : a = answer
        OBVIOUS
    <3>4. IsSequence(manifest'.jobs) /\ (\A j : Listed(j) => Listed(j)') /\ Listed(a)'
      <4>1. IsSequence(manifest.jobs)
          BY <1>1 DEF ManifestOK
      <4>. DEFINE s == manifest.jobs
                  t == Append(s, a)
      <4>2. /\ IsSequence(t) /\ Len(s) \in Nat /\ DOMAIN s = 1..Len(s)
            /\ DOMAIN t = 1..(Len(s) + 1)
            /\ \A i \in DOMAIN s : t[i] = s[i]
            /\ t[Len(s) + 1] = a
          BY <4>1, Appended
      <4>3. manifest'.jobs = t
          BY <3>2, <3>3
      <4>. HIDE DEF t
      <4>4. ASSUME NEW j, Listed(j) PROVE Listed(j)'
        <5>1. PICK k \in DOMAIN s : s[k] = j
            BY <4>4 DEF Listed
        <5>. QED BY <4>2, <4>3, <5>1 DEF Listed
      <4>5. Listed(a)'
          BY <4>2, <4>3 DEF Listed
      <4>. QED BY <4>2, <4>3, <4>4, <4>5
    <3>5. ASSUME NEW v, Accounted(v) PROVE Accounted(v)'
        BY <1>11, <1>12, <1>14, <3>3, <3>4, <3>5
    <3>6. \A i \in DOMAIN manifest'.uploads : Accounted(manifest.uploads[i])'
        BY <1>1, <3>2, <3>5 DEF ManifestOK
    <3>7. cli'.command # "upload"
        BY <2>1, <2>5, <2>9 DEF NoCommand
    <3>8. IsSequence(manifest'.uploads)
        BY <1>1, <3>2 DEF ManifestOK
    <3>. QED BY <1>7, <2>7, <3>2, <3>4, <3>6, <3>7, <3>8 DEF ManifestOK
  <2>. QED BY <1>2, <2>8, <2>9
<1>. QED BY <1>13, <1>14

(* Commands begin, or give up for want of room. *)
LEMMA CommandCalls == ASSUME ClientInv, Upload \/ Submit \/ OutOfRoom PROVE CallsOK' /\ ManifestOK'
<1>0. UNCHANGED <<part, jobs, req, manifest, unheard>>
    BY DEF Upload, Submit, OutOfRoom, server
<1>1. CallsOK /\ ManifestOK
    BY DEF ClientInv
<1>2. Uploads' = Uploads /\ Jobs' = Jobs
    BY <1>0 DEF Uploads, Jobs
<1>3. \A r \in Requests : ~ByCli(req[r])
  <2>1. CASE cli.command = "none"
      BY <1>1, <2>1 DEF CallsOK, CallOK, ByCli
  <2>2. CASE cli.command # "none"
    <3>1. ~Idling
        BY <2>2 DEF Idling, NoCommand
    <3>2. OutOfRoom
        BY <3>1 DEF Upload, Submit
    <3>. QED BY <3>2 DEF OutOfRoom, NoRoom, Waiting, ByCli
  <2>. QED BY <2>1, <2>2
<1>4. ASSUME NEW r \in Requests PROVE CallOK(req[r])' /\ ~HasUpload(req'[r]) /\ ~ByCli(req'[r])
  <2>1. CallOK(req[r]) /\ ~ByCli(req[r]) /\ req'[r] = req[r]
      BY <1>0, <1>1, <1>3 DEF CallsOK
  <2>. QED BY <1>0, <1>2, <2>1 DEF CallOK, HasUpload, ByCli
<1>5. CommandOK' /\ (cli'.command = "upload" => cli'.got = <<>>)
  <2>1. CASE Upload
    <3>1. PICK first \in Parts, last \in Parts :
            /\ first =< last
            /\ cli' = [NoCommand EXCEPT !.command = "upload",
                                        !.todo = [i \in 1..(last - first + 1) |-> first + i - 1]]
        BY <2>1 DEF Upload
    <3>. DEFINE todo == [i \in 1..(last - first + 1) |-> first + i - 1]
    <3>2. /\ cli' = [command |-> "upload", todo |-> todo, got |-> <<>>]
          /\ cli'.command = "upload" /\ cli'.todo = todo /\ cli'.got = <<>>
        BY <3>1 DEF NoCommand
    <3>3. PICK n \in Nat : Parts = 1..n
        BY BatchAssumption, FS_CardinalityType
    <3>4. DOMAIN todo = 1..(last - first + 1) /\ last - first + 1 \in Nat \ {0}
        BY <3>1, <3>3
    <3>5. \A i \in DOMAIN todo : todo[i] \in Parts
        BY <3>1, <3>3
    <3>6. IsSequence(todo)
      <4>. DEFINE S == {todo[i] : i \in DOMAIN todo}
      <4>1. todo = [i \in 1..(last - first + 1) |-> todo[i]] /\ \A i \in DOMAIN todo : todo[i] \in S
          OBVIOUS
      <4>. HIDE DEF todo, S
      <4>2. todo \in [1..(last - first + 1) -> S]
          BY <3>4, <4>1
      <4>3. todo \in Seq(S)
          BY <3>4, <4>2
      <4>. QED BY <4>3 DEF S, IsSequence
    <3>7. IsSequence(<<>>) /\ todo # <<>>
      <4>1. 1 \in DOMAIN todo
          BY <3>4
      <4>. HIDE DEF todo
      <4>. QED BY <4>1 DEF IsSequence
    <3>. HIDE DEF todo
    <3>. QED BY <3>2, <3>5, <3>6, <3>7 DEF CommandOK
  <2>2. CASE Submit
    <3>1. /\ cli' = [command |-> "submit", todo |-> manifest.uploads, got |-> <<>>] /\ manifest.uploads # <<>>
        BY <2>2 DEF Submit, NoCommand
    <3>2. IsSequence(manifest.uploads) /\ \A i \in DOMAIN manifest.uploads : manifest.uploads[i] \in Uploads
        BY <1>1 DEF ManifestOK, Accounted
    <3>3. IsSequence(<<>>)
        BY DEF IsSequence
    <3>. QED BY <1>2, <3>1, <3>2, <3>3 DEF CommandOK
  <2>3. CASE OutOfRoom
      BY <2>3, NothingToDo DEF OutOfRoom, NoCommand
  <2>. QED BY <2>1, <2>2, <2>3
<1>6. CallsOK'
    BY <1>0, <1>1, <1>4, <1>5 DEF CallsOK
<1>7. \A v : Accounted(v) => Accounted(v)'
    BY <1>0, <1>2 DEF Accounted, Listed, New
<1>8. ManifestOK'
    BY <1>0, <1>1, <1>4, <1>5, <1>7 DEF ManifestOK, IsSequence
<1>. QED BY <1>6, <1>8

-----------------------------------------------------------------------------
(* The steps that leave the uploads alone and bring no new jobs.           *)
Light ==
    /\ Quiet /\ Kept' \subseteq Holding /\ rushed' = rushed
    /\ \/ Fresh' \subseteq Fresh
       \/ \E r \in Requests : /\ At(r, "create", "insert") /\ Ends(req[r], req'[r])
                              /\ Fresh' \subseteq Fresh \cup {req[r].answer}

LEMMA RowsLight ==
    ASSUME part' = part, staged' \subseteq staged, rushed' = rushed, revived \subseteq revived',
           \A r \in Requests : Continues(req[r], req'[r]), Jobs' = Jobs,
           \A j \in Jobs : /\ jobs'[j].from = jobs[j].from /\ jobs'[j].status = jobs[j].status
                           /\ jobs[j].purged => jobs'[j].purged
    PROVE  Light
<1>1. Quiet
    BY DEF Quiet
<1>2. Kept' \subseteq Holding
    BY DEF Kept, Rows, Holding
<1>3. Fresh' \subseteq Fresh
    BY DEF Fresh
<1>. QED BY <1>1, <1>2, <1>3 DEF Light

LEMMA RowLight ==
    ASSUME part' = part, staged' \subseteq staged, rushed' = rushed, revived \subseteq revived',
           \A r \in Requests : Continues(req[r], req'[r]), NEW j \in Jobs,
           Changes(jobs, jobs', j),
           j \in Rows \cup Holding \/ jobs'[j].status \in {"new", "gone"},
           \/ jobs'[j].status \notin Active \/ jobs[j].status \in Active \/ j \in revived'
           \/ \E r \in Requests : At(r, "create", "insert") /\ Ends(req[r], req'[r]) /\ req[r].answer = j
    PROVE  Light
<1>1. /\ Jobs' = Jobs /\ \A i \in Jobs : /\ jobs'[i].from = jobs[i].from /\ jobs'[i].purged = jobs[i].purged
                                         /\ i # j => jobs'[i] = jobs[i]
    BY DEF Changes, Jobs
<1>2. Quiet
    BY <1>1 DEF Quiet
<1>3. Kept' \subseteq Holding
    BY <1>1 DEF Kept, Rows, Holding
<1>4. Fresh' \subseteq Fresh \cup {j}
    BY <1>1 DEF Fresh
<1>5. jobs'[j].status \notin Active \/ jobs[j].status \in Active \/ j \in revived' => Fresh' \subseteq Fresh
    BY <1>1 DEF Fresh
<1>. QED BY <1>2, <1>3, <1>4, <1>5 DEF Light

LEMMA EndsReply ==
    ASSUME ClientInv, NEW r \in Requests, req[r] # Idle, NEW answer, Reply(r, answer),
           \/ answer = Refused \/ req[r].op \notin {"upload", "create"}
           \/ req[r].op = "create" /\ req[r].pc = "insert" /\ answer = req[r].answer
    PROVE  Ends(req[r], req'[r]) /\ \A q \in Requests : Continues(req[q], req'[q])
<1>1. /\ IsRequest(req[r]) /\ Replied(req[r], req'[r], answer) /\ CallOK(req[r])
      /\ \A q \in Requests : q # r => req'[q] = req[q]
    BY ReplyIs DEF ClientInv, Inv, CallsOK
<1>2. Ends(req[r], req'[r])
    BY <1>1 DEF Ends, Replied, CallOK
<1>. QED BY <1>1, <1>2 DEF Continues

LEMMA RefuseLight == ASSUME ClientInv, NEW r \in Requests, req[r] # Idle, Refuse(r) PROVE Light
<1>1. Reply(r, Refused) /\ UNCHANGED <<part, staged, jobs, rushed, revived>>
    BY DEF Refuse, filesVars, history
<1>2. Jobs' = Jobs
    BY <1>1 DEF Jobs
<1>. QED BY <1>1, <1>2, EndsReply, RowsLight

LEMMA CountLight == ASSUME ClientInv, NEW r \in Requests, Count(r) PROVE Light
<1>. DEFINE h == [req[r] EXCEPT !.pc = "move"]
<1>0. req[r] # Idle /\ req[r].op = "create" /\ req[r].pc = "count" /\ IsRequest(req[r])
    BY DEF Count, At, ClientInv, Inv, RequestsOK
<1>1. CASE Refuse(r)
    BY <1>0, <1>1, RefuseLight
<1>2. CASE Cardinality(ActiveJobs) < MaxActive /\ Proceed(r, "move")
  <2>1. req' = [req EXCEPT ![r] = h] /\ UNCHANGED <<part, staged, jobs, rushed, revived>>
      BY <1>2 DEF Proceed, Goto, filesVars, history
  <2>2. IsRequest(h) /\ Proceeds(req[r], h)
      BY <1>0, <1>2 DEF IsRequest, Proceeds
  <2>. HIDE DEF h
  <2>3. \A q \in Requests : req'[q] = IF q = r THEN h ELSE req[q]
      BY <2>1, <2>2, RequestsKept DEF ClientInv, Inv
  <2>4. \A q \in Requests : Continues(req[q], req'[q])
      BY <2>2, <2>3 DEF Continues
  <2>5. Jobs' = Jobs
      BY <2>1 DEF Jobs
  <2>. QED BY <2>1, <2>4, <2>5, RowsLight
<1>. QED BY <1>1, <1>2 DEF Count

LEMMA InsertLight == ASSUME ClientInv, NEW r \in Requests, Insert(r) PROVE Light
<1>. DEFINE j == req[r].answer
<1>1. /\ At(r, "create", "insert") /\ req[r] # Idle /\ req[r].op = "create" /\ req[r].pc = "insert"
      /\ j \in Jobs /\ jobs[j].status = "new" /\ jobs \in Seq(JobType) /\ j \in Holding
    BY DEF Insert, At, ClientInv, Inv, HandlersOK, Knows, Inserts, FilesOK, Holding, Moved
<1>2. /\ UNCHANGED <<part, staged, rushed, revived>>
      /\ \/ jobs' = jobs \/ \E st \in {"queued", "failed"} : jobs' = [jobs EXCEPT ![j].status = st]
      /\ Reply(r, j) \/ Reply(r, Refused)
    BY DEF Insert, filesVars, history
<1>3. Ends(req[r], req'[r]) /\ \A q \in Requests : Continues(req[q], req'[q])
    BY <1>1, <1>2, EndsReply
<1>. HIDE DEF j
<1>4. CASE jobs' = jobs
  <2>1. Jobs' = Jobs
      BY <1>4 DEF Jobs
  <2>. QED BY <1>2, <1>3, <1>4, <2>1, RowsLight
<1>5. ASSUME NEW st \in {"queued", "failed"}, jobs' = [jobs EXCEPT ![j].status = st] PROVE Light
  <2>1. st \in Statuses /\ "ok" \in {"none", "ok", "error"} /\ TRUE \in BOOLEAN
      BY DEF Statuses, Terminal
  <2>2. Changes(jobs, jobs', j)
      BY <1>1, <1>5, <2>1, FieldChanges DEF Jobs
  <2>. QED BY <1>1, <1>2, <1>3, <2>2, RowLight DEF j
<1>. QED BY <1>2, <1>4, <1>5

LEMMA RestartLight == ASSUME ClientInv, NEW r \in Requests, Restart(r) PROVE Light
<1>. DEFINE j == req[r].what
<1>0. req[r] # Idle /\ req[r].op \in {"resume", "retry"} /\ jobs \in Seq(JobType)
    BY DEF Restart, ClientInv, Inv, HandlersOK, Knows, Restarts, FilesOK
<1>1. CASE jobs[j].status = "gone"
    BY <1>0, <1>1, RefuseLight DEF Restart
<1>2. CASE jobs[j].status # "gone"
  <2>1. Reply(r, j) /\ UNCHANGED <<part, staged, rushed>> /\ revived' = revived \cup {j}
      BY <1>2 DEF Restart
  <2>2. \A q \in Requests : Continues(req[q], req'[q])
      BY <1>0, <2>1, EndsReply
  <2>. HIDE DEF j
  <2>3. j \in Jobs /\ jobs[j].status \notin {"new", "gone"} /\ Changes(jobs, jobs', j)
      BY <1>2, RestartChanges DEF j, ClientInv
  <2>. QED BY <1>0, <2>1, <2>2, <2>3, RowLight DEF Rows
<1>. QED BY <1>1, <1>2

LEMMA EraseLight == ASSUME ClientInv, NEW r \in Requests, Erase(r) PROVE Light
<1>0. At(r, "delete", "erase") /\ req[r] # Idle /\ req[r].pc = "erase" /\ req[r].op = "delete"
    BY DEF Erase, At
<1>1. CASE Refuse(r)
    BY <1>0, <1>1, RefuseLight
<1>2. CASE ~Refuse(r)
  <2>1. /\ jobs' = [jobs EXCEPT ![req[r].what].status = "gone"] /\ Goto(r, "files")
        /\ UNCHANGED <<part, staged, rushed, revived>>
      BY <1>2 DEF Erase, history
  <2>. DEFINE j == req[r].what
  <2>2. j \in Jobs /\ Changes(jobs, jobs', j) /\ jobs'[j].status = "gone"
      BY <1>0, <2>1, ErasedRow DEF ClientInv
  <2>3. /\ Proceeds(req[r], req'[r])
        /\ \A q \in Requests : q # r => req'[q] = req[q]
      BY <1>0, <2>1, ErasedHandler DEF ClientInv, Proceeds
  <2>4. \A q \in Requests : Continues(req[q], req'[q])
      BY <2>3 DEF Continues
  <2>. HIDE DEF j
  <2>. QED BY <2>1, <2>2, <2>4, RowLight DEF Active
<1>. QED BY <1>1, <1>2

LEMMA DeleteFilesLight == ASSUME ClientInv, NEW r \in Requests, DeleteJobFiles(r) PROVE Light
<1>1. /\ req[r] # Idle /\ req[r].op = "delete" /\ \E a : Reply(r, a)
      /\ UNCHANGED <<part, staged, jobs, rushed, revived>>
    BY DEF DeleteJobFiles, At
<1>2. \A q \in Requests : Continues(req[q], req'[q])
    BY <1>1, EndsReply
<1>3. Jobs' = Jobs
    BY <1>1 DEF Jobs
<1>. QED BY <1>1, <1>2, <1>3, RowsLight

LEMMA RunsLight == ASSUME ClientInv, NEW j \in Jobs, Runs(j) PROVE Light
<1>1. jobs[j].status \in Active /\ Changes(jobs, jobs', j) /\ jobs \in Seq(JobType)
    BY RunChanges DEF ClientInv, Inv, FilesOK
<1>2. UNCHANGED <<part, staged, req, rushed, revived>>
    BY DEF Runs, history
<1>3. j \in Rows
    BY <1>1 DEF Rows, Active
<1>. QED BY <1>1, <1>2, <1>3, RowLight DEF Continues

LEMMA SweeperLight == ASSUME ClientInv, Sweeper PROVE Light
<1>1. UNCHANGED <<part, req, rushed, revived>> /\ staged' \subseteq staged
    BY DEF Sweeper, SweepRead, SweepFiles, SweepCommit, SweepStops, PurgeStale, filesVars, history
<1>2. /\ Jobs' = Jobs
      /\ \A j \in Jobs : /\ jobs'[j].from = jobs[j].from /\ jobs'[j].status = jobs[j].status
                         /\ jobs[j].purged => jobs'[j].purged
  <2>1. CASE jobs' = jobs
      BY <2>1 DEF Jobs
  <2>2. CASE jobs' = [j \in Jobs |-> IF j \in sweep.rows THEN [jobs[j] EXCEPT !.result = "none"] ELSE jobs[j]]
    <3>1. \A j \in Jobs : jobs[j] \in JobType
        BY DEF ClientInv, Inv, FilesOK, Jobs
    <3>. QED BY <2>2, <3>1 DEF Jobs, JobType
  <2>3. CASE jobs' = [j \in Jobs |-> [jobs[j] EXCEPT !.purged = @ \/ j \in sweep.rows]]
    <3>1. \A j \in Jobs : jobs[j] \in JobType
        BY DEF ClientInv, Inv, FilesOK, Jobs
    <3>. QED BY <2>3, <3>1 DEF Jobs, JobType
  <2>. QED BY <2>1, <2>2, <2>3 DEF Sweeper, SweepRead, SweepFiles, SweepCommit, SweepStops, PurgeStale, filesVars
<1>. QED BY <1>1, <1>2, RowsLight DEF Continues

LEMMA CrashLight == ASSUME ClientInv, Crash PROVE Light
<1>1. /\ req' = [r \in Requests |->
                   IF req[r] # Idle /\ req[r].by = "cli"
                   THEN [req[r] EXCEPT !.pc = "done", !.answer = Refused] ELSE Idle]
      /\ UNCHANGED <<part, staged, jobs, rushed, revived>>
    BY DEF Crash, filesVars
<1>2. ASSUME NEW r \in Requests PROVE Continues(req[r], req'[r])
  <2>. DEFINE f == [req[r] EXCEPT !.pc = "done"]
              g == [f EXCEPT !.answer = Refused]
  <2>1. CASE req[r] = Idle
      BY <1>1, <2>1 DEF Continues
  <2>2. CASE req[r] # Idle /\ req[r].by # "cli"
    <3>1. IsRequest(req[r]) /\ req'[r] = Idle
        BY <1>1, <2>2 DEF ClientInv, Inv, RequestsOK
    <3>. QED BY <2>2, <3>1 DEF Continues, Ends
  <2>3. CASE req[r] # Idle /\ req[r].by = "cli"
    <3>1. IsRequest(req[r]) /\ req'[r] = g
        BY <1>1, <2>3 DEF ClientInv, Inv, RequestsOK
    <3>2. IsRequest(f) /\ f.pc = "done" /\ f.by = "cli" /\ f.op = req[r].op /\ f.what = req[r].what
        BY <2>3, <3>1 DEF IsRequest
    <3>. HIDE DEF f
    <3>3. IsRequest(g) /\ g.pc = "done" /\ g.by = "cli" /\ g.op = req[r].op /\ g.what = req[r].what
          /\ g.answer = Refused
        BY <3>2 DEF IsRequest
    <3>. HIDE DEF g
    <3>. QED BY <2>3, <3>1, <3>3 DEF Continues, Ends
  <2>. QED BY <2>1, <2>2, <2>3
<1>3. Jobs' = Jobs
    BY <1>1 DEF Jobs
<1>. QED BY <1>1, <1>2, <1>3, RowsLight

(* The web page asks for a change of a job. *)
LEMMA OpensLight ==
    ASSUME ClientInv, NEW r \in Requests, req[r] = Idle, NEW j \in Rows,
           \/ AskResume(r, Request("resume", "web", j))
           \/ AskRetry(r, Request("retry", "web", j))
           \/ AskDelete(r, Request("delete", "web", j))
    PROVE  Light
<1>0. /\ jobs \in Seq(JobType) /\ j \in Jobs /\ UNCHANGED <<part, staged, rushed, revived>>
      /\ \A op : Request(op, "web", j).what = j
    BY DEF ClientInv, Inv, FilesOK, Rows, AskResume, AskRetry, AskDelete, filesVars, history, Request
<1>1. ASSUME NEW op, NEW pc, req' = [req EXCEPT ![r] = [Request(op, "web", j) EXCEPT !.pc = pc]],
             \/ op \in {"resume", "retry"} /\ pc = "commit"
             \/ op = "delete" /\ pc = "erase"
      PROVE  \A q \in Requests : Continues(req[q], req'[q])
  <2>. DEFINE h == [Request(op, "web", j) EXCEPT !.pc = pc]
  <2>1. IsRequest(h) /\ h.op = op /\ h.by = "web" /\ h.pc = pc
      BY <1>1 DEF IsRequest, Request
  <2>. HIDE DEF h
  <2>2. \A q \in Requests : req'[q] = IF q = r THEN h ELSE req[q]
      BY <1>1, <2>1, RequestsKept DEF ClientInv, Inv, h
  <2>3. Opens(req[r], h)
      BY <1>1, <2>1 DEF Opens
  <2>. QED BY <2>2, <2>3 DEF Continues
<1>2. CASE AskResume(r, Request("resume", "web", j))
  <2>1. req' = [req EXCEPT ![r] = [Request("resume", "web", j) EXCEPT !.pc = "commit"]] /\ jobs' = jobs
      BY <1>2 DEF AskResume, Open, filesVars
  <2>2. Jobs' = Jobs
      BY <2>1 DEF Jobs
  <2>3. \A q \in Requests : Continues(req[q], req'[q])
      BY <1>1, <2>1
  <2>. QED BY <1>0, <2>1, <2>2, <2>3, RowsLight
<1>3. CASE AskRetry(r, Request("retry", "web", j))
  <2>1. /\ req' = [req EXCEPT ![r] = [Request("retry", "web", j) EXCEPT !.pc = "commit"]]
        /\ jobs' = [jobs EXCEPT ![j].result = "none"] /\ Retryable(j)
      BY <1>0, <1>3 DEF AskRetry, Open
  <2>2. "new" \in Statuses /\ TRUE \in BOOLEAN
      BY DEF Statuses
  <2>3. Changes(jobs, jobs', j) /\ jobs'[j].status = jobs[j].status
      BY <1>0, <2>1, <2>2, FieldChanges DEF Jobs
  <2>4. \A q \in Requests : Continues(req[q], req'[q])
      BY <1>1, <2>1
  <2>. QED BY <1>0, <2>3, <2>4, RowLight
<1>4. CASE AskDelete(r, Request("delete", "web", j))
  <2>1. req' = [req EXCEPT ![r] = [Request("delete", "web", j) EXCEPT !.pc = "erase"]] /\ jobs' = jobs
      BY <1>4 DEF AskDelete, Open, filesVars
  <2>2. Jobs' = Jobs
      BY <2>1 DEF Jobs
  <2>3. \A q \in Requests : Continues(req[q], req'[q])
      BY <1>1, <2>1
  <2>. QED BY <1>0, <2>1, <2>2, <2>3, RowsLight
<1>. QED BY <1>2, <1>3, <1>4

(* What a caller's request for an upload or a job comes to at first. *)
Asking(h, op, by, what, pc) ==
    IsRequest(h) /\ h # Idle /\ h.op = op /\ h.by = by /\ h.what = what /\ h.pc = pc
Turned(h, op, by, what) ==
    \/ h = Idle
    \/ Asking(h, op, by, what, "done") /\ h.answer = Refused /\ by = "cli"

LEMMA TurnedAway ==
    ASSUME NEW op, NEW by, NEW what
    PROVE  Turned(Answered(Request(op, by, what)), op, by, what)
<1>. DEFINE request == Request(op, by, what)
<1>1. Asking(request, op, by, what, "done") /\ request.answer = Refused /\ request.by = by
    BY DEF Asking, IsRequest, Request, Idle
<1>. HIDE DEF request
<1>2. Turned(Answered(request), op, by, what)
    BY <1>1 DEF Turned, Answered
<1>. QED BY <1>2 DEF request

LEMMA UploadAsked ==
    ASSUME NEW r \in Requests, NEW by, NEW what, AskUpload(r, Request("upload", by, what))
    PROVE  \E h : /\ req' = [req EXCEPT ![r] = h]
                  /\ IF WouldExceed THEN Turned(h, "upload", by, what)
                     ELSE Asking(h, "upload", by, what, "store") /\ h.answer = Remaining
<1>. DEFINE request == Request("upload", by, what)
            f == [request EXCEPT !.pc = "store"]
            g == [f EXCEPT !.answer = Remaining]
            h == IF WouldExceed THEN Answered(request) ELSE g
<1>1. req' = [req EXCEPT ![r] = h]
    BY DEF AskUpload, Open
<1>2. Turned(Answered(request), "upload", by, what)
    BY TurnedAway
<1>3. Asking(f, "upload", by, what, "store")
    BY DEF Asking, IsRequest, Request, Idle
<1>. HIDE DEF request, f
<1>4. Asking(g, "upload", by, what, "store") /\ g.answer = Remaining
    BY <1>3 DEF Asking, IsRequest, Idle
<1>. HIDE DEF g
<1>5. IF WouldExceed THEN Turned(h, "upload", by, what)
      ELSE Asking(h, "upload", by, what, "store") /\ h.answer = Remaining
    BY <1>2, <1>4
<1>. QED BY <1>1, <1>5

LEMMA CreateAsked ==
    ASSUME NEW r \in Requests, NEW by, NEW what, AskCreate(r, Request("create", by, what))
    PROVE  \E h : /\ req' = [req EXCEPT ![r] = h]
                  /\ Turned(h, "create", by, what) \/ Asking(h, "create", by, what, "count")
<1>. DEFINE request == Request("create", by, what)
            f == [request EXCEPT !.pc = "count"]
            h == IF request.what \in staged THEN f ELSE Answered(request)
<1>1. req' = [req EXCEPT ![r] = h]
    BY DEF AskCreate, Open
<1>2. Turned(Answered(request), "create", by, what)
    BY TurnedAway
<1>3. Asking(f, "create", by, what, "count")
    BY DEF Asking, IsRequest, Request, Idle
<1>. HIDE DEF request, f
<1>4. Turned(h, "create", by, what) \/ Asking(h, "create", by, what, "count")
    BY <1>2, <1>3
<1>. QED BY <1>1, <1>4

LEMMA WebAsksCalls == ASSUME ClientInv, WebAsks PROVE CallsOK' /\ ManifestOK'
<1>1. UNCHANGED <<cli, manifest, unheard>>
    BY DEF WebAsks, client
<1>2. PICK r \in Requests :
        /\ req[r] = Idle
        /\ \/ AskUpload(r, Request("upload", "web", Web))
           \/ \E u \in staged : part[u] = Web /\ AskCreate(r, Request("create", "web", u))
           \/ \E j \in Rows : \/ AskResume(r, Request("resume", "web", j))
                              \/ AskRetry(r, Request("retry", "web", j))
                              \/ AskDelete(r, Request("delete", "web", j))
    BY DEF WebAsks, Free
<1>3. CASE AskUpload(r, Request("upload", "web", Web))
  <2>1. UNCHANGED <<part, jobs>>
      BY <1>3 DEF AskUpload, filesVars
  <2>2. PICK h : /\ req' = [req EXCEPT ![r] = h]
                 /\ Turned(h, "upload", "web", Web) \/ Asking(h, "upload", "web", Web, "store")
      BY <1>3, UploadAsked
  <2>3. \/ h = Idle
        \/ /\ IsRequest(h) /\ CallOK(h) /\ ~HasUpload(h) /\ h.by \in {"web", "cli"} /\ (h.by = "cli" => ~Waiting)
           /\ h.pc # "insert"
      BY <2>2 DEF Turned, Asking, CallOK, HasUpload, Points
  <2>. QED BY <1>1, <1>2, <2>1, <2>2, <2>3, AskedCalls
<1>4. ASSUME NEW u \in staged, part[u] = Web, AskCreate(r, Request("create", "web", u))
      PROVE  CallsOK' /\ ManifestOK'
  <2>1. UNCHANGED <<part, jobs>> /\ u \in Uploads
      BY <1>4 DEF AskCreate, filesVars, ClientInv, Inv, FilesOK
  <2>2. PICK h : /\ req' = [req EXCEPT ![r] = h]
                 /\ Turned(h, "create", "web", u) \/ Asking(h, "create", "web", u, "count")
      BY <1>4, CreateAsked
  <2>3. \/ h = Idle
        \/ /\ IsRequest(h) /\ CallOK(h) /\ ~HasUpload(h) /\ h.by \in {"web", "cli"} /\ (h.by = "cli" => ~Waiting)
           /\ h.pc # "insert"
      BY <1>4, <2>1, <2>2 DEF Turned, Asking, CallOK, HasUpload, Points
  <2>. QED BY <1>1, <1>2, <2>1, <2>2, <2>3, AskedCalls
<1>5. CASE \E j \in Rows : \/ AskResume(r, Request("resume", "web", j))
                           \/ AskRetry(r, Request("retry", "web", j))
                           \/ AskDelete(r, Request("delete", "web", j))
  <2>1. Light
      BY <1>2, <1>5, OpensLight
  <2>. QED BY <1>1, <2>1, QuietCalls DEF Light
<1>. QED BY <1>2, <1>3, <1>4, <1>5

LEMMA SendCalls == ASSUME ClientInv, Send PROVE CallsOK' /\ ManifestOK'
<1>1. UNCHANGED <<cli, manifest, unheard>> /\ ~Waiting /\ cli.todo # <<>>
    BY DEF Send, client
<1>. DEFINE what == Head(cli.todo)
<1>2. PICK r \in Requests :
        /\ req[r] = Idle
        /\ \/ cli.command = "upload" /\ AskUpload(r, Request("upload", "cli", what))
           \/ cli.command = "submit" /\ AskCreate(r, Request("create", "cli", what))
    BY DEF Send, Free
<1>3. 1 \in DOMAIN cli.todo /\ what = cli.todo[1]
    BY <1>1, Shortened DEF ClientInv, CallsOK, CommandOK
<1>4. /\ cli.command = "upload" => what \in Parts
      /\ cli.command = "submit" => what \in Uploads
    BY <1>3 DEF ClientInv, CallsOK, CommandOK
<1>5. CASE cli.command = "upload" /\ AskUpload(r, Request("upload", "cli", what))
  <2>1. UNCHANGED <<part, jobs>>
      BY <1>5 DEF AskUpload, filesVars
  <2>2. PICK h : /\ req' = [req EXCEPT ![r] = h]
                 /\ Turned(h, "upload", "cli", what) \/ Asking(h, "upload", "cli", what, "store")
      BY <1>5, UploadAsked
  <2>3. \/ h = Idle
        \/ /\ IsRequest(h) /\ CallOK(h) /\ ~HasUpload(h) /\ h.by \in {"web", "cli"} /\ (h.by = "cli" => ~Waiting)
           /\ h.pc # "insert"
      BY <1>1, <1>4, <1>5, <2>2 DEF Turned, Asking, CallOK, HasUpload, Points
  <2>. QED BY <1>1, <1>2, <2>1, <2>2, <2>3, AskedCalls
<1>6. CASE cli.command = "submit" /\ AskCreate(r, Request("create", "cli", what))
  <2>1. UNCHANGED <<part, jobs>>
      BY <1>6 DEF AskCreate, filesVars
  <2>2. PICK h : /\ req' = [req EXCEPT ![r] = h]
                 /\ Turned(h, "create", "cli", what) \/ Asking(h, "create", "cli", what, "count")
      BY <1>6, CreateAsked
  <2>3. \/ h = Idle
        \/ /\ IsRequest(h) /\ CallOK(h) /\ ~HasUpload(h) /\ h.by \in {"web", "cli"} /\ (h.by = "cli" => ~Waiting)
           /\ h.pc # "insert"
      BY <1>1, <1>4, <1>6, <2>2 DEF Turned, Asking, CallOK, HasUpload, Points
  <2>. QED BY <1>1, <1>2, <2>1, <2>2, <2>3, AskedCalls
<1>. QED BY <1>2, <1>5, <1>6

LEMMA ServerCalls == ASSUME ClientInv, ServerStep, UNCHANGED client PROVE CallsOK' /\ ManifestOK'
<1>1. UNCHANGED <<cli, manifest, unheard>>
    BY DEF client
<1>2. Light => CallsOK' /\ ManifestOK'
    BY <1>1, QuietCalls DEF Light
<1>3. ASSUME NEW r \in Requests, Store(r) PROVE CallsOK' /\ ManifestOK'
  <2>1. At(r, "upload", "store") /\ req[r] # Idle
      BY <1>3 DEF Store, At
  <2>2. CASE Refuse(r)
      BY <1>2, <2>1, <2>2, RefuseLight
  <2>3. CASE ~Refuse(r)
      BY <1>1, <1>3, <2>1, <2>3, StoreCalls DEF Store
  <2>. QED BY <2>2, <2>3
<1>4. ASSUME NEW r \in Requests, Move(r) PROVE CallsOK' /\ ManifestOK'
  <2>1. At(r, "create", "move") /\ req[r] # Idle
      BY <1>4 DEF Move, At
  <2>2. CASE Refuse(r)
      BY <1>2, <2>1, <2>2, RefuseLight
  <2>3. CASE ~Refuse(r)
      BY <1>1, <1>4, <2>1, <2>3, MoveCalls DEF Move
  <2>. QED BY <2>2, <2>3
<1>5. ASSUME NEW r \in Requests, Handler(r) PROVE CallsOK' /\ ManifestOK'
    BY <1>2, <1>3, <1>4, <1>5, CountLight, InsertLight, RestartLight, EraseLight, DeleteFilesLight DEF Handler
<1>. QED BY <1>2, <1>5, RunsLight, SweeperLight, CrashLight DEF ServerStep

LEMMA ClientStep == ClientInv /\ [BatchNext]_vars => ClientInv'
<1>. SUFFICES ASSUME ClientInv, [BatchNext]_vars PROVE CallsOK' /\ ManifestOK'
    BY InvStep DEF ClientInv
<1>1. CASE Download \/ UNCHANGED vars
  <2>1. UNCHANGED <<part, staged, jobs, req, rushed, revived, cli, manifest, unheard>>
      BY <1>1 DEF Download, vars, server
  <2>2. Quiet
      BY <2>1 DEF Quiet, Continues, Jobs
  <2>. QED BY <2>1, <2>2, QuietCalls
<1>. QED BY <1>1, ServerCalls, WebAsksCalls, SendCalls, CommandCalls, AnswerCalls, GivesUpCalls DEF BatchNext

LEMMA ClientInvHolds == BatchSpec => []ClientInv
<1>1. BatchInit => ClientInv
  <2>. SUFFICES ASSUME BatchInit PROVE ClientInv
      OBVIOUS
  <2>1. Inv
      BY InvAtStart DEF BatchInit
  <2>2. part = <<>> /\ cli = NoCommand /\ manifest = [uploads |-> <<>>, jobs |-> <<>>]
        /\ \A r \in Requests : req[r] = Idle
      BY DEF BatchInit, Init
  <2>3. IsSequence(<<>>)
      BY DEF IsSequence
  <2>4. CallsOK
      BY <2>2, <2>3 DEF CallsOK, CommandOK, NoCommand, CallOK, ByCli
  <2>5. ManifestOK
      BY <2>2, <2>3 DEF ManifestOK, HasUpload, NoCommand
  <2>. QED BY <2>1, <2>4, <2>5 DEF ClientInv
<1>. QED BY <1>1, ClientStep, PTL DEF BatchSpec

(* The manifest names every job made from the uploads in it that the       *)
(* client could know of: a submit that stops half way has written down the *)
(* jobs it was told of (bic.py:796), and no other command touches them.    *)
THEOREM ManifestNamesJobs == BatchSpec => []ManifestComplete
<1>1. ClientInv => ManifestComplete
  <2>. SUFFICES ASSUME ClientInv, Idling, NEW i \in DOMAIN manifest.uploads, NEW j \in Jobs,
                       jobs[j].from = manifest.uploads[i]
                PROVE  j \in {manifest.jobs[k] : k \in DOMAIN manifest.jobs} \/ jobs[j].from \in unheard
      BY DEF ManifestComplete
  <2>1. Accounted(manifest.uploads[i])
      BY DEF ClientInv, ManifestOK
  <2>2. \A r \in Requests : ~ByCli(req[r])
      BY DEF ClientInv, CallsOK, CallOK, ByCli, Idling, NoCommand
  <2>. QED BY <2>1, <2>2 DEF Accounted, Told, Listed
<1>. QED BY ClientInvHolds, <1>1, PTL

-----------------------------------------------------------------------------
(* The bytes that count, as sums: those of the uploads that wait, and of   *)
(* the jobs that hold an input or are about to.                            *)
UploadSizes == [u \in Uploads |-> Size(part[u])]
JobSizes == [j \in Jobs |-> Size(part[jobs[j].from])]
Bytes == Total(UploadSizes, staged) + Total(JobSizes, Holding)

LEMMA SizesAre ==
    ASSUME ClientInv
    PROVE  /\ IsFiniteSet(staged) /\ staged \subseteq Uploads /\ \A u \in Uploads : UploadSizes[u] \in Nat
           /\ IsFiniteSet(Jobs) /\ Holding \subseteq Jobs /\ IsFiniteSet(Holding) /\ IsFiniteSet(Kept)
           /\ Kept \subseteq Holding
           /\ \A j \in Jobs : jobs[j].from \in Uploads /\ JobSizes[j] \in Nat
<1>1. /\ part \in Seq(Parts \cup {Web}) /\ jobs \in Seq(JobType) /\ staged \subseteq Uploads
      /\ \A j \in Jobs : jobs[j].from \in Uploads
    BY DEF ClientInv, CallsOK, Inv, FilesOK, OneJobPerUpload
<1>2. IsFiniteSet(Uploads) /\ IsFiniteSet(Jobs)
  <2>1. Uploads = 1..Len(part) /\ Len(part) \in Nat /\ Jobs = 1..Len(jobs) /\ Len(jobs) \in Nat
      BY <1>1 DEF Uploads, Jobs
  <2>. QED BY <2>1, FS_Interval
<1>3. \A u \in Uploads : UploadSizes[u] \in Nat
    BY <1>1, BatchAssumption DEF UploadSizes, Uploads
<1>4. \A j \in Jobs : JobSizes[j] \in Nat
    BY <1>1, BatchAssumption DEF JobSizes, Uploads
<1>5. Holding \subseteq Jobs /\ Kept \subseteq Holding
    BY DEF Holding, Kept, Rows, Moved, At, ClientInv, Inv, HandlersOK, Knows, Inserts
<1>6. IsFiniteSet(staged) /\ IsFiniteSet(Holding) /\ IsFiniteSet(Kept)
  <2>1. Kept \subseteq Jobs
      BY <1>5
  <2>. QED BY <1>1, <1>2, <1>5, <2>1, FS_Subset
<1>. QED BY <1>1, <1>2, <1>3, <1>4, <1>5, <1>6

LEMMA PendingIsTotal == ASSUME ClientInv PROVE PendingUploadBytes = Total(UploadSizes, staged)
<1>. DEFINE S == staged
            Eq(it) == it = [t \in SUBSET S |->
                               IF t = {} THEN 0
                               ELSE Size(part[CHOOSE x \in t : TRUE]) + it[t \ {CHOOSE x \in t : TRUE}]]
            it == CHOOSE it : Eq(it)
<1>1. IsFiniteSet(S) /\ S \subseteq Uploads /\ \A u \in S : UploadSizes[u] \in Nat
    BY SizesAre
<1>2. PendingUploadBytes = it[S]
    BY Zenon DEF PendingUploadBytes, MapThenSumSet, MapThenFoldSet
<1>3. ASSUME NEW t \in SUBSET S, t # {}
      PROVE  UploadSizes[CHOOSE x \in t : TRUE] = Size(part[CHOOSE x \in t : TRUE])
  <2>. DEFINE c == CHOOSE x \in t : TRUE
  <2>1. c \in t
      BY <1>3
  <2>. HIDE DEF c
  <2>2. UploadSizes[c] = Size(part[c])
      BY <1>1, <2>1 DEF UploadSizes
  <2>. QED BY <2>2 DEF c
<1>. HIDE DEF S, it
<1>4. ASSUME NEW f PROVE Eq(f) <=> Folds(f, UploadSizes, S)
  <2>1. ASSUME NEW t \in SUBSET S
        PROVE  (IF t = {} THEN 0
                ELSE Size(part[CHOOSE x \in t : TRUE]) + f[t \ {CHOOSE x \in t : TRUE}])
             = (IF t = {} THEN 0
                ELSE UploadSizes[CHOOSE x \in t : TRUE] + f[t \ {CHOOSE x \in t : TRUE}])
      BY <1>3
  <2>. QED BY <2>1 DEF Folds
<1>5. \E f : Eq(f)
  <2>1. PICK f : Folds(f, UploadSizes, S)
      BY <1>1, FoldsExist
  <2>2. Eq(f)
      BY <1>4, <2>1
  <2>. HIDE DEF Eq
  <2>. QED BY <2>2
<1>6. Eq(it)
  <2>. HIDE DEF Eq
  <2>. QED BY <1>5 DEF it
<1>7. Folds(it, UploadSizes, S)
    BY <1>4, <1>6
<1>8. it[S] = Total(UploadSizes, S)
    BY <1>1, <1>7, FoldsTotal
<1>. QED BY <1>2, <1>8 DEF S

LEMMA KeptIsTotal == ASSUME ClientInv PROVE MapThenSumSet(InputSize, Kept) = Total(JobSizes, Kept)
<1>. DEFINE S == Kept
            Eq(it) == it = [t \in SUBSET S |->
                               IF t = {} THEN 0
                               ELSE InputSize(CHOOSE x \in t : TRUE) + it[t \ {CHOOSE x \in t : TRUE}]]
            it == CHOOSE it : Eq(it)
<1>1. IsFiniteSet(S) /\ S \subseteq Jobs /\ \A j \in S : JobSizes[j] \in Nat
    BY SizesAre
<1>2. MapThenSumSet(InputSize, Kept) = it[S]
    BY Zenon DEF MapThenSumSet, MapThenFoldSet
<1>3. ASSUME NEW t \in SUBSET S, t # {}
      PROVE  JobSizes[CHOOSE x \in t : TRUE] = InputSize(CHOOSE x \in t : TRUE)
  <2>. DEFINE c == CHOOSE x \in t : TRUE
  <2>1. c \in t
      BY <1>3
  <2>. HIDE DEF c
  <2>2. JobSizes[c] = InputSize(c)
      BY <1>1, <2>1 DEF JobSizes, InputSize
  <2>. QED BY <2>2 DEF c
<1>. HIDE DEF S, it
<1>4. ASSUME NEW f PROVE Eq(f) <=> Folds(f, JobSizes, S)
  <2>1. ASSUME NEW t \in SUBSET S
        PROVE  (IF t = {} THEN 0
                ELSE InputSize(CHOOSE x \in t : TRUE) + f[t \ {CHOOSE x \in t : TRUE}])
             = (IF t = {} THEN 0
                ELSE JobSizes[CHOOSE x \in t : TRUE] + f[t \ {CHOOSE x \in t : TRUE}])
      BY <1>3
  <2>. QED BY <2>1 DEF Folds
<1>5. \E f : Eq(f)
  <2>1. PICK f : Folds(f, JobSizes, S)
      BY <1>1, FoldsExist
  <2>2. Eq(f)
      BY <1>4, <2>1
  <2>. HIDE DEF Eq
  <2>. QED BY <2>2
<1>6. Eq(it)
  <2>. HIDE DEF Eq
  <2>. QED BY <1>5 DEF it
<1>7. Folds(it, JobSizes, S)
    BY <1>4, <1>6
<1>8. it[S] = Total(JobSizes, S)
    BY <1>1, <1>7, FoldsTotal
<1>. QED BY <1>2, <1>8 DEF S

(* While uploads come one at a time, what waits and what is held stays     *)
(* within the quota with what the upload under way may add; while jobs are *)
(* created one at a time, there is room for the one that is.               *)
StoresOK(r) == At(r, "upload", "store") => req[r].answer \in Nat /\ Bytes + req[r].answer <= Limit
StorageOK ==
    "upload" \notin rushed =>
        /\ Bytes <= Limit
        /\ \A r \in Requests : StoresOK(r)
        /\ \A r, q \in Requests : At(r, "upload", "store") /\ At(q, "upload", "store") => r = q
Creating(r) == At(r, "create", "move") \/ At(r, "create", "insert")
LimitsOK ==
    "create" \notin rushed =>
        /\ Cardinality(Fresh) <= MaxActive
        /\ \A r \in Requests : Creating(r) => Cardinality(Fresh) < MaxActive
        /\ \A r, q \in Asked("create") : r = q
QuotaInv == ClientInv /\ StorageOK /\ LimitsOK

SameStores ==
    \A r \in Requests :
        /\ At(r, "upload", "store")' => At(r, "upload", "store") /\ req'[r].answer = req[r].answer
        /\ At(r, "create", "insert")' => At(r, "create", "insert") /\ req'[r].answer = req[r].answer
SameCreates ==
    \A r \in Requests :
        /\ Creating(r)' => Creating(r) \/ Cardinality(Fresh) < MaxActive
        /\ r \in Asked("create")' => r \in Asked("create")

LEMMA SizesStay ==
    ASSUME ClientInv, part' = part, Jobs' = Jobs, \A j \in Jobs : jobs'[j].from = jobs[j].from
    PROVE  UploadSizes' = UploadSizes /\ JobSizes' = JobSizes
<1>1. UploadSizes' = [u \in Uploads |-> Size(part[u])]
    BY DEF UploadSizes, Uploads
<1>2. JobSizes' = [j \in Jobs |-> Size(part[jobs[j].from])]
    BY DEF JobSizes
<1>. QED BY <1>1, <1>2 DEF UploadSizes, JobSizes

LEMMA FewerBytes ==
    ASSUME ClientInv, UploadSizes' = UploadSizes, JobSizes' = JobSizes,
           staged' \subseteq staged, Holding' \subseteq Holding
    PROVE  Bytes' \in Nat /\ Bytes \in Nat /\ Bytes' <= Bytes
<1>. DEFINE W == UploadSizes
            V == JobSizes
<1>1. /\ IsFiniteSet(staged) /\ IsFiniteSet(Holding)
      /\ (\A u \in staged : W[u] \in Nat) /\ (\A j \in Holding : V[j] \in Nat)
    BY SizesAre
<1>2. PICK s \in SUBSET staged, h \in SUBSET Holding : s = staged' /\ h = Holding'
    OBVIOUS
<1>3. Bytes = Total(W, staged) + Total(V, Holding) /\ Bytes' = Total(W, s) + Total(V, h)
    BY <1>2 DEF Bytes
<1>. HIDE DEF W, V
<1>4. Total(W, s) \in Nat /\ Total(W, s) <= Total(W, staged) /\ Total(W, staged) \in Nat
    BY <1>1, TotalMonotone, TotalType
<1>5. Total(V, h) \in Nat /\ Total(V, h) <= Total(V, Holding) /\ Total(V, Holding) \in Nat
    BY <1>1, TotalMonotone, TotalType
<1>. QED BY <1>3, <1>4, <1>5

LEMMA StorageStays ==
    ASSUME ClientInv, StorageOK, Bytes' \in Nat, Bytes \in Nat, Bytes' <= Bytes, "upload" \in rushed => "upload" \in rushed',
           \A r \in Requests :
               At(r, "upload", "store")' => At(r, "upload", "store") /\ req'[r].answer = req[r].answer
    PROVE  StorageOK'
<1>. SUFFICES ASSUME "upload" \notin rushed'
              PROVE  /\ Bytes' <= Limit
                     /\ \A r \in Requests : StoresOK(r)'
                     /\ \A r, q \in Requests : At(r, "upload", "store")' /\ At(q, "upload", "store")' => r = q
    BY DEF StorageOK
<1>1. /\ Bytes <= Limit /\ Limit \in Nat
      /\ \A r \in Requests : StoresOK(r)
      /\ \A r, q \in Requests : At(r, "upload", "store") /\ At(q, "upload", "store") => r = q
    BY SubmissionAssumption DEF StorageOK
<1>2. ASSUME NEW r \in Requests PROVE StoresOK(r)'
  <2>. SUFFICES ASSUME At(r, "upload", "store")'
                PROVE  req'[r].answer \in Nat /\ Bytes' + req'[r].answer <= Limit
      BY DEF StoresOK
  <2>1. req[r].answer \in Nat /\ Bytes + req[r].answer <= Limit /\ req'[r].answer = req[r].answer
      BY <1>1 DEF StoresOK
  <2>. QED BY <1>1, <2>1
<1>. QED BY <1>1, <1>2

LEMMA StorageFrame ==
    ASSUME ClientInv, StorageOK, part' = part, staged' \subseteq staged,
           Jobs' = Jobs, \A j \in Jobs : jobs'[j].from = jobs[j].from,
           Kept' \subseteq Holding, "upload" \in rushed => "upload" \in rushed', SameStores
    PROVE  StorageOK'
<1>1. UploadSizes' = UploadSizes /\ JobSizes' = JobSizes
    BY SizesStay
<1>2. Holding' \subseteq Holding
  <2>1. ASSUME NEW r \in Moved' PROVE req'[r].answer \in Holding
      BY DEF Moved, SameStores, Holding
  <2>. QED BY <2>1 DEF Holding
<1>. QED BY <1>1, <1>2, FewerBytes, StorageStays DEF SameStores

LEMMA FreshAre ==
    ASSUME ClientInv
    PROVE  IsFiniteSet(Fresh) /\ Cardinality(Fresh) \in Nat /\ Cardinality(Fresh) <= Cardinality(ActiveJobs)
           /\ Cardinality(ActiveJobs) \in Nat
<1>1. Fresh \subseteq ActiveJobs /\ ActiveJobs \subseteq Jobs /\ IsFiniteSet(Jobs)
    BY SizesAre DEF Fresh, ActiveJobs
<1>2. IsFiniteSet(ActiveJobs)
    BY <1>1, FS_Subset
<1>. QED BY <1>1, <1>2, FS_Subset, FS_CardinalityType

LEMMA LimitsFrame ==
    ASSUME ClientInv, LimitsOK, "create" \in rushed => "create" \in rushed', SameCreates,
           \/ Fresh' \subseteq Fresh
           \/ \E r \in Requests : /\ At(r, "create", "insert") /\ r \notin Asked("create")'
                                  /\ Fresh' \subseteq Fresh \cup {req[r].answer}
    PROVE  LimitsOK'
<1>. SUFFICES ASSUME "create" \notin rushed'
              PROVE  /\ Cardinality(Fresh') <= MaxActive
                     /\ \A r \in Requests : Creating(r)' => Cardinality(Fresh') < MaxActive
                     /\ \A r, q \in Asked("create")' : r = q
    BY DEF LimitsOK
<1>. DEFINE n == Cardinality(Fresh)
            m == Cardinality(Fresh')
<1>1. /\ n <= MaxActive /\ MaxActive \in Nat /\ n \in Nat /\ IsFiniteSet(Fresh)
      /\ \A r \in Requests : Creating(r) => n < MaxActive
      /\ \A r, q \in Asked("create") : r = q
    BY FreshAre, SubmissionAssumption DEF LimitsOK
<1>2. \A r, q \in Asked("create")' : r = q
    BY <1>1 DEF SameCreates, Asked
<1>3. CASE Fresh' \subseteq Fresh
  <2>1. m <= n /\ m \in Nat
      BY <1>1, <1>3, FS_Subset, FS_CardinalityType
  <2>2. ASSUME NEW r \in Requests, Creating(r)' PROVE n < MaxActive
      BY <1>1, <2>2 DEF SameCreates
  <2>. HIDE DEF n, m
  <2>3. m <= MaxActive /\ \A r \in Requests : Creating(r)' => m < MaxActive
      BY <1>1, <2>1, <2>2
  <2>. QED BY <1>2, <2>3 DEF m
<1>4. ASSUME NEW r \in Requests, At(r, "create", "insert"), r \notin Asked("create")',
             Fresh' \subseteq Fresh \cup {req[r].answer}
      PROVE  m <= MaxActive /\ \A q \in Requests : ~Creating(q)'
  <2>1. IsFiniteSet(Fresh \cup {req[r].answer}) /\ Cardinality(Fresh \cup {req[r].answer}) <= n + 1
      BY <1>1, FS_AddElement
  <2>2. m <= Cardinality(Fresh \cup {req[r].answer}) /\ Cardinality(Fresh \cup {req[r].answer}) \in Nat /\ m \in Nat
      BY <1>4, <2>1, FS_Subset, FS_CardinalityType
  <2>3. n < MaxActive
      BY <1>1, <1>4 DEF Creating
  <2>4. m <= MaxActive
    <3>. HIDE DEF n, m
    <3>. QED BY <1>1, <2>1, <2>2, <2>3
  <2>5. r \in Asked("create")
      BY <1>4 DEF Asked, At
  <2>6. ASSUME NEW q \in Requests, Creating(q)' PROVE FALSE
    <3>1. q \in Asked("create")'
        BY <2>6 DEF Creating, At, Asked
    <3>2. q \in Asked("create")
        BY <3>1 DEF SameCreates
    <3>. QED BY <1>1, <1>4, <2>5, <3>1, <3>2
  <2>. QED BY <2>4, <2>6
<1>. QED BY <1>2, <1>3, <1>4

LEMMA HandlersFollow ==
    ASSUME NEW r \in Requests, Continues(req[r], req'[r])
    PROVE  /\ At(r, "upload", "store")' => At(r, "upload", "store") /\ req'[r].answer = req[r].answer
           /\ At(r, "create", "insert")' => At(r, "create", "insert") /\ req'[r].answer = req[r].answer
           /\ Creating(r)' => Creating(r) \/ Cardinality(ActiveJobs) < MaxActive
           /\ r \in Asked("create")' => r \in Asked("create")
<1>1. CASE req'[r] = req[r]
    BY <1>1 DEF At, Creating, Asked
<1>2. CASE Ends(req[r], req'[r])
    BY <1>2 DEF Ends, At, Creating, Asked
<1>3. CASE Opens(req[r], req'[r])
    BY <1>3 DEF Opens, At, Creating, Asked
<1>4. CASE Proceeds(req[r], req'[r])
  <2>1. req[r] # Idle
      BY <1>4 DEF Proceeds, IsRequest, Idle
  <2>. QED BY <1>4, <2>1 DEF Proceeds, At, Creating, Asked
<1>. QED BY <1>1, <1>2, <1>3, <1>4 DEF Continues

LEMMA LightQuotas == ASSUME QuotaInv, Light PROVE StorageOK' /\ LimitsOK'
<1>1. ClientInv /\ StorageOK /\ LimitsOK /\ rushed' = rushed /\ Cardinality(Fresh) <= Cardinality(ActiveJobs)
      /\ Cardinality(Fresh) \in Nat /\ Cardinality(ActiveJobs) \in Nat /\ MaxActive \in Nat
    BY FreshAre, SubmissionAssumption DEF QuotaInv, Light
<1>2. SameStores
    BY HandlersFollow DEF Light, Quiet, SameStores
<1>3. SameCreates
  <2>1. ASSUME NEW r \in Requests
        PROVE  /\ Creating(r)' => Creating(r) \/ Cardinality(ActiveJobs) < MaxActive
               /\ r \in Asked("create")' => r \in Asked("create")
      BY HandlersFollow DEF Light, Quiet
  <2>2. Cardinality(ActiveJobs) < MaxActive => Cardinality(Fresh) < MaxActive
      BY <1>1
  <2>. QED BY <2>1, <2>2 DEF SameCreates
<1>4. StorageOK'
    BY <1>1, <1>2, StorageFrame DEF Light, Quiet
<1>5. \/ Fresh' \subseteq Fresh
      \/ \E r \in Requests : /\ At(r, "create", "insert") /\ r \notin Asked("create")'
                             /\ Fresh' \subseteq Fresh \cup {req[r].answer}
  <2>1. ASSUME NEW r \in Requests, Ends(req[r], req'[r]) PROVE r \notin Asked("create")'
      BY <2>1 DEF Ends, Asked
  <2>. QED BY <2>1 DEF Light
<1>6. LimitsOK'
    BY <1>1, <1>3, <1>5, LimitsFrame
<1>. QED BY <1>4, <1>6

(* Steps that leave files, rows and limits alone. *)
LEMMA ClientQuotas ==
    ASSUME QuotaInv, UNCHANGED <<part, staged, jobs, rushed, revived>>, SameStores, SameCreates
    PROVE  StorageOK' /\ LimitsOK'
<1>1. ClientInv /\ StorageOK /\ LimitsOK /\ Jobs' = Jobs
    BY DEF QuotaInv, Jobs
<1>2. Kept' \subseteq Holding /\ Fresh' = Fresh
    BY <1>1 DEF Kept, Rows, Holding, Fresh
<1>. QED BY <1>1, <1>2, StorageFrame, LimitsFrame

LEMMA AnswerQuotas == ASSUME QuotaInv, NEW r \in Requests, Answer(r) PROVE StorageOK' /\ LimitsOK'
<1>1. /\ req' = [req EXCEPT ![r] = Idle] /\ UNCHANGED <<part, staged, jobs, rushed, revived>>
    BY DEF Answer, filesVars, history
<1>2. \A q \in Requests : req'[q] = Idle \/ req'[q] = req[q]
    BY <1>1, RequestsKept DEF QuotaInv, ClientInv, Inv
<1>3. SameStores
    BY <1>2 DEF SameStores, At
<1>4. SameCreates
    BY <1>2 DEF SameCreates, Creating, At, Asked
<1>. QED BY <1>1, <1>3, <1>4, ClientQuotas

LEMMA GivesUpQuotas == ASSUME QuotaInv, NEW r \in Requests, GivesUp(r) PROVE StorageOK' /\ LimitsOK'
<1>. DEFINE h == [req[r] EXCEPT !.by = "nobody"]
<1>1. /\ req' = [req EXCEPT ![r] = h] /\ req[r] # Idle /\ UNCHANGED <<part, staged, jobs, rushed, revived>>
    BY DEF GivesUp, filesVars, history
<1>2. IsRequest(req[r])
    BY <1>1 DEF QuotaInv, ClientInv, Inv, RequestsOK
<1>3. IsRequest(h) /\ h.op = req[r].op /\ h.pc = req[r].pc /\ h.answer = req[r].answer
    BY <1>2 DEF IsRequest
<1>. HIDE DEF h
<1>4. \A q \in Requests : req'[q] = IF q = r THEN h ELSE req[q]
    BY <1>1, <1>3, RequestsKept DEF QuotaInv, ClientInv, Inv
<1>5. SameStores
    BY <1>1, <1>3, <1>4 DEF SameStores, At
<1>6. SameCreates
    BY <1>1, <1>3, <1>4 DEF SameCreates, Creating, At, Asked
<1>. QED BY <1>1, <1>5, <1>6, ClientQuotas

LEMMA AskUploadQuotas ==
    ASSUME QuotaInv, NEW r \in Requests, req[r] = Idle, NEW by, NEW what, AskUpload(r, Request("upload", by, what))
    PROVE  StorageOK' /\ LimitsOK'
<1>0. ClientInv /\ StorageOK /\ LimitsOK
    BY DEF QuotaInv
<1>1. /\ UNCHANGED <<part, staged, jobs, revived>>
      /\ rushed' = IF Asked("upload") \cup Moved = {} THEN rushed ELSE rushed \cup {"upload"}
    BY DEF AskUpload, filesVars, Rush
<1>2. PICK h : /\ req' = [req EXCEPT ![r] = h]
               /\ IF WouldExceed THEN Turned(h, "upload", by, what)
                  ELSE Asking(h, "upload", by, what, "store") /\ h.answer = Remaining
    BY UploadAsked
<1>3. (h = Idle \/ (IsRequest(h) /\ h.op = "upload")) /\ (h # Idle /\ h.pc = "store" => ~WouldExceed /\ h.answer = Remaining)
    BY <1>2 DEF Turned, Asking
<1>4. \A q \in Requests : req'[q] = IF q = r THEN h ELSE req[q]
    BY <1>2, <1>3, RequestsKept DEF QuotaInv, ClientInv, Inv
<1>5. Jobs' = Jobs /\ Kept' = Kept /\ Fresh' = Fresh
    BY <1>1 DEF Jobs, Kept, Rows, Fresh
<1>6. LimitsOK'
  <2>1. SameCreates
      BY <1>3, <1>4 DEF SameCreates, Creating, At, Asked
  <2>. QED BY <1>0, <1>1, <1>5, <2>1, LimitsFrame
<1>7. StorageOK'
  <2>. SUFFICES ASSUME "upload" \notin rushed'
                PROVE  /\ Bytes' <= Limit
                       /\ \A q \in Requests : StoresOK(q)'
                       /\ \A p, q \in Requests : At(p, "upload", "store")' /\ At(q, "upload", "store")' => p = q
      BY DEF StorageOK
  <2>1. Asked("upload") = {} /\ Moved = {} /\ "upload" \notin rushed /\ Bytes <= Limit
      BY <1>0, <1>1 DEF StorageOK
  <2>2. Holding = Kept /\ Holding' = Holding
    <3>1. Moved' = {}
        BY <1>3, <1>4, <2>1 DEF Moved, At
    <3>. QED BY <1>5, <2>1, <3>1 DEF Holding
  <2>3. Bytes' = Bytes
    <3>1. UploadSizes' = UploadSizes /\ JobSizes' = JobSizes
        BY <1>0, <1>1, <1>5, SizesStay
    <3>. QED BY Zenon, <1>1, <2>2, <3>1 DEF Bytes
  <2>4. \A q \in Requests : At(q, "upload", "store")' => q = r /\ ~WouldExceed /\ req'[q].answer = Remaining
      BY <1>3, <1>4, <2>1 DEF At, Asked
  <2>5. ~WouldExceed => Remaining \in Nat /\ Bytes + Remaining <= Limit
    <3>. DEFINE c == Cardinality({j \in Kept : jobs[j].result # "none"})
                k == Total(JobSizes, Kept)
                u == Total(UploadSizes, staged)
    <3>1. c \in Nat /\ k \in Nat /\ u \in Nat
      <4>1. IsFiniteSet({j \in Kept : jobs[j].result # "none"})
          BY <1>0, SizesAre, FS_Subset
      <4>. QED BY <1>0, <4>1, SizesAre, FS_CardinalityType, TotalType
    <3>2. Used = (k + c) + u
        BY <1>0, PendingIsTotal, KeptIsTotal DEF Used, JobBytes
    <3>3. Bytes = u + k
        BY <2>2 DEF Bytes
    <3>. HIDE DEF c, k, u
    <3>4. Limit \in Nat
        BY SubmissionAssumption
    <3>. QED BY <3>1, <3>2, <3>3, <3>4 DEF WouldExceed, Remaining
  <2>. QED BY <2>1, <2>3, <2>4, <2>5 DEF StoresOK
<1>. QED BY <1>6, <1>7

LEMMA AskCreateQuotas ==
    ASSUME QuotaInv, NEW r \in Requests, req[r] = Idle, NEW by, NEW what, AskCreate(r, Request("create", by, what))
    PROVE  StorageOK' /\ LimitsOK'
<1>0. ClientInv /\ StorageOK /\ LimitsOK
    BY DEF QuotaInv
<1>1. /\ UNCHANGED <<part, staged, jobs, revived>>
      /\ rushed' = IF Asked("create") = {} THEN rushed ELSE rushed \cup {"create"}
    BY DEF AskCreate, filesVars, Rush
<1>2. PICK h : /\ req' = [req EXCEPT ![r] = h]
               /\ Turned(h, "create", by, what) \/ Asking(h, "create", by, what, "count")
    BY CreateAsked
<1>3. h = Idle \/ (IsRequest(h) /\ h.op = "create" /\ h.pc \in {"count", "done"})
    BY <1>2 DEF Turned, Asking
<1>4. \A q \in Requests : req'[q] = IF q = r THEN h ELSE req[q]
    BY <1>2, <1>3, RequestsKept DEF QuotaInv, ClientInv, Inv
<1>5. Jobs' = Jobs /\ Kept' = Kept /\ Fresh' = Fresh
    BY <1>1 DEF Jobs, Kept, Rows, Fresh
<1>6. StorageOK'
  <2>1. SameStores
      BY <1>3, <1>4 DEF SameStores, At
  <2>2. Kept' \subseteq Holding
      BY <1>5 DEF Holding
  <2>. QED BY <1>0, <1>1, <1>5, <2>1, <2>2, StorageFrame
<1>7. LimitsOK'
  <2>. SUFFICES ASSUME "create" \notin rushed'
                PROVE  /\ Cardinality(Fresh') <= MaxActive
                       /\ \A q \in Requests : Creating(q)' => Cardinality(Fresh') < MaxActive
                       /\ \A p, q \in Asked("create")' : p = q
      BY DEF LimitsOK
  <2>1. Asked("create") = {} /\ Cardinality(Fresh) <= MaxActive
      BY <1>0, <1>1 DEF LimitsOK
  <2>2. \A q \in Asked("create")' : q = r
      BY <1>4, <2>1 DEF Asked
  <2>3. \A q \in Requests : ~Creating(q)'
      BY <1>3, <1>4, <2>1 DEF Creating, At, Asked
  <2>. QED BY <1>5, <2>1, <2>2, <2>3
<1>. QED BY <1>6, <1>7

LEMMA StoreQuotas ==
    ASSUME QuotaInv, NEW r \in Requests, Store(r), ~Refuse(r)
    PROVE  StorageOK' /\ LimitsOK'
<1>. DEFINE what == req[r].what
            n == Len(part) + 1
<1>0. /\ ClientInv /\ StorageOK /\ LimitsOK /\ At(r, "upload", "store") /\ req[r] # Idle /\ req[r].op = "upload"
      /\ part' = Append(part, what) /\ staged' = staged \cup {n} /\ Reply(r, n) /\ ~(Size(what) > req[r].answer)
      /\ UNCHANGED <<jobs, revived, rushed>>
    BY DEF QuotaInv, Store, At, history
<1>1. part \in Seq(Parts \cup {Web}) /\ what \in Parts \cup {Web} /\ Size(what) \in Nat
  <2>1. CallOK(req[r]) /\ part \in Seq(Parts \cup {Web})
      BY <1>0 DEF ClientInv, CallsOK
  <2>. QED BY <1>0, <2>1, BatchAssumption DEF CallOK
<1>2. Replied(req[r], req'[r], n) /\ \A q \in Requests : q # r => req'[q] = req[q]
    BY <1>0, ReplyIs DEF ClientInv, Inv
<1>3. req'[r] = Idle \/ req'[r].pc = "done"
    BY <1>2 DEF Replied
<1>4. Jobs' = Jobs /\ Kept' = Kept /\ Fresh' = Fresh
    BY <1>0 DEF Jobs, Kept, Rows, Fresh
<1>5. n \in Nat /\ n \notin Uploads /\ Uploads' = Uploads \cup {n} /\ part'[n] = what /\ \A u \in Uploads : part'[u] = part[u]
  <2>. DEFINE S == Parts \cup {Web}
  <2>. HIDE DEF S
  <2>1. part \in Seq(S) /\ what \in S
      BY <1>1 DEF S
  <2>. HIDE DEF what
  <2>. QED BY <1>0, <2>1 DEF Uploads
<1>6. LimitsOK'
  <2>1. SameCreates
      BY <1>0, <1>2, <1>3 DEF SameCreates, Creating, At, Asked
  <2>. QED BY <1>0, <1>4, <2>1, LimitsFrame
<1>7. StorageOK'
  <2>. SUFFICES ASSUME "upload" \notin rushed'
                PROVE  /\ Bytes' <= Limit
                       /\ \A q \in Requests : StoresOK(q)'
                       /\ \A p, q \in Requests : At(p, "upload", "store")' /\ At(q, "upload", "store")' => p = q
      BY DEF StorageOK
  <2>1. /\ req[r].answer \in Nat /\ Bytes + req[r].answer <= Limit
        /\ \A q \in Requests : At(q, "upload", "store") => q = r
      BY <1>0 DEF StorageOK, StoresOK
  <2>2. \A q \in Requests : ~At(q, "upload", "store")'
      BY <1>2, <1>3, <2>1 DEF At
  <2>3. Holding' = Holding
    <3>1. \A q \in Requests : (q \in Moved' <=> q \in Moved) /\ (q \in Moved => req'[q] = req[q])
        BY <1>0, <1>2, <1>3 DEF Moved, At
    <3>2. {req[q].answer : q \in Moved}' = {req[q].answer : q \in Moved}
        BY <3>1 DEF Moved
    <3>. QED BY <1>4, <3>2 DEF Holding
  <2>4. JobSizes' = JobSizes
    <3>1. JobSizes' = [j \in Jobs |-> Size(part'[jobs[j].from])]
        BY <1>0, <1>4 DEF JobSizes
    <3>2. \A j \in Jobs : part'[jobs[j].from] = part[jobs[j].from]
        BY <1>0, <1>5, SizesAre
    <3>. QED BY <3>1, <3>2 DEF JobSizes
  <2>. DEFINE W == UploadSizes
              new == UploadSizes'
  <2>5. new[n] = Size(what) /\ \A u \in staged : new[u] = W[u] /\ W[u] \in Nat
    <3>1. new = [u \in Uploads' |-> Size(part'[u])]
        BY DEF UploadSizes
    <3>2. \A u \in staged : u \in Uploads /\ W[u] = Size(part[u]) /\ W[u] \in Nat
        BY <1>0, SizesAre DEF UploadSizes
    <3>. HIDE DEF W, new
    <3>. QED BY <1>5, <3>1, <3>2
  <2>. HIDE DEF W, new
  <2>6. IsFiniteSet(staged) /\ n \notin staged
      BY <1>0, <1>5, SizesAre
  <2>7. Total(new, staged \cup {n}) = Total(new, staged) + new[n]
    <3>1. \A u \in staged \cup {n} : new[u] \in Nat
        BY <1>1, <2>5
    <3>. HIDE DEF n
    <3>. QED BY <2>6, <3>1, TotalAdd
  <2>8. Total(new, staged) = Total(W, staged) /\ Total(W, staged) \in Nat
      BY <2>5, <2>6, TotalSame, TotalType
  <2>9. Total(JobSizes, Holding) \in Nat
      BY <1>0, SizesAre, TotalType
  <2>10. Bytes' = (Total(W, staged) + Size(what)) + Total(JobSizes, Holding)
    <3>1. Bytes' = Total(new, staged \cup {n}) + Total(JobSizes, Holding)
        BY Zenon, <1>0, <2>3, <2>4 DEF Bytes, new
    <3>. QED BY Zenon, <2>5, <2>7, <2>8, <3>1
  <2>11. Bytes = Total(W, staged) + Total(JobSizes, Holding)
      BY DEF Bytes, W
  <2>12. Bytes' <= Limit
    <3>1. Size(what) <= req[r].answer /\ Limit \in Nat
        BY <1>0, <1>1, <2>1, SubmissionAssumption
    <3>. QED BY <1>1, <2>1, <2>8, <2>9, <2>10, <2>11, <3>1
  <2>. QED BY <2>2, <2>12 DEF StoresOK
<1>. QED BY <1>6, <1>7

LEMMA MoveQuotas ==
    ASSUME QuotaInv, NEW r \in Requests, Move(r), ~Refuse(r)
    PROVE  StorageOK' /\ LimitsOK'
<1>. DEFINE u == req[r].what
            n == Len(jobs) + 1
            f == [req[r] EXCEPT !.pc = "insert"]
            h == [f EXCEPT !.answer = n]
<1>0. /\ ClientInv /\ StorageOK /\ LimitsOK /\ At(r, "create", "move") /\ req[r] # Idle /\ req[r].op = "create"
      /\ u \in staged /\ staged' = staged \ {u} /\ jobs' = Append(jobs, NewJob(u))
      /\ req' = [req EXCEPT ![r].pc = "insert", ![r].answer = n]
      /\ UNCHANGED <<part, revived, rushed>>
    BY DEF QuotaInv, Move, At, Taken, history
<1>1. IsRequest(req[r]) /\ req' = [req EXCEPT ![r] = h]
  <2>1. req' = [[req EXCEPT ![r] = f] EXCEPT ![r] = [@ EXCEPT !.answer = n]]
      BY <1>0
  <2>. QED BY <1>0, <2>1 DEF ClientInv, Inv, RequestsOK
<1>2. IsRequest(f) /\ f.pc = "insert" /\ f.op = "create"
    BY <1>0, <1>1 DEF IsRequest
<1>. HIDE DEF f
<1>3. IsRequest(h) /\ h.pc = "insert" /\ h.op = "create" /\ h.answer = n /\ h # Idle
    BY <1>2 DEF IsRequest, Idle
<1>. HIDE DEF h
<1>4. \A q \in Requests : req'[q] = IF q = r THEN h ELSE req[q]
    BY <1>1, <1>3, RequestsKept DEF QuotaInv, ClientInv, Inv
<1>5. /\ n \in Nat /\ n \notin Jobs /\ Jobs' = Jobs \cup {n} /\ jobs'[n].from = u /\ jobs'[n].status = "new"
      /\ \A j \in Jobs : jobs'[j] = jobs[j]
  <2>1. NewJob(u) \in JobType /\ NewJob(u).from = u /\ NewJob(u).status = "new"
    <3>1. u \in Nat
        BY <1>0, Appended DEF ClientInv, Inv, FilesOK, Uploads
    <3>. QED BY <3>1 DEF NewJob, JobType, Statuses
  <2>. HIDE DEF u
  <2>2. jobs' = Append(jobs, NewJob(u)) /\ jobs \in Seq(JobType)
      BY <1>0 DEF ClientInv, Inv, FilesOK
  <2>. QED BY <2>1, <2>2 DEF Jobs
<1>6. Kept' = Kept /\ Fresh' = Fresh
  <2>1. Rows' = Rows
      BY <1>5 DEF Rows
  <2>2. Rows \subseteq Jobs
      BY DEF Rows
  <2>3. Fresh' = Fresh
      BY <1>0, <1>5 DEF Fresh, Active
  <2>. QED BY <1>5, <2>1, <2>2, <2>3 DEF Kept
<1>7. LimitsOK'
  <2>1. SameCreates
      BY <1>0, <1>3, <1>4 DEF SameCreates, Creating, At, Asked
  <2>. QED BY <1>0, <1>6, <2>1, LimitsFrame
<1>8. Holding' = Holding \cup {n}
  <2>1. \A q \in Requests : (q \in Moved' <=> q \in Moved \/ q = r) /\ (q \in Moved => req'[q] = req[q])
      BY <1>0, <1>3, <1>4 DEF Moved, At
  <2>2. r \in Moved' /\ req'[r].answer = n
      BY <1>3, <1>4, <2>1
  <2>3. {req[q].answer : q \in Moved}' = {req[q].answer : q \in Moved} \cup {n}
      BY <2>1, <2>2 DEF Moved
  <2>. QED BY <1>6, <2>3 DEF Holding
<1>9. Bytes' = Bytes /\ Bytes \in Nat
  <2>. DEFINE W == UploadSizes
              V == JobSizes
              new == JobSizes'
  <2>1. UploadSizes' = W
      BY <1>0 DEF UploadSizes, Uploads
  <2>2. new[n] = W[u] /\ \A j \in Holding : new[j] = V[j] /\ V[j] \in Nat
    <3>1. new = [j \in Jobs' |-> Size(part[jobs'[j].from])]
        BY <1>0 DEF JobSizes
    <3>2. \A j \in Holding : j \in Jobs /\ V[j] = Size(part[jobs[j].from]) /\ V[j] \in Nat
        BY <1>0, SizesAre DEF JobSizes
    <3>3. W[u] = Size(part[u])
        BY <1>0, SizesAre DEF UploadSizes
    <3>. HIDE DEF W, V, new
    <3>. QED BY <1>5, <3>1, <3>2, <3>3
  <2>3. /\ IsFiniteSet(staged) /\ (\A x \in staged : W[x] \in Nat) /\ W[u] \in Nat
        /\ IsFiniteSet(Holding) /\ n \notin Holding
      BY <1>0, <1>5, SizesAre
  <2>. HIDE DEF W, V, new, u, n
  <2>4. Total(W, staged) = Total(W, staged \ {u}) + W[u] /\ Total(W, staged \ {u}) \in Nat
    <3>. DEFINE rest == staged \ {u}
    <3>1. IsFiniteSet(rest) /\ u \notin rest /\ (\A x \in rest : W[x] \in Nat) /\ rest \cup {u} = staged
        BY <1>0, <2>3, FS_Subset
    <3>2. \A x \in rest \cup {u} : W[x] \in Nat
        BY <2>3, <3>1
    <3>. HIDE DEF rest
    <3>3. Total(W, rest \cup {u}) = Total(W, rest) + W[u] /\ Total(W, rest) \in Nat
        BY <3>1, <3>2, TotalAdd, TotalType
    <3>. QED BY Zenon, <3>1, <3>3 DEF rest
  <2>5. Total(new, Holding \cup {n}) = Total(new, Holding) + new[n]
    <3>1. \A j \in Holding \cup {n} : new[j] \in Nat
        BY <2>2, <2>3
    <3>. QED BY <2>3, <3>1, TotalAdd
  <2>6. Total(new, Holding) = Total(V, Holding) /\ Total(V, Holding) \in Nat
      BY <2>2, <2>3, TotalSame, TotalType
  <2>7. Bytes' = Total(W, staged \ {u}) + (Total(V, Holding) + W[u])
    <3>1. Bytes' = Total(W, staged \ {u}) + Total(new, Holding \cup {n})
        BY Zenon, <1>0, <1>8, <2>1 DEF Bytes, new, u
    <3>. QED BY Zenon, <2>2, <2>5, <2>6, <3>1
  <2>8. Bytes = Total(W, staged) + Total(V, Holding)
      BY DEF Bytes, W, V
  <2>. QED BY <2>3, <2>4, <2>6, <2>7, <2>8
<1>10. StorageOK'
  <2>1. \A q \in Requests :
            At(q, "upload", "store")' => At(q, "upload", "store") /\ req'[q].answer = req[q].answer
      BY <1>3, <1>4 DEF At
  <2>2. Bytes' \in Nat /\ Bytes \in Nat /\ Bytes' <= Bytes
      BY <1>9
  <2>3. ClientInv /\ StorageOK /\ ("upload" \in rushed => "upload" \in rushed')
      BY <1>0
  <2>. QED BY <2>1, <2>2, <2>3, StorageStays
<1>. QED BY <1>7, <1>10

LEMMA QuotaStep == QuotaInv /\ [BatchNext]_vars => QuotaInv'
<1>. SUFFICES ASSUME QuotaInv, [BatchNext]_vars PROVE StorageOK' /\ LimitsOK'
    BY ClientStep DEF QuotaInv
<1>0. ClientInv
    BY DEF QuotaInv
<1>1. ASSUME ServerStep PROVE StorageOK' /\ LimitsOK'
  <2>1. ASSUME NEW r \in Requests, Store(r) \/ Move(r) PROVE StorageOK' /\ LimitsOK'
    <3>1. req[r] # Idle
        BY <2>1 DEF Store, Move, At
    <3>2. Refuse(r) => Light
        BY <1>0, <3>1, RefuseLight
    <3>. QED BY <2>1, <3>2, StoreQuotas, MoveQuotas, LightQuotas
  <2>2. ASSUME NEW r \in Requests, Handler(r) PROVE StorageOK' /\ LimitsOK'
      BY <1>0, <2>1, <2>2, CountLight, InsertLight, RestartLight, EraseLight, DeleteFilesLight, LightQuotas DEF Handler
  <2>. QED BY <1>0, <1>1, <2>2, RunsLight, SweeperLight, CrashLight, LightQuotas DEF ServerStep
<1>2. ASSUME WebAsks PROVE StorageOK' /\ LimitsOK'
  <2>1. PICK r \in Requests :
          /\ req[r] = Idle
          /\ \/ AskUpload(r, Request("upload", "web", Web))
             \/ \E u \in staged : AskCreate(r, Request("create", "web", u))
             \/ \E j \in Rows : \/ AskResume(r, Request("resume", "web", j))
                               \/ AskRetry(r, Request("retry", "web", j))
                               \/ AskDelete(r, Request("delete", "web", j))
      BY <1>2 DEF WebAsks, Free
  <2>. QED BY <1>0, <2>1, AskUploadQuotas, AskCreateQuotas, OpensLight, LightQuotas
<1>3. ASSUME Send PROVE StorageOK' /\ LimitsOK'
  <2>1. PICK r \in Requests :
          /\ req[r] = Idle
          /\ \/ AskUpload(r, Request("upload", "cli", Head(cli.todo)))
             \/ AskCreate(r, Request("create", "cli", Head(cli.todo)))
      BY <1>3 DEF Send, Free
  <2>. QED BY <2>1, AskUploadQuotas, AskCreateQuotas
<1>4. CASE Upload \/ Submit \/ OutOfRoom \/ Download \/ UNCHANGED vars
  <2>1. UNCHANGED <<part, staged, jobs, req, rushed, revived>>
      BY <1>4 DEF Upload, Submit, OutOfRoom, Download, vars, server
  <2>2. SameStores /\ SameCreates
      BY <2>1 DEF SameStores, SameCreates, At, Creating, Asked
  <2>. QED BY <2>1, <2>2, ClientQuotas
<1>5. ASSUME NEW r \in Requests, Answer(r) \/ GivesUp(r) PROVE StorageOK' /\ LimitsOK'
    BY <1>5, AnswerQuotas, GivesUpQuotas
<1>. QED BY <1>1, <1>2, <1>3, <1>4, <1>5 DEF BatchNext

(* What the uploads that wait and the jobs' inputs take stays within the   *)
(* quota (services/storage.py:104), and the jobs queued or running by      *)
(* their creation within max_concurrent_jobs (api/jobs.py:268), unless two *)
(* requests of a kind were handled at the same time.                       *)
THEOREM QuotasHold == BatchSpec => []QuotasKept
<1>1. BatchInit => StorageOK /\ LimitsOK
  <2>. SUFFICES ASSUME BatchInit PROVE StorageOK /\ LimitsOK
      OBVIOUS
  <2>1. staged = {} /\ Jobs = {} /\ \A r \in Requests : req[r] = Idle
      BY DEF BatchInit, Init, Jobs
  <2>2. Holding = {} /\ Fresh = {} /\ Asked("create") = {} /\ \A r \in Requests : \A op, pc : ~At(r, op, pc)
      BY <2>1 DEF Holding, Kept, Rows, Moved, Fresh, Asked, At
  <2>3. Bytes = 0
      BY <2>1, <2>2, TotalEmpty DEF Bytes
  <2>4. Cardinality(Fresh) = 0
      BY <2>2, FS_EmptySet
  <2>. QED BY <2>2, <2>3, <2>4, SubmissionAssumption DEF StorageOK, StoresOK, LimitsOK, Creating
<1>2. QuotaInv => QuotasKept
  <2>. SUFFICES ASSUME QuotaInv PROVE StorageBounded /\ JobsBounded
      BY DEF QuotasKept
  <2>1. JobsBounded
      BY DEF QuotaInv, LimitsOK, JobsBounded, Fresh
  <2>2. StorageBounded
    <3>1. /\ PendingUploadBytes = Total(UploadSizes, staged)
          /\ MapThenSumSet(InputSize, Kept) = Total(JobSizes, Kept)
          /\ Total(UploadSizes, staged) \in Nat /\ Total(JobSizes, Holding) \in Nat
        BY PendingIsTotal, KeptIsTotal, SizesAre, TotalType DEF QuotaInv
    <3>2. Total(JobSizes, Kept) \in Nat /\ Total(JobSizes, Kept) <= Total(JobSizes, Holding)
      <4>1. IsFiniteSet(Holding) /\ Kept \subseteq Holding /\ \A j \in Holding : JobSizes[j] \in Nat
          BY SizesAre DEF QuotaInv
      <4>. QED BY <4>1, TotalMonotone
    <3>3. "upload" \notin rushed => Bytes <= Limit
        BY DEF QuotaInv, StorageOK
    <3>. QED BY <3>1, <3>2, <3>3, SubmissionAssumption DEF StorageBounded, Bytes
  <2>. QED BY <2>1, <2>2
<1>3. BatchSpec => []QuotaInv
  <2>1. BatchSpec => []ClientInv
      BY ClientInvHolds
  <2>2. BatchInit /\ ClientInv => QuotaInv
      BY <1>1 DEF QuotaInv
  <2>. QED BY <2>1, <2>2, QuotaStep, PTL DEF BatchSpec
<1>. QED BY <1>2, <1>3, PTL
=============================================================================
