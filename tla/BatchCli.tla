------------------------------ MODULE BatchCli ------------------------------
(***************************************************************************)
(* The command-line client (plugins/batch-inference/scripts/bic.py) beside *)
(* the web page: it uploads the parts of a data set, notes the uploads in  *)
(* a manifest, submits a job for each, notes the jobs, fetches their       *)
(* results and joins them to the data.  An answer may be lost, and the     *)
(* user runs the command again.                                            *)
(***************************************************************************)
EXTENDS Submission, SequencesExt

CONSTANTS
    Parts,          \* the files of the data set
    FirstParts      \* bound: those that the first upload begins with

VARIABLES
    cli,        \* the command that runs
    manifest,   \* batch_manifest.json
    local,      \* the files downloaded: of which job, and what they say
    unheard     \* history: uploads whose job was created without the client hearing of it

vars == <<server, cli, manifest, local, unheard>>
client == <<cli, manifest, local, unheard>>

NoCommand == [command |-> "none", todo |-> <<>>, got |-> <<>>]
Web == 0    \* what the web page uploads

ASSUME BatchAssumption ==
    /\ IsFiniteSet(Parts) /\ Parts = 1..Cardinality(Parts)
    /\ \A p \in Parts \cup {Web} : Size(p) \in Nat

BatchInit ==
    /\ Init /\ cli = NoCommand /\ manifest = [uploads |-> <<>>, jobs |-> <<>>]
    /\ local = {} /\ unheard = {}

Waiting == \E r \in Requests : req[r] # Idle /\ req[r].by = "cli"
Idling == cli = NoCommand

(* Bound: uploads asked for *)
MayUpload == Len(part) + Cardinality(Asked("upload")) < MaxUploads

(* The web page asks; jobs can be asked for from anywhere (cmd_control). *)
WebAsks ==
    /\ \E r \in Free :
        \/ MayUpload /\ AskUpload(r, Request("upload", "web", Web)) /\ UNCHANGED events
        \/ /\ UNCHANGED events
           /\ \E u \in staged : part[u] = Web /\ AskCreate(r, Request("create", "web", u))
        \/ /\ Happens
           /\ \E j \in Rows : \/ AskResume(r, Request("resume", "web", j))
                            \/ AskRetry(r, Request("retry", "web", j))
                            \/ AskDelete(r, Request("delete", "web", j))
    /\ UNCHANGED client

-----------------------------------------------------------------------------
(* cmd_upload of some of the parts, in order; the manifest comes at the end *)
Upload ==
    /\ Idling /\ MayUpload
    /\ \E first \in Parts, last \in Parts :
        /\ first =< last /\ (part = <<>> => first \in FirstParts)
        /\ cli' = [NoCommand EXCEPT !.command = "upload",
                                    !.todo = [i \in 1..(last - first + 1) |-> first + i - 1]]
    /\ UNCHANGED <<server, manifest, local, unheard>>
(* cmd_submit of the uploads in the manifest *)
Submit ==
    /\ Idling /\ manifest.uploads # <<>>
    /\ cli' = [NoCommand EXCEPT !.command = "submit", !.todo = manifest.uploads]
    /\ UNCHANGED <<server, manifest, local, unheard>>
(* Client.call *)
Send ==
    /\ ~Waiting /\ cli.todo # <<>>
    /\ \E r \in Free :
        \/ /\ cli.command = "upload" /\ MayUpload
           /\ AskUpload(r, Request("upload", "cli", Head(cli.todo)))
        \/ cli.command = "submit" /\ AskCreate(r, Request("create", "cli", Head(cli.todo)))
    /\ UNCHANGED <<events, client>>

(* Bound: nothing more can be uploaded. *)
NoRoom == cli.command = "upload" /\ ~Waiting /\ Len(part) >= MaxUploads

Uploaded(got) ==
    IF Len(cli.todo) = 1 THEN [uploads |-> got, jobs |-> <<>>] ELSE manifest
Created_AtEnd(got) ==    \* mutant
    IF Len(cli.todo) = 1 THEN [manifest EXCEPT !.jobs = @ \o got] ELSE manifest
Created(got) == [manifest EXCEPT !.jobs = Append(@, got[Len(got)])]

(* An answer, good or bad; a bad one ends the command. *)
Answer(r) ==
    /\ req[r] # Idle /\ req[r].pc = "done"
    /\ req' = [req EXCEPT ![r] = Idle]
    /\ LET got == Append(cli.got, req[r].answer)
           left == Tail(cli.todo)
       IN IF req[r].answer = Refused
          THEN /\ cli' = NoCommand /\ UNCHANGED manifest
               /\ unheard' = IF req[r].op = "create" THEN unheard \cup {req[r].what} ELSE unheard
          ELSE /\ cli' = IF left = <<>> THEN NoCommand ELSE [cli EXCEPT !.todo = left, !.got = got]
               /\ manifest' = IF cli.command = "upload" THEN Uploaded(got) ELSE Created(got)
               /\ UNCHANGED unheard
    /\ UNCHANGED <<filesVars, sweep, history, events, local>>
(* No answer in time, or the connection breaks: the handler goes on. *)
GivesUp(r) ==
    /\ req[r] # Idle /\ req[r].by = "cli" /\ req[r].pc # "done" /\ Happens
    /\ req' = [req EXCEPT ![r].by = "nobody"]
    /\ cli' = NoCommand
    /\ unheard' = IF req[r].op = "create" THEN unheard \cup {req[r].what} ELSE unheard
    /\ UNCHANGED <<filesVars, sweep, history, manifest, local>>
OutOfRoom ==
    /\ NoRoom /\ cli' = NoCommand
    /\ UNCHANGED <<server, manifest, local, unheard>>

-----------------------------------------------------------------------------
(* cmd_download: download_results, for a job in the manifest or another;   *)
(* its file replaces the one fetched before.                               *)
Downloadable(j) ==
    /\ j \in Rows /\ ~jobs[j].purged
    /\ jobs[j].status \in {"succeeded", "completed", "canceled"} /\ jobs[j].result # "none"
Download ==
    /\ Idling
    /\ \E j \in Rows :
        /\ Downloadable(j) /\ part[jobs[j].from] \in Parts
        /\ local' = {file \in local : file.job # j} \cup
                       {[job |-> j, item |-> part[jobs[j].from], outcome |-> jobs[j].result]}
    /\ UNCHANGED <<server, cli, manifest, unheard>>

(* _load_results: file by file; an item keeps what was read first, unless  *)
(* that is an error and this is not.                                       *)
LoadResults_LastWins(files) ==    \* mutant
    LET load[n \in 0..Len(files)] ==
            IF n = 0 THEN [p \in Parts |-> "missing"]
            ELSE [load[n - 1] EXCEPT ![files[n].item] = files[n].outcome]
    IN load[Len(files)]
Keeping(results, file) ==
    [results EXCEPT ![file.item] =
        IF @ = "missing" \/ (@ = "error" /\ file.outcome = "ok") THEN file.outcome ELSE @]
LoadResults(files) ==
    LET load[n \in 0..Len(files)] ==
            IF n = 0 THEN [p \in Parts |-> "missing"] ELSE Keeping(load[n - 1], files[n])
    IN load[Len(files)]

BatchNext ==
    \/ ServerStep /\ UNCHANGED client
    \/ WebAsks \/ Upload \/ Submit \/ Send \/ OutOfRoom \/ Download
    \/ \E r \in Requests : Answer(r) \/ GivesUp(r)
BatchSpec == BatchInit /\ [][BatchNext]_vars

-----------------------------------------------------------------------------
(* The manifest lists every job made from its uploads (bic.py:796), unless *)
(* the client was told that the job could not be created or heard nothing: *)
(* a command that stops half way forgets none of those before.             *)
ManifestComplete == Idling =>
    \A i \in DOMAIN manifest.uploads, j \in Jobs :
        jobs[j].from = manifest.uploads[i]
            => j \in {manifest.jobs[k] : k \in DOMAIN manifest.jobs} \/ jobs[j].from \in unheard

(* 同一条既失败过又重试成功时，保留成功的那条 (bic.py:964): an item is joined as    *)
(* answered if some downloaded file has its answer, in whatever order the  *)
(* files of a part that was submitted twice are read.                      *)
JoinKeepsAnswers ==
    \A files \in SetToSeqs(local), p \in Parts :
        LET found == {file.outcome : file \in {f \in local : f.item = p}}
        IN LoadResults(files)[p] = IF "ok" \in found THEN "ok"
                                   ELSE IF "error" \in found THEN "error" ELSE "missing"
=============================================================================
