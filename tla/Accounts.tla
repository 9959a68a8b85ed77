------------------------------ MODULE Accounts ------------------------------
(***************************************************************************)
(* Accounts and what hangs on them: administrators and their last-one      *)
(* rule (api/users.py, services/users.py), the login through an identity   *)
(* provider (api/auth.py, core/oidc.py), API tokens (api/api_tokens.py),   *)
(* projects with the default one every user has (api/projects.py,          *)
(* services/projects.py), and the jobs filed in them.                      *)
(*                                                                         *)
(* A handler authenticates, reads what its checks need, and commits later: *)
(* nothing locks what it has read.  The statements of one commit take      *)
(* effect together; unique and foreign keys are checked there.             *)
(***************************************************************************)
EXTENDS Naturals, FiniteSets

CONSTANTS
    Users,          \* account names; an identity provider's subject has one
    Root,           \* BOOTSTRAP_ADMIN_USERNAME
    AdminGroup,     \* is OIDC_ADMIN_GROUP set?
    NumProjects,    \* bound: projects ever made are 1..NumProjects
    Jobs,           \* bound: jobs ever submitted
    Slots,          \* handlers that run at one time
    MaxTokens,      \* MAX_TOKENS_PER_USER
    MaxRequests,    \* bound: requests served
    NoUser

ASSUME AccountsAssumption ==
    /\ Root \in Users /\ NoUser \notin Users
    /\ AdminGroup \in BOOLEAN
    /\ IsFiniteSet(Slots)
    /\ NumProjects \in Nat /\ MaxTokens \in Nat /\ MaxRequests \in Nat

VARIABLES
    user,       \* the users table
    tokens,     \* how many API tokens a user has
    project,    \* the projects table
    job,        \* the jobs table
    req,        \* the handlers: their request and what they have read
    served,     \* bound: requests begun
    overlap,    \* history: two handlers took an administrator away at a time
    named,      \* history: users who gave a project of theirs the name of
                \* the default one, or took it away
    excused     \* history: jobs filed in a project while it was being deleted

tables == <<user, tokens, project, job>>
history == <<overlap, named, excused>>
vars == <<tables, req, served, history>>

Projects == 1..NumProjects
NoProject == 0
MakeOne == 0        \* ensure_default_project has found none to take
Request(pc, op, by, on, arg, role) ==
    [pc |-> pc, op |-> op, by |-> by, on |-> on, arg |-> arg, role |-> role,
     default |-> MakeOne, moved |-> {}, stale |-> FALSE, late |-> {}]
Idle == Request("idle", "none", NoUser, NoUser, "none", "none")
New == [status |-> "new", role |-> "user"]
Unmade == [owner |-> NoUser, name |-> "new", default |-> FALSE]
Deleted == [Unmade EXCEPT !.name = "gone"]
NoJob == [owner |-> NoUser, project |-> NoProject, status |-> "new"]
Gone == [NoJob EXCEPT !.status = "gone"]

Exists(u) == user[u].status \in {"on", "off"}
Admins == {u \in Users : user[u].status = "on" /\ user[u].role = "admin"}
ActiveJobs_Running(u) == {j \in Jobs : job[j].owner = u /\ job[j].status = "running"}   \* mutant
ActiveJobs(u) == {j \in Jobs : job[j].owner = u /\ job[j].status \in {"queued", "running"}}
Owned(u) == {p \in Projects : project[p].owner = u}
Default(u) == {p \in Owned(u) : project[p].default}
Named(u, n) == {p \in Owned(u) : project[p].name = n}
Fresh == {p \in Projects : project[p] = Unmade /\ \A q \in 1..(p - 1) : project[q] # Unmade}

(* The first start makes the administrator, or the first login will. *)
Init ==
    /\ user \in [Users -> {New, [status |-> "on", role |-> "user"], [status |-> "on", role |-> "admin"]}]
    /\ \/ user[Root] = [status |-> "on", role |-> "admin"]
       \/ \A u \in Users : user[u] = New
    /\ tokens = [u \in Users |-> 0]
    /\ project = [p \in Projects |-> Unmade]
    /\ job = [j \in Jobs |-> NoJob]
    /\ req = [r \in Slots |-> Idle]
    /\ served = 0 /\ overlap = FALSE /\ named = {} /\ excused = {}

-----------------------------------------------------------------------------
(* A handler: it authenticates, reads, and commits. *)

Begin(r, pc, op, by, on, arg) ==
    /\ req[r] = Idle /\ served < MaxRequests
    /\ served' = served + 1
    /\ req' = [req EXCEPT ![r] =
          Request(pc, op, by, on, arg, IF on \in Users THEN user[on].role ELSE "none")]
    /\ UNCHANGED <<tables, history>>

Signed(u) == user[u].status = "on"
At(r, pc, ops) == req[r].pc = pc /\ req[r].op \in ops
Read(r, handler) == req' = [req EXCEPT ![r] = handler] /\ UNCHANGED <<tables, served, history>>
Refused(r) == Read(r, Idle)

(* The answer of r.  When its commit takes an administrator away, what the *)
(* other handlers have read is stale; the jobs it files come late for      *)
(* those that delete their project or their user.                          *)
Done(r, filed) ==
    LET lost == ~(Admins \subseteq Admins')
        Late(q) == {j \in filed : \/ req[q].op = "dropproject" /\ req[q].on = job'[j].project
                                  \/ req[q].op = "remove" /\ req[q].on = job'[j].owner}
    IN /\ req' = [q \in Slots |->
                    IF q = r THEN Idle
                    ELSE IF req[q] = Idle THEN Idle
                    ELSE [req[q] EXCEPT !.stale = @ \/ lost, !.late = @ \cup Late(q)]]
       /\ overlap' = (overlap \/ (lost /\ req[r].stale))
       /\ UNCHANGED served

-----------------------------------------------------------------------------
(* Users and roles. *)

(* would_orphan_admin, for a user whose row was read with that role *)
WouldOrphan_CountsInactive(u, role) ==    \* mutant
    role = "admin" /\ {v \in Users : Exists(v) /\ user[v].role = "admin"} \subseteq {u}
WouldOrphan(u, role) == role = "admin" /\ Admins \subseteq {u}

AskUpdate(r) == \E by \in Admins, on \in Users, change \in {"admin", "user", "on", "off"} :
    Exists(on) /\ Begin(r, "check", "update", by, on, change)
AskRemove(r) == \E by \in Admins, on \in Users :
    on # by /\ Exists(on) /\ Begin(r, "check", "remove", by, on, "none")
AskCreate(r) == \E by \in Admins, on \in Users, role \in {"admin", "user"} :
    user[on] = New /\ Begin(r, "commit", "create", by, on, role)

CheckUpdate(r) ==
    /\ At(r, "check", {"update"})
    /\ IF req[r].arg \in {"user", "off"} /\ WouldOrphan(req[r].on, req[r].role)
       THEN Refused(r)
       ELSE Read(r, [req[r] EXCEPT !.pc = "commit"])

CheckRemove(r) ==
    /\ At(r, "check", {"remove"})
    /\ IF WouldOrphan(req[r].on, req[r].role) \/ ActiveJobs(req[r].on) # {}
       THEN Refused(r)
       ELSE Read(r, [req[r] EXCEPT !.pc = "commit"])

(* Only a role that differs from the one read is written. *)
Update(r) ==
    LET u == req[r].on  change == req[r].arg
    IN /\ At(r, "commit", {"update"})
       /\ IF ~Exists(u) THEN Refused(r)
          ELSE /\ user' = CASE change \in {"on", "off"} -> [user EXCEPT ![u].status = change]
                            [] change = req[r].role -> user
                            [] OTHER -> [user EXCEPT ![u].role = change]
               /\ UNCHANGED <<tokens, project, job, named, excused>>
               /\ Done(r, {})

Create(r) ==
    /\ At(r, "commit", {"create"})
    /\ IF user[req[r].on] # New THEN Refused(r)
       ELSE /\ user' = [user EXCEPT ![req[r].on] = [status |-> "on", role |-> req[r].arg]]
            /\ UNCHANGED <<tokens, project, job, named, excused>>
            /\ Done(r, {})

JobsWithout(u) == [j \in Jobs |-> IF job[j].owner = u THEN Gone ELSE job[j]]

(* The foreign keys take tokens, projects and jobs along. *)
Remove(r) ==
    LET u == req[r].on
    IN /\ At(r, "commit", {"remove"})
       /\ user' = [user EXCEPT ![u] = [New EXCEPT !.status = "gone"]]
       /\ tokens' = [tokens EXCEPT ![u] = 0]
       /\ project' = [p \in Projects |-> IF p \in Owned(u) THEN Deleted ELSE project[p]]
       /\ job' = JobsWithout(u)
       /\ UNCHANGED <<named, excused>>
       /\ Done(r, {})

-----------------------------------------------------------------------------
(* Login through the identity provider; arg says whether it lists the      *)
(* subject among the administrators.                                       *)

AskLogin(r) == \E u \in Users, group \in {"in", "out"} :
    /\ user[u].status # "gone" /\ group = "in" => AdminGroup
    /\ Begin(r, "idp", "login", NoUser, u, group)

(* The callback takes the pending state once, and reads the user. *)
Callback(r) ==
    LET u == req[r].on
        isAdmin == AdminGroup /\ req[r].arg = "in"
        role == IF Exists(u) THEN user[u].role
                ELSE IF isAdmin \/ \A v \in Users : ~Exists(v) THEN "admin" ELSE "user"
        synced == IF isAdmin THEN "admin"
                  ELSE IF ~AdminGroup \/ WouldOrphan(u, role) THEN role ELSE "user"
    IN /\ At(r, "idp", {"login"})
       /\ IF user[u].status = "off" \/ user[u].status = "gone" THEN Refused(r)
          ELSE Read(r, [req[r] EXCEPT !.pc = "commit", !.arg = synced,
                                      !.role = IF Exists(u) THEN role ELSE "none"])

Login(r) ==
    LET u == req[r].on
        found == req[r].role # "none"
    IN /\ At(r, "commit", {"login"})
       /\ IF found # Exists(u) THEN Refused(r)
          ELSE /\ user' = IF ~found THEN [user EXCEPT ![u] = [status |-> "on", role |-> req[r].arg]]
                        ELSE IF req[r].arg = req[r].role THEN user
                        ELSE [user EXCEPT ![u].role = req[r].arg]
               /\ UNCHANGED <<tokens, project, job, named, excused>>
               /\ Done(r, {})

(* The API stops, with its handlers, and starts: _ensure_admin. *)
Restart ==
    /\ served < MaxRequests /\ served' = served + 1
    /\ req' = [r \in Slots |-> Idle]
    /\ user' = CASE user[Root] = New -> [user EXCEPT ![Root] = [status |-> "on", role |-> "admin"]]
                 [] Exists(Root) -> [user EXCEPT ![Root].role = "admin"]
                 [] OTHER -> user
    /\ UNCHANGED <<tokens, project, job, history>>

-----------------------------------------------------------------------------
(* API tokens, which only a browser session may manage. *)

AskToken(r) == \E by \in Users : Signed(by) /\ Begin(r, "check", "token", by, NoUser, "none")
TokensFull(u) == tokens[u] >= MaxTokens
CheckToken(r) ==
    /\ At(r, "check", {"token"})
    /\ IF TokensFull(req[r].by) THEN Refused(r)
       ELSE Read(r, [req[r] EXCEPT !.pc = "commit"])
MakeToken(r) ==
    /\ At(r, "commit", {"token"})
    /\ IF ~Exists(req[r].by) THEN Refused(r)
       ELSE /\ tokens' = [tokens EXCEPT ![req[r].by] = @ + 1]
            /\ UNCHANGED <<user, project, job, named, excused>>
            /\ Done(r, {})
DropToken(u) ==
    /\ Signed(u) /\ tokens[u] > 0
    /\ tokens' = [tokens EXCEPT ![u] = @ - 1]
    /\ UNCHANGED <<user, project, job, req, served, history>>

-----------------------------------------------------------------------------
(* Projects.  ensure_default_project reads first, and makes or takes the   *)
(* default with the commit of its caller.                                  *)

Look(r, owner) == [req[r] EXCEPT
    !.pc = IF req[r].op = "dropproject" THEN "move" ELSE "commit",
    !.default = IF Default(owner) # {} THEN CHOOSE p \in Default(owner) : TRUE
                ELSE IF Named(owner, "default") # {} THEN CHOOSE p \in Named(owner, "default") : TRUE
                ELSE MakeOne]

Settled_NotUnique(r, owner) ==    \* mutant
    IF req[r].default = MakeOne /\ Exists(owner) THEN CHOOSE p \in Fresh : TRUE ELSE req[r].default
(* The default after it, 0 when the commit fails. *)
Settled(r, owner) ==
    IF req[r].default # MakeOne THEN IF project[req[r].default].owner = owner THEN req[r].default ELSE 0
    ELSE IF Named(owner, "default") = {} THEN IF Exists(owner) THEN CHOOSE p \in Fresh : TRUE ELSE 0
    ELSE IF Default(owner) # {} THEN CHOOSE p \in Default(owner) : TRUE ELSE 0
WithDefault(r, owner) ==
    LET d == Settled(r, owner)
    IN IF d \in Fresh
       THEN [project EXCEPT ![d] = [owner |-> owner, name |-> "default", default |-> TRUE]]
       ELSE [project EXCEPT ![d].default = TRUE]

Room == Cardinality({p \in Projects : project[p] = Unmade}) >= Cardinality(Slots)

AskList(r) == \E by \in Users : Signed(by) /\ Room /\ Begin(r, "look", "list", by, NoUser, "none")
AskProject(r) == \E by \in Users, name \in {"default", "other"} :
    Signed(by) /\ Room /\ Begin(r, "commit", "newproject", by, NoUser, name)
AskRename(r) == \E by \in Users, name \in {"default", "other"} : \E p \in Owned(by) :
    Signed(by) /\ Begin(r, "commit", "rename", by, p, name)
Droppable(p) == ~project[p].default
AskDrop(r) == \E by \in Users : \E p \in Owned(by) :
    Signed(by) /\ Droppable(p) /\ Room /\ Begin(r, "look", "dropproject", by, p, "none")

LookUp(r) == At(r, "look", {"list", "dropproject", "submit", "move"}) /\ Read(r, Look(r, req[r].by))

List(r) ==
    /\ At(r, "commit", {"list"})
    /\ IF Settled(r, req[r].by) = 0 THEN Refused(r)
       ELSE /\ project' = WithDefault(r, req[r].by)
            /\ UNCHANGED <<user, tokens, job, named, excused>>
            /\ Done(r, {})

Naming(r) == named' = IF req[r].arg = "default" \/ (req[r].op = "rename" /\ project[req[r].on].name = "default")
                      THEN named \cup {req[r].by} ELSE named

MakeProject(r) ==
    LET by == req[r].by
    IN /\ At(r, "commit", {"newproject"})
       /\ IF ~Exists(by) \/ Named(by, req[r].arg) # {} THEN Refused(r)
          ELSE /\ project' = [project EXCEPT ![CHOOSE p \in Fresh : TRUE] =
                                [owner |-> by, name |-> req[r].arg, default |-> FALSE]]
               /\ UNCHANGED <<user, tokens, job, excused>>
               /\ Naming(r)
               /\ Done(r, {})

Rename(r) ==
    LET by == req[r].by
    IN /\ At(r, "commit", {"rename"})
       /\ IF project[req[r].on].owner # by \/ Named(by, req[r].arg) \ {req[r].on} # {} THEN Refused(r)
          ELSE /\ project' = [project EXCEPT ![req[r].on].name = req[r].arg]
               /\ UNCHANGED <<user, tokens, job, excused>>
               /\ Naming(r)
               /\ Done(r, {})

Inside_Ended(p) == {j \in Jobs : job[j].project = p /\ job[j].status = "ended"}   \* mutant
Inside(p) == {j \in Jobs : job[j].project = p}

(* delete_project moves the jobs it sees to the default project, then      *)
(* deletes the row: the foreign key takes the project of those it did not  *)
(* see.                                                                    *)
MoveJobs(r) ==
    /\ At(r, "move", {"dropproject"})
    /\ Read(r, [req[r] EXCEPT !.pc = "commit", !.moved = Inside(req[r].on)])
DropProject(r) ==
    LET p == req[r].on
        d == Settled(r, req[r].by)
    IN /\ At(r, "commit", {"dropproject"})
       /\ IF d = 0 THEN Refused(r)
          ELSE /\ project' = [WithDefault(r, req[r].by) EXCEPT ![p] = Deleted]
               /\ job' = [j \in Jobs |->
                    IF job[j].project # p THEN job[j]
                    ELSE [job[j] EXCEPT !.project = IF j \in req[r].moved /\ d # p THEN d ELSE NoProject]]
               /\ excused' = excused \cup {j \in req[r].late : job[j].project = p}
               /\ UNCHANGED <<user, tokens, named>>
               /\ Done(r, {})

-----------------------------------------------------------------------------
(* Jobs are filed in a project of their owner. *)

AskSubmit(r) == \E by \in Users :
    /\ Signed(by) /\ \E j \in Jobs : job[j] = NoJob
    /\ \/ Room /\ Begin(r, "look", "submit", by, NoProject, "none")
       \/ \E p \in Owned(by) : Begin(r, "commit", "submit", by, p, "none")
AskMove(r) == \E by \in Users :
    /\ Signed(by) /\ \E j \in Jobs : job[j].owner = by
    /\ \/ Room /\ Begin(r, "look", "move", by, NoProject, "none")
       \/ \E p \in Owned(by) : Begin(r, "commit", "move", by, p, "none")

(* _check_project has settled where to: the project named, or the default. *)
Place(r) == IF req[r].on # NoProject
            THEN IF project[req[r].on].owner = req[r].by THEN req[r].on ELSE 0
            ELSE Settled(r, req[r].by)

File(r) ==
    LET by == req[r].by
        place == Place(r)
        filed == IF req[r].op = "submit" THEN {CHOOSE j \in Jobs : job[j] = NoJob}
                 ELSE {j \in Jobs : job[j].owner = by}
    IN /\ At(r, "commit", {"submit", "move"})
       /\ IF place = 0 \/ (req[r].op = "submit" /\ \A j \in Jobs : job[j] # NoJob) THEN Refused(r)
          ELSE /\ project' = IF req[r].on = NoProject THEN WithDefault(r, by) ELSE project
               /\ job' = [j \in Jobs |->
                    IF j \notin filed THEN job[j]
                    ELSE [owner |-> by, project |-> place,
                          status |-> IF req[r].op = "submit" THEN "queued" ELSE job[j].status]]
               /\ UNCHANGED <<user, tokens, named, excused>>
               /\ Done(r, filed)

(* The worker. *)
Work(j) ==
    /\ \/ job[j].status = "queued" /\ job' = [job EXCEPT ![j].status = "running"]
       \/ job[j].status = "running" /\ job' = [job EXCEPT ![j].status = "ended"]
    /\ UNCHANGED <<user, tokens, project, req, served, history>>

-----------------------------------------------------------------------------
UserStep(r) == \/ AskUpdate(r) \/ AskRemove(r) \/ AskCreate(r) \/ CheckUpdate(r) \/ CheckRemove(r)
               \/ Update(r) \/ Create(r) \/ Remove(r) \/ AskLogin(r) \/ Callback(r) \/ Login(r)
               \/ AskToken(r) \/ CheckToken(r) \/ MakeToken(r)
ProjectStep(r) == \/ AskList(r) \/ AskProject(r) \/ AskRename(r) \/ AskDrop(r) \/ LookUp(r) \/ List(r)
                  \/ MakeProject(r) \/ Rename(r) \/ MoveJobs(r) \/ DropProject(r)
                  \/ AskSubmit(r) \/ AskMove(r) \/ File(r)
Next == \/ \E r \in Slots : UserStep(r) \/ ProjectStep(r)
        \/ \E u \in Users : DropToken(u)
        \/ \E j \in Jobs : Work(j)
        \/ Restart
Spec == Init /\ [][Next]_vars

-----------------------------------------------------------------------------
(* 系统必须保留至少一个启用状态的管理员 (api/users.py:88, 114): there is    *)
(* an active administrator as long as there are users, unless two handlers *)
(* took one away at a time, each counting on the other's.                  *)
LastAdminKept == (\E u \in Users : Exists(u)) /\ ~overlap => Admins # {}

(* 每个用户恰好一个 (models.py:255): never two default projects, whoever   *)
(* looks for one and makes it at a time, unless the user renamed it.       *)
OneDefault == \A u \in Users \ named : Cardinality(Default(u)) =< 1

(* 任务总要归属某个项目 (api/jobs.py:110): a job is in a project of its    *)
(* owner, through every deletion and move; except a job filed while the    *)
(* project was being deleted, and those of users who gave a project the    *)
(* name of the default one.                                                *)
JobsHaveProject == \A j \in Jobs :
    job[j].owner \in Users =>
        \/ job[j].project \in Owned(job[j].owner)
        \/ job[j].project = NoProject /\ (j \in excused \/ job[j].owner \in named)

(* 该用户还有进行中的任务 (api/users.py:123): deleting a user drops no     *)
(* queued or running job but those submitted while it was under way.       *)
ActiveJobsKept == [][\A j \in Jobs :
    job[j].status \in {"queued", "running"} /\ job'[j].status = "gone" =>
        \E r \in Slots : req[r].op = "remove" /\ j \in req[r].late]_vars

-----------------------------------------------------------------------------
=============================================================================
