--------------------------- MODULE AccountsProofs ---------------------------
(***************************************************************************)
(* Proofs about Accounts.  First, an administrator is left: what a handler *)
(* that takes an administrator away relies on is that, since it began, no  *)
(* other one has; then its caller is still an administrator, and so is     *)
(* whoever it saw besides its target.  Then projects and jobs: one default *)
(* project per user, every job in a project of its owner, and no active    *)
(* job lost with its owner.                                                *)
(***************************************************************************)
EXTENDS Accounts, FiniteSetTheorems, TLAPS

Statuses == {"new", "on", "off", "gone"}
UsersOK == user \in [Users -> [status : Statuses, role : {"admin", "user"}]]

(* A handler is a record of these fields, whatever they hold. *)
Handler(h) ==
    /\ h = [pc |-> h.pc, op |-> h.op, by |-> h.by, on |-> h.on, arg |-> h.arg, role |-> h.role,
            default |-> h.default, moved |-> h.moved, stale |-> h.stale, late |-> h.late]
    /\ h.stale \in BOOLEAN
RequestsOK == /\ req = [r \in Slots |-> req[r]]
              /\ \A r \in Slots : Handler(req[r])

(* Another administrator than the target. *)
OtherThan(u) == Admins \ {u} # {}

(* What the callers asked for. *)
Asked(h) ==
    /\ h.op \in {"update", "create", "login"} => h.on \in Users
    /\ h.op = "update" => h.arg \in {"admin", "user", "on", "off"}
    /\ h.op = "create" => h.arg \in {"admin", "user"}
    /\ h.op = "login" /\ h.pc = "commit" =>
          h.arg \in {"admin", "user"} /\ h.role \in {"admin", "user", "none"}
(* What a handler that may take an administrator away can count on. *)
Relies(h) ==
    /\ Asked(h)
    /\ h.op \in {"update", "remove"} /\ h.pc \in {"check", "commit"} /\ ~h.stale => h.by \in Admins
    /\ h.op = "remove" => h.by # h.on
    /\ h.op = "update" /\ h.pc = "check" /\ h.by = h.on => h.role = "admin"
    /\ h.op = "update" /\ h.pc = "commit" /\ h.arg \in {"user", "off"} /\ ~h.stale => OtherThan(h.on)
    /\ h.op = "login" /\ h.pc = "commit" /\ h.role = "admin" /\ h.arg = "user" /\ ~h.stale => OtherThan(h.on)
(* One that may make an account knows that there is an administrator. *)
Makes(h) ==
    \/ h.op \in {"update", "remove", "create"}
    \/ h.op = "login" /\ h.pc = "commit" /\ h.arg = "user"
Somebody == ~overlap => Admins # {}

Inv ==
    /\ UsersOK /\ RequestsOK
    /\ overlap \in BOOLEAN
    /\ LastAdminKept
    /\ \A r \in Slots : Relies(req[r]) /\ (Makes(req[r]) => Somebody)

-----------------------------------------------------------------------------
LEMMA IdleIsFine == Handler(Idle) /\ Relies(Idle) /\ ~Makes(Idle)
BY DEF Handler, Idle, Request, Relies, Asked, Makes

LEMMA InvAtStart == Init => Inv
<1>. SUFFICES ASSUME Init PROVE Inv
    OBVIOUS
<1>1. UsersOK
    BY DEF Init, UsersOK, Statuses, New
<1>2. RequestsOK
    BY IdleIsFine DEF Init, RequestsOK
<1>3. overlap \in BOOLEAN
    BY DEF Init
<1>4. LastAdminKept
  <2>1. CASE user[Root] = [status |-> "on", role |-> "admin"]
    BY <2>1, AccountsAssumption DEF LastAdminKept, Admins
  <2>2. CASE \A u \in Users : user[u] = New
    BY <2>2 DEF LastAdminKept, Exists, New
  <2>. QED BY <2>1, <2>2 DEF Init
<1>5. \A r \in Slots : Relies(req[r]) /\ (Makes(req[r]) => Somebody)
    BY IdleIsFine DEF Init
<1>. QED BY <1>1, <1>2, <1>3, <1>4, <1>5 DEF Inv

-----------------------------------------------------------------------------
(* Steps that leave the accounts alone: one handler moves on, and what it  *)
(* relies on has to be shown anew.                                         *)
LEMMA QuietStep ==
    ASSUME Inv, UNCHANGED <<user, overlap>>, NEW r \in Slots, NEW h,
           req' = [req EXCEPT ![r] = h],
           Handler(h), Relies(h), Makes(h) => Somebody
    PROVE  Inv'
<1>1. Admins' = Admins /\ \A u \in Users : Exists(u)' <=> Exists(u)
    BY DEF Admins, Exists
<1>2. \A q \in Slots : req'[q] = IF q = r THEN h ELSE req[q]
    BY DEF Inv, RequestsOK
<1>3. RequestsOK'
    BY <1>2 DEF Inv, RequestsOK, Handler
<1>4. UsersOK' /\ (overlap \in BOOLEAN)' /\ LastAdminKept' /\ (Somebody' <=> Somebody)
    BY <1>1 DEF Inv, UsersOK, LastAdminKept, Somebody
<1>5. ASSUME NEW q \in Slots PROVE (Relies(req[q]) /\ (Makes(req[q]) => Somebody))'
    BY <1>1, <1>2, <1>4 DEF Inv, Relies, Asked, Makes, OtherThan
<1>. QED BY <1>3, <1>4, <1>5 DEF Inv

(* Commits: the others learn whether an administrator was lost.            *)
LEMMA CommitStep ==
    ASSUME Inv, NEW r \in Slots, NEW filed, Done(r, filed), UsersOK',
           Admins \subseteq Admins' \/ req[r].stale \/ Admins' # {},
           (\E u \in Users : Exists(u))' => (\E u \in Users : Exists(u)) \/ Admins' # {} \/ Somebody
    PROVE  Inv'
<1>. DEFINE lost == ~(Admins \subseteq Admins')
            Late(q) == {j \in filed : \/ req[q].op = "dropproject" /\ req[q].on = job'[j].project
                                      \/ req[q].op = "remove" /\ req[q].on = job'[j].owner}
<1>1. /\ req' = [q \in Slots |->
                    IF q = r THEN Idle
                    ELSE IF req[q] = Idle THEN Idle
                    ELSE [req[q] EXCEPT !.stale = @ \/ lost, !.late = @ \cup Late(q)]]
      /\ overlap' = (overlap \/ (lost /\ req[r].stale))
    BY DEF Done
<1>2. (overlap \in BOOLEAN)' /\ (~overlap' => ~overlap /\ ~(lost /\ req[r].stale))
    BY <1>1
<1>3. Somebody => Somebody'
    BY <1>2 DEF Somebody
<1>4. LastAdminKept'
    BY <1>3 DEF Inv, LastAdminKept, Somebody
<1>5. ASSUME NEW q \in Slots PROVE (Handler(req[q]) /\ Relies(req[q]) /\ (Makes(req[q]) => Somebody))'
  <2>1. CASE q = r \/ req[q] = Idle
    <3>1. req'[q] = Idle
        BY <1>1, <2>1
    <3>2. (Handler(Idle) /\ Relies(Idle) /\ ~Makes(Idle))'
        BY DEF Handler, Idle, Request, Relies, Asked, Makes
    <3>. QED BY <3>1, <3>2 DEF Handler, Relies, Asked, Makes
  <2>2. CASE q # r /\ req[q] # Idle
    <3>1. req'[q] = [req[q] EXCEPT !.stale = @ \/ lost, !.late = @ \cup Late(q)]
        BY <1>1, <2>2
    <3>. HIDE DEF Late
    <3>2. Handler(req[q]) /\ Relies(req[q]) /\ (Makes(req[q]) => Somebody)
        BY DEF Inv, RequestsOK
    <3>3. /\ req'[q].pc = req[q].pc /\ req'[q].op = req[q].op /\ req'[q].by = req[q].by /\ req'[q].on = req[q].on
          /\ req'[q].arg = req[q].arg /\ req'[q].role = req[q].role
          /\ req'[q].stale = (req[q].stale \/ lost)
        BY <3>1, <3>2 DEF Handler
    <3>4. Handler(req[q])'
        BY <3>1, <3>2 DEF Handler
    <3>5. ~req'[q].stale => ~req[q].stale /\ Admins \subseteq Admins'
        BY <3>3
    <3>6. Relies(req[q])'
        BY <3>2, <3>3, <3>5 DEF Relies, Asked, OtherThan
    <3>7. (Makes(req[q]) => Somebody)'
        BY <3>2, <3>3, <1>3 DEF Makes
    <3>. QED BY <3>4, <3>6, <3>7
  <2>. QED BY <2>1, <2>2
<1>6. RequestsOK'
    BY <1>1, <1>5 DEF RequestsOK
<1>. QED BY <1>2, <1>4, <1>5, <1>6 DEF Inv

(* Commits that leave the users table alone. *)
LEMMA OtherCommit ==
    ASSUME Inv, NEW r \in Slots, NEW filed, Done(r, filed), UNCHANGED user
    PROVE  Inv'
<1>1. UsersOK' /\ Admins' = Admins /\ ((\E u \in Users : Exists(u))' => \E u \in Users : Exists(u))
    BY DEF Inv, UsersOK, Admins, Exists
<1>. QED BY <1>1, CommitStep

LEMMA RefusedStep == ASSUME Inv, NEW r \in Slots, Refused(r) PROVE Inv'
BY IdleIsFine, QuietStep DEF Refused, Read, tables, history

LEMMA ReadStep ==
    ASSUME Inv, NEW r \in Slots, NEW h, Read(r, h), Handler(h), Relies(h), Makes(h) => Somebody
    PROVE  Inv'
BY QuietStep DEF Read, tables, history

(* A request begins: its caller is an administrator if that is asked of it. *)
LEMMA BeginStep ==
    ASSUME Inv, NEW r \in Slots, NEW pc, NEW op, NEW by, NEW on, NEW arg,
           Begin(r, pc, op, by, on, arg),
           op \in {"update", "create", "login"} => on \in Users,
           op = "update" => arg \in {"admin", "user", "on", "off"},
           op = "create" => arg \in {"admin", "user"},
           op \in {"update", "remove", "create"} => by \in Admins,
           op \in {"update", "remove"} => pc = "check",
           op = "remove" => by # on,
           op = "login" => pc = "idp"
    PROVE  Inv'
<1>. DEFINE h == Request(pc, op, by, on, arg, IF on \in Users THEN user[on].role ELSE "none")
<1>1. req' = [req EXCEPT ![r] = h] /\ UNCHANGED <<user, overlap>>
    BY DEF Begin, tables, history
<1>2. /\ h.pc = pc /\ h.op = op /\ h.by = by /\ h.on = on /\ h.arg = arg /\ h.stale = FALSE
      /\ h.role = IF on \in Users THEN user[on].role ELSE "none"
    BY DEF Request
<1>3. Handler(h)
    BY DEF Handler, Request
<1>. HIDE DEF h
<1>4. by \in Admins => by \in Users /\ user[by].role = "admin" /\ Somebody
    BY DEF Admins, Somebody
<1>5. Relies(h)
    BY <1>2, <1>4 DEF Relies, Asked
<1>6. Makes(h) => Somebody
    BY <1>2, <1>4 DEF Makes
<1>. QED BY <1>1, <1>3, <1>5, <1>6, QuietStep

-----------------------------------------------------------------------------
(* The steps of a handler that manages users or signs them in. *)
LEMMA AskSteps ==
    ASSUME Inv, NEW r \in Slots,
           \/ AskUpdate(r) \/ AskRemove(r) \/ AskCreate(r) \/ AskLogin(r) \/ AskToken(r)
           \/ AskList(r) \/ AskProject(r) \/ AskRename(r) \/ AskDrop(r) \/ AskSubmit(r) \/ AskMove(r)
    PROVE  Inv'
<1>0. Admins \subseteq Users
    BY DEF Admins
<1>1. CASE AskUpdate(r)
    BY <1>0, <1>1, BeginStep DEF AskUpdate
<1>2. CASE AskRemove(r)
    BY <1>0, <1>2, BeginStep DEF AskRemove
<1>3. CASE AskCreate(r)
    BY <1>0, <1>3, BeginStep DEF AskCreate
<1>4. CASE AskLogin(r)
    BY <1>4, BeginStep DEF AskLogin
<1>5. CASE AskToken(r)
    BY <1>5, BeginStep DEF AskToken
<1>6. CASE AskList(r) \/ AskProject(r)
    BY <1>6, BeginStep DEF AskList, AskProject
<1>7. CASE AskRename(r) \/ AskDrop(r)
    BY <1>7, BeginStep DEF AskRename, AskDrop
<1>8. CASE AskSubmit(r)
    BY <1>8, BeginStep DEF AskSubmit
<1>9. CASE AskMove(r)
    BY <1>9, BeginStep DEF AskMove
<1>. QED BY <1>1, <1>2, <1>3, <1>4, <1>5, <1>6, <1>7, <1>8, <1>9

LEMMA CheckUpdateStep == ASSUME Inv, NEW r \in Slots, CheckUpdate(r) PROVE Inv'
<1>. DEFINE h == [req[r] EXCEPT !.pc = "commit"]
<1>1. CASE req[r].arg \in {"user", "off"} /\ WouldOrphan(req[r].on, req[r].role)
    BY <1>1, RefusedStep DEF CheckUpdate
<1>2. CASE ~(req[r].arg \in {"user", "off"} /\ WouldOrphan(req[r].on, req[r].role))
  <2>1. Read(r, h) /\ At(r, "check", {"update"})
      BY <1>2 DEF CheckUpdate
  <2>2. Handler(req[r]) /\ Relies(req[r]) /\ (Makes(req[r]) => Somebody)
      BY DEF Inv, RequestsOK
  <2>3. /\ h.pc = "commit" /\ h.op = req[r].op /\ h.by = req[r].by /\ h.on = req[r].on
        /\ h.arg = req[r].arg /\ h.role = req[r].role /\ h.stale = req[r].stale
        /\ Handler(h)
      BY <2>2 DEF Handler
  <2>. HIDE DEF h
  <2>4. h.arg \in {"user", "off"} /\ ~h.stale => OtherThan(h.on)
    <3>. SUFFICES ASSUME h.arg \in {"user", "off"}, ~h.stale PROVE OtherThan(h.on)
        OBVIOUS
    <3>1. h.by \in Admins /\ (h.by = h.on => h.role = "admin")
        BY <2>1, <2>2, <2>3 DEF Relies, At
    <3>2. h.role = "admin" => ~(Admins \subseteq {h.on})
        BY <1>2, <2>3 DEF WouldOrphan
    <3>. QED BY <3>1, <3>2 DEF OtherThan
  <2>5. Relies(h)
      BY <2>1, <2>2, <2>3, <2>4 DEF Relies, Asked, At
  <2>6. Makes(h) => Somebody
      BY <2>1, <2>2, <2>3 DEF Makes, At
  <2>. QED BY <2>1, <2>3, <2>5, <2>6, ReadStep
<1>. QED BY <1>1, <1>2

(* Reads that change what the handler relies on in no way. *)
LEMMA PlainRead ==
    ASSUME Inv, NEW r \in Slots, NEW h, Read(r, h), Handler(h),
           h.op = req[r].op, h.by = req[r].by, h.on = req[r].on, h.arg = req[r].arg,
           h.stale = req[r].stale,
           h.op \notin {"update", "login"}, h.op = "remove" => req[r].pc = "check"
    PROVE  Inv'
<1>1. Relies(req[r]) /\ (Makes(req[r]) => Somebody)
    BY DEF Inv
<1>2. Relies(h)
    BY <1>1 DEF Relies, Asked
<1>3. Makes(h) => Somebody
    BY <1>1 DEF Makes
<1>. QED BY <1>2, <1>3, ReadStep

LEMMA OtherReads ==
    ASSUME Inv, NEW r \in Slots, CheckRemove(r) \/ CheckToken(r) \/ LookUp(r) \/ MoveJobs(r)
    PROVE  Inv'
<1>0. Handler(req[r])
    BY DEF Inv, RequestsOK
<1>1. CASE CheckRemove(r)
  <2>1. CASE Refused(r)
      BY <2>1, RefusedStep
  <2>2. CASE Read(r, [req[r] EXCEPT !.pc = "commit"])
    <3>. DEFINE h == [req[r] EXCEPT !.pc = "commit"]
    <3>1. /\ h.op = req[r].op /\ h.by = req[r].by /\ h.on = req[r].on /\ h.arg = req[r].arg
          /\ h.stale = req[r].stale /\ Handler(h)
        BY <1>0 DEF Handler
    <3>2. req[r].pc = "check" /\ req[r].op = "remove"
        BY <1>1 DEF CheckRemove, At
    <3>. HIDE DEF h
    <3>. QED BY <2>2, <3>1, <3>2, PlainRead DEF h
  <2>. QED BY <1>1, <2>1, <2>2 DEF CheckRemove
<1>2. CASE CheckToken(r)
  <2>1. CASE Refused(r)
      BY <2>1, RefusedStep
  <2>2. CASE Read(r, [req[r] EXCEPT !.pc = "commit"])
    <3>. DEFINE h == [req[r] EXCEPT !.pc = "commit"]
    <3>1. /\ h.op = req[r].op /\ h.by = req[r].by /\ h.on = req[r].on /\ h.arg = req[r].arg
          /\ h.stale = req[r].stale /\ Handler(h)
        BY <1>0 DEF Handler
    <3>2. req[r].op = "token"
        BY <1>2 DEF CheckToken, At
    <3>. HIDE DEF h
    <3>. QED BY <2>2, <3>1, <3>2, PlainRead DEF h
  <2>. QED BY <1>2, <2>1, <2>2 DEF CheckToken
<1>3. CASE LookUp(r)
  <2>. DEFINE h == Look(r, req[r].by)
  <2>1. /\ h.op = req[r].op /\ h.by = req[r].by /\ h.on = req[r].on /\ h.arg = req[r].arg
        /\ h.stale = req[r].stale /\ Handler(h)
    <3>1. PICK p, v : h = [req[r] EXCEPT !.pc = p, !.default = v]
        BY Zenon DEF Look
    <3>. DEFINE f == [req[r] EXCEPT !.pc = p]
    <3>2. h = [f EXCEPT !.default = v]
        BY <3>1
    <3>3. /\ Handler(f) /\ f.op = req[r].op /\ f.by = req[r].by /\ f.on = req[r].on
          /\ f.arg = req[r].arg /\ f.stale = req[r].stale
        BY <1>0 DEF Handler
    <3>. HIDE DEF f, h
    <3>. QED BY <3>2, <3>3 DEF Handler
  <2>2. req[r].op \in {"list", "dropproject", "submit", "move"} /\ Read(r, h)
      BY <1>3 DEF LookUp, At
  <2>. HIDE DEF h
  <2>. QED BY <2>1, <2>2, PlainRead
<1>4. CASE MoveJobs(r)
  <2>. DEFINE h == [req[r] EXCEPT !.pc = "commit", !.moved = Inside(req[r].on)]
  <2>1. /\ h.op = req[r].op /\ h.by = req[r].by /\ h.on = req[r].on /\ h.arg = req[r].arg
        /\ h.stale = req[r].stale /\ Handler(h)
    <3>1. PICK p, v : h = [req[r] EXCEPT !.pc = p, !.moved = v]
        BY Zenon
    <3>. DEFINE f == [req[r] EXCEPT !.pc = p]
    <3>2. h = [f EXCEPT !.moved = v]
        BY <3>1
    <3>3. /\ Handler(f) /\ f.op = req[r].op /\ f.by = req[r].by /\ f.on = req[r].on
          /\ f.arg = req[r].arg /\ f.stale = req[r].stale
        BY <1>0 DEF Handler
    <3>. HIDE DEF f, h
    <3>. QED BY <3>2, <3>3 DEF Handler
  <2>2. req[r].op = "dropproject" /\ Read(r, h)
      BY <1>4 DEF MoveJobs, At
  <2>. HIDE DEF h
  <2>. QED BY <2>1, <2>2, PlainRead
<1>. QED BY <1>1, <1>2, <1>3, <1>4

LEMMA CallbackStep == ASSUME Inv, NEW r \in Slots, Callback(r) PROVE Inv'
<1>. DEFINE u == req[r].on
            isAdmin == AdminGroup /\ req[r].arg = "in"
            role == IF Exists(u) THEN user[u].role
                    ELSE IF isAdmin \/ \A v \in Users : ~Exists(v) THEN "admin" ELSE "user"
            synced == IF isAdmin THEN "admin"
                      ELSE IF ~AdminGroup \/ WouldOrphan(u, role) THEN role ELSE "user"
            seen == IF Exists(u) THEN role ELSE "none"
            f == [req[r] EXCEPT !.pc = "commit"]
            g == [f EXCEPT !.arg = synced]
            h == [g EXCEPT !.role = seen]
<1>0. At(r, "idp", {"login"}) /\ (Refused(r) \/ Read(r, h))
    BY DEF Callback
<1>1. CASE Refused(r)
    BY <1>1, RefusedStep
<1>2. CASE Read(r, h)
  <2>1. Handler(req[r]) /\ Relies(req[r])
      BY DEF Inv, RequestsOK
  <2>2. u \in Users
      BY <1>0, <2>1 DEF Relies, Asked, At
  <2>3. role \in {"admin", "user"} /\ synced \in {"admin", "user"}
      BY <2>2 DEF Inv, UsersOK
  <2>4. seen \in {"admin", "user", "none"}
      BY <2>3
  <2>5. seen = "admin" /\ synced = "user" => OtherThan(u)
    <3>. SUFFICES ASSUME seen = "admin", synced = "user" PROVE OtherThan(u)
        OBVIOUS
    <3>1. role = "admin"
        OBVIOUS
    <3>2. ~WouldOrphan(u, role)
        BY <3>1
    <3>. QED BY <3>1, <3>2 DEF WouldOrphan, OtherThan
  <2>6. synced = "user" => Somebody
    <3>. SUFFICES ASSUME synced = "user", \A v \in Users : ~Exists(v) PROVE FALSE
        BY DEF Inv, LastAdminKept, Somebody
    <3>1. role = "admin"
        BY <2>2
    <3>2. WouldOrphan(u, role)
        BY <3>1 DEF WouldOrphan, Admins, Exists
    <3>. QED BY <3>1, <3>2
  <2>. HIDE DEF synced, seen
  <2>7. Handler(f) /\ f.op = req[r].op /\ f.by = req[r].by /\ f.on = u /\ f.pc = "commit"
      BY <2>1 DEF Handler
  <2>. HIDE DEF f
  <2>8. Handler(g) /\ g.op = f.op /\ g.by = f.by /\ g.on = f.on /\ g.pc = f.pc /\ g.arg = synced
      BY <2>7 DEF Handler
  <2>. HIDE DEF g
  <2>9. Handler(h) /\ h.op = g.op /\ h.by = g.by /\ h.on = g.on /\ h.pc = g.pc /\ h.arg = g.arg /\ h.role = seen
      BY <2>8 DEF Handler
  <2>. HIDE DEF h
  <2>10. h.op = "login"
      BY <1>0, <2>7, <2>8, <2>9 DEF At
  <2>11. Relies(h)
      BY <2>2, <2>3, <2>4, <2>5, <2>7, <2>8, <2>9, <2>10 DEF Relies, Asked
  <2>12. Makes(h) => Somebody
      BY <2>6, <2>7, <2>8, <2>9, <2>10 DEF Makes
  <2>. QED BY <1>2, <2>9, <2>11, <2>12, ReadStep
<1>. QED BY <1>0, <1>1, <1>2

-----------------------------------------------------------------------------
(* The commits of those handlers. *)
LEMMA UpdateStep == ASSUME Inv, NEW r \in Slots, Update(r) PROVE Inv'
<1>. DEFINE u == req[r].on  change == req[r].arg
<1>0. Relies(req[r]) /\ At(r, "commit", {"update"})
    BY DEF Inv, Update
<1>1. CASE ~Exists(u)
    BY <1>1, RefusedStep DEF Update
<1>2. CASE Exists(u)
  <2>1. u \in Users /\ change \in {"admin", "user", "on", "off"}
      BY <1>0 DEF Relies, Asked, At
  <2>2. /\ user' = CASE change \in {"on", "off"} -> [user EXCEPT ![u].status = change]
                      [] change = req[r].role -> user
                      [] OTHER -> [user EXCEPT ![u].role = change]
        /\ Done(r, {})
      BY <1>2 DEF Update
  <2>3. UsersOK'
      BY <2>1, <2>2 DEF Inv, UsersOK, Statuses
  <2>4. CASE change \in {"user", "off"}
    <3>1. ~req[r].stale => OtherThan(u)
        BY <1>0, <2>4 DEF Relies, At
    <3>2. OtherThan(u) => Admins' # {}
        BY <2>1, <2>2 DEF Inv, UsersOK, OtherThan, Admins
    <3>. QED BY <1>2, <2>1, <2>2, <2>3, <3>1, <3>2, CommitStep
  <2>5. CASE change \in {"admin", "on"}
    <3>1. Admins \subseteq Admins'
        BY <2>1, <2>2, <2>5 DEF Inv, UsersOK, Admins
    <3>. QED BY <1>2, <2>1, <2>2, <2>3, <3>1, CommitStep
  <2>. QED BY <2>1, <2>4, <2>5
<1>. QED BY <1>1, <1>2

LEMMA CreateStep == ASSUME Inv, NEW r \in Slots, Create(r) PROVE Inv'
<1>. DEFINE u == req[r].on
<1>0. Relies(req[r]) /\ At(r, "commit", {"create"}) /\ (Makes(req[r]) => Somebody)
    BY DEF Inv, Create
<1>1. CASE user[u] # New
    BY <1>1, RefusedStep DEF Create
<1>2. CASE user[u] = New
  <2>1. u \in Users /\ req[r].arg \in {"admin", "user"} /\ Somebody
      BY <1>0 DEF Relies, Asked, At, Makes
  <2>2. user' = [user EXCEPT ![u] = [status |-> "on", role |-> req[r].arg]] /\ Done(r, {})
      BY <1>2 DEF Create
  <2>3. UsersOK'
      BY <2>1, <2>2 DEF Inv, UsersOK, Statuses
  <2>4. Admins \subseteq Admins'
      BY <1>2, <2>1, <2>2 DEF Inv, UsersOK, Admins, New
  <2>. QED BY <2>1, <2>2, <2>3, <2>4, CommitStep
<1>. QED BY <1>1, <1>2

LEMMA RemoveStep == ASSUME Inv, NEW r \in Slots, Remove(r) PROVE Inv'
<1>. DEFINE u == req[r].on
<1>1. Relies(req[r]) /\ At(r, "commit", {"remove"}) /\ (Makes(req[r]) => Somebody)
    BY DEF Inv, Remove
<1>2. user' = [user EXCEPT ![u] = [New EXCEPT !.status = "gone"]] /\ Done(r, {})
    BY DEF Remove
<1>3. UsersOK'
    BY <1>2 DEF Inv, UsersOK, Statuses, New
<1>4. ~req[r].stale => Admins' # {}
    BY <1>1, <1>2 DEF Inv, UsersOK, Relies, At, Admins
<1>5. Somebody
    BY <1>1 DEF Makes, At
<1>. QED BY <1>2, <1>3, <1>4, <1>5, CommitStep

LEMMA LoginStep == ASSUME Inv, NEW r \in Slots, Login(r) PROVE Inv'
<1>. DEFINE u == req[r].on
            found == req[r].role # "none"
<1>0. Relies(req[r]) /\ At(r, "commit", {"login"}) /\ (Makes(req[r]) => Somebody)
    BY DEF Inv, Login
<1>1. CASE found # Exists(u)
    BY <1>1, RefusedStep DEF Login
<1>2. CASE found = Exists(u)
  <2>1. u \in Users /\ req[r].arg \in {"admin", "user"} /\ req[r].role \in {"admin", "user", "none"}
      BY <1>0 DEF Relies, Asked, At
  <2>2. /\ user' = IF ~found THEN [user EXCEPT ![u] = [status |-> "on", role |-> req[r].arg]]
                  ELSE IF req[r].arg = req[r].role THEN user
                  ELSE [user EXCEPT ![u].role = req[r].arg]
        /\ Done(r, {})
      BY <1>2 DEF Login
  <2>3. UsersOK'
      BY <2>1, <2>2 DEF Inv, UsersOK, Statuses
  <2>4. CASE ~found
    <3>1. Admins \subseteq Admins'
        BY <1>2, <2>1, <2>2, <2>4 DEF Inv, UsersOK, Admins, Exists
    <3>2. req[r].arg = "admin" => Admins' # {}
        BY <2>1, <2>2, <2>4 DEF Inv, UsersOK, Admins
    <3>3. req[r].arg = "user" => Somebody
        BY <1>0 DEF Makes, At
    <3>. QED BY <2>1, <2>2, <2>3, <3>1, <3>2, <3>3, CommitStep
  <2>5. CASE found /\ req[r].arg = "user" /\ req[r].role = "admin"
    <3>1. ~req[r].stale => OtherThan(u)
        BY <1>0, <2>5 DEF Relies, At
    <3>2. OtherThan(u) => Admins' # {}
        BY <2>1, <2>2, <2>5 DEF Inv, UsersOK, OtherThan, Admins
    <3>. QED BY <1>2, <2>1, <2>2, <2>3, <2>5, <3>1, <3>2, CommitStep
  <2>6. CASE found /\ ~(req[r].arg = "user" /\ req[r].role = "admin")
    <3>1. Admins \subseteq Admins'
        BY <2>1, <2>2, <2>6 DEF Inv, UsersOK, Admins
    <3>. QED BY <1>2, <2>1, <2>2, <2>3, <2>6, <3>1, CommitStep
  <2>. QED BY <2>4, <2>5, <2>6
<1>. QED BY <1>1, <1>2

LEMMA OtherCommits ==
    ASSUME Inv, NEW r \in Slots,
           MakeToken(r) \/ List(r) \/ MakeProject(r) \/ Rename(r) \/ DropProject(r) \/ File(r)
    PROVE  Inv'
<1>1. CASE Refused(r)
    BY <1>1, RefusedStep
<1>2. CASE UNCHANGED user /\ \E filed : Done(r, filed)
    BY <1>2, OtherCommit
<1>. QED BY <1>1, <1>2 DEF MakeToken, List, MakeProject, Rename, DropProject, File

LEMMA RestartStep == ASSUME Inv, Restart PROVE Inv'
<1>1. /\ req' = [r \in Slots |-> Idle]
      /\ overlap' = overlap
      /\ user' = CASE user[Root] = New -> [user EXCEPT ![Root] = [status |-> "on", role |-> "admin"]]
                   [] Exists(Root) -> [user EXCEPT ![Root].role = "admin"]
                   [] OTHER -> user
    BY DEF Restart, history
<1>2. Root \in Users
    BY AccountsAssumption
<1>3. UsersOK'
    BY <1>1, <1>2 DEF Inv, UsersOK, Statuses
<1>4. RequestsOK'
    BY <1>1, IdleIsFine DEF RequestsOK, Handler, Idle, Request
<1>5. Admins \subseteq Admins'
    BY <1>1, <1>2 DEF Inv, UsersOK, Admins, New
<1>6. LastAdminKept'
  <2>1. CASE user[Root] = New
      BY <1>1, <1>2, <2>1 DEF Inv, UsersOK, LastAdminKept, Admins
  <2>2. CASE user[Root] # New
    <3>1. (\E u \in Users : Exists(u))' => \E u \in Users : Exists(u)
        BY <1>1, <1>2, <2>2 DEF Inv, UsersOK, Exists
    <3>. QED BY <1>1, <1>5, <3>1 DEF Inv, LastAdminKept
  <2>. QED BY <2>1, <2>2
<1>7. \A r \in Slots : (Relies(req[r]) /\ (Makes(req[r]) => Somebody))'
    BY <1>1 DEF Relies, Asked, Makes, Idle, Request
<1>. QED BY <1>1, <1>3, <1>4, <1>6, <1>7 DEF Inv

-----------------------------------------------------------------------------
LEMMA InvStep == Inv /\ [Next]_vars => Inv'
<1>. SUFFICES ASSUME Inv, [Next]_vars PROVE Inv'
    OBVIOUS
<1>1. CASE UNCHANGED <<user, req, overlap>>
  <2>1. Admins' = Admins /\ \A u \in Users : Exists(u)' <=> Exists(u)
      BY <1>1 DEF Admins, Exists
  <2>2. LastAdminKept' /\ (Somebody' <=> Somebody)
      BY <1>1, <2>1 DEF Inv, LastAdminKept, Somebody
  <2>. QED BY <1>1, <2>1, <2>2 DEF Inv, UsersOK, RequestsOK, Handler, Relies, Asked, Makes, OtherThan
<1>2. ASSUME NEW r \in Slots, UserStep(r) PROVE Inv'
    BY <1>2, AskSteps, CheckUpdateStep, OtherReads, CallbackStep, UpdateStep, CreateStep, RemoveStep,
       LoginStep, OtherCommits DEF UserStep
<1>3. ASSUME NEW r \in Slots, ProjectStep(r) PROVE Inv'
    BY <1>3, AskSteps, OtherReads, OtherCommits DEF ProjectStep
<1>4. CASE (\E u \in Users : DropToken(u)) \/ (\E j \in Jobs : Work(j)) \/ UNCHANGED vars
    BY <1>1, <1>4 DEF DropToken, Work, vars, tables, history
<1>5. CASE Restart
    BY <1>5, RestartStep
<1>. QED BY <1>2, <1>3, <1>4, <1>5 DEF Next

(* The last-administrator rule (api/users.py:88, 114) holds through every  *)
(* interleaving of the handlers that read it before they commit, and       *)
(* through logins that sync the role, unless two of them overlap.          *)
THEOREM AnAdminIsLeft == Spec => []LastAdminKept
<1>1. Inv => LastAdminKept
    BY DEF Inv
<1>. QED BY InvAtStart, InvStep, <1>1, PTL DEF Spec
-----------------------------------------------------------------------------
(* Projects and jobs.  Every user who keeps to the names given has one     *)
(* project named after the default, and it is the one marked so, because   *)
(* names are unique and only a project of that name is ever marked.  A     *)
(* handler that deletes a project or a user knows of every job inside but  *)
(* those filed since, and one that may make a project finds room for it.   *)
Row == [owner : Users \cup {NoUser}, name : {"new", "default", "other", "gone"}, default : BOOLEAN]
Rows ==
    /\ project \in [Projects -> Row]
    /\ \A p \in Projects : project[p].owner \in Users => project[p].name \in {"default", "other"}
Filings ==
    job \in [Jobs -> [owner : Users \cup {NoUser}, project : Projects \cup {NoProject},
                      status : {"new", "queued", "running", "ended", "gone"}]]

Unmades == {p \in Projects : project[p] = Unmade}
InOrder == \E n \in 0..NumProjects : Unmades = (n + 1)..NumProjects
NamesUnique == \A u \in Users : \A p, q \in Owned(u) : project[p].name = project[q].name => p = q
DefaultNamed ==
    \A u \in Users \ named : \A p \in Owned(u) : project[p].default <=> project[p].name = "default"

(* The handlers that may make a project, and the room there is for them.   *)
MayMake(h) ==
    \/ h.op \in {"list", "newproject", "dropproject"}
    \/ h.op \in {"submit", "move"} /\ h.on = NoProject
Makers == {r \in Slots : MayMake(req[r])}
RoomLeft == Cardinality(Makers) <= Cardinality(Unmades)

Theirs(p, u) == p \in Projects /\ project[p] # Unmade /\ project[p].owner \in {u, NoUser}

ProjectOps == {"list", "newproject", "rename", "dropproject", "submit", "move"}

Knows(h) ==
    /\ h.op \in ProjectOps => h.by \in Users
    /\ h.op = "remove" => h.on \in Users
    /\ h.op \in {"newproject", "rename"} => h.arg \in {"default", "other"}
    /\ h.op \in {"rename", "dropproject"} => Theirs(h.on, h.by)
    /\ h.op \in {"submit", "move"} => h.on = NoProject \/ Theirs(h.on, h.by)
    /\ h.default # MakeOne =>
          /\ h.by \in Users /\ Theirs(h.default, h.by)
          /\ h.by \notin named /\ project[h.default].owner = h.by => project[h.default].name = "default"
    /\ h.op = "dropproject" /\ h.by \notin named =>
          /\ project[h.on].owner = h.by => project[h.on].name # "default"
          /\ h.pc = "commit" => Inside(h.on) \subseteq h.moved \cup h.late
    /\ h.op = "remove" /\ h.pc = "commit" => ActiveJobs(h.on) \subseteq h.late

Tables == Rows /\ Filings /\ InOrder /\ NamesUnique /\ DefaultNamed /\ JobsHaveProject
ProjectsInv == Tables /\ RoomLeft /\ \A r \in Slots : Knows(req[r])

LEMMA UnmadesFinite == IsFiniteSet(Unmades) /\ IsFiniteSet(Makers)
<1>1. IsFiniteSet(Projects)
    BY AccountsAssumption, FS_Interval DEF Projects
<1>. QED BY <1>1, AccountsAssumption, FS_Subset DEF Unmades, Makers

LEMMA IdleKnows == Knows(Idle) /\ ~MayMake(Idle)
BY DEF Knows, MayMake, Idle, Request, ProjectOps

LEMMA ProjectsAtStart == Init => ProjectsInv
<1>. SUFFICES ASSUME Init PROVE ProjectsInv
    OBVIOUS
<1>1. project = [p \in Projects |-> Unmade] /\ job = [j \in Jobs |-> NoJob]
    BY DEF Init
<1>2. Rows /\ Filings
    BY <1>1, AccountsAssumption DEF Rows, Row, Filings, Unmade, NoJob
<1>3. Unmades = Projects
    BY <1>1 DEF Unmades
<1>4. InOrder
  <2>1. 0 \in 0..NumProjects /\ Unmades = (0 + 1)..NumProjects
    BY <1>3, AccountsAssumption DEF Projects
  <2>. QED BY <2>1 DEF InOrder
<1>5. NamesUnique /\ DefaultNamed /\ JobsHaveProject
    BY <1>1, AccountsAssumption DEF NamesUnique, DefaultNamed, JobsHaveProject, Owned, Unmade, NoJob
<1>6. \A r \in Slots : Knows(req[r])
    BY IdleKnows DEF Init
<1>7. RoomLeft
  <2>1. Makers = {}
    BY IdleKnows DEF Init, Makers
  <2>. QED BY <2>1, FS_EmptySet, UnmadesFinite, FS_CardinalityType DEF RoomLeft
<1>. QED BY <1>2, <1>4, <1>5, <1>6, <1>7 DEF ProjectsInv, Tables

-----------------------------------------------------------------------------
(* Room: no more handlers want to make a project than before, or one has,  *)
(* or one begins after it has seen room for every slot.                    *)
LEMMA RoomKept == ASSUME RoomLeft, Makers' \subseteq Makers, Unmades' = Unmades PROVE RoomLeft'
<1>1. /\ Cardinality(Makers') <= Cardinality(Makers)
      /\ Cardinality(Makers') \in Nat /\ Cardinality(Makers) \in Nat
      /\ Cardinality(Unmades) \in Nat
    BY UnmadesFinite, FS_Subset, FS_CardinalityType
<1>2. Cardinality(Makers)' = Cardinality(Makers') /\ Cardinality(Unmades)' = Cardinality(Unmades)
    BY DEF Makers, Unmades
<1>. QED BY <1>1, <1>2 DEF RoomLeft

LEMMA RoomSpent ==
    ASSUME RoomLeft, NEW r \in Makers, Makers' \subseteq Makers \ {r},
           NEW d \in Unmades, Unmades' = Unmades \ {d}
    PROVE  RoomLeft'
<1>1. /\ IsFiniteSet(Makers \ {r}) /\ Cardinality(Makers \ {r}) = Cardinality(Makers) - 1
      /\ Cardinality(Unmades \ {d}) = Cardinality(Unmades) - 1
    BY UnmadesFinite, FS_RemoveElement
<1>2. /\ Cardinality(Makers') <= Cardinality(Makers \ {r})
      /\ Cardinality(Makers') \in Nat /\ Cardinality(Makers \ {r}) \in Nat
      /\ Cardinality(Makers) \in Nat /\ Cardinality(Unmades) \in Nat
    BY <1>1, UnmadesFinite, FS_Subset, FS_CardinalityType
<1>. QED BY <1>1, <1>2 DEF RoomLeft

LEMMA RoomSeen ==
    ASSUME Cardinality(Unmades) >= Cardinality(Slots), Unmades' = Unmades
    PROVE  RoomLeft'
<1>1. Makers' \subseteq Slots
    BY DEF Makers
<1>2. /\ Cardinality(Makers') <= Cardinality(Slots)
      /\ Cardinality(Makers') \in Nat /\ Cardinality(Slots) \in Nat /\ Cardinality(Unmades) \in Nat
    BY <1>1, AccountsAssumption, UnmadesFinite, FS_Subset, FS_CardinalityType
<1>. QED BY <1>2 DEF RoomLeft

(* There is one fresh project, the next, for whoever may make it.          *)
LEMMA FreshOne == ASSUME InOrder, Unmades # {} PROVE \E d \in Unmades : Fresh = {d}
<1>1. PICK n \in 0..NumProjects : Unmades = (n + 1)..NumProjects
    BY DEF InOrder
<1>2. n + 1 \in Unmades /\ n + 1 \in Projects
    BY <1>1, AccountsAssumption DEF Projects
<1>3. \A p \in Projects : p \in Fresh <=> p = n + 1
  <2>. TAKE p \in Projects
  <2>1. p \in Fresh <=> p \in Unmades /\ \A q \in 1..(p - 1) : project[q] # Unmade
    BY DEF Fresh, Unmades
  <2>2. \A q \in 1..(p - 1) : q \in Projects
    BY AccountsAssumption DEF Projects
  <2>3. p \in Fresh <=> p \in Unmades /\ \A q \in 1..(p - 1) : q \notin Unmades
    BY <2>1, <2>2 DEF Unmades
  <2>. QED BY <1>1, <1>2, <2>3, AccountsAssumption DEF Projects
<1>. QED BY <1>2, <1>3 DEF Fresh

LEMMA MakerFindsFresh ==
    ASSUME ProjectsInv, NEW r \in Slots, MayMake(req[r])
    PROVE  \E d \in Unmades : Fresh = {d}
<1>1. r \in Makers
    BY DEF Makers
<1>2. Cardinality(Makers) # 0 /\ Cardinality(Makers) \in Nat /\ Cardinality(Unmades) \in Nat
    BY <1>1, UnmadesFinite, FS_EmptySet, FS_CardinalityType
<1>3. Unmades # {}
    BY <1>2, FS_EmptySet DEF ProjectsInv, RoomLeft
<1>. QED BY <1>3, FreshOne DEF ProjectsInv, Tables

-----------------------------------------------------------------------------
(* What a commit does to the rows of the projects table: it keeps them,    *)
(* deletes them, makes the next one for its owner, or changes one of its   *)
(* owner's.                                                                *)
Kept(p) == project'[p] = project[p]
Dropped(p) == project[p] # Unmade /\ project'[p] = Deleted
GivenTo(p, u) ==
    /\ project'[p].owner = u
    /\ project'[p].name \in {"default", "other"}
    /\ Named(u, project'[p].name) \subseteq {p}
    /\ u \notin named' => (project'[p].default <=> project'[p].name = "default")
Made(p, u) == Fresh = {p} /\ GivenTo(p, u)
Changed(p, u) ==
    /\ p \in Owned(u)
    /\ GivenTo(p, u)
    /\ u \notin named' => project'[p].name = project[p].name

RowStep(u) ==
    /\ project' \in [Projects -> Row]
    /\ named \subseteq named'
    /\ \E d \in Projects :
          \A p \in Projects : Kept(p) \/ Dropped(p) \/ (p = d /\ (Made(p, u) \/ Changed(p, u)))

(* Such a commit keeps the table in order, and no row changes hands.       *)
Aged ==
    /\ \A p \in Projects : project[p] # Unmade =>
          /\ project'[p] # Unmade
          /\ project'[p].owner \in {project[p].owner, NoUser}
    /\ \A p \in Projects :
          project[p].owner \in Users \ named' /\ project'[p].owner = project[p].owner
              => project'[p].name = project[p].name

LEMMA RowsStep ==
    ASSUME Tables, NEW u \in Users, RowStep(u)
    PROVE  Rows' /\ NamesUnique' /\ DefaultNamed' /\ Aged
<1>. DEFINE New_(p) == Made(p, u) \/ Changed(p, u)
<1>0. PICK d \in Projects :
          \A p \in Projects : Kept(p) \/ Dropped(p) \/ (p = d /\ New_(p))
    BY DEF RowStep
<1>1. NoUser \notin Users /\ u # NoUser
    BY AccountsAssumption
<1>2. \A p \in Projects : Dropped(p) => project'[p].owner = NoUser /\ project'[p] # Unmade
    BY DEF Dropped, Deleted, Unmade
<1>3. \A p \in Projects : New_(p) =>
          /\ project'[p].owner = u /\ project'[p].name \in {"default", "other"}
          /\ \A q \in Projects : project[q].owner = u /\ project[q].name = project'[p].name => q = p
          /\ u \notin named' => (project'[p].default <=> project'[p].name = "default")
          /\ project[p] = Unmade \/ project[p].owner = u
          /\ project[p] # Unmade /\ u \notin named' => project'[p].name = project[p].name
          /\ project'[p] # Unmade
  <2>. SUFFICES ASSUME NEW p \in Projects, New_(p)
                PROVE  /\ GivenTo(p, u)
                       /\ project[p] = Unmade \/ project[p].owner = u
                       /\ project[p] # Unmade /\ u \notin named' => project'[p].name = project[p].name
                       /\ project'[p] # Unmade
    BY DEF GivenTo, Named, Owned
  <2>1. GivenTo(p, u) /\ project'[p] # Unmade
    BY <1>1 DEF Made, Changed, GivenTo, Unmade
  <2>2. CASE Made(p, u)
    <3>1. p \in Fresh
      BY <2>2 DEF Made
    <3>. QED BY <2>1, <3>1 DEF Fresh
  <2>3. CASE Changed(p, u)
    BY <2>1, <2>3 DEF Changed, Owned
  <2>. QED BY <2>2, <2>3
<1>. HIDE DEF New_
<1>4. Rows'
    BY <1>0, <1>1, <1>2, <1>3 DEF Tables, Rows, RowStep, Kept
<1>5. NamesUnique'
  <2>. SUFFICES ASSUME NEW v \in Users, NEW p \in Projects, NEW q \in Projects,
                       project'[p].owner = v, project'[q].owner = v,
                       project'[p].name = project'[q].name, p # q
                PROVE  FALSE
    BY DEF NamesUnique, Owned
  <2>1. ~Dropped(p) /\ ~Dropped(q)
    BY <1>1, <1>2
  <2>2. CASE New_(p) /\ p = d
    BY <1>0, <1>3, <2>1, <2>2 DEF Kept
  <2>3. CASE New_(q) /\ q = d
    BY <1>0, <1>3, <2>1, <2>3 DEF Kept
  <2>4. CASE Kept(p) /\ Kept(q)
    BY <2>4 DEF Tables, NamesUnique, Owned, Kept
  <2>. QED BY <1>0, <2>1, <2>2, <2>3, <2>4
<1>6. DefaultNamed'
  <2>. SUFFICES ASSUME NEW v \in Users \ named', NEW p \in Projects, project'[p].owner = v
                PROVE  project'[p].default <=> project'[p].name = "default"
    BY DEF DefaultNamed, Owned
  <2>1. v \notin named /\ ~Dropped(p)
    BY <1>1, <1>2 DEF RowStep
  <2>2. CASE Kept(p)
    BY <2>1, <2>2 DEF Tables, DefaultNamed, Owned, Kept
  <2>3. CASE New_(p)
    BY <1>3, <2>3
  <2>. QED BY <1>0, <2>1, <2>2, <2>3
<1>7. Aged
  <2>1. ASSUME NEW p \in Projects, project[p] # Unmade
        PROVE  project'[p] # Unmade /\ project'[p].owner \in {project[p].owner, NoUser}
    BY <1>0, <1>2, <1>3, <2>1 DEF Kept
  <2>2. ASSUME NEW p \in Projects, project[p].owner \in Users \ named',
               project'[p].owner = project[p].owner
        PROVE  project'[p].name = project[p].name
    <3>1. project[p] # Unmade /\ ~Dropped(p)
      BY <1>1, <1>2, <2>2 DEF Unmade
    <3>2. CASE New_(p)
      BY <1>3, <2>2, <3>1, <3>2
    <3>. QED BY <1>0, <3>1, <3>2 DEF Kept
  <2>. QED BY <2>1, <2>2 DEF Aged
<1>. QED BY <1>4, <1>5, <1>6, <1>7

(* The next project is the only one that can be made. *)
Spent == Unmades' = Unmades \/ \E d \in Unmades : Unmades' = Unmades \ {d}

LEMMA OrderStep ==
    ASSUME Tables, NEW u \in Users, RowStep(u)
    PROVE  InOrder' /\ Spent /\ ((\A p \in Projects : ~Made(p, u)) => Unmades' = Unmades)
<1>0. PICK d \in Projects :
          \A p \in Projects : Kept(p) \/ Dropped(p) \/ (p = d /\ (Made(p, u) \/ Changed(p, u)))
    BY DEF RowStep
<1>1. u # NoUser
    BY AccountsAssumption
<1>2. \A p \in Projects :
          /\ Dropped(p) => project'[p] # Unmade /\ project[p] # Unmade
          /\ Changed(p, u) => project'[p] # Unmade /\ project[p] # Unmade
  <2>1. Deleted # Unmade
    BY DEF Deleted, Unmade
  <2>2. \A p \in Projects : Changed(p, u) => project'[p].owner = u /\ project[p].owner = u
    BY DEF Changed, GivenTo, Owned
  <2>3. Unmade.owner # u
    BY <1>1 DEF Unmade
  <2>. QED BY <2>1, <2>2, <2>3 DEF Dropped
<1>3. CASE ~Made(d, u)
  <2>1. \A p \in Projects : project'[p] = Unmade <=> project[p] = Unmade
    BY <1>0, <1>2, <1>3 DEF Kept
  <2>2. Unmades' = Unmades
    BY <2>1 DEF Unmades
  <2>. QED BY <2>2 DEF Tables, InOrder, Spent
<1>4. CASE Made(d, u)
  <2>1. Fresh = {d} /\ project'[d] # Unmade
    BY <1>1, <1>4 DEF Made, GivenTo, Unmade
  <2>2. \A p \in Projects \ {d} : project'[p] = Unmade <=> project[p] = Unmade
    BY <1>0, <1>2 DEF Kept
  <2>3. Unmades' = Unmades \ {d}
    BY <2>1, <2>2 DEF Unmades
  <2>4. d \in Unmades
    BY <2>1 DEF Fresh, Unmades
  <2>5. PICK n \in 0..NumProjects : Unmades = (n + 1)..NumProjects
    BY DEF Tables, InOrder
  <2>6. PICK e \in Unmades : Fresh = {e}
    BY <2>4, FreshOne DEF Tables
  <2>7. \A q \in 1..(d - 1) : q \notin Unmades
    <3>1. d \in Fresh
      BY <2>1
    <3>2. \A q \in 1..(d - 1) : project[q] # Unmade
      BY <3>1 DEF Fresh
    <3>. QED BY <3>2 DEF Unmades
  <2>8. d = n + 1
    BY <2>4, <2>5, <2>7, AccountsAssumption DEF Projects
  <2>9. n + 1 \in 0..NumProjects /\ Unmades' = (n + 1 + 1)..NumProjects
    BY <2>3, <2>4, <2>5, <2>8, AccountsAssumption
  <2>10. InOrder'
    <3>. DEFINE k == n + 1
    <3>1. k \in 0..NumProjects /\ Unmades' = (k + 1)..NumProjects
      BY <2>9
    <3>. HIDE DEF k
    <3>. QED BY <3>1 DEF InOrder
  <2>. QED BY <1>4, <2>3, <2>4, <2>10 DEF Spent
<1>. QED BY <1>3, <1>4

-----------------------------------------------------------------------------
(* What a commit does to the handlers: its own is over, and the others     *)
(* learn which jobs it has filed where they delete.                        *)
LateFor(h, filed) ==
    {j \in filed : \/ h.op = "dropproject" /\ h.on = job'[j].project
                   \/ h.op = "remove" /\ h.on = job'[j].owner}

SameRequest(g, h) ==
    /\ g.pc = h.pc /\ g.op = h.op /\ g.by = h.by /\ g.on = h.on /\ g.arg = h.arg
    /\ g.default = h.default /\ g.moved = h.moved

LEMMA DoneOthers ==
    ASSUME Inv, NEW r \in Slots, NEW filed, Done(r, filed), NEW q \in Slots
    PROVE  \/ req'[q] = Idle
           \/ /\ q # r
              /\ SameRequest(req'[q], req[q])
              /\ req'[q].late = req[q].late \cup LateFor(req[q], filed)
<1>. DEFINE lost == ~(Admins \subseteq Admins')
            late == LateFor(req[q], filed)
<1>1. CASE q = r \/ req[q] = Idle
    BY <1>1 DEF Done
<1>2. CASE q # r /\ req[q] # Idle
  <2>1. req'[q] = [req[q] EXCEPT !.stale = @ \/ lost, !.late = @ \cup late]
    BY <1>2, Zenon DEF Done, LateFor
  <2>. HIDE DEF late, lost
  <2>2. Handler(req[q])
    BY DEF Inv, RequestsOK
  <2>3. SameRequest(req'[q], req[q]) /\ req'[q].late = req[q].late \cup late
    BY <2>1, <2>2 DEF Handler, SameRequest
  <2>. QED BY <1>2, <2>3 DEF late
<1>. QED BY <1>1, <1>2

(* Jobs come into a project by being filed there, or with the deletion of  *)
(* another project into a default one; and none is active again.           *)
Active == {"queued", "running"}
JobStep(filed) ==
    \A j \in Jobs \ filed :
        /\ \A p \in Projects : job'[j].project = p /\ job[j].project # p =>
              /\ project'[p].owner \in Users
              /\ project'[p].owner \notin named' => project'[p].name = "default"
        /\ job'[j].status \in Active =>
              job[j].status \in Active /\ job'[j].owner = job[j].owner

(* What is known of a row stays known. *)
LEMMA TheirsStays ==
    ASSUME Tables, Aged, named \subseteq named', NEW p, NEW u \in Users, Theirs(p, u)
    PROVE  /\ Theirs(p, u)'
           /\ project'[p].owner = u => project[p].owner = u
           /\ u \notin named' /\ project'[p].owner = u => project'[p].name = project[p].name
<1>1. NoUser \notin Users /\ u # NoUser
    BY AccountsAssumption
<1>2. p \in Projects /\ project[p] # Unmade /\ project[p].owner \in {u, NoUser}
    BY DEF Theirs
<1>3. project'[p] # Unmade /\ project'[p].owner \in {project[p].owner, NoUser}
    BY <1>2 DEF Aged
<1>4. project'[p].owner = u => project[p].owner = u
    BY <1>1, <1>2, <1>3
<1>5. u \notin named' /\ project'[p].owner = u => project'[p].name = project[p].name
    BY <1>2, <1>4 DEF Aged
<1>. QED BY <1>2, <1>3, <1>4, <1>5 DEF Theirs

LEMMA KnowsKept ==
    ASSUME Tables, Aged, named \subseteq named', NEW filed, JobStep(filed), Filings',
           NEW h, Knows(h), NEW g, SameRequest(g, h), g.late = h.late \cup LateFor(h, filed)
    PROVE  Knows(g)'
<1>1. /\ g.pc = h.pc /\ g.op = h.op /\ g.by = h.by /\ g.on = h.on /\ g.arg = h.arg
      /\ g.default = h.default /\ g.moved = h.moved
    BY DEF SameRequest
<1>2. /\ g.op \in ProjectOps => g.by \in Users
      /\ g.op = "remove" => g.on \in Users
      /\ g.op \in {"newproject", "rename"} => g.arg \in {"default", "other"}
    BY <1>1 DEF Knows
<1>3. /\ g.op \in {"rename", "dropproject"} => Theirs(g.on, g.by)'
      /\ g.op \in {"submit", "move"} => g.on = NoProject \/ Theirs(g.on, g.by)'
  <2>1. g.op \in {"rename", "dropproject"} => Theirs(g.on, g.by) /\ g.by \in Users
    BY <1>1 DEF Knows, ProjectOps
  <2>2. g.op \in {"submit", "move"} => (g.on = NoProject \/ Theirs(g.on, g.by)) /\ g.by \in Users
    BY <1>1 DEF Knows, ProjectOps
  <2>. QED BY <2>1, <2>2, TheirsStays
<1>4. ASSUME g.default # MakeOne
      PROVE  /\ g.by \in Users /\ Theirs(g.default, g.by)'
             /\ g.by \notin named' /\ project'[g.default].owner = g.by
                    => project'[g.default].name = "default"
  <2>1. /\ g.by \in Users /\ Theirs(g.default, g.by)
        /\ g.by \notin named /\ project[g.default].owner = g.by => project[g.default].name = "default"
    BY <1>1, <1>4 DEF Knows
  <2>. QED BY <2>1, TheirsStays
<1>5. ASSUME g.op = "dropproject", g.by \notin named'
      PROVE  /\ project'[g.on].owner = g.by => project'[g.on].name # "default"
             /\ g.pc = "commit" => Inside(g.on)' \subseteq g.moved \cup g.late
  <2>1. /\ g.by \in Users /\ Theirs(g.on, g.by)
        /\ project[g.on].owner = g.by => project[g.on].name # "default"
        /\ g.pc = "commit" => Inside(g.on) \subseteq h.moved \cup h.late
    BY <1>1, <1>5 DEF Knows, ProjectOps
  <2>2. project'[g.on].owner = g.by => project'[g.on].name # "default"
    BY <1>5, <2>1, TheirsStays
  <2>3. project'[g.on].owner \in {g.by, NoUser} /\ g.on \in Projects
    BY <2>1, TheirsStays DEF Theirs
  <2>4. ASSUME g.pc = "commit", NEW j \in Jobs, job'[j].project = g.on
        PROVE  j \in g.moved \cup g.late
    <3>1. CASE j \in filed
      BY <1>1, <1>5, <2>4, <3>1 DEF LateFor
    <3>2. CASE j \notin filed /\ job[j].project = g.on
      BY <1>1, <2>1, <2>4, <3>2 DEF Inside
    <3>3. CASE j \notin filed /\ job[j].project # g.on
      <4>1. project'[g.on].owner \in Users
            /\ (project'[g.on].owner \notin named' => project'[g.on].name = "default")
        BY <2>3, <2>4, <3>3 DEF JobStep
      <4>2. project'[g.on].owner = g.by
        BY <2>3, <4>1, AccountsAssumption
      <4>. QED BY <1>5, <2>2, <4>1, <4>2
    <3>. QED BY <3>1, <3>2, <3>3
  <2>5. g.pc = "commit" => Inside(g.on)' \subseteq g.moved \cup g.late
    BY <2>4 DEF Inside
  <2>. QED BY <2>2, <2>5
<1>6. ASSUME g.op = "remove", g.pc = "commit"
      PROVE  ActiveJobs(g.on)' \subseteq g.late
  <2>1. ActiveJobs(g.on) \subseteq h.late
    BY <1>1, <1>6 DEF Knows
  <2>2. ASSUME NEW j \in Jobs, job'[j].owner = g.on, job'[j].status \in Active
        PROVE  j \in g.late
    <3>1. CASE j \in filed
      BY <1>1, <1>6, <2>2, <3>1 DEF LateFor
    <3>2. CASE j \notin filed
      BY <2>1, <2>2, <3>2 DEF JobStep, ActiveJobs, Active
    <3>. QED BY <3>1, <3>2
  <2>. QED BY <2>2 DEF ActiveJobs, Active
<1>. QED BY <1>2, <1>3, <1>4, <1>5, <1>6 DEF Knows

(* The invariant after a commit, from what it does to tables and handlers. *)
LEMMA CommitProjects ==
    ASSUME Inv, ProjectsInv, NEW r \in Slots, NEW filed, Done(r, filed),
           Tables', Aged, named \subseteq named', JobStep(filed),
           Unmades' = Unmades \/ (MayMake(req[r]) /\ Spent)
    PROVE  ProjectsInv'
<1>1. ASSUME NEW q \in Slots PROVE Knows(req[q])' /\ (MayMake(req[q])' => q # r /\ MayMake(req[q]))
  <2>1. CASE req'[q] = Idle
    <3>1. (Knows(Idle) /\ ~MayMake(Idle))'
      BY DEF Knows, MayMake, Idle, Request, ProjectOps
    <3>. QED BY <2>1, <3>1 DEF Knows, MayMake, Idle, Request, ProjectOps
  <2>2. CASE /\ q # r /\ SameRequest(req'[q], req[q])
             /\ req'[q].late = req[q].late \cup LateFor(req[q], filed)
    <3>1. Knows(req[q]) /\ Tables /\ Filings'
      BY DEF ProjectsInv, Tables
    <3>2. Knows(req[q])'
      BY <2>2, <3>1, KnowsKept
    <3>3. MayMake(req[q])' => MayMake(req[q])
      BY <2>2 DEF SameRequest, MayMake
    <3>. QED BY <2>2, <3>2, <3>3
  <2>. QED BY <2>1, <2>2, DoneOthers
<1>2. Makers' \subseteq Makers \ {r}
    BY <1>1 DEF Makers
<1>3. RoomLeft'
  <2>1. CASE Unmades' = Unmades
    BY <1>2, <2>1, RoomKept DEF ProjectsInv
  <2>2. CASE MayMake(req[r]) /\ \E d \in Unmades : Unmades' = Unmades \ {d}
    BY <1>2, <2>2, RoomSpent DEF ProjectsInv, Makers
  <2>. QED BY <2>1, <2>2 DEF Spent
<1>. QED BY <1>1, <1>3 DEF ProjectsInv

-----------------------------------------------------------------------------
(* Steps that leave projects and jobs alone: one handler moves on. *)
LEMMA QuietProjects ==
    ASSUME Inv, ProjectsInv, UNCHANGED <<project, job, named, excused>>,
           NEW r \in Slots, NEW h, req' = [req EXCEPT ![r] = h], Knows(h),
           MayMake(h) => MayMake(req[r]) \/ Cardinality(Unmades) >= Cardinality(Slots)
    PROVE  ProjectsInv'
<1>1. Tables' /\ Unmades' = Unmades
    BY DEF ProjectsInv, Tables, Rows, Filings, InOrder, NamesUnique, DefaultNamed, JobsHaveProject,
           Owned, Unmades
<1>2. \A q \in Slots : req'[q] = IF q = r THEN h ELSE req[q]
    BY DEF Inv, RequestsOK
<1>3. ASSUME NEW q \in Slots PROVE Knows(req[q])'
    BY <1>2 DEF ProjectsInv, Knows, Theirs, Inside, ActiveJobs
<1>4. RoomLeft'
  <2>1. CASE MayMake(h) => MayMake(req[r])
    <3>1. Makers' \subseteq Makers
      BY <1>2, <2>1 DEF Makers, MayMake
    <3>. QED BY <1>1, <3>1, RoomKept DEF ProjectsInv
  <2>2. CASE Cardinality(Unmades) >= Cardinality(Slots)
    BY <1>1, <2>2, RoomSeen
  <2>. QED BY <2>1, <2>2
<1>. QED BY <1>1, <1>3, <1>4 DEF ProjectsInv

LEMMA RefusedProjects == ASSUME Inv, ProjectsInv, NEW r \in Slots, Refused(r) PROVE ProjectsInv'
BY IdleKnows, QuietProjects DEF Refused, Read, tables, history

(* A request begins: what it names is its caller's, and there is room for  *)
(* the project it may have to make.                                        *)
LEMMA BeginProjects ==
    ASSUME Inv, ProjectsInv, NEW r \in Slots, NEW pc, NEW op, NEW by, NEW on, NEW arg,
           Begin(r, pc, op, by, on, arg),
           op \in ProjectOps => by \in Users,
           op = "remove" => on \in Users /\ pc = "check",
           op \in {"newproject", "rename"} => arg \in {"default", "other"},
           op \in {"rename", "dropproject"} => on \in Owned(by),
           op \in {"submit", "move"} => on = NoProject \/ on \in Owned(by),
           op = "dropproject" => Droppable(on) /\ pc = "look",
           op \in {"list", "newproject", "dropproject"} => Room,
           op \in {"submit", "move"} /\ on = NoProject => Room
    PROVE  ProjectsInv'
<1>. DEFINE h == Request(pc, op, by, on, arg, IF on \in Users THEN user[on].role ELSE "none")
<1>1. req' = [req EXCEPT ![r] = h] /\ UNCHANGED <<project, job, named, excused>>
    BY DEF Begin, tables, history
<1>2. /\ h.pc = pc /\ h.op = op /\ h.by = by /\ h.on = on /\ h.arg = arg
      /\ h.default = MakeOne
    BY DEF Request
<1>. HIDE DEF h
<1>3. by \in Users /\ on \in Owned(by) => Theirs(on, by) /\ project[on].owner = by
  <2>1. by \in Users => by # NoUser
    BY AccountsAssumption
  <2>. QED BY <2>1 DEF Owned, Theirs, Unmade
<1>4. by \in Users \ named /\ on \in Owned(by) /\ Droppable(on) => project[on].name # "default"
    BY DEF ProjectsInv, Tables, DefaultNamed, Droppable
<1>5. Knows(h)
    BY <1>2, <1>3, <1>4 DEF Knows, ProjectOps
<1>6. MayMake(h) => Cardinality(Unmades) >= Cardinality(Slots)
    BY <1>2 DEF MayMake, Room, Unmades
<1>. QED BY <1>1, <1>5, <1>6, QuietProjects

LEMMA AskProjects ==
    ASSUME Inv, ProjectsInv, NEW r \in Slots,
           \/ AskUpdate(r) \/ AskRemove(r) \/ AskCreate(r) \/ AskLogin(r) \/ AskToken(r)
           \/ AskList(r) \/ AskProject(r) \/ AskRename(r) \/ AskDrop(r) \/ AskSubmit(r) \/ AskMove(r)
    PROVE  ProjectsInv'
<1>. USE DEF ProjectOps
<1>1. CASE AskUpdate(r)
    BY <1>1, BeginProjects DEF AskUpdate
<1>2. CASE AskRemove(r)
    BY <1>2, BeginProjects DEF AskRemove
<1>3. CASE AskCreate(r)
    BY <1>3, BeginProjects DEF AskCreate
<1>4. CASE AskLogin(r)
    BY <1>4, BeginProjects DEF AskLogin
<1>5. CASE AskToken(r)
    BY <1>5, BeginProjects DEF AskToken
<1>6. CASE AskList(r)
    BY <1>6, BeginProjects DEF AskList
<1>7. CASE AskProject(r)
    BY <1>7, BeginProjects DEF AskProject
<1>8. CASE AskRename(r)
    BY <1>8, BeginProjects DEF AskRename
<1>9. CASE AskDrop(r)
    BY <1>9, BeginProjects DEF AskDrop
<1>10. CASE AskSubmit(r)
  <2>1. \A u \in Users : \A p \in Owned(u) : p # NoProject
    BY AccountsAssumption DEF Owned, Projects, NoProject
  <2>. QED BY <1>10, <2>1, BeginProjects DEF AskSubmit
<1>11. CASE AskMove(r)
  <2>1. \A u \in Users : \A p \in Owned(u) : p # NoProject
    BY AccountsAssumption DEF Owned, Projects, NoProject
  <2>. QED BY <1>11, <2>1, BeginProjects DEF AskMove
<1>. QED BY <1>1, <1>2, <1>3, <1>4, <1>5, <1>6, <1>7, <1>8, <1>9, <1>10, <1>11

(* Reads: what a handler knows, it goes on to know. *)
LEMMA ReadProjects ==
    ASSUME Inv, ProjectsInv, NEW r \in Slots, NEW h, Read(r, h),
           h.op = req[r].op, h.by = req[r].by, h.on = req[r].on, Knows(h)
    PROVE  ProjectsInv'
BY QuietProjects DEF Read, tables, history, MayMake

LEMMA PlainReadKnows ==
    ASSUME NEW g, Knows(g), NEW h,
           h.op = g.op, h.by = g.by, h.on = g.on, h.default = g.default,
           h.op \notin {"remove", "dropproject"},
           h.arg = g.arg \/ h.op = "login"
    PROVE  Knows(h)
BY DEF Knows

LEMMA ReadsProjects ==
    ASSUME Inv, ProjectsInv, NEW r \in Slots,
           CheckUpdate(r) \/ CheckRemove(r) \/ CheckToken(r) \/ Callback(r) \/ LookUp(r) \/ MoveJobs(r)
    PROVE  ProjectsInv'
<1>0. Handler(req[r]) /\ Knows(req[r]) /\ Tables
    BY DEF Inv, RequestsOK, ProjectsInv
<1>1. CASE Refused(r)
    BY <1>1, RefusedProjects
<1>2. CASE Read(r, [req[r] EXCEPT !.pc = "commit"]) /\ At(r, "check", {"update", "remove", "token"})
           /\ (req[r].op = "remove" => ActiveJobs(req[r].on) = {})
  <2>. DEFINE h == [req[r] EXCEPT !.pc = "commit"]
  <2>1. /\ h.op = req[r].op /\ h.by = req[r].by /\ h.on = req[r].on /\ h.arg = req[r].arg
        /\ h.default = req[r].default /\ h.moved = req[r].moved /\ h.late = req[r].late
    BY <1>0 DEF Handler
  <2>2. Read(r, h) /\ req[r].op \in {"update", "remove", "token"}
    BY <1>2 DEF At
  <2>. HIDE DEF h
  <2>3. Knows(h)
    BY <1>0, <1>2, <2>1, <2>2 DEF Knows, ProjectOps
  <2>. QED BY <2>1, <2>2, <2>3, ReadProjects
<1>3. CASE CheckUpdate(r) \/ CheckRemove(r) \/ CheckToken(r)
    BY <1>1, <1>2, <1>3 DEF CheckUpdate, CheckRemove, CheckToken, At
<1>4. CASE Callback(r) /\ ~Refused(r)
  <2>1. PICK a, c : Read(r, [req[r] EXCEPT !.pc = "commit", !.arg = a, !.role = c])
    BY <1>4, Zenon DEF Callback
  <2>. DEFINE e == [req[r] EXCEPT !.pc = "commit"]
              f == [e EXCEPT !.arg = a]
              h == [f EXCEPT !.role = c]
  <2>2. Read(r, h) /\ req[r].op = "login"
    BY <1>4, <2>1 DEF Callback, At
  <2>3. Handler(e) /\ e.op = req[r].op /\ e.by = req[r].by /\ e.on = req[r].on /\ e.default = req[r].default
    BY <1>0 DEF Handler
  <2>. HIDE DEF e
  <2>4. Handler(f) /\ f.op = e.op /\ f.by = e.by /\ f.on = e.on /\ f.default = e.default
    BY <2>3 DEF Handler
  <2>. HIDE DEF f
  <2>5. h.op = f.op /\ h.by = f.by /\ h.on = f.on /\ h.default = f.default
    BY <2>4 DEF Handler
  <2>. HIDE DEF h
  <2>6. Knows(h)
    BY <1>0, <2>2, <2>3, <2>4, <2>5, PlainReadKnows
  <2>. QED BY <2>2, <2>3, <2>4, <2>5, <2>6, ReadProjects
<1>5. CASE LookUp(r)
  <2>. DEFINE u == req[r].by
              p == IF req[r].op = "dropproject" THEN "move" ELSE "commit"
              v == IF Default(u) # {} THEN CHOOSE x \in Default(u) : TRUE
                   ELSE IF Named(u, "default") # {} THEN CHOOSE x \in Named(u, "default") : TRUE
                   ELSE MakeOne
              f == [req[r] EXCEPT !.pc = p]
              h == [f EXCEPT !.default = v]
  <2>1. Read(r, h) /\ req[r].op \in {"list", "dropproject", "submit", "move"}
    BY <1>5 DEF LookUp, At, Look
  <2>2. u \in Users /\ u # NoUser
    BY <1>0, <2>1, AccountsAssumption DEF Knows, ProjectOps
  <2>3. v # MakeOne => Theirs(v, u) /\ (u \notin named => project[v].name = "default")
    <3>1. CASE Default(u) # {}
      <4>1. v \in Default(u)
        BY <3>1
      <4>. QED BY <1>0, <2>2, <4>1 DEF Default, Owned, Theirs, Unmade, Tables, DefaultNamed
    <3>2. CASE Default(u) = {} /\ Named(u, "default") # {}
      <4>1. v \in Named(u, "default")
        BY <3>2
      <4>. QED BY <1>0, <2>2, <4>1 DEF Named, Owned, Theirs, Unmade
    <3>. QED BY <3>1, <3>2
  <2>. HIDE DEF v
  <2>4. /\ Handler(f) /\ f.op = req[r].op /\ f.by = u /\ f.on = req[r].on /\ f.arg = req[r].arg
        /\ f.moved = req[r].moved /\ f.late = req[r].late /\ f.pc = p
    BY <1>0 DEF Handler
  <2>. HIDE DEF f
  <2>5. /\ h.op = f.op /\ h.by = f.by /\ h.on = f.on /\ h.arg = f.arg
        /\ h.moved = f.moved /\ h.late = f.late /\ h.pc = f.pc /\ h.default = v
    BY <2>4 DEF Handler
  <2>. HIDE DEF h
  <2>6. Knows(h)
    BY <1>0, <2>1, <2>2, <2>3, <2>4, <2>5 DEF Knows, ProjectOps
  <2>. QED BY <2>1, <2>4, <2>5, <2>6, ReadProjects
<1>6. CASE MoveJobs(r)
  <2>. DEFINE f == [req[r] EXCEPT !.pc = "commit"]
              h == [f EXCEPT !.moved = Inside(req[r].on)]
  <2>1. Read(r, h) /\ req[r].op = "dropproject"
    BY <1>6 DEF MoveJobs, At
  <2>2. /\ Handler(f) /\ f.op = req[r].op /\ f.by = req[r].by /\ f.on = req[r].on /\ f.arg = req[r].arg
        /\ f.default = req[r].default /\ f.late = req[r].late
    BY <1>0 DEF Handler
  <2>. HIDE DEF f
  <2>3. /\ h.op = f.op /\ h.by = f.by /\ h.on = f.on /\ h.arg = f.arg
        /\ h.default = f.default /\ h.late = f.late /\ h.moved = Inside(req[r].on)
    BY <2>2 DEF Handler
  <2>. HIDE DEF h
  <2>4. Knows(h)
    BY <1>0, <2>1, <2>2, <2>3 DEF Knows, ProjectOps
  <2>. QED BY <2>1, <2>2, <2>3, <2>4, ReadProjects
<1>. QED BY <1>1, <1>3, <1>4, <1>5, <1>6

-----------------------------------------------------------------------------
(* ensure_default_project: the project it settles on is its user's in the  *)
(* table it leaves, marked, and named after the default unless the user    *)
(* meddled with that name.                                                 *)
SettlesOn(u, d, P) ==
    /\ u \in Users /\ d \in Projects
    /\ P \in [Projects -> Row]
    /\ \A p \in Projects \ {d} : P[p] = project[p]
    /\ P[d].owner = u /\ P[d].default = TRUE /\ P[d].name \in {"default", "other"}
    /\ Named(u, P[d].name) \subseteq {d}
    /\ Fresh = {d} \/ d \in Owned(u)
    /\ d \in Owned(u) => P[d].name = project[d].name
    /\ u \notin named => P[d].name = "default"

LEMMA Settling ==
    ASSUME Inv, ProjectsInv, NEW r \in Slots, MayMake(req[r]), NEW u, u = req[r].by,
           NEW d, d = Settled(r, u), d # 0, NEW P, P = WithDefault(r, u)
    PROVE  SettlesOn(u, d, P)
<1>. USE DEF SettlesOn
<1>1. Knows(req[r]) /\ Tables
    BY DEF ProjectsInv
<1>2. u \in Users /\ u # NoUser
    BY <1>1, AccountsAssumption DEF Knows, MayMake, ProjectOps
<1>3. PICK e \in Unmades : Fresh = {e}
    BY MakerFindsFresh
<1>4. \/ d = e /\ Named(u, "default") = {}
      \/ d \in Owned(u) /\ (u \notin named => project[d].name = "default")
  <2>1. CASE req[r].default # MakeOne
    <3>1. d = req[r].default /\ project[d].owner = u
      BY <2>1 DEF Settled
    <3>2. d \in Projects /\ (u \notin named => project[d].name = "default")
      BY <1>1, <2>1, <3>1 DEF Knows, Theirs
    <3>. QED BY <3>1, <3>2 DEF Owned
  <2>2. CASE req[r].default = MakeOne /\ Named(u, "default") = {}
    <3>1. d = CHOOSE p \in Fresh : TRUE
      BY <2>2 DEF Settled
    <3>2. d \in Fresh
      BY <1>3, <3>1
    <3>. QED BY <1>3, <2>2, <3>2
  <2>3. CASE req[r].default = MakeOne /\ Named(u, "default") # {}
    <3>1. Default(u) # {} /\ d = CHOOSE p \in Default(u) : TRUE
      BY <2>3 DEF Settled
    <3>2. d \in Default(u)
      BY <3>1
    <3>. QED BY <1>1, <1>2, <3>2 DEF Default, Owned, Tables, DefaultNamed
  <2>. QED BY <2>1, <2>2, <2>3
<1>5. CASE d = e /\ Named(u, "default") = {}
  <2>1. d \in Fresh /\ d \in Projects
    BY <1>3, <1>5 DEF Unmades
  <2>2. P = [project EXCEPT ![d] = [owner |-> u, name |-> "default", default |-> TRUE]]
    BY <2>1 DEF WithDefault
  <2>3. [owner |-> u, name |-> "default", default |-> TRUE] \in Row
    BY <1>2 DEF Row
  <2>4. d \notin Owned(u)
    BY <1>2, <2>1 DEF Fresh, Owned, Unmade
  <2>. QED BY <1>1, <1>2, <1>3, <1>5, <2>1, <2>2, <2>3, <2>4 DEF Tables, Rows
<1>6. CASE d \in Owned(u) /\ (u \notin named => project[d].name = "default")
  <2>1. d \in Projects /\ project[d].owner = u /\ d \notin Fresh
    BY <1>2, <1>6 DEF Owned, Fresh, Unmade
  <2>2. P = [project EXCEPT ![d].default = TRUE]
    BY <2>1 DEF WithDefault
  <2>3. /\ P \in [Projects -> Row]
        /\ \A p \in Projects \ {d} : P[p] = project[p]
        /\ P[d].owner = u /\ P[d].default = TRUE /\ P[d].name = project[d].name
    <3>. DEFINE x == [project[d] EXCEPT !.default = TRUE]
    <3>1. project[d] \in Row /\ project \in [Projects -> Row]
      BY <1>1, <2>1 DEF Tables, Rows
    <3>2. x \in Row /\ x.owner = u /\ x.name = project[d].name /\ x.default = TRUE
      BY <2>1, <3>1 DEF Row
    <3>3. P = [project EXCEPT ![d] = x]
      BY <2>2
    <3>. HIDE DEF x
    <3>. QED BY <2>1, <3>1, <3>2, <3>3
  <2>4. project[d].name \in {"default", "other"} /\ Named(u, project[d].name) \subseteq {d}
    BY <1>1, <1>2, <1>6, <2>1 DEF Tables, Rows, NamesUnique, Named
  <2>. QED BY <1>2, <1>6, <2>1, <2>3, <2>4
<1>. QED BY <1>4, <1>5, <1>6

(* A commit that deletes no project leaves every job its own. *)
LEMMA NothingDropped ==
    ASSUME Tables, NEW u \in Users, NEW d \in Projects, project' \in [Projects -> Row],
           \A p \in Projects \ {d} : Kept(p), Kept(d) \/ Made(d, u) \/ Changed(d, u)
    PROVE  \A p \in Projects : project[p].owner \in Users => project'[p].owner = project[p].owner
<1>. SUFFICES ASSUME NEW p \in Projects, project[p].owner \in Users
              PROVE  project'[p].owner = project[p].owner
    OBVIOUS
<1>1. CASE Kept(p)
    BY <1>1 DEF Kept
<1>2. CASE p = d /\ Made(d, u)
  <2>1. d \in Fresh
    BY <1>2 DEF Made
  <2>. QED BY <1>2, <2>1, AccountsAssumption DEF Fresh, Unmade
<1>3. CASE p = d /\ Changed(d, u)
    BY <1>3 DEF Changed, GivenTo, Owned
<1>. QED BY <1>1, <1>2, <1>3

LEMMA ProjectCommit ==
    ASSUME Inv, ProjectsInv, NEW r \in Slots, NEW u \in Users, NEW d \in Projects,
           Done(r, {}), UNCHANGED <<job, excused>>, named \subseteq named',
           project' \in [Projects -> Row],
           \A p \in Projects \ {d} : Kept(p),
           (Made(d, u) /\ MayMake(req[r])) \/ Changed(d, u)
    PROVE  ProjectsInv'
<1>1. Tables
    BY DEF ProjectsInv
<1>2. RowStep(u)
    BY DEF RowStep
<1>3. Rows' /\ NamesUnique' /\ DefaultNamed' /\ Aged /\ InOrder' /\ Spent
    BY <1>1, <1>2, RowsStep, OrderStep
<1>4. Unmades' = Unmades \/ (MayMake(req[r]) /\ Spent)
  <2>1. CASE MayMake(req[r])
    BY <1>3, <2>1
  <2>2. CASE ~MayMake(req[r])
    <3>1. Changed(d, u) /\ d \notin Fresh
      BY <2>2, AccountsAssumption DEF Changed, Owned, Fresh, Unmade
    <3>2. \A p \in Projects : ~Made(p, u)
      <4>. SUFFICES ASSUME NEW p \in Projects, Made(p, u) PROVE FALSE
        OBVIOUS
      <4>1. p \in Fresh /\ project'[p].owner = u
        BY DEF Made, GivenTo
      <4>2. p # d /\ project[p].owner = NoUser
        <5>1. p # d
          BY <3>1, <4>1
        <5>2. project[p] = Unmade
          BY <4>1 DEF Fresh
        <5>. QED BY <5>1, <5>2 DEF Unmade
      <4>3. project'[p] = project[p]
        BY <4>2 DEF Kept
      <4>. QED BY <4>1, <4>2, <4>3, AccountsAssumption
    <3>. QED BY <1>1, <1>2, <3>2, OrderStep
  <2>. QED BY <2>1, <2>2
<1>5. \A p \in Projects : project[p].owner \in Users => project'[p].owner = project[p].owner
    BY <1>1, NothingDropped
<1>6. JobsHaveProject' /\ Filings'
    BY <1>1, <1>5 DEF Tables, JobsHaveProject, Filings, Owned
<1>7. JobStep({})
    BY DEF JobStep
<1>. QED BY <1>3, <1>4, <1>6, <1>7, CommitProjects DEF Tables

LEMMA ListStep == ASSUME Inv, ProjectsInv, NEW r \in Slots, List(r) PROVE ProjectsInv'
<1>. DEFINE u == req[r].by
            d == Settled(r, u)
            P == WithDefault(r, u)
<1>1. CASE d = 0
    BY <1>1, RefusedProjects DEF List
<1>2. CASE d # 0
  <2>1. MayMake(req[r]) /\ project' = P /\ Done(r, {}) /\ UNCHANGED <<job, excused, named>>
    BY <1>2 DEF List, At, MayMake
  <2>2. SettlesOn(u, d, P)
    BY <1>2, <2>1, Settling
  <2>. HIDE DEF u, d, P
  <2>3. /\ u \in Users /\ d \in Projects /\ project' \in [Projects -> Row]
        /\ \A p \in Projects \ {d} : Kept(p)
    BY <2>1, <2>2 DEF Kept, SettlesOn
  <2>4. Made(d, u) \/ Changed(d, u)
    BY <2>1, <2>2 DEF Made, Changed, GivenTo, SettlesOn
  <2>. QED BY <2>1, <2>3, <2>4, ProjectCommit
<1>. QED BY <1>1, <1>2

LEMMA MakeProjectStep == ASSUME Inv, ProjectsInv, NEW r \in Slots, MakeProject(r) PROVE ProjectsInv'
<1>. DEFINE u == req[r].by
            n == req[r].arg
            d == CHOOSE p \in Fresh : TRUE
<1>1. CASE Refused(r)
    BY <1>1, RefusedProjects
<1>2. CASE ~Refused(r)
  <2>1. /\ MayMake(req[r]) /\ req[r].op = "newproject"
        /\ Named(u, n) = {}
        /\ project' = [project EXCEPT ![d] = [owner |-> u, name |-> n, default |-> FALSE]]
        /\ UNCHANGED <<job, excused>> /\ Naming(r) /\ Done(r, {})
    BY <1>2 DEF MakeProject, At, MayMake
  <2>2. u \in Users /\ n \in {"default", "other"}
    BY <2>1 DEF ProjectsInv, Knows, ProjectOps
  <2>3. PICK e \in Unmades : Fresh = {e}
    BY <2>1, MakerFindsFresh
  <2>4. d \in Projects /\ Fresh = {d}
    BY <2>3 DEF Unmades
  <2>. HIDE DEF u, n, d
  <2>5. named' = IF n = "default" THEN named \cup {u} ELSE named
    BY <2>1 DEF Naming, u, n
  <2>6. [owner |-> u, name |-> n, default |-> FALSE] \in Row
    BY <2>2 DEF Row
  <2>7. /\ project' \in [Projects -> Row]
        /\ \A p \in Projects \ {d} : Kept(p)
        /\ project'[d] = [owner |-> u, name |-> n, default |-> FALSE]
    BY <2>1, <2>4, <2>6 DEF ProjectsInv, Tables, Rows, Kept
  <2>8. Made(d, u)
    BY <2>1, <2>2, <2>4, <2>5, <2>7 DEF Made, GivenTo
  <2>. QED BY <2>1, <2>2, <2>4, <2>5, <2>7, <2>8, ProjectCommit
<1>. QED BY <1>1, <1>2

LEMMA RenameStep == ASSUME Inv, ProjectsInv, NEW r \in Slots, Rename(r) PROVE ProjectsInv'
<1>. DEFINE u == req[r].by
            n == req[r].arg
            d == req[r].on
<1>1. CASE Refused(r)
    BY <1>1, RefusedProjects
<1>2. CASE ~Refused(r)
  <2>1. /\ req[r].op = "rename" /\ project[d].owner = u /\ Named(u, n) \ {d} = {}
        /\ project' = [project EXCEPT ![d].name = n]
        /\ UNCHANGED <<job, excused>> /\ Naming(r) /\ Done(r, {})
    BY <1>2 DEF Rename, At
  <2>2. u \in Users /\ n \in {"default", "other"} /\ d \in Projects
    BY <2>1 DEF ProjectsInv, Knows, ProjectOps, Theirs
  <2>3. Tables
    BY DEF ProjectsInv
  <2>. HIDE DEF u, n, d
  <2>4. named' = IF n = "default" \/ project[d].name = "default" THEN named \cup {u} ELSE named
    BY <2>1 DEF Naming, u, n, d
  <2>5. /\ project' \in [Projects -> Row]
        /\ \A p \in Projects \ {d} : Kept(p)
        /\ project'[d].owner = u /\ project'[d].name = n /\ project'[d].default = project[d].default
    BY <2>1, <2>2, <2>3 DEF Tables, Rows, Row, Kept
  <2>6. d \in Owned(u) /\ project[d].name \in {"default", "other"}
        /\ (u \notin named => (project[d].default <=> project[d].name = "default"))
    BY <2>1, <2>2, <2>3 DEF Owned, Tables, Rows, DefaultNamed
  <2>7. Changed(d, u)
    BY <2>1, <2>2, <2>4, <2>5, <2>6 DEF Changed, GivenTo
  <2>. QED BY <2>1, <2>2, <2>4, <2>5, <2>7, ProjectCommit
<1>. QED BY <1>1, <1>2

-----------------------------------------------------------------------------
(* delete_project: of the jobs inside, those it has seen go to the default *)
(* project, the late ones are excused; no other can be inside, unless the  *)
(* default project is the one deleted.                                     *)
LEMMA DropProjectStep == ASSUME Inv, ProjectsInv, NEW r \in Slots, DropProject(r) PROVE ProjectsInv'
<1>. DEFINE h == req[r]
            u == h.by
            o == h.on
            d == Settled(r, u)
            P == WithDefault(r, u)
<1>1. CASE d = 0
    BY <1>1, RefusedProjects DEF DropProject
<1>2. CASE d # 0
  <2>1. /\ MayMake(h) /\ h.op = "dropproject" /\ h.pc = "commit"
        /\ project' = [P EXCEPT ![o] = Deleted] /\ Done(r, {}) /\ named' = named
        /\ job' = [j \in Jobs |->
              IF job[j].project # o THEN job[j]
              ELSE [job[j] EXCEPT !.project = IF j \in h.moved /\ d # o THEN d ELSE NoProject]]
        /\ excused' = excused \cup {j \in h.late : job[j].project = o}
    BY <1>2 DEF DropProject, At, MayMake
  <2>2. SettlesOn(u, d, P)
    BY <1>2, <2>1, Settling
  <2>3. Knows(h) /\ Tables /\ u # NoUser
    BY <2>2, AccountsAssumption DEF ProjectsInv, SettlesOn
  <2>. HIDE DEF u, o, d, P, h
  <2>4. /\ Theirs(o, u)
        /\ u \notin named => /\ project[o].owner = u => project[o].name # "default"
                             /\ Inside(o) \subseteq h.moved \cup h.late
    BY <2>1, <2>3 DEF Knows, h, u, o
  <2>5. o \in Projects /\ project[o] # Unmade /\ project[o].owner \in {u, NoUser} /\ o # NoProject
    BY <2>4, AccountsAssumption DEF Theirs, Projects, NoProject
  <2>6. u \notin named /\ project[o].owner = u => d # o
    BY <2>2, <2>4, <2>5 DEF SettlesOn, Fresh, Owned
  <2>7. Deleted \in Row
    BY AccountsAssumption DEF Deleted, Unmade, Row
  <2>8. /\ project' \in [Projects -> Row]
        /\ project'[o] = Deleted
        /\ \A p \in Projects \ {o, d} : project'[p] = project[p]
        /\ d # o => project'[d] = P[d]
    BY <2>1, <2>2, <2>5, <2>7 DEF SettlesOn
  <2>9. RowStep(u)
    <3>1. Dropped(o) /\ \A p \in Projects \ {o, d} : Kept(p)
      BY <2>5, <2>8 DEF Dropped, Kept
    <3>2. d # o => Made(d, u) \/ Changed(d, u)
      BY <2>1, <2>2, <2>8 DEF Made, Changed, GivenTo, SettlesOn
    <3>3. d \in Projects
      BY <2>2 DEF SettlesOn
    <3>. QED BY <2>1, <2>8, <3>1, <3>2, <3>3 DEF RowStep
  <2>10. Rows' /\ NamesUnique' /\ DefaultNamed' /\ Aged /\ InOrder' /\ Spent
    BY <2>2, <2>3, <2>9, RowsStep, OrderStep DEF SettlesOn
  <2>11. \A p \in Projects \ {o} : project[p].owner \in Users => project'[p].owner = project[p].owner
    <3>. SUFFICES ASSUME NEW p \in Projects \ {o}, project[p].owner \in Users
                  PROVE  project'[p].owner = project[p].owner
      OBVIOUS
    <3>1. CASE p # d
      BY <2>8, <3>1
    <3>2. CASE p = d
      <4>1. project'[d].owner = u /\ (Fresh = {d} \/ d \in Owned(u))
        BY <2>2, <2>8, <3>2 DEF SettlesOn
      <4>2. d \notin Fresh
        BY <3>2, AccountsAssumption DEF Fresh, Unmade
      <4>. QED BY <3>2, <4>1, <4>2 DEF Owned
    <3>. QED BY <3>1, <3>2
  <2>12. d \in Projects /\ d # NoProject
    BY <2>2, AccountsAssumption DEF SettlesOn, Projects, NoProject
  <2>13. \A j \in Jobs :
            /\ job'[j].owner = job[j].owner /\ job'[j].status = job[j].status
            /\ job[j].project # o => job'[j].project = job[j].project
            /\ job[j].project = o =>
                  job'[j].project = IF j \in h.moved /\ d # o THEN d ELSE NoProject
    BY <2>1, <2>3 DEF Tables, Filings
  <2>14. Filings'
    <3>. SUFFICES ASSUME NEW j \in Jobs
                  PROVE  job'[j] \in [owner : Users \cup {NoUser}, project : Projects \cup {NoProject},
                                      status : {"new", "queued", "running", "ended", "gone"}]
      BY <2>1 DEF Filings
    <3>. DEFINE v == IF j \in h.moved /\ d # o THEN d ELSE NoProject
    <3>1. job'[j] = job[j] \/ job'[j] = [job[j] EXCEPT !.project = v]
      BY <2>1
    <3>2. v \in Projects \cup {NoProject}
      BY <2>12
    <3>. HIDE DEF v
    <3>. QED BY <2>3, <3>1, <3>2 DEF Tables, Filings
  <2>15. JobsHaveProject'
    <3>. SUFFICES ASSUME NEW j \in Jobs, NEW w \in Users, job[j].owner = w
                  PROVE  \/ job'[j].project \in Projects /\ project'[job'[j].project].owner = w
                         \/ job'[j].project = NoProject /\ (j \in excused' \/ w \in named)
      BY <2>1, <2>13 DEF JobsHaveProject, Owned
    <3>1. \/ job[j].project \in Projects /\ project[job[j].project].owner = w
          \/ job[j].project = NoProject /\ (j \in excused \/ w \in named)
      BY <2>3 DEF Tables, JobsHaveProject, Owned
    <3>2. CASE job[j].project # o
      BY <2>1, <2>11, <2>13, <3>1, <3>2
    <3>3. CASE job[j].project = o
      <4>1. w = u /\ project[o].owner = u
        BY <2>5, <3>1, <3>3, AccountsAssumption
      <4>2. CASE j \in h.moved /\ d # o
        <5>1. job'[j].project = d /\ project'[d].owner = u
          BY <2>2, <2>8, <2>13, <3>3, <4>2 DEF SettlesOn
        <5>. QED BY <2>12, <4>1, <5>1
      <4>3. CASE ~(j \in h.moved /\ d # o)
        <5>1. job'[j].project = NoProject
          BY <2>13, <3>3, <4>3
        <5>2. u \notin named => j \in h.late
          BY <2>4, <2>6, <3>3, <4>1, <4>3 DEF Inside
        <5>. QED BY <2>1, <3>3, <4>1, <5>1, <5>2
      <4>. QED BY <4>2, <4>3
    <3>. QED BY <3>2, <3>3
  <2>16. JobStep({})
    <3>. SUFFICES ASSUME NEW j \in Jobs, NEW p \in Projects, job'[j].project = p, job[j].project # p
                  PROVE  /\ project'[p].owner \in Users
                         /\ project'[p].owner \notin named' => project'[p].name = "default"
      BY <2>13 DEF JobStep
    <3>1. p = d /\ d # o
      BY <2>12, <2>13, AccountsAssumption DEF Projects, NoProject
    <3>. QED BY <2>1, <2>2, <2>8, <3>1 DEF SettlesOn
  <2>. QED BY <2>1, <2>10, <2>14, <2>15, <2>16, CommitProjects DEF Tables, h
<1>. QED BY <1>1, <1>2

-----------------------------------------------------------------------------
(* The other commits, the worker and the restart. *)
LEMMA FileStep == ASSUME Inv, ProjectsInv, NEW r \in Slots, File(r) PROVE ProjectsInv'
<1>. DEFINE h == req[r]
            u == h.by
            d == Place(r)
            P == WithDefault(r, u)
            filed == IF h.op = "submit" THEN {CHOOSE j \in Jobs : job[j] = NoJob}
                     ELSE {j \in Jobs : job[j].owner = u}
            row(j) == [owner |-> u, project |-> d,
                       status |-> IF h.op = "submit" THEN "queued" ELSE job[j].status]
<1>1. CASE Refused(r)
    BY <1>1, RefusedProjects
<1>2. CASE ~Refused(r)
  <2>1. /\ h.op \in {"submit", "move"} /\ d # 0
        /\ h.op = "submit" => \E j \in Jobs : job[j] = NoJob
        /\ project' = IF h.on = NoProject THEN P ELSE project
        /\ job' = [j \in Jobs |-> IF j \notin filed THEN job[j] ELSE row(j)]
        /\ UNCHANGED <<named, excused>> /\ Done(r, filed)
    BY <1>2 DEF File, At
  <2>2. Knows(h) /\ Tables
    BY DEF ProjectsInv
  <2>3. u \in Users /\ u # NoUser
    BY <2>1, <2>2, AccountsAssumption DEF Knows, ProjectOps
  <2>4. filed \subseteq Jobs
    BY <2>1
  <2>5. ASSUME d \in Projects, project'[d].owner = u,
               Rows', NamesUnique', DefaultNamed', InOrder', Aged,
               Unmades' = Unmades \/ (MayMake(h) /\ Spent),
               \A p \in Projects : project[p].owner \in Users => project'[p].owner = project[p].owner
        PROVE  ProjectsInv'
    <3>. HIDE DEF u, d, h
    <3>1. \A j \in Jobs : job'[j] = IF j \notin filed THEN job[j] ELSE row(j)
      BY <2>1
    <3>2. \A j \in Jobs : row(j).owner = u /\ row(j).project = d
      OBVIOUS
    <3>3. \A j \in Jobs :
              row(j) \in [owner : Users \cup {NoUser}, project : Projects \cup {NoProject},
                         status : {"new", "queued", "running", "ended", "gone"}]
      BY <2>2, <2>3, <2>5 DEF Tables, Filings
    <3>. HIDE DEF filed, row
    <3>4. \A j \in filed : job'[j].owner = u /\ job'[j].project = d
      BY <2>4, <3>1, <3>2
    <3>5. \A j \in Jobs \ filed : job'[j] = job[j]
      BY <3>1
    <3>6. Filings'
      <4>. SUFFICES ASSUME NEW j \in Jobs
                    PROVE  job'[j] \in [owner : Users \cup {NoUser}, project : Projects \cup {NoProject},
                                        status : {"new", "queued", "running", "ended", "gone"}]
        BY <2>1 DEF Filings
      <4>. QED BY <2>2, <3>1, <3>3 DEF Tables, Filings
    <3>7. JobsHaveProject'
      <4>. SUFFICES ASSUME NEW j \in Jobs, NEW w \in Users, job'[j].owner = w
                    PROVE  \/ job'[j].project \in Projects /\ project'[job'[j].project].owner = w
                           \/ job'[j].project = NoProject /\ (j \in excused \/ w \in named)
        BY <2>1 DEF JobsHaveProject, Owned
      <4>1. CASE j \in filed
        BY <2>5, <3>4, <4>1
      <4>2. CASE j \notin filed
        BY <2>2, <2>5, <3>5, <4>2 DEF Tables, JobsHaveProject, Owned
      <4>. QED BY <4>1, <4>2
    <3>8. JobStep(filed)
      BY <3>5 DEF JobStep
    <3>. QED BY <2>1, <2>5, <3>6, <3>7, <3>8, CommitProjects DEF Tables, h
  <2>6. CASE h.on = NoProject
    <3>1. MayMake(h) /\ d = Settled(r, u) /\ project' = P
      BY <2>1, <2>6 DEF MayMake, Place
    <3>2. SettlesOn(u, d, P)
      BY <2>1, <3>1, Settling
    <3>. HIDE DEF u, d, P, h
    <3>3. /\ d \in Projects /\ project' \in [Projects -> Row]
          /\ \A p \in Projects \ {d} : Kept(p)
          /\ Made(d, u) \/ Changed(d, u)
          /\ project'[d].owner = u
      BY <2>1, <3>1, <3>2 DEF SettlesOn, Kept, Made, Changed, GivenTo
    <3>4. RowStep(u)
      BY <2>1, <3>3 DEF RowStep
    <3>5. /\ Rows' /\ NamesUnique' /\ DefaultNamed' /\ Aged /\ InOrder' /\ Spent
          /\ \A p \in Projects : project[p].owner \in Users => project'[p].owner = project[p].owner
      BY <2>2, <2>3, <3>3, <3>4, RowsStep, OrderStep, NothingDropped
    <3>. QED BY <2>1, <2>2, <2>3, <3>1, <3>3, <3>5, <2>5 DEF h
  <2>7. CASE h.on # NoProject
    <3>1. d \in Projects /\ project[d].owner = u /\ project' = project
      BY <2>1, <2>2, <2>7 DEF Place, Knows, Theirs
    <3>2. Rows' /\ NamesUnique' /\ DefaultNamed' /\ InOrder' /\ Aged /\ Unmades' = Unmades
      BY <2>1, <2>2, <3>1 DEF Tables, Rows, NamesUnique, DefaultNamed, InOrder, Aged, Unmades, Owned
    <3>. QED BY <2>5, <3>1, <3>2
  <2>. QED BY <2>6, <2>7
<1>. QED BY <1>1, <1>2

LEMMA RemoveProjects == ASSUME Inv, ProjectsInv, NEW r \in Slots, Remove(r) PROVE ProjectsInv'
<1>. DEFINE u == req[r].on
<1>1. /\ req[r].op = "remove"
      /\ project' = [p \in Projects |-> IF p \in Owned(u) THEN Deleted ELSE project[p]]
      /\ job' = [j \in Jobs |-> IF job[j].owner = u THEN Gone ELSE job[j]]
      /\ UNCHANGED <<named, excused>> /\ Done(r, {})
    BY DEF Remove, At, JobsWithout
<1>2. Tables /\ u \in Users /\ u # NoUser
    BY <1>1, AccountsAssumption DEF ProjectsInv, Knows
<1>. HIDE DEF u
<1>3. \A p \in Projects : Kept(p) \/ Dropped(p)
    BY <1>1, <1>2 DEF Kept, Dropped, Owned, Unmade
<1>4. project' \in [Projects -> Row]
  <2>1. Deleted \in Row
    BY AccountsAssumption DEF Deleted, Unmade, Row
  <2>. QED BY <1>1, <1>2, <2>1 DEF Tables, Rows
<1>5. Rows' /\ NamesUnique' /\ DefaultNamed' /\ Aged /\ InOrder' /\ Unmades' = Unmades
  <2>1. CASE Projects = {}
    BY <1>1, <1>2, <1>4, <2>1 DEF Tables, Rows, NamesUnique, DefaultNamed, Aged, InOrder,
        Unmades, Owned
  <2>2. CASE Projects # {}
    <3>1. RowStep(u)
      BY <1>1, <1>3, <1>4, <2>2 DEF RowStep
    <3>2. \A p \in Projects : ~Made(p, u)
      <4>. SUFFICES ASSUME NEW p \in Projects, Made(p, u) PROVE FALSE
        OBVIOUS
      <4>1. project[p] = Unmade /\ project'[p].owner = u
        BY DEF Made, GivenTo, Fresh
      <4>2. Kept(p)
        BY <1>3, <4>1 DEF Dropped
      <4>. QED BY <1>2, <4>1, <4>2 DEF Kept, Unmade
    <3>. QED BY <1>2, <3>1, <3>2, RowsStep, OrderStep
  <2>. QED BY <2>1, <2>2
<1>6. Gone \in [owner : Users \cup {NoUser}, project : Projects \cup {NoProject},
                status : {"new", "queued", "running", "ended", "gone"}]
      /\ Gone.owner = NoUser /\ Gone.project = NoProject /\ Gone.status = "gone"
    BY DEF Gone, NoJob
<1>7. Filings'
    BY <1>1, <1>2, <1>6 DEF Tables, Filings
<1>8. JobsHaveProject'
  <2>. SUFFICES ASSUME NEW j \in Jobs, NEW w \in Users, job'[j].owner = w
                PROVE  \/ job'[j].project \in Projects /\ project'[job'[j].project].owner = w
                       \/ job'[j].project = NoProject /\ (j \in excused \/ w \in named)
    BY <1>1 DEF JobsHaveProject, Owned
  <2>1. job'[j] = job[j] /\ w # u
    BY <1>1, <1>6, AccountsAssumption
  <2>2. \/ job[j].project \in Projects /\ project[job[j].project].owner = w
        \/ job[j].project = NoProject /\ (j \in excused \/ w \in named)
    BY <1>2, <2>1 DEF Tables, JobsHaveProject, Owned
  <2>. QED BY <1>1, <2>1, <2>2 DEF Owned
<1>9. JobStep({})
    BY <1>1, <1>6, AccountsAssumption DEF JobStep, Projects, NoProject, Active
<1>. QED BY <1>1, <1>5, <1>7, <1>8, <1>9, CommitProjects DEF Tables

LEMMA UserCommits ==
    ASSUME Inv, ProjectsInv, NEW r \in Slots,
           Update(r) \/ Create(r) \/ Login(r) \/ MakeToken(r)
    PROVE  ProjectsInv'
<1>1. CASE Refused(r)
    BY <1>1, RefusedProjects
<1>2. CASE UNCHANGED <<project, job, named, excused>> /\ Done(r, {})
  <2>1. Tables' /\ Aged /\ Unmades' = Unmades
    BY <1>2 DEF ProjectsInv, Tables, Rows, Filings, InOrder, NamesUnique, DefaultNamed, JobsHaveProject,
           Owned, Unmades, Aged
  <2>2. JobStep({})
    BY <1>2 DEF JobStep
  <2>. QED BY <1>2, <2>1, <2>2, CommitProjects
<1>. QED BY <1>1, <1>2 DEF Update, Create, Login, MakeToken

LEMMA OutsideProjects ==
    ASSUME Inv, ProjectsInv,
           (\E u \in Users : DropToken(u)) \/ (\E j \in Jobs : Work(j)) \/ Restart \/ UNCHANGED vars
    PROVE  ProjectsInv'
<1>0. Tables /\ Filings
    BY DEF ProjectsInv, Tables
<1>1. UNCHANGED <<project, named, excused>>
    BY DEF DropToken, Work, Restart, vars, tables, history
<1>2. \A j \in Jobs :
          /\ job'[j].owner = job[j].owner /\ job'[j].project = job[j].project
          /\ job'[j].status \in Active => job[j].status \in Active
          /\ job'[j] \in [owner : Users \cup {NoUser}, project : Projects \cup {NoProject},
                          status : {"new", "queued", "running", "ended", "gone"}]
    BY <1>0 DEF Filings, DropToken, Work, Restart, vars, tables, Active
<1>3. Filings'
  <2>1. job' = [j \in Jobs |-> job'[j]]
    BY <1>0 DEF Filings, DropToken, Work, Restart, vars, tables
  <2>. QED BY <1>2, <2>1 DEF Filings
<1>4. Tables' /\ Unmades' = Unmades
  <2>1. JobsHaveProject'
    BY <1>0, <1>1, <1>2 DEF Tables, JobsHaveProject, Owned
  <2>. QED BY <1>0, <1>1, <1>3, <2>1 DEF Tables, Rows, InOrder, NamesUnique, DefaultNamed, Owned, Unmades
<1>5. ASSUME NEW q \in Slots PROVE Knows(req[q])' /\ (MayMake(req[q])' => MayMake(req[q]))
  <2>1. CASE req'[q] = Idle
    <3>1. (Knows(Idle) /\ ~MayMake(Idle))'
      BY DEF Knows, MayMake, Idle, Request, ProjectOps
    <3>. QED BY <2>1, <3>1 DEF Knows, MayMake, Idle, Request, ProjectOps
  <2>2. CASE req'[q] = req[q]
    <3>1. Knows(req[q])
      BY DEF ProjectsInv
    <3>2. \A p : Inside(p)' = Inside(p)
      BY <1>2 DEF Inside
    <3>3. \A u : ActiveJobs(u)' \subseteq ActiveJobs(u)
      BY <1>2 DEF ActiveJobs, Active
    <3>. QED BY <1>1, <2>2, <3>1, <3>2, <3>3 DEF Knows, Theirs, MayMake
  <2>. QED BY <2>1, <2>2 DEF DropToken, Work, Restart, vars
<1>6. Makers' \subseteq Makers
    BY <1>5 DEF Makers
<1>. QED BY <1>4, <1>5, <1>6, RoomKept DEF ProjectsInv

LEMMA ProjectsStep == Inv /\ ProjectsInv /\ [Next]_vars => ProjectsInv'
<1>. SUFFICES ASSUME Inv, ProjectsInv, [Next]_vars PROVE ProjectsInv'
    OBVIOUS
<1>1. ASSUME NEW r \in Slots, UserStep(r) PROVE ProjectsInv'
    BY <1>1, AskProjects, ReadsProjects, UserCommits, RemoveProjects DEF UserStep
<1>2. ASSUME NEW r \in Slots, ProjectStep(r) PROVE ProjectsInv'
    BY <1>2, AskProjects, ReadsProjects, ListStep, MakeProjectStep, RenameStep, DropProjectStep, FileStep
        DEF ProjectStep
<1>. QED BY <1>1, <1>2, OutsideProjects DEF Next

-----------------------------------------------------------------------------
(* Two requests that both find no default project and make one do not end  *)
(* with two: the second commit meets the unique name (services/projects.py *)
(* :24-41), as long as the user leaves that name alone.                    *)
THEOREM OneDefaultEach == Spec => []OneDefault
<1>1. ASSUME ProjectsInv PROVE OneDefault
  <2>. SUFFICES ASSUME NEW u \in Users \ named PROVE Cardinality(Default(u)) <= 1
    BY DEF OneDefault
  <2>1. \A p, q \in Default(u) : p = q
    BY <1>1 DEF ProjectsInv, Tables, NamesUnique, DefaultNamed, Default, Owned
  <2>2. CASE Default(u) = {}
    BY <2>2, FS_EmptySet
  <2>3. CASE Default(u) # {}
    <3>1. PICK p \in Default(u) : Default(u) = {p}
      BY <2>1, <2>3
    <3>. QED BY <3>1, FS_Singleton
  <2>. QED BY <2>2, <2>3
<1>. QED BY <1>1, InvAtStart, InvStep, ProjectsAtStart, ProjectsStep, PTL DEF Spec

(* No job is left without a project of its owner by deletions and moves    *)
(* that run at a time, but the two kinds the property names.               *)
THEOREM JobsAreInProjects == Spec => []JobsHaveProject
<1>1. ProjectsInv => JobsHaveProject
    BY DEF ProjectsInv, Tables
<1>. QED BY <1>1, InvAtStart, InvStep, ProjectsAtStart, ProjectsStep, PTL DEF Spec

(* The deletion of a user takes no job along that was queued or running    *)
(* when the handler looked: only those filed after its check.              *)
THEOREM NoActiveJobDeleted == Spec => ActiveJobsKept
<1>1. ASSUME ProjectsInv, [Next]_vars, NEW j \in Jobs,
             job[j].status \in {"queued", "running"}, job'[j].status = "gone"
      PROVE  \E r \in Slots : req[r].op = "remove" /\ j \in req[r].late
  <2>0. job \in [Jobs -> [owner : Users \cup {NoUser}, project : Projects \cup {NoProject},
                          status : {"new", "queued", "running", "ended", "gone"}]]
    BY <1>1 DEF ProjectsInv, Tables, Filings
  <2>1. job' # job
    BY <1>1
  <2>2. ASSUME NEW r \in Slots, UserStep(r) PROVE Remove(r)
    BY <2>1, <2>2 DEF UserStep, AskUpdate, AskRemove, AskCreate, AskLogin, AskToken, CheckUpdate,
        CheckRemove, CheckToken, Callback, Update, Create, Login, MakeToken, Begin, Read, Refused, tables
  <2>3. ASSUME NEW r \in Slots, ProjectStep(r) PROVE DropProject(r) \/ File(r)
    BY <2>1, <2>3 DEF ProjectStep, AskList, AskProject, AskRename, AskDrop, AskSubmit, AskMove, LookUp,
        List, MakeProject, Rename, MoveJobs, Begin, Read, Refused, tables
  <2>4. ASSUME NEW r \in Slots, DropProject(r) PROVE FALSE
    BY <1>1, <2>0, <2>1, <2>4 DEF DropProject, Refused, Read, tables
  <2>5. ASSUME NEW r \in Slots, File(r) PROVE FALSE
    BY <1>1, <2>0, <2>1, <2>5 DEF File, Refused, Read, tables
  <2>6. ASSUME NEW r \in Slots, Remove(r) PROVE req[r].op = "remove" /\ j \in req[r].late
    <3>1. /\ req[r].op = "remove" /\ req[r].pc = "commit"
          /\ job' = [k \in Jobs |-> IF job[k].owner = req[r].on THEN Gone ELSE job[k]]
      BY <2>6 DEF Remove, At, JobsWithout
    <3>2. job[j].owner = req[r].on
      BY <1>1, <3>1
    <3>3. ActiveJobs(req[r].on) \subseteq req[r].late
      BY <1>1, <3>1 DEF ProjectsInv, Knows
    <3>. QED BY <1>1, <3>1, <3>2, <3>3 DEF ActiveJobs
  <2>7. ASSUME NEW k \in Jobs, Work(k) PROVE FALSE
    BY <1>1, <2>0, <2>7 DEF Work
  <2>. QED BY <1>1, <2>1, <2>2, <2>3, <2>4, <2>5, <2>6, <2>7 DEF Next, DropToken, Restart, vars, tables
<1>2. ProjectsInv /\ [Next]_vars =>
        [\A j \in Jobs : job[j].status \in {"queued", "running"} /\ job'[j].status = "gone" =>
            \E r \in Slots : req[r].op = "remove" /\ j \in req[r].late]_vars
    BY <1>1
<1>. QED BY <1>2, InvAtStart, InvStep, ProjectsAtStart, ProjectsStep, PTL DEF Spec, ActiveJobsKept
=============================================================================
