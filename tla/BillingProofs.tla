---------------------------- MODULE BillingProofs ----------------------------
(***************************************************************************)
(* Proofs about Billing, for every number of tokens, events and handlers:  *)
(* the types, that a record said to be paid is, that the summary a user    *)
(* sees adds up and, unless a run overtakes a change of model, that no     *)
(* more is cut than was used, that billing implements Ledger and that what *)
(* was charged is no more than what was used.                              *)
(***************************************************************************)
EXTENDS Billing, Sums

(* The processes between their actions: one that writes has found usage to *)
(* cut; what a process has claimed is a record.                            *)
ProcOK(q, numbers) ==
    /\ q.pc = "write" => q.billed < q.usage /\ q.seq \in numbers \cup {0}
    /\ q.todo \subseteq numbers
    /\ q.pc \in {"post", "save"} => q.rec \in numbers
    /\ q.pc = "save" => q.answer # "none"

ProcsOK == \A p \in Procs : ProcOK(proc[p], DOMAIN records)

LEMMA IdleProcType == IdleProc \in ProcType
BY DEF IdleProc, ProcType

LEMMA CuttingType ==
    ASSUME NEW then \in {"idle", "switch", "settle", "due", "rebase", "drop"}
    PROVE  /\ Cutting(then) \in ProcType /\ CuttingForced(then) \in ProcType
           /\ [Cutting(then) EXCEPT !.enabled = TRUE] \in ProcType
           /\ [Cutting(then) EXCEPT !.enabled = FALSE] \in ProcType
BY DEF Cutting, CuttingForced, IdleProc, ProcType

LEMMA SendingType ==
    ASSUME NEW q \in ProcType, NEW s \in SUBSET Nat
    PROVE  [q EXCEPT !.pc = "send", !.todo = s] \in ProcType
BY DEF ProcType

LEMMA TypesAtStart == Init => BillingTypeOK
<1> SUFFICES ASSUME Init PROVE BillingTypeOK OBVIOUS
<1>1. proc \in [Procs -> ProcType] BY IdleProcType DEF Init
<1>2. records \in Seq(RecordType) /\ Len(records) = 0 BY DEF Init
<1>3. spent \in Nat /\ status \in Statuses BY DEF Init, Statuses
<1>4. mode \in BOOLEAN BY Zenon DEF Init
<1>6. rebased \in BOOLEAN /\ overtaken \in BOOLEAN BY Zenon DEF Init
<1>5. row \in [usage : Nat, billed : Nat, seq : Nat, enabled : BOOLEAN] /\ row.seq = 0 BY <1>3, <1>4 DEF Init
<1> QED BY <1>1, <1>2, <1>3, <1>4, <1>5, <1>6 DEF Init, BillingTypeOK, NoRun

-----------------------------------------------------------------------------
(* What a process does to itself keeps its type.                           *)
LEMMA ProcUpdate ==
    ASSUME NEW p \in Procs, NEW new \in ProcType, proc \in [Procs -> ProcType]
    PROVE  [proc EXCEPT ![p] = new] \in [Procs -> ProcType]
OBVIOUS

LEMMA RecordUpdate ==
    ASSUME NEW n \in DOMAIN records, NEW new \in RecordType, records \in Seq(RecordType)
    PROVE  [records EXCEPT ![n] = new] \in Seq(RecordType) /\ Len([records EXCEPT ![n] = new]) = Len(records)
OBVIOUS

LEMMA BillTypes ==
    ASSUME BillingTypeOK, ProcsOK, NEW p \in Procs, Bill(p)
    PROVE  BillingTypeOK'
<1>1. proc[p] \in ProcType BY DEF BillingTypeOK
<1>2. ASSUME Continue(p) PROVE proc' \in [Procs -> ProcType]
    <2>1. [IdleProc EXCEPT !.pc = proc[p].then, !.force = proc[p].force, !.enabled = proc[p].enabled]
              \in ProcType
        BY <1>1 DEF IdleProc, ProcType
    <2> QED BY <2>1, <1>2 DEF Continue, BillingTypeOK
<1>3. CASE CutRead(p)
    <2>1. proc' \in [Procs -> ProcType]
        <3>1. CASE status # "deleted" /\ row.enabled /\ row.usage > row.billed
            <4>1. [proc[p] EXCEPT !.pc = "write", !.usage = row.usage, !.billed = row.billed, !.seq = row.seq]
                      \in ProcType
                BY <1>1 DEF ProcType, BillingTypeOK
            <4> QED BY <4>1, <3>1, <1>3 DEF CutRead, BillingTypeOK
        <3> QED BY <3>1, <1>2, <1>3 DEF CutRead
    <2> QED BY <2>1, <1>3 DEF CutRead, BillingTypeOK, rowVars, runVars, bookVars, history
<1>4. CASE CutWrite(p)
    <2>1. proc' \in [Procs -> ProcType] BY <1>2, <1>4 DEF CutWrite
    <2>2. CASE StillCurrent(p)
        <3> DEFINE new == [amount |-> proc[p].usage - proc[p].billed, status |-> "pending",
                           due |-> TRUE, attempts |-> 0]
        <3>1. proc[p].usage - proc[p].billed \in Nat
            BY <1>1, <1>4 DEF CutWrite, ProcsOK, ProcOK, At, ProcType
        <3>2. new \in RecordType BY <3>1 DEF RecordType
        <3>3. records' = Append(records, new) BY <2>2, <1>4 DEF CutWrite
        <3>4. records' \in Seq(RecordType) /\ Len(records') = Len(records) + 1
            BY <3>2, <3>3 DEF BillingTypeOK
        <3>5. row' \in [usage : Nat, billed : Nat, seq : Nat, enabled : BOOLEAN] /\ row'.seq = row.seq + 1
            <4>1. proc[p].usage \in Nat BY <1>1 DEF ProcType
            <4>2. row' = RowAfterCut(p) BY <2>2, <1>4 DEF CutWrite
            <4>3. row \in [usage : Nat, billed : Nat, seq : Nat, enabled : BOOLEAN] BY DEF BillingTypeOK
            <4>4. row' = [usage |-> row.usage, billed |-> proc[p].usage, seq |-> row.seq + 1,
                          enabled |-> row.enabled]
                BY <4>2, <4>3 DEF RowAfterCut
            <4> QED BY <4>1, <4>3, <4>4
        <3>6. noted' \in Nat BY <2>2, <3>1, <1>4 DEF CutWrite, BillingTypeOK
        <3> HIDE DEF new
        <3> QED BY <2>1, <3>4, <3>5, <3>6, <1>4 DEF CutWrite, BillingTypeOK, runVars, history
    <2> QED BY <2>1, <2>2, <1>4 DEF CutWrite, BillingTypeOK, runVars, history
<1>5. CASE Settle(p)
    <2>1. {n \in DOMAIN records : records[n].status \in Sendable(proc[p].force) /\ status # "deleted"}
              \in SUBSET Nat
        BY DEF BillingTypeOK
    <2>2. [proc[p] EXCEPT !.pc = "send", !.todo =
               {n \in DOMAIN records : records[n].status \in Sendable(proc[p].force) /\ status # "deleted"}]
              \in ProcType
        BY <1>1, <2>1 DEF ProcType
    <2> QED BY <2>2, <1>5 DEF Settle, BillingTypeOK, rowVars, runVars, bookVars, history
<1>6. CASE Claim(p)
    <2> PICK n \in proc[p].todo :
            IF records[n].due /\ records[n].status \in Sendable(proc[p].force)
            THEN /\ records' = [records EXCEPT ![n].status = "pending", ![n].due = FALSE]
                 /\ proc' = [proc EXCEPT ![p].pc = "post", ![p].rec = n, ![p].todo = @ \ {n},
                                          ![p].attempts = records[n].attempts]
            ELSE /\ proc' = [proc EXCEPT ![p].todo = @ \ {n}]
                 /\ UNCHANGED records
        BY <1>6 DEF Claim
    <2>1. n \in DOMAIN records /\ n \in Nat BY DEF ProcsOK, ProcOK, BillingTypeOK
    <2> DEFINE taken == [proc[p] EXCEPT !.pc = "post", !.rec = n, !.todo = @ \ {n},
                                        !.attempts = records[n].attempts]
               passed == [proc[p] EXCEPT !.todo = @ \ {n}]
    <2>4. records[n] \in RecordType BY <2>1 DEF BillingTypeOK
    <2>5. records[n].attempts \in Nat BY <2>4 DEF RecordType
    <2>2. taken \in ProcType /\ passed \in ProcType BY <1>1, <2>1, <2>5 DEF ProcType
    <2>6. proc' = [proc EXCEPT ![p] = taken] \/ proc' = [proc EXCEPT ![p] = passed] BY DEF BillingTypeOK
    <2>3. proc' \in [Procs -> ProcType]
        <3> HIDE DEF taken, passed
        <3> QED BY <2>2, <2>6 DEF BillingTypeOK
    <2>7. records' \in Seq(RecordType) /\ Len(records') = Len(records)
        <3>1. [records[n] EXCEPT !.status = "pending", !.due = FALSE] \in RecordType
            <4>1. records[n] \in RecordType BY <2>1 DEF BillingTypeOK
            <4> QED BY <4>1 DEF RecordType
        <3>2. records' = [records EXCEPT ![n] = [records[n] EXCEPT !.status = "pending", !.due = FALSE]]
                  \/ records' = records
            OBVIOUS
        <3>3. records \in Seq(RecordType) BY DEF BillingTypeOK
        <3> HIDE DEF RecordType
        <3> QED BY <3>1, <3>2, <3>3, <2>1, RecordUpdate
    <2> QED BY <2>3, <2>7, <1>6 DEF Claim, BillingTypeOK, rowVars, runVars, history
<1>7. CASE Post(p)
    <2>1. \A a \in {"paid", "retry", "refused"} : [proc[p] EXCEPT !.pc = "save", !.answer = a] \in ProcType
        BY <1>1 DEF ProcType
    <2>2. proc[p].rec \in Nat BY <1>1 DEF ProcType
    <2>3. PICK a \in {"paid", "retry", "refused"} :
              proc' = [proc EXCEPT ![p] = [proc[p] EXCEPT !.pc = "save", !.answer = a]]
        BY <1>7 DEF Post
    <2>4. proc' \in [Procs -> ProcType]
        <3>1. [proc[p] EXCEPT !.pc = "save", !.answer = a] \in ProcType BY <2>1
        <3>2. proc \in [Procs -> ProcType] BY DEF BillingTypeOK
        <3> QED BY <2>3, <3>1, <3>2
    <2>5. charged' \in {charged, charged \cup {proc[p].rec}} BY <1>7 DEF Post
    <2>6. events' \in {events, events + 1} BY <1>7 DEF Post, Happens
    <2> QED BY <2>2, <2>4, <2>5, <2>6, <1>7 DEF Post, BillingTypeOK, rowVars, runVars, history
<1>8. CASE Save(p)
    <2> DEFINE n == proc[p].rec
               tries == IF proc[p].attempts < SoftFailLimit THEN proc[p].attempts + 1 ELSE SoftFailLimit
               a == proc[p].answer
               now == StatusAfter(a, records[n].status)
    <2>1. n \in DOMAIN records BY <1>8 DEF Save, ProcsOK, ProcOK, At
    <2>2. a \in {"paid", "retry", "refused"} BY <1>1, <1>8 DEF Save, ProcsOK, ProcOK, At, ProcType
    <2>4. records[n] \in RecordType BY <2>1 DEF BillingTypeOK
    <2>3. now \in {"pending", "succeeded", "failed"} BY <2>2, <2>4 DEF StatusAfter, RecordType
    <2>5. tries \in Nat BY <1>1, BillingAssumption DEF ProcType
    <2>6. [records[n] EXCEPT !.attempts = tries, !.status = now, !.due = (a # "retry")] \in RecordType
        BY <2>3, <2>4, <2>5 DEF RecordType
    <2>7. records' = [records EXCEPT ![n] =
              [@ EXCEPT !.attempts = tries, !.status = now, !.due = (a # "retry")]]
        BY <1>8, <2>1 DEF Save, BillingTypeOK
    <2>8. records' \in Seq(RecordType) /\ Len(records') = Len(records)
        BY <2>1, <2>6, <2>7 DEF BillingTypeOK
    <2>9. /\ [IdleProc EXCEPT !.pc = "settled", !.problem = TRUE] \in ProcType
          /\ [proc[p] EXCEPT !.pc = "send", !.rec = 0, !.answer = "none", !.attempts = 0] \in ProcType
        BY <1>1 DEF ProcType, IdleProc
    <2>10. proc' \in [Procs -> ProcType] BY <2>9, <1>8, IdleProcType DEF Save, BillingTypeOK
    <2> QED BY <2>8, <2>10, <1>8 DEF Save, BillingTypeOK, rowVars, runVars, history
<1>9. CASE Settled(p)
    <2>1. [IdleProc EXCEPT !.pc = "settled", !.problem = Stuck] \in ProcType BY DEF IdleProc, ProcType, Stuck
    <2> QED BY <2>1, <1>9, IdleProcType DEF Settled, BillingTypeOK, rowVars, runVars, bookVars, history
<1> QED BY <1>3, <1>4, <1>5, <1>6, <1>7, <1>8, <1>9 DEF Bill

LEMMA RipenTypes ==
    ASSUME BillingTypeOK, NEW n \in DOMAIN records, Ripen(n)
    PROVE  BillingTypeOK'
<1>1. records[n] \in RecordType BY DEF BillingTypeOK
<1>2. [records[n] EXCEPT !.due = TRUE] \in RecordType BY <1>1 DEF RecordType
<1>3. records' = [records EXCEPT ![n] = [records[n] EXCEPT !.due = TRUE]] BY DEF Ripen
<1>4. records \in Seq(RecordType) BY DEF BillingTypeOK
<1>5. records' \in Seq(RecordType) /\ Len(records') = Len(records) BY <1>2, <1>3, <1>4, RecordUpdate
<1> QED BY <1>5 DEF Ripen, BillingTypeOK, rowVars, runVars, history

LEMMA FreshProcType ==
    ASSUME NEW pc \in {"settle", "due", "switch", "settled", "drop", "commit"}
    PROVE  [IdleProc EXCEPT !.pc = pc] \in ProcType
BY DEF IdleProc, ProcType

LEMMA RunTypes ==
    ASSUME BillingTypeOK, Running \/ Working \/ Failing
    PROVE  BillingTypeOK'
<1> DEFINE RowType == [usage : Nat, billed : Nat, seq : Nat, enabled : BOOLEAN]
<1>1. row \in RowType /\ run.mem \in Nat /\ run.billing \in BOOLEAN /\ proc \in [Procs -> ProcType]
    BY DEF BillingTypeOK
<1>2. "runner" \in Procs BY DEF Procs
<1>3. [row EXCEPT !.usage = run.mem] \in RowType /\ [row EXCEPT !.usage = run.mem].seq = row.seq
    BY <1>1
<1>4. ASSUME NEW s \in Statuses, SetStatus(s) PROVE status' \in Statuses
    BY <1>4 DEF SetStatus, BillingTypeOK
<1>5. /\ Cutting("settle") \in ProcType /\ CuttingForced("settle") \in ProcType
      /\ Cutting("switch") \in ProcType
    BY CuttingType
<1>6. /\ [IdleProc EXCEPT !.pc = "switch"] \in ProcType
      /\ [IdleProc EXCEPT !.pc = "settled"] \in ProcType
    BY FreshProcType
<1>7. ASSUME NEW new \in ProcType, proc' = [proc EXCEPT !["runner"] = new]
      PROVE  proc' \in [Procs -> ProcType]
    BY <1>1, <1>2, <1>7
<1>8. NoRun \in [pc : {"off", "prepare", "work", "final"}, billing : BOOLEAN, mem : Nat] BY DEF NoRun
<1> HIDE DEF RowType
<1>9. CASE Load
    <2>1. proc' \in [Procs -> ProcType] BY <1>5, <1>6, <1>7, <1>9 DEF Load
    <2>2. overtaken' \in BOOLEAN BY <1>9, Zenon DEF Load, BillingTypeOK
    <2> QED BY <1>9, <2>1, <2>2 DEF Load, BillingTypeOK, rowVars, bookVars, history
<1>10. CASE Switch
    <2>1. proc' \in [Procs -> ProcType] BY <1>5, <1>6, <1>7, <1>10 DEF Switch
    <2>2. row' \in RowType /\ row'.seq = row.seq BY <1>1, <1>10 DEF Switch, RowType
    <2> QED BY <1>10, <2>1, <2>2 DEF Switch, BillingTypeOK, runVars, bookVars, RowType, history
<1>11. CASE StartWork
    <2>1. proc' \in [Procs -> ProcType] BY <1>7, <1>11, IdleProcType DEF StartWork
    <2>2. status' \in Statuses BY <1>4, <1>11 DEF StartWork, Statuses
    <2> QED BY <1>11, <2>1, <2>2 DEF StartWork, BillingTypeOK, bookVars, history
<1>12. CASE PauseForBilling
    <2>1. proc' \in [Procs -> ProcType] BY <1>7, <1>12, IdleProcType DEF PauseForBilling
    <2>2. status' \in Statuses BY <1>4, <1>12 DEF PauseForBilling, Statuses
    <2> QED BY <1>8, <1>12, <2>1, <2>2 DEF PauseForBilling, BillingTypeOK, bookVars, history
<1>13. CASE BilledOn
    <2>1. proc' \in [Procs -> ProcType] BY <1>7, <1>13, IdleProcType DEF BilledOn
    <2> QED BY <1>13, <2>1 DEF BilledOn, BillingTypeOK, rowVars, runVars, bookVars, history
<1>14. CASE EndRun
    <2>1. proc' \in [Procs -> ProcType] BY <1>5, <1>7, <1>14, IdleProcType DEF EndRun
    <2>2. status' \in Statuses BY <1>4, <1>14 DEF EndRun, Statuses
    <2>3. run' \in [pc : {"off", "prepare", "work", "final"}, billing : BOOLEAN, mem : Nat]
        BY <1>8, <1>14 DEF EndRun, BillingTypeOK
    <2> QED BY <1>1, <1>3, <1>14, <2>1, <2>2, <2>3 DEF EndRun, BillingTypeOK, bookVars, RowType, history
<1>15. CASE FinalBilled
    <2>1. proc' \in [Procs -> ProcType] BY <1>7, <1>15, IdleProcType DEF FinalBilled
    <2> QED BY <1>8, <1>15, <2>1 DEF FinalBilled, BillingTypeOK, rowVars, bookVars, history
<1>16. CASE Consume
    BY <1>16 DEF Consume, BillingTypeOK, rowVars, bookVars, history
<1>17. CASE FlushFiles
    BY <1>17 DEF FlushFiles, BillingTypeOK, rowVars, bookVars, history
<1>18. CASE FlushDb
    BY <1>1, <1>3, <1>18 DEF FlushDb, BillingTypeOK, runVars, bookVars, RowType, history
<1>19. CASE BillNow
    <2>1. proc' \in [Procs -> ProcType] BY <1>5, <1>7, <1>19 DEF BillNow
    <2> QED BY <1>1, <1>3, <1>19, <2>1 DEF BillNow, BillingTypeOK, runVars, bookVars, RowType, history
<1>20. CASE FailRun
    <2>1. proc' \in [Procs -> ProcType] BY <1>5, <1>7, <1>20, IdleProcType DEF FailRun
    <2>2. status' \in Statuses BY <1>4, <1>20 DEF FailRun, Statuses
    <2>3. run' \in [pc : {"off", "prepare", "work", "final"}, billing : BOOLEAN, mem : Nat]
        BY <1>8, <1>20 DEF FailRun, BillingTypeOK
    <2>4. row' \in RowType /\ row'.seq = row.seq BY <1>1, <1>3, <1>20 DEF FailRun
    <2>5. files' \in Nat BY <1>1, <1>20 DEF FailRun, BillingTypeOK
    <2> QED BY <1>20, <2>1, <2>2, <2>3, <2>4, <2>5 DEF FailRun, BillingTypeOK, bookVars, Happens, RowType, history
<1>21. CASE CrashRun
    <2>1. proc' \in [Procs -> ProcType] BY <1>7, <1>21, IdleProcType DEF CrashRun
    <2> QED BY <1>8, <1>21, <2>1 DEF CrashRun, BillingTypeOK, rowVars, bookVars, Happens, history
<1>22. ASSUME NEW p \in Procs, CrashProc(p) PROVE BillingTypeOK'
    <2>1. proc' \in [Procs -> ProcType] BY <1>1, <1>22, IdleProcType DEF CrashProc
    <2> QED BY <1>22, <2>1 DEF CrashProc, BillingTypeOK, rowVars, runVars, bookVars, Happens, history
<1> QED
    BY <1>9, <1>10, <1>11, <1>12, <1>13, <1>14, <1>15, <1>16, <1>17, <1>18, <1>19, <1>20, <1>21, <1>22
    DEF Running, Working, Failing

LEMMA RequestTypes ==
    ASSUME BillingTypeOK, Sweeping \/ Requesting
    PROVE  BillingTypeOK'
<1>1. /\ row \in [usage : Nat, billed : Nat, seq : Nat, enabled : BOOLEAN] /\ events \in Nat
      /\ proc \in [Procs -> ProcType] /\ Handlers \subseteq Procs /\ "sweep" \in Procs
    BY DEF BillingTypeOK, Procs
<1>2. ASSUME NEW p \in Handlers, NEW new \in ProcType, Request(p, new)
      PROVE  proc' \in [Procs -> ProcType] /\ events' \in Nat
    BY <1>1, <1>2 DEF Request, Happens
<1>3. /\ Cutting("settle") \in ProcType /\ CuttingForced("settle") \in ProcType
      /\ Cutting("due") \in ProcType /\ Cutting("drop") \in ProcType
    BY CuttingType
<1>4. /\ [IdleProc EXCEPT !.pc = "due"] \in ProcType /\ [IdleProc EXCEPT !.pc = "drop"] \in ProcType
    BY FreshProcType
<1>5. CASE Sweep
    <2>1. proc' \in [Procs -> ProcType] BY <1>1, <1>3, <1>4, <1>5 DEF Sweep
    <2> QED BY <1>5, <2>1 DEF Sweep, BillingTypeOK, rowVars, runVars, bookVars, history
<1>6. CASE SweepDue
    <2>1. Due \in SUBSET Nat BY DEF Due, BillingTypeOK
    <2>2. [proc["sweep"] EXCEPT !.pc = "send", !.todo = Due] \in ProcType BY <1>1, <2>1, SendingType
    <2>3. proc' = [proc EXCEPT !["sweep"] = [proc["sweep"] EXCEPT !.pc = "send", !.todo = Due]]
        BY <1>1, <1>6 DEF SweepDue
    <2>4. proc' \in [Procs -> ProcType] BY <1>1, <2>2, <2>3
    <2> QED BY <1>6, <2>4 DEF SweepDue, BillingTypeOK, rowVars, runVars, bookVars, history
<1>7. CASE Resume
    BY <1>7 DEF Resume, Happens, OneMore, BillingTypeOK, runVars, bookVars, history, Statuses
<1>8. CASE SettleOrphan
    BY <1>8 DEF SettleOrphan, BillingTypeOK, runVars, bookVars, history, Statuses, Happens
<1>9. CASE ToggleMode
    BY <1>9 DEF ToggleMode, BillingTypeOK, rowVars, runVars, bookVars, history, Happens
<1>10. ASSUME NEW p \in Handlers, ChangeModel(p) PROVE BillingTypeOK'
    <2>1. PICK after \in BOOLEAN :
              Request(p, IF row.enabled THEN [Cutting("rebase") EXCEPT !.enabled = after]
                         ELSE [IdleProc EXCEPT !.pc = "commit", !.usage = row.usage, !.billed = row.billed,
                                               !.enabled = after])
        BY <1>10 DEF ChangeModel
    <2>2. [Cutting("rebase") EXCEPT !.enabled = after] \in ProcType BY CuttingType
    <2>3. [IdleProc EXCEPT !.pc = "commit", !.usage = row.usage, !.billed = row.billed, !.enabled = after]
              \in ProcType
        BY <1>1 DEF IdleProc, ProcType
    <2>4. proc' \in [Procs -> ProcType] /\ events' \in Nat BY <1>2, <2>1, <2>2, <2>3
    <2>5. overtaken' \in BOOLEAN BY <1>10, Zenon DEF ChangeModel, BillingTypeOK
    <2> QED BY <1>10, <2>4, <2>5 DEF ChangeModel, BillingTypeOK, rowVars, runVars, bookVars
<1>11. ASSUME NEW p \in Handlers, Rebase(p) PROVE BillingTypeOK'
    <2> DEFINE new == [proc[p] EXCEPT !.pc = "commit", !.usage = row.usage, !.billed = row.billed,
                                      !.was = row.enabled]
    <2>1. new \in ProcType
        <3>1. proc[p] \in ProcType /\ row.usage \in Nat /\ row.billed \in Nat BY <1>1
        <3>2. row.enabled \in BOOLEAN BY <1>1
        <3> QED BY <3>1, <3>2 DEF ProcType
    <2>2. proc' = [proc EXCEPT ![p] = IdleProc] \/ proc' = [proc EXCEPT ![p] = new]
        BY <1>1, <1>11 DEF Rebase
    <2>3. proc' \in [Procs -> ProcType] BY <1>1, <2>1, <2>2, IdleProcType
    <2> QED BY <1>11, <2>3 DEF Rebase, BillingTypeOK, rowVars, runVars, bookVars, history
<1>12. ASSUME NEW p \in Handlers, CommitChange(p) PROVE BillingTypeOK'
    <2>1. proc[p].usage \in Nat /\ proc[p].enabled \in BOOLEAN BY <1>1 DEF ProcType
    <2>2. proc' \in [Procs -> ProcType] BY <1>1, <1>12, IdleProcType DEF CommitChange
    <2>3. row' \in [usage : Nat, billed : Nat, seq : Nat, enabled : BOOLEAN] /\ row'.seq = row.seq
        BY <1>1, <2>1, <1>12 DEF CommitChange
    <2>4. mode' \in BOOLEAN BY <2>1, <1>12, Zenon DEF CommitChange, BillingTypeOK
    <2>5. rebased' \in BOOLEAN BY <1>12, Zenon DEF CommitChange, BillingTypeOK
    <2> QED BY <1>12, <2>2, <2>3, <2>4, <2>5 DEF CommitChange, BillingTypeOK, runVars, bookVars
<1>13. ASSUME NEW p \in Handlers, Delete(p) PROVE BillingTypeOK'
    <2>1. proc' \in [Procs -> ProcType] /\ events' \in Nat BY <1>2, <1>3, <1>4, <1>13 DEF Delete
    <2> QED BY <1>13, <2>1 DEF Delete, BillingTypeOK, rowVars, runVars, bookVars, history
<1>14. ASSUME NEW p \in Handlers, Drop(p) PROVE BillingTypeOK'
    <2>1. proc' \in [Procs -> ProcType] BY <1>1, <1>14, IdleProcType DEF Drop
    <2> QED BY <1>14, <2>1 DEF Drop, BillingTypeOK, runVars, bookVars, history, Statuses
<1>15. ASSUME NEW p \in Handlers, RetryBilling(p) PROVE BillingTypeOK'
    <2>1. [IdleProc EXCEPT !.pc = "settle", !.force = TRUE] \in ProcType BY DEF IdleProc, ProcType
    <2>2. proc' \in [Procs -> ProcType] /\ events' \in Nat BY <1>2, <1>3, <2>1, <1>15 DEF RetryBilling
    <2> QED BY <1>15, <2>2 DEF RetryBilling, BillingTypeOK, rowVars, runVars, bookVars, history
<1>16. ASSUME NEW p \in Handlers, NEW n \in DOMAIN records, RetryRecord(p, n) PROVE BillingTypeOK'
    <2>1. n \in Nat BY DEF BillingTypeOK
    <2>2. [IdleProc EXCEPT !.pc = "send", !.todo = {n}, !.force = TRUE] \in ProcType
        BY <2>1 DEF IdleProc, ProcType
    <2>3. proc' \in [Procs -> ProcType] /\ events' \in Nat BY <1>2, <2>2, <1>16 DEF RetryRecord
    <2> QED BY <1>16, <2>3 DEF RetryRecord, BillingTypeOK, rowVars, runVars, bookVars, history
<1> QED
    BY <1>5, <1>6, <1>7, <1>8, <1>9, <1>10, <1>11, <1>12, <1>13, <1>14, <1>15, <1>16
    DEF Sweeping, Requesting

-----------------------------------------------------------------------------
(* A step of one process keeps ProcsOK if that process keeps it and no     *)
(* record is lost.                                                         *)
LEMMA OneProcOK ==
    ASSUME BillingTypeOK, ProcsOK, NEW p \in Procs, NEW new,
           proc' = [proc EXCEPT ![p] = new],
           DOMAIN records \subseteq DOMAIN records',
           ProcOK(new, DOMAIN records')
    PROVE  ProcsOK'
<1> SUFFICES ASSUME NEW q \in Procs PROVE ProcOK(proc'[q], DOMAIN records') BY DEF ProcsOK
<1>1. CASE q = p BY <1>1 DEF BillingTypeOK
<1>2. CASE q # p
    <2>1. proc'[q] = proc[q] BY <1>2 DEF BillingTypeOK
    <2> QED BY <2>1 DEF ProcsOK, ProcOK
<1> QED BY <1>1, <1>2

(* A process that is at none of the steps ProcOK is about.                 *)
LEMMA PlainProcOK ==
    ASSUME NEW q, NEW numbers, q.pc \notin {"write", "post", "save"}, q.todo = {}
    PROVE  ProcOK(q, numbers)
BY DEF ProcOK

LEMMA BillProcsOK ==
    ASSUME BillingTypeOK, ProcsOK, NEW p \in Procs, Bill(p)
    PROVE  ProcsOK'
<1>1. proc[p] \in ProcType /\ ProcOK(proc[p], DOMAIN records) BY DEF BillingTypeOK, ProcsOK
<1>2. ASSUME Continue(p), DOMAIN records \subseteq DOMAIN records' PROVE ProcsOK'
    <2> DEFINE new == [IdleProc EXCEPT !.pc = proc[p].then, !.force = proc[p].force, !.enabled = proc[p].enabled]
    <2>1. new.pc = proc[p].then /\ new.todo = {} BY DEF IdleProc
    <2>2. proc[p].then \notin {"write", "post", "save"} BY <1>1 DEF ProcType
    <2>3. ProcOK(new, DOMAIN records') BY <2>1, <2>2, PlainProcOK
    <2>4. proc' = [proc EXCEPT ![p] = new] BY <1>2 DEF Continue
    <2> HIDE DEF new
    <2> QED BY <1>2, <2>3, <2>4, OneProcOK
<1>3. CASE CutRead(p)
    <2>1. records' = records BY <1>3 DEF CutRead, bookVars
    <2>2. CASE status # "deleted" /\ row.enabled /\ row.usage > row.billed
        <3> DEFINE new == [proc[p] EXCEPT !.pc = "write", !.usage = row.usage, !.billed = row.billed, !.seq = row.seq]
        <3>1. proc' = [proc EXCEPT ![p] = new] BY <1>3, <2>2 DEF CutRead, BillingTypeOK
        <3>2. ProcOK(new, DOMAIN records')
            <4>1. /\ new.pc = "write" /\ new.usage = row.usage /\ new.billed = row.billed /\ new.seq = row.seq
                  /\ new.todo = proc[p].todo
                BY <1>1 DEF ProcType
            <4>2. row.seq \in DOMAIN records \cup {0} /\ row.billed < row.usage BY <2>2 DEF BillingTypeOK
            <4> HIDE DEF new
            <4> QED BY <1>1, <2>1, <4>1, <4>2 DEF ProcOK
        <3> HIDE DEF new
        <3> QED BY <2>1, <3>1, <3>2, OneProcOK
    <2> QED BY <1>2, <1>3, <2>1, <2>2 DEF CutRead
<1>4. CASE CutWrite(p)
    <2>1. DOMAIN records \subseteq DOMAIN records' BY <1>4 DEF CutWrite, BillingTypeOK
    <2> QED BY <1>2, <1>4, <2>1 DEF CutWrite
<1>5. CASE Settle(p)
    <2> DEFINE new == [proc[p] EXCEPT !.pc = "send", !.todo =
               {n \in DOMAIN records : records[n].status \in Sendable(proc[p].force) /\ status # "deleted"}]
    <2>1. records' = records /\ proc' = [proc EXCEPT ![p] = new] BY <1>5 DEF Settle, bookVars, BillingTypeOK
    <2>2. ProcOK(new, DOMAIN records') BY <1>1, <2>1 DEF ProcOK, ProcType
    <2> HIDE DEF new
    <2> QED BY <2>1, <2>2, OneProcOK
<1>6. CASE Claim(p)
    <2> PICK n \in proc[p].todo :
            IF records[n].due /\ records[n].status \in Sendable(proc[p].force)
            THEN /\ records' = [records EXCEPT ![n].status = "pending", ![n].due = FALSE]
                 /\ proc' = [proc EXCEPT ![p].pc = "post", ![p].rec = n, ![p].todo = @ \ {n},
                                          ![p].attempts = records[n].attempts]
            ELSE /\ proc' = [proc EXCEPT ![p].todo = @ \ {n}]
                 /\ UNCHANGED records
        BY <1>6 DEF Claim
    <2> DEFINE taken == [proc[p] EXCEPT !.pc = "post", !.rec = n, !.todo = @ \ {n},
                                        !.attempts = records[n].attempts]
               passed == [proc[p] EXCEPT !.todo = @ \ {n}]
    <2>1. n \in DOMAIN records /\ proc[p].pc = "send" BY <1>1, <1>6 DEF ProcOK, Claim, At
    <2>2. DOMAIN records' = DOMAIN records BY DEF BillingTypeOK
    <2>3. ProcOK(taken, DOMAIN records') /\ ProcOK(passed, DOMAIN records')
        BY <1>1, <2>1, <2>2 DEF ProcOK, ProcType
    <2>4. proc' = [proc EXCEPT ![p] = taken] \/ proc' = [proc EXCEPT ![p] = passed] BY DEF BillingTypeOK
    <2> HIDE DEF taken, passed
    <2> QED BY <2>2, <2>3, <2>4, OneProcOK
<1>7. CASE Post(p)
    <2>1. PICK a \in {"paid", "retry", "refused"} :
              proc' = [proc EXCEPT ![p] = [proc[p] EXCEPT !.pc = "save", !.answer = a]]
        BY <1>7 DEF Post
    <2> DEFINE new == [proc[p] EXCEPT !.pc = "save", !.answer = a]
    <2>2. records' = records /\ proc[p].pc = "post" BY <1>7 DEF Post, At
    <2>3. ProcOK(new, DOMAIN records') BY <1>1, <2>2 DEF ProcOK, ProcType
    <2>4. proc' = [proc EXCEPT ![p] = new] BY <2>1
    <2> HIDE DEF new
    <2> QED BY <2>2, <2>3, <2>4, OneProcOK
<1>8. CASE Save(p)
    <2> DEFINE stopped == [IdleProc EXCEPT !.pc = "settled", !.problem = TRUE]
               next == [proc[p] EXCEPT !.pc = "send", !.rec = 0, !.answer = "none", !.attempts = 0]
    <2>1. DOMAIN records' = DOMAIN records BY <1>8 DEF Save, BillingTypeOK
    <2>2. /\ ProcOK(stopped, DOMAIN records') /\ ProcOK(IdleProc, DOMAIN records')
          /\ ProcOK(next, DOMAIN records')
        BY <1>1, <2>1 DEF ProcOK, IdleProc, ProcType
    <2>3. \/ proc' = [proc EXCEPT ![p] = stopped] \/ proc' = [proc EXCEPT ![p] = IdleProc]
          \/ proc' = [proc EXCEPT ![p] = next]
        BY <1>8 DEF Save, BillingTypeOK
    <2> HIDE DEF stopped, next
    <2> QED BY <2>1, <2>2, <2>3, OneProcOK
<1>9. CASE Settled(p)
    <2> DEFINE new == [IdleProc EXCEPT !.pc = "settled", !.problem = Stuck]
    <2>1. records' = records BY <1>9 DEF Settled, bookVars
    <2>2. ProcOK(new, DOMAIN records') /\ ProcOK(IdleProc, DOMAIN records') BY DEF ProcOK, IdleProc
    <2>3. proc' = [proc EXCEPT ![p] = new] \/ proc' = [proc EXCEPT ![p] = IdleProc] BY <1>9 DEF Settled
    <2> HIDE DEF new
    <2> QED BY <2>1, <2>2, <2>3, OneProcOK
<1> QED BY <1>3, <1>4, <1>5, <1>6, <1>7, <1>8, <1>9 DEF Bill

(* The other steps leave the records alone and put at most one process to  *)
(* a step that ProcOK says nothing about.                                  *)
LEMMA RunProcsOK ==
    ASSUME BillingTypeOK, ProcsOK, Running \/ Working \/ Failing
    PROVE  ProcsOK'
<1> DEFINE Plain(q) == q.pc \notin {"write", "post", "save"} /\ q.todo = {}
<1>1. records' = records
    BY DEF Running, Working, Failing, Load, Switch, StartWork, PauseForBilling, BilledOn, EndRun, FinalBilled,
           Consume, FlushFiles, FlushDb, BillNow, FailRun, CrashRun, CrashProc, bookVars
<1>2. /\ Plain(IdleProc) /\ Plain(Cutting("settle")) /\ Plain(Cutting("switch"))
      /\ Plain(CuttingForced("settle")) /\ Plain([IdleProc EXCEPT !.pc = "switch"])
      /\ Plain([IdleProc EXCEPT !.pc = "settled"])
    BY DEF IdleProc, Cutting, CuttingForced
<1>3. ASSUME NEW p \in Procs, NEW new, Plain(new), proc' = [proc EXCEPT ![p] = new] PROVE ProcsOK'
    <2>1. ProcOK(new, DOMAIN records') BY <1>3, PlainProcOK
    <2> QED BY <1>1, <1>3, <2>1, OneProcOK
<1>4. ASSUME proc' = proc PROVE ProcsOK' BY <1>1, <1>4 DEF ProcsOK
<1>5. "runner" \in Procs BY DEF Procs
<1>6. CASE Running
    <2>1. \/ proc' = [proc EXCEPT !["runner"] = IdleProc]
          \/ proc' = [proc EXCEPT !["runner"] = Cutting("settle")]
          \/ proc' = [proc EXCEPT !["runner"] = Cutting("switch")]
          \/ proc' = [proc EXCEPT !["runner"] = CuttingForced("settle")]
          \/ proc' = [proc EXCEPT !["runner"] = [IdleProc EXCEPT !.pc = "switch"]]
          \/ proc' = [proc EXCEPT !["runner"] = [IdleProc EXCEPT !.pc = "settled"]]
        BY <1>6 DEF Running, Load, Switch, StartWork, PauseForBilling, BilledOn, EndRun, FinalBilled
    <2> HIDE DEF Plain
    <2> QED BY <1>2, <1>3, <1>5, <2>1
<1>7. CASE Working
    <2>1. proc' = proc \/ proc' = [proc EXCEPT !["runner"] = Cutting("settle")]
        BY <1>7 DEF Working, Consume, FlushFiles, FlushDb, BillNow
    <2> HIDE DEF Plain
    <2> QED BY <1>2, <1>3, <1>4, <1>5, <2>1
<1>8. CASE Failing
    <2>1. \/ \E p \in Procs : proc' = [proc EXCEPT ![p] = IdleProc]
          \/ proc' = [proc EXCEPT !["runner"] = Cutting("settle")]
        BY <1>5, <1>8 DEF Failing, FailRun, CrashRun, CrashProc
    <2> HIDE DEF Plain
    <2> QED BY <1>2, <1>3, <1>5, <2>1
<1> QED BY <1>6, <1>7, <1>8

LEMMA RequestProcsOK ==
    ASSUME BillingTypeOK, ProcsOK, Sweeping \/ Requesting
    PROVE  ProcsOK'
<1> DEFINE Safe(q) == q.pc \notin {"write", "post", "save"} /\ q.todo \subseteq DOMAIN records
<1>1. records' = records
    BY DEF Sweeping, Requesting, Sweep, SweepDue, Resume, SettleOrphan, ChangeModel, Rebase, CommitChange, Delete,
           Drop, RetryBilling, RetryRecord, ToggleMode, bookVars
<1>2. /\ Safe(IdleProc) /\ Safe(Cutting("due")) /\ Safe(Cutting("drop")) /\ Safe(CuttingForced("settle"))
      /\ Safe([IdleProc EXCEPT !.pc = "due"]) /\ Safe([IdleProc EXCEPT !.pc = "drop"])
      /\ Safe([IdleProc EXCEPT !.pc = "settle", !.force = TRUE])
    BY DEF IdleProc, Cutting, CuttingForced
<1>3. ASSUME NEW p \in Procs, NEW new, Safe(new), proc' = [proc EXCEPT ![p] = new] PROVE ProcsOK'
    <2>1. ProcOK(new, DOMAIN records') BY <1>1, <1>3 DEF ProcOK
    <2> QED BY <1>1, <1>3, <2>1, OneProcOK
<1>4. ASSUME proc' = proc PROVE ProcsOK' BY <1>1, <1>4 DEF ProcsOK
<1>5. Handlers \subseteq Procs /\ "sweep" \in Procs BY DEF Procs
<1>6. ASSUME NEW p \in Handlers, NEW new, Safe(new), Request(p, new) PROVE ProcsOK'
    <2>1. proc' = [proc EXCEPT ![p] = new] BY <1>6 DEF Request
    <2>2. p \in Procs BY <1>5
    <2> HIDE DEF Safe
    <2> QED BY <1>3, <1>6, <2>1, <2>2
<1>7. CASE Sweep
    <2>1. \/ proc' = [proc EXCEPT !["sweep"] = Cutting("due")]
          \/ proc' = [proc EXCEPT !["sweep"] = [IdleProc EXCEPT !.pc = "due"]]
        BY <1>7 DEF Sweep
    <2> HIDE DEF Safe
    <2> QED BY <1>2, <1>3, <1>5, <2>1
<1>8. CASE SweepDue
    <2> DEFINE new == [proc["sweep"] EXCEPT !.pc = "send", !.todo = Due]
    <2>1. proc' = [proc EXCEPT !["sweep"] = new] BY <1>5, <1>8 DEF SweepDue, BillingTypeOK
    <2>2. proc["sweep"] \in ProcType BY <1>5 DEF BillingTypeOK
    <2>3. Safe(new) BY <2>2 DEF ProcType, Due
    <2> HIDE DEF Safe, new
    <2> QED BY <1>3, <1>5, <2>1, <2>3
<1>9. CASE Resume \/ SettleOrphan \/ ToggleMode BY <1>4, <1>9 DEF Resume, SettleOrphan, ToggleMode
<1>10. ASSUME NEW p \in Handlers, ChangeModel(p) PROVE ProcsOK'
    <2>1. PICK after \in BOOLEAN :
              Request(p, IF row.enabled THEN [Cutting("rebase") EXCEPT !.enabled = after]
                         ELSE [IdleProc EXCEPT !.pc = "commit", !.usage = row.usage, !.billed = row.billed,
                                               !.enabled = after])
        BY <1>10 DEF ChangeModel
    <2>2. /\ Safe([Cutting("rebase") EXCEPT !.enabled = after])
          /\ Safe([IdleProc EXCEPT !.pc = "commit", !.usage = row.usage, !.billed = row.billed,
                                   !.enabled = after])
        BY DEF Cutting, IdleProc
    <2> HIDE DEF Safe
    <2> QED BY <1>6, <2>1, <2>2
<1>11. ASSUME NEW p \in Handlers, Rebase(p) PROVE ProcsOK'
    <2> DEFINE new == [proc[p] EXCEPT !.pc = "commit", !.usage = row.usage, !.billed = row.billed,
                                      !.was = row.enabled]
    <2>1. proc' = [proc EXCEPT ![p] = IdleProc] \/ proc' = [proc EXCEPT ![p] = new]
        BY <1>5, <1>11 DEF Rebase, BillingTypeOK
    <2>2. p \in Procs /\ proc[p] \in ProcType BY <1>5 DEF BillingTypeOK
    <2>3. proc[p].todo \subseteq DOMAIN records BY <2>2 DEF ProcsOK, ProcOK
    <2>4. Safe(new) BY <2>2, <2>3 DEF ProcType
    <2> HIDE DEF Safe, new
    <2> QED BY <1>2, <1>3, <2>1, <2>2, <2>4
<1>12. ASSUME NEW p \in Handlers, CommitChange(p) \/ Drop(p) PROVE ProcsOK'
    <2>1. proc' = [proc EXCEPT ![p] = IdleProc] BY <1>12 DEF CommitChange, Drop
    <2>2. p \in Procs BY <1>5
    <2> HIDE DEF Safe
    <2> QED BY <1>2, <1>3, <2>1, <2>2
<1>13. ASSUME NEW p \in Handlers, Delete(p) PROVE ProcsOK'
    <2>1. Request(p, Cutting("drop")) \/ Request(p, [IdleProc EXCEPT !.pc = "drop"]) BY <1>13 DEF Delete
    <2> HIDE DEF Safe
    <2> QED BY <1>2, <1>6, <2>1
<1>14. ASSUME NEW p \in Handlers, RetryBilling(p) PROVE ProcsOK'
    <2>1. \/ Request(p, CuttingForced("settle"))
          \/ Request(p, [IdleProc EXCEPT !.pc = "settle", !.force = TRUE])
        BY <1>14 DEF RetryBilling
    <2> HIDE DEF Safe
    <2> QED BY <1>2, <1>6, <2>1
<1>15. ASSUME NEW p \in Handlers, NEW n \in DOMAIN records, RetryRecord(p, n) PROVE ProcsOK'
    <2> DEFINE new == [IdleProc EXCEPT !.pc = "send", !.todo = {n}, !.force = TRUE]
    <2>1. Safe(new) BY DEF IdleProc
    <2>2. Request(p, new) BY <1>15 DEF RetryRecord
    <2> HIDE DEF Safe, new
    <2> QED BY <1>6, <2>1, <2>2
<1> QED
    BY <1>7, <1>8, <1>9, <1>10, <1>11, <1>12, <1>13, <1>14, <1>15
    DEF Sweeping, Requesting

(* What makes the types inductive, and the theorem: the counters, the      *)
(* processes and the records always have their types, and the job has as   *)
(* many records as its billing_seq says (services/billing.py:140).         *)
TypesAndProcs == BillingTypeOK /\ ProcsOK

LEMMA TypesAndProcsStep == TypesAndProcs /\ [Next]_vars => TypesAndProcs'
<1> SUFFICES ASSUME BillingTypeOK, ProcsOK, [Next]_vars PROVE TypesAndProcs' BY DEF TypesAndProcs
<1>1. ASSUME NEW p \in Procs, Bill(p) PROVE TypesAndProcs'
    BY <1>1, BillTypes, BillProcsOK DEF TypesAndProcs
<1>2. ASSUME NEW n \in DOMAIN records, Ripen(n) PROVE TypesAndProcs'
    <2>1. BillingTypeOK' BY <1>2, RipenTypes
    <2>2. proc' = proc /\ DOMAIN records' = DOMAIN records BY <1>2 DEF Ripen, BillingTypeOK
    <2>3. ProcsOK' BY <2>2 DEF ProcsOK, ProcOK
    <2> QED BY <2>1, <2>3 DEF TypesAndProcs
<1>3. CASE Running \/ Working \/ Failing BY <1>3, RunTypes, RunProcsOK DEF TypesAndProcs
<1>4. CASE Sweeping \/ Requesting BY <1>4, RequestTypes, RequestProcsOK DEF TypesAndProcs
<1>5. CASE UNCHANGED vars
    BY <1>5 DEF vars, rowVars, runVars, bookVars, history, TypesAndProcs, BillingTypeOK, ProcsOK
<1> QED BY <1>1, <1>2, <1>3, <1>4, <1>5 DEF Next

LEMMA TypesAndProcsAtStart == Init => TypesAndProcs
BY TypesAtStart DEF Init, TypesAndProcs, ProcsOK, ProcOK, IdleProc

THEOREM BillingTypeCorrect == Spec => []BillingTypeOK
<1>1. TypesAndProcs => BillingTypeOK BY DEF TypesAndProcs
<1> QED BY <1>1, TypesAndProcsAtStart, TypesAndProcsStep, PTL DEF Spec

-----------------------------------------------------------------------------
(* The counting invariant.  noted may not pass spent, and a cut adds to it *)
(* what the usage has beyond billed; so none of the three counters a later *)
(* usage is taken from may be further beyond billed than spent is beyond   *)
(* noted.  The same must hold of a cut that has been read and not yet      *)
(* written, and of the usage itself, which change_model makes billed.      *)
Covers(more, base) == \A x \in {files, run.mem, row.usage} : noted + more + x <= spent + base

WriteOK(q) ==
    q.pc = "write" =>
        /\ q.seq <= row.seq
        /\ q.seq = row.seq =>
              /\ noted + q.usage <= spent + q.billed
              /\ Covers(0, q.billed)
              /\ Covers(q.usage, row.usage + q.billed)

CountersOK ==
    /\ noted <= spent
    /\ Covers(0, row.billed)
    /\ Covers(0, row.usage)
    /\ \A p \in Procs : WriteOK(proc[p])
    /\ run.pc # "off" => files <= run.mem

(* While a request changes the model of the job, the job does not run, and *)
(* what the request has read of the usage is still there.                  *)
RequestsOK ==
    \A p \in Handlers :
        /\ Changing(p) => run.pc \notin {"prepare", "work"}
        /\ At(p, "commit") => proc[p].usage = row.usage

Counting == TypesAndProcs /\ CountersOK /\ RequestsOK

(* It is kept until a run overtakes a change of model.                     *)
IInv == TypesAndProcs /\ (overtaken \/ Counting)

(* A step that only copies one counter to another keeps CountersOK.        *)
Moved ==
    /\ UNCHANGED <<noted, spent>> /\ row'.seq = row.seq
    /\ files' \in {files, run.mem} /\ run'.mem \in {run.mem, files, 0}
    /\ row'.usage = row.usage \/ (row'.usage = run.mem /\ run.pc # "off")
    /\ row'.billed \in {row.billed, row'.usage}
    /\ (files' = run.mem => run.pc # "off" \/ files = run.mem)
    /\ (run'.pc # "off" => files' <= run'.mem)

NoNewWrite == \A p \in Procs : proc'[p] = proc[p] \/ proc'[p].pc # "write"

LEMMA MovedCounters ==
    ASSUME BillingTypeOK, BillingTypeOK', CountersOK, Moved, NoNewWrite
    PROVE  CountersOK'
<1>1. /\ noted \in Nat /\ spent \in Nat /\ files \in Nat /\ run.mem \in Nat
      /\ row.usage \in Nat /\ row.billed \in Nat /\ row.seq \in Nat
      /\ proc \in [Procs -> ProcType]
    BY DEF BillingTypeOK
<1>2. noted' = noted /\ spent' = spent /\ noted <= spent BY DEF CountersOK, Moved
<1>3. Covers(0, row.billed) /\ Covers(0, row.usage) BY DEF CountersOK
<1>4. run.pc # "off" => files <= run.mem BY DEF CountersOK
<1>5. \A x \in {files', run'.mem, row'.usage} : x \in Nat /\ x \in {files, run.mem, row.usage, 0}
    BY <1>1 DEF Moved
<1>6. \A b \in Nat : Covers(0, b) => Covers(0, b)'
    BY <1>1, <1>2, <1>5 DEF Covers
<1>7. Covers(0, row.usage)'
    <2>1. CASE row'.usage = row.usage BY <1>3, <1>6, <1>1, <2>1
    <2>2. CASE row'.usage = run.mem /\ run.pc # "off"
        <3>1. \A x \in {files', run'.mem, row'.usage} : x \in Nat /\ x <= run.mem
            BY <1>1, <1>4, <2>2 DEF Moved
        <3> QED BY <1>1, <1>2, <2>2, <3>1 DEF Covers
    <2> QED BY <2>1, <2>2 DEF Moved
<1>8. Covers(0, row.billed)' BY <1>1, <1>3, <1>6, <1>7 DEF Moved
<1>9. ASSUME NEW q \in ProcType, WriteOK(q) PROVE WriteOK(q)'
    <2>1. q.usage \in Nat /\ q.billed \in Nat /\ q.seq \in Nat BY DEF ProcType
    <2> SUFFICES ASSUME q.pc = "write", q.seq = row.seq PROVE WriteOK(q)'
        BY <1>9 DEF WriteOK, Moved
    <2>2. /\ noted + q.usage <= spent + q.billed /\ Covers(0, q.billed)
          /\ Covers(q.usage, row.usage + q.billed)
        BY <1>9 DEF WriteOK
    <2>3. Covers(0, q.billed)' BY <1>6, <2>1, <2>2
    <2>4. Covers(q.usage, row.usage + q.billed)'
        <3>1. CASE row'.usage = row.usage
            BY <1>1, <1>2, <1>5, <2>1, <2>2, <3>1 DEF Covers
        <3>2. CASE row'.usage = run.mem /\ run.pc # "off"
            <4>1. \A x \in {files', run'.mem, row'.usage} : x \in Nat /\ x <= run.mem
                BY <1>1, <1>4, <3>2 DEF Moved
            <4> QED BY <1>1, <1>2, <2>1, <2>2, <3>2, <4>1 DEF Covers
        <3> QED BY <3>1, <3>2 DEF Moved
    <2> QED BY <1>1, <1>2, <2>1, <2>2, <2>3, <2>4 DEF WriteOK, Moved
<1>10. ASSUME NEW p \in Procs PROVE WriteOK(proc[p])'
    <2>1. CASE proc'[p] = proc[p]
        <3>1. proc[p] \in ProcType /\ WriteOK(proc[p]) BY <1>1 DEF CountersOK
        <3> QED BY <1>9, <2>1, <3>1
    <2>2. CASE proc'[p].pc # "write" BY <2>2 DEF WriteOK
    <2> QED BY <2>1, <2>2 DEF NoNewWrite
<1> QED BY <1>2, <1>7, <1>8, <1>10 DEF CountersOK, Moved

(* One more token is used and counted by the run.                          *)
LEMMA ConsumeCounters ==
    ASSUME BillingTypeOK, CountersOK, Consume
    PROVE  CountersOK'
<1>1. /\ noted \in Nat /\ spent \in Nat /\ files \in Nat /\ run.mem \in Nat
      /\ row.usage \in Nat /\ row.billed \in Nat /\ row.seq \in Nat
      /\ proc \in [Procs -> ProcType]
    BY DEF BillingTypeOK
<1>2. /\ spent' = spent + 1 /\ run'.mem = run.mem + 1 /\ run'.pc = run.pc /\ files' = files
      /\ noted' = noted /\ row' = row /\ proc' = proc
    BY DEF Consume, rowVars, bookVars, BillingTypeOK
<1>3. \A m, b \in Nat : Covers(m, b) => Covers(m, b)'
    <2> SUFFICES ASSUME NEW m \in Nat, NEW b \in Nat, Covers(m, b)
                 PROVE  \A x \in {files, run.mem + 1, row.usage} : noted + m + x <= (spent + 1) + b
        BY <1>2 DEF Covers
    <2>1. /\ noted + m + files <= spent + b /\ noted + m + run.mem <= spent + b
          /\ noted + m + row.usage <= spent + b
        BY DEF Covers
    <2> QED BY <1>1, <2>1
<1>4. ASSUME NEW p \in Procs PROVE WriteOK(proc[p])'
    <2>1. proc[p].usage \in Nat /\ proc[p].billed \in Nat /\ proc[p].seq \in Nat BY <1>1 DEF ProcType
    <2>2. WriteOK(proc[p]) BY DEF CountersOK
    <2> QED BY <1>1, <1>2, <1>3, <2>1, <2>2 DEF WriteOK
<1>5. Covers(0, row.billed)' /\ Covers(0, row.usage)' BY <1>1, <1>2, <1>3 DEF CountersOK
<1> QED BY <1>1, <1>2, <1>4, <1>5 DEF CountersOK

(* A cut that has been read may be written.                                *)
LEMMA CutReadCounters ==
    ASSUME BillingTypeOK, CountersOK, NEW p \in Procs, CutRead(p)
    PROVE  CountersOK'
<1>1. /\ noted \in Nat /\ spent \in Nat /\ files \in Nat /\ run.mem \in Nat
      /\ row.usage \in Nat /\ row.billed \in Nat /\ row.seq \in Nat
      /\ proc \in [Procs -> ProcType]
    BY DEF BillingTypeOK
<1>2. row' = row /\ run' = run /\ files' = files /\ spent' = spent /\ noted' = noted
    BY DEF CutRead, rowVars, runVars, bookVars
<1>3. \A m, b : Covers(m, b)' <=> Covers(m, b) BY <1>2 DEF Covers
<1>4. \A q : WriteOK(q)' <=> WriteOK(q) BY <1>2, <1>3 DEF WriteOK
<1>5. WriteOK(proc'[p])
    <2>1. CASE status # "deleted" /\ row.enabled /\ row.usage > row.billed
        <3>1. proc'[p] = [proc[p] EXCEPT !.pc = "write", !.usage = row.usage, !.billed = row.billed,
                                        !.seq = row.seq]
            BY <1>1, <2>1 DEF CutRead
        <3>2. /\ proc'[p].usage = row.usage /\ proc'[p].billed = row.billed /\ proc'[p].seq = row.seq
            BY <1>1, <3>1 DEF ProcType
        <3>3. /\ noted + files <= spent + row.billed /\ noted + run.mem <= spent + row.billed
              /\ noted + row.usage <= spent + row.billed
            BY <1>1 DEF CountersOK, Covers
        <3>4. Covers(row.usage, row.usage + row.billed) BY <1>1, <3>3 DEF Covers
        <3> QED BY <1>1, <3>2, <3>3, <3>4 DEF WriteOK, CountersOK
    <2>2. CASE ~(status # "deleted" /\ row.enabled /\ row.usage > row.billed)
        <3>1. proc'[p].pc = proc[p].then BY <1>1, <2>2 DEF CutRead, Continue, IdleProc
        <3>2. proc'[p].pc # "write" BY <1>1, <3>1 DEF ProcType
        <3> QED BY <3>2 DEF WriteOK
    <2> QED BY <2>1, <2>2
<1>6. ASSUME NEW q \in Procs PROVE WriteOK(proc'[q])
    <2>1. CASE q = p BY <1>5, <2>1
    <2>2. CASE q # p
        <3>1. proc'[q] = proc[q] BY <1>1, <2>2 DEF CutRead, Continue
        <3> QED BY <3>1 DEF CountersOK
    <2> QED BY <2>1, <2>2
<1>7. ASSUME NEW q \in Procs PROVE WriteOK(proc[q])'
    <2>1. WriteOK(proc'[q]) BY <1>6
    <2> QED BY <1>2, <2>1 DEF WriteOK, Covers
<1> QED BY <1>2, <1>3, <1>7 DEF CountersOK

(* Writing a cut moves as much from the usage to the records as billed     *)
(* moves up.  The cuts of others that were read before are void.           *)
LEMMA CutWriteCounters ==
    ASSUME BillingTypeOK, ProcsOK, CountersOK, NEW p \in Procs, CutWrite(p)
    PROVE  CountersOK'
<1>1. /\ noted \in Nat /\ spent \in Nat /\ files \in Nat /\ run.mem \in Nat
      /\ row.usage \in Nat /\ row.billed \in Nat /\ row.seq \in Nat
      /\ proc \in [Procs -> ProcType]
    BY DEF BillingTypeOK
<1> DEFINE u == proc[p].usage
           b == proc[p].billed
<1>2. u \in Nat /\ b \in Nat /\ proc[p].seq \in Nat /\ proc[p].pc = "write" /\ b < u
    BY <1>1 DEF CutWrite, At, ProcsOK, ProcOK, ProcType
<1>3. run' = run /\ files' = files /\ spent' = spent BY DEF CutWrite, runVars
<1>4. proc'[p].pc # "write" /\ \A q \in Procs \ {p} : proc'[q] = proc[q]
    <2>1. proc'[p].pc = proc[p].then /\ \A q \in Procs \ {p} : proc'[q] = proc[q]
        BY <1>1 DEF CutWrite, Continue, IdleProc
    <2> QED BY <1>1, <2>1 DEF ProcType
<1>5. CASE StillCurrent(p)
    <2>1. noted' = noted + (u - b) BY <1>5 DEF CutWrite
    <2>2. row'.usage = row.usage /\ row'.billed = u /\ row'.seq = row.seq + 1
        <3>1. row \in [usage : Nat, billed : Nat, seq : Nat, enabled : BOOLEAN] BY DEF BillingTypeOK
        <3>2. row' = RowAfterCut(p) BY <1>5 DEF CutWrite
        <3> QED BY <3>1, <3>2 DEF RowAfterCut
    <2>3. noted + u <= spent + b /\ Covers(0, b) /\ Covers(u, row.usage + b)
        <3>1. WriteOK(proc[p]) BY DEF CountersOK
        <3> QED BY <3>1, <1>2, <1>5 DEF WriteOK, StillCurrent
    <2>4. /\ noted + files <= spent + b /\ noted + run.mem <= spent + b /\ noted + row.usage <= spent + b
          /\ noted + u + files <= spent + (row.usage + b) /\ noted + u + run.mem <= spent + (row.usage + b)
          /\ noted + u + row.usage <= spent + (row.usage + b)
        BY <1>1, <1>2, <2>3 DEF Covers
    <2>5. noted' <= spent' BY <1>1, <1>2, <1>3, <2>1, <2>3
    <2>6. /\ noted' + files <= spent + u /\ noted' + run.mem <= spent + u /\ noted' + row.usage <= spent + u
          /\ noted' + files <= spent + row.usage /\ noted' + run.mem <= spent + row.usage
          /\ noted' + row.usage <= spent + row.usage /\ noted' \in Nat
        <3> HIDE DEF u, b
        <3> QED BY <1>1, <1>2, <2>1, <2>4
    <2>7. Covers(0, row.billed)' /\ Covers(0, row.usage)'
        <3> HIDE DEF u, b
        <3>1. ASSUME NEW x \in {files, run.mem, row.usage}
              PROVE  noted' + 0 + x <= spent + u /\ noted' + 0 + x <= spent + row.usage
            <4>1. x \in Nat BY <1>1
            <4>2. noted' \in Nat BY <2>6
            <4>3. \A n \in Nat : n + 0 = n OBVIOUS
            <4> QED BY <2>6, <4>1, <4>2, <4>3
        <3> QED BY <1>3, <2>2, <3>1 DEF Covers
    <2>8. ASSUME NEW q \in Procs PROVE WriteOK(proc[q])'
        <3>1. CASE q = p BY <1>4, <3>1 DEF WriteOK
        <3>2. CASE q # p
            <4>1. proc'[q] = proc[q] /\ proc[q].seq \in Nat BY <1>1, <1>4, <3>2 DEF ProcType
            <4>2. proc[q].pc = "write" => proc[q].seq <= row.seq BY DEF CountersOK, WriteOK
            <4> QED BY <1>1, <2>2, <4>1, <4>2 DEF WriteOK
        <3> QED BY <3>1, <3>2
    <2> QED BY <1>3, <2>5, <2>7, <2>8 DEF CountersOK
<1>6. CASE ~StillCurrent(p)
    <2>1. row' = row /\ noted' = noted BY <1>6 DEF CutWrite
    <2>2. ASSUME NEW q \in Procs PROVE WriteOK(proc[q])'
        <3>1. CASE q = p BY <1>4, <3>1 DEF WriteOK
        <3>2. CASE q # p
            <4>1. proc'[q] = proc[q] /\ WriteOK(proc[q]) BY <1>4, <3>2 DEF CountersOK
            <4> QED BY <1>3, <2>1, <4>1 DEF WriteOK, Covers
        <3> QED BY <3>1, <3>2
    <2> QED BY <1>3, <2>1, <2>2 DEF CountersOK, Covers
<1> QED BY <1>5, <1>6

-----------------------------------------------------------------------------
(* Steps of Bill other than the two of cut touch neither counters nor      *)
(* status, and leave a process nowhere near the end of a change.           *)
LEMMA SendKeepsRows ==
    ASSUME BillingTypeOK, NEW p \in Procs,
           Settle(p) \/ Claim(p) \/ Post(p) \/ Save(p) \/ Settled(p)
    PROVE  /\ UNCHANGED <<status, row, files, run, spent, noted>>
           /\ \A q \in Procs \ {p} : proc'[q] = proc[q]
           /\ proc'[p].pc \in {"idle", "send", "post", "save", "settled"}
           /\ proc'[p].then \in {proc[p].then, "idle"}
<1>1. proc \in [Procs -> ProcType] BY DEF BillingTypeOK
<1>2. CASE Settle(p) BY <1>1, <1>2 DEF Settle, rowVars, runVars, bookVars, ProcType
<1>3. CASE Claim(p)
    <2> DEFINE taken(n) == [proc[p] EXCEPT !.pc = "post", !.rec = n, !.todo = @ \ {n},
                                           !.attempts = records[n].attempts]
               passed(n) == [proc[p] EXCEPT !.todo = @ \ {n}]
    <2>1. \A n : /\ taken(n).pc = "post" /\ taken(n).then = proc[p].then
                 /\ passed(n).pc = proc[p].pc /\ passed(n).then = proc[p].then
        BY <1>1 DEF ProcType
    <2> PICK n \in proc[p].todo :
            \/ proc' = [proc EXCEPT ![p].pc = "post", ![p].rec = n, ![p].todo = @ \ {n},
                                    ![p].attempts = records[n].attempts]
            \/ proc' = [proc EXCEPT ![p].todo = @ \ {n}]
        BY <1>3 DEF Claim
    <2>2. proc' = [proc EXCEPT ![p] = taken(n)] \/ proc' = [proc EXCEPT ![p] = passed(n)] BY <1>1
    <2> HIDE DEF taken, passed
    <2>3. /\ \A q \in Procs \ {p} : proc'[q] = proc[q]
          /\ proc'[p].pc \in {"post", proc[p].pc} /\ proc'[p].then = proc[p].then
        BY <1>1, <2>1, <2>2
    <2> QED BY <1>3, <2>3 DEF Claim, At, rowVars, runVars
<1>4. CASE Post(p)
    <2>1. \A a : /\ [proc[p] EXCEPT !.pc = "save", !.answer = a].pc = "save"
                 /\ [proc[p] EXCEPT !.pc = "save", !.answer = a].then = proc[p].then
        BY <1>1 DEF ProcType
    <2>2. PICK a : proc' = [proc EXCEPT ![p] = [proc[p] EXCEPT !.pc = "save", !.answer = a]]
        BY <1>1, <1>4 DEF Post
    <2> QED BY <1>1, <1>4, <2>1, <2>2 DEF Post, rowVars, runVars
<1>5. CASE Save(p)
    <2> DEFINE stopped == [IdleProc EXCEPT !.pc = "settled", !.problem = TRUE]
               next == [proc[p] EXCEPT !.pc = "send", !.rec = 0, !.answer = "none", !.attempts = 0]
    <2>1. /\ stopped.pc = "settled" /\ stopped.then = "idle" /\ IdleProc.pc = "idle" /\ IdleProc.then = "idle"
          /\ next.pc = "send" /\ next.then = proc[p].then
        BY <1>1 DEF ProcType, IdleProc
    <2>2. \/ proc' = [proc EXCEPT ![p] = stopped] \/ proc' = [proc EXCEPT ![p] = IdleProc]
          \/ proc' = [proc EXCEPT ![p] = next]
        BY <1>1, <1>5 DEF Save
    <2> HIDE DEF stopped, next
    <2> QED BY <1>1, <1>5, <2>1, <2>2 DEF Save, rowVars, runVars
<1>6. CASE Settled(p)
    <2>1. /\ [IdleProc EXCEPT !.pc = "settled", !.problem = Stuck].pc = "settled" /\ IdleProc.pc = "idle"
          /\ [IdleProc EXCEPT !.pc = "settled", !.problem = Stuck].then = "idle" /\ IdleProc.then = "idle"
        BY DEF IdleProc
    <2> QED BY <1>1, <1>6, <2>1 DEF Settled, rowVars, runVars, bookVars
<1> QED BY <1>2, <1>3, <1>4, <1>5, <1>6

(* A step that begins no change, starts no run and, beside a change, leaves*)
(* the usage alone.                                                        *)
LEMMA RequestsKept ==
    ASSUME RequestsOK,
           run'.pc \in {"prepare", "work"} => run.pc \in {"prepare", "work"},
           row'.usage # row.usage => run.pc \in {"prepare", "work"},
           \A p \in Handlers : Changing(p)' => Changing(p),
           \A p \in Handlers : proc'[p].pc = "commit" =>
                                   \/ proc[p].pc = "commit" /\ proc'[p].usage = proc[p].usage
                                   \/ proc'[p].usage = row.usage
    PROVE  RequestsOK'
<1> SUFFICES ASSUME NEW p \in Handlers, Changing(p)'
             PROVE  /\ run'.pc \notin {"prepare", "work"}
                    /\ proc'[p].pc = "commit" => proc'[p].usage = row'.usage
    BY DEF RequestsOK, Changing, At
<1>1. run.pc \notin {"prepare", "work"} BY DEF RequestsOK
<1>2. proc[p].pc = "commit" => proc[p].usage = row.usage BY DEF RequestsOK, At
<1> QED BY <1>1, <1>2

LEMMA BillInv ==
    ASSUME Counting, BillingTypeOK', NEW p \in Procs, Bill(p)
    PROVE  CountersOK' /\ RequestsOK'
<1>1. /\ BillingTypeOK /\ ProcsOK /\ CountersOK /\ RequestsOK /\ proc \in [Procs -> ProcType]
      /\ Handlers \subseteq Procs
    BY DEF Counting, TypesAndProcs, BillingTypeOK, Procs
<1>2. CASE Settle(p) \/ Claim(p) \/ Post(p) \/ Save(p) \/ Settled(p)
    <2>1. /\ UNCHANGED <<status, row, files, run, spent, noted>>
          /\ \A q \in Procs \ {p} : proc'[q] = proc[q]
          /\ proc'[p].pc \in {"idle", "send", "post", "save", "settled"}
          /\ proc'[p].then \in {proc[p].then, "idle"}
        BY <1>1, <1>2, SendKeepsRows
    <2>2. ASSUME NEW q \in Procs PROVE WriteOK(proc[q])'
        <3>1. CASE q = p BY <2>1, <3>1 DEF WriteOK
        <3>2. CASE q # p
            <4>1. WriteOK(proc[q]) /\ proc'[q] = proc[q] BY <1>1, <2>1, <3>2 DEF CountersOK
            <4> QED BY <2>1, <4>1 DEF WriteOK, Covers
        <3> QED BY <3>1, <3>2
    <2>3. CountersOK' BY <1>1, <2>1, <2>2 DEF CountersOK, Covers
    <2>4. ASSUME NEW q \in Handlers
          PROVE  /\ Changing(q)' => Changing(q)
                 /\ proc'[q].pc = "commit" => proc[q].pc = "commit" /\ proc'[q].usage = proc[q].usage
        BY <1>1, <2>1 DEF Changing
    <2> QED BY <1>1, <2>1, <2>3, <2>4, RequestsKept
<1>3. CASE CutRead(p) \/ CutWrite(p)
    <2>1. CountersOK' BY <1>1, <1>3, CutReadCounters, CutWriteCounters
    <2>2. /\ run' = run /\ row'.usage = row.usage
          /\ \A q \in Procs \ {p} : proc'[q] = proc[q]
          /\ \/ proc'[p].pc = "write" /\ proc'[p].then = proc[p].then
             \/ proc'[p].pc = proc[p].then /\ proc'[p].then = "idle"
        <3>1. ASSUME Continue(p)
              PROVE  /\ proc'[p].pc = proc[p].then /\ proc'[p].then = "idle"
                     /\ \A q \in Procs \ {p} : proc'[q] = proc[q]
            BY <1>1, <3>1 DEF Continue, IdleProc
        <3>2. CASE CutRead(p)
            <4>1. CASE status # "deleted" /\ row.enabled /\ row.usage > row.billed
                <5> DEFINE new == [proc[p] EXCEPT !.pc = "write", !.usage = row.usage, !.billed = row.billed,
                                                  !.seq = row.seq]
                <5>1. new.pc = "write" /\ new.then = proc[p].then BY <1>1 DEF ProcType
                <5>2. proc' = [proc EXCEPT ![p] = new] BY <1>1, <3>2, <4>1 DEF CutRead
                <5> HIDE DEF new
                <5> QED BY <1>1, <3>2, <5>1, <5>2 DEF CutRead, rowVars, runVars
            <4> QED BY <3>1, <3>2, <4>1 DEF CutRead, rowVars, runVars
        <3>3. CASE CutWrite(p)
            <4>1. row'.usage = row.usage BY <1>1, <3>3 DEF CutWrite, RowAfterCut, BillingTypeOK
            <4> QED BY <3>1, <3>3, <4>1 DEF CutWrite, runVars
        <3> QED BY <1>3, <3>2, <3>3
    <2>3. proc[p] \in ProcType BY <1>1
    <2>4. proc[p].then \in {"idle", "switch", "settle", "due", "rebase", "drop"} BY <2>3 DEF ProcType
    <2>5. ASSUME NEW q \in Handlers
          PROVE  /\ Changing(q)' => Changing(q)
                 /\ proc'[q].pc = "commit" => proc[q].pc = "commit" /\ proc'[q].usage = proc[q].usage
        BY <1>1, <2>2, <2>4 DEF Changing
    <2> QED BY <1>1, <2>1, <2>2, <2>5, RequestsKept
<1> QED BY <1>2, <1>3 DEF Bill

(* The steps of a run copy counters, and a run starts beside no change.    *)
LEMMA RunInv ==
    ASSUME Counting, BillingTypeOK', Running \/ Working \/ Failing, ~overtaken'
    PROVE  CountersOK' /\ RequestsOK'
<1>1. /\ BillingTypeOK /\ CountersOK /\ RequestsOK /\ proc \in [Procs -> ProcType]
      /\ Handlers \subseteq Procs \ {"runner"} /\ "runner" \in Procs
    BY BillingAssumption DEF Counting, TypesAndProcs, BillingTypeOK, Procs
<1>2. /\ row \in [usage : Nat, billed : Nat, seq : Nat, enabled : BOOLEAN] /\ files \in Nat
      /\ run \in [pc : {"off", "prepare", "work", "final"}, billing : BOOLEAN, mem : Nat]
    BY <1>1 DEF BillingTypeOK
<1>3. run.pc # "off" => files <= run.mem BY <1>1 DEF CountersOK
<1>4. /\ IdleProc.pc # "write" /\ Cutting("settle").pc # "write" /\ CuttingForced("settle").pc # "write"
      /\ Cutting("switch").pc # "write" /\ [IdleProc EXCEPT !.pc = "switch"].pc # "write"
      /\ [IdleProc EXCEPT !.pc = "settled"].pc # "write"
    BY DEF IdleProc, Cutting, CuttingForced
<1> DEFINE Others == \A p \in Handlers : proc'[p] = proc[p]
<1>5. ASSUME NEW new, new.pc # "write", proc' = [proc EXCEPT !["runner"] = new]
      PROVE  NoNewWrite /\ Others
    BY <1>1, <1>5 DEF NoNewWrite
<1>6. ASSUME proc' = proc PROVE NoNewWrite /\ Others BY <1>6 DEF NoNewWrite
<1>7. ASSUME Moved, NoNewWrite PROVE CountersOK'
    BY <1>1, <1>7, MovedCounters
<1>8. ASSUME Others, run'.pc \in {"prepare", "work"} => run.pc \in {"prepare", "work"},
             row'.usage # row.usage => run.pc \in {"prepare", "work"}
      PROVE  RequestsOK'
    <2>1. \A p \in Handlers : Changing(p)' => Changing(p) BY <1>8 DEF Changing
    <2>2. \A p \in Handlers : proc'[p].pc = "commit" => proc[p].pc = "commit" /\ proc'[p].usage = proc[p].usage
        BY <1>8
    <2> HIDE DEF Others
    <2> QED BY <1>1, <1>8, <2>1, <2>2, RequestsKept
<1>10. NoRun.pc = "off" /\ NoRun.mem = 0 BY DEF NoRun
<1>11. CASE Load
    <2>1. NoNewWrite /\ Others BY <1>4, <1>5, <1>11 DEF Load
    <2>2. /\ run'.pc = "prepare" /\ run'.mem = files /\ row' = row /\ files' = files /\ run.pc = "off"
          /\ noted' = noted /\ spent' = spent
        BY <1>10, <1>11 DEF Load, rowVars, bookVars
    <2>3. CountersOK' BY <1>2, <1>7, <2>1, <2>2 DEF Moved
    <2>4. \A p \in Handlers : ~Changing(p) BY <1>11 DEF Load
    <2>5. \A p \in Handlers : ~Changing(p)' BY <2>1, <2>4 DEF Changing
    <2>6. RequestsOK' BY <2>5 DEF RequestsOK, Changing, At
    <2> QED BY <2>3, <2>6
<1>12. CASE Switch
    <2>1. NoNewWrite /\ Others BY <1>4, <1>5, <1>12 DEF Switch
    <2>2. /\ run' = run /\ files' = files /\ run.pc = "prepare" /\ noted' = noted
          /\ spent' = spent /\ row'.usage = run.mem /\ row'.billed = run.mem /\ row'.seq = row.seq
        BY <1>2, <1>12 DEF Switch, runVars, bookVars
    <2>3. CountersOK' BY <1>2, <1>3, <1>7, <2>1, <2>2 DEF Moved
    <2>4. RequestsOK' BY <1>8, <2>1, <2>2
    <2> QED BY <2>3, <2>4
<1>13. CASE StartWork
    <2>1. NoNewWrite /\ Others BY <1>4, <1>5, <1>13 DEF StartWork
    <2>2. /\ run'.pc = "work" /\ run'.mem = run.mem /\ run.pc = "prepare" /\ row' = row /\ files' = files
          /\ noted' = noted /\ spent' = spent
        BY <1>2, <1>13 DEF StartWork, bookVars
    <2>3. CountersOK' BY <1>2, <1>3, <1>7, <2>1, <2>2 DEF Moved
    <2>4. RequestsOK' BY <1>8, <2>1, <2>2
    <2> QED BY <2>3, <2>4
<1>14. CASE PauseForBilling
    <2>1. NoNewWrite /\ Others BY <1>4, <1>5, <1>14 DEF PauseForBilling
    <2>2. /\ run'.pc = "off" /\ run'.mem = 0 /\ row' = row /\ files' = files
          /\ noted' = noted /\ spent' = spent
        BY <1>10, <1>14 DEF PauseForBilling, bookVars
    <2>3. CountersOK' BY <1>2, <1>3, <1>7, <2>1, <2>2 DEF Moved
    <2>4. RequestsOK' BY <1>8, <2>1, <2>2
    <2> QED BY <2>3, <2>4
<1>15. CASE BilledOn
    <2>1. NoNewWrite /\ Others BY <1>4, <1>5, <1>15 DEF BilledOn
    <2>2. UNCHANGED <<run, row, files, noted, spent>> BY <1>15 DEF BilledOn, rowVars, runVars, bookVars
    <2>3. CountersOK' BY <1>2, <1>3, <1>7, <2>1, <2>2 DEF Moved
    <2>4. RequestsOK' BY <1>8, <2>1, <2>2
    <2> QED BY <2>3, <2>4
<1>16. CASE EndRun
    <2>1. NoNewWrite /\ Others BY <1>4, <1>5, <1>16 DEF EndRun
    <2>2. /\ run.pc = "work" /\ files' = run.mem /\ noted' = noted /\ spent' = spent
          /\ row'.usage = run.mem /\ row'.billed = row.billed /\ row'.seq = row.seq
        BY <1>2, <1>16 DEF EndRun, bookVars
    <2>3. (run'.pc = "final" /\ run'.mem = run.mem) \/ (run'.pc = "off" /\ run'.mem = 0)
        BY <1>2, <1>10, <1>16 DEF EndRun
    <2>4. CountersOK' BY <1>2, <1>3, <1>7, <2>1, <2>2, <2>3 DEF Moved
    <2>5. RequestsOK' BY <1>8, <2>1, <2>2, <2>3
    <2> QED BY <2>4, <2>5
<1>17. CASE FinalBilled
    <2>1. NoNewWrite /\ Others BY <1>4, <1>5, <1>17 DEF FinalBilled
    <2>2. run'.pc = "off" /\ run'.mem = 0 /\ UNCHANGED <<row, files, noted, spent>>
        BY <1>10, <1>17 DEF FinalBilled, rowVars, bookVars
    <2>3. CountersOK' BY <1>2, <1>3, <1>7, <2>1, <2>2 DEF Moved
    <2>4. RequestsOK' BY <1>8, <2>1, <2>2
    <2> QED BY <2>3, <2>4
<1>18. CASE Consume
    <2>1. CountersOK' BY <1>1, <1>18, ConsumeCounters
    <2>2. Others /\ run'.pc = run.pc /\ row' = row BY <1>2, <1>18 DEF Consume, rowVars
    <2>3. RequestsOK' BY <1>8, <2>2
    <2> QED BY <2>1, <2>3
<1>19. CASE FlushFiles
    <2>1. NoNewWrite /\ Others BY <1>6, <1>19 DEF FlushFiles
    <2>2. run.pc = "work" /\ files' = run.mem /\ UNCHANGED <<run, row, noted, spent>>
        BY <1>19 DEF FlushFiles, rowVars, bookVars
    <2>3. CountersOK' BY <1>2, <1>3, <1>7, <2>1, <2>2 DEF Moved
    <2>4. RequestsOK' BY <1>8, <2>1, <2>2
    <2> QED BY <2>3, <2>4
<1>20. CASE FlushDb \/ BillNow
    <2>1. NoNewWrite /\ Others BY <1>4, <1>5, <1>6, <1>20 DEF FlushDb, BillNow
    <2>2. /\ run.pc = "work" /\ UNCHANGED <<run, files, noted, spent>>
          /\ row'.usage = run.mem /\ row'.billed = row.billed /\ row'.seq = row.seq
        BY <1>2, <1>20 DEF FlushDb, BillNow, runVars, bookVars
    <2>3. CountersOK' BY <1>2, <1>3, <1>7, <2>1, <2>2 DEF Moved
    <2>4. RequestsOK' BY <1>8, <2>1, <2>2
    <2> QED BY <2>3, <2>4
<1>21. CASE FailRun
    <2>1. NoNewWrite /\ Others BY <1>4, <1>5, <1>21 DEF FailRun
    <2>2. /\ run.pc = "work" /\ files' \in {files, run.mem} /\ noted' = noted /\ spent' = spent
          /\ row'.usage \in {row.usage, run.mem} /\ row'.billed = row.billed /\ row'.seq = row.seq
        BY <1>2, <1>21 DEF FailRun, bookVars
    <2>3. (run'.pc = "final" /\ run'.mem = run.mem) \/ (run'.pc = "off" /\ run'.mem = 0)
        BY <1>2, <1>10, <1>21 DEF FailRun
    <2>4. CountersOK' BY <1>2, <1>3, <1>7, <2>1, <2>2, <2>3 DEF Moved
    <2>5. RequestsOK' BY <1>8, <2>1, <2>2, <2>3
    <2> QED BY <2>4, <2>5
<1>22. CASE CrashRun
    <2>1. NoNewWrite /\ Others BY <1>4, <1>5, <1>22 DEF CrashRun
    <2>2. run'.pc = "off" /\ run'.mem = 0 /\ UNCHANGED <<row, files, noted, spent>>
        BY <1>10, <1>22 DEF CrashRun, rowVars, bookVars
    <2>3. CountersOK' BY <1>2, <1>3, <1>7, <2>1, <2>2 DEF Moved
    <2>4. RequestsOK' BY <1>8, <2>1, <2>2
    <2> QED BY <2>3, <2>4
<1>23. ASSUME NEW p \in Procs, CrashProc(p) PROVE CountersOK' /\ RequestsOK'
    <2>1. /\ proc' = [proc EXCEPT ![p] = IdleProc] /\ UNCHANGED <<run, row, files, noted, spent>>
        BY <1>23 DEF CrashProc, rowVars, runVars, bookVars
    <2>2. NoNewWrite BY <1>1, <1>4, <2>1 DEF NoNewWrite
    <2>3. CountersOK' BY <1>2, <1>3, <1>7, <2>1, <2>2 DEF Moved
    <2>4. IdleProc.pc = "idle" /\ IdleProc.then = "idle" BY DEF IdleProc
    <2>5. \A q \in Handlers : proc'[q] = proc[q] \/ (proc'[q].pc = "idle" /\ proc'[q].then = "idle")
        BY <1>1, <2>1, <2>4
    <2>6. \A q \in Handlers : Changing(q)' => Changing(q) BY <2>5 DEF Changing
    <2>7. \A q \in Handlers : proc'[q].pc = "commit" => proc[q].pc = "commit" /\ proc'[q].usage = proc[q].usage
        BY <2>5
    <2>8. RequestsOK' BY <1>1, <2>1, <2>6, <2>7, RequestsKept
    <2> QED BY <2>3, <2>8
<1> QED
    BY <1>11, <1>12, <1>13, <1>14, <1>15, <1>16, <1>17, <1>18, <1>19, <1>20, <1>21, <1>22, <1>23
    DEF Running, Working, Failing

(* A change of model that begins beside no run keeps it, whatever the other*)
(* requests do: it moves billed up to the usage.                           *)
LEMMA RequestInv ==
    ASSUME Counting, BillingTypeOK', Sweeping \/ Requesting, ~overtaken'
    PROVE  CountersOK' /\ RequestsOK'
<1>1. /\ BillingTypeOK /\ CountersOK /\ RequestsOK /\ proc \in [Procs -> ProcType]
      /\ Handlers \subseteq Procs \ {"sweep"} /\ "sweep" \in Procs
    BY BillingAssumption DEF Counting, TypesAndProcs, BillingTypeOK, Procs
<1>2. /\ row \in [usage : Nat, billed : Nat, seq : Nat, enabled : BOOLEAN] /\ files \in Nat
      /\ run \in [pc : {"off", "prepare", "work", "final"}, billing : BOOLEAN, mem : Nat]
    BY <1>1 DEF BillingTypeOK
<1>3. run.pc # "off" => files <= run.mem BY <1>1 DEF CountersOK
(* A process that goes where no change is, and writes nothing next.        *)
<1> DEFINE Plain(q) == q.pc \notin {"write", "rebase", "commit"} /\ q.then # "rebase"
<1>4. ASSUME NoNewWrite, UNCHANGED <<run, files, noted, spent>>, row'.usage = row.usage, row'.seq = row.seq,
             row'.billed \in {row.billed, row.usage}
      PROVE  CountersOK'
    <2>1. Moved BY <1>2, <1>3, <1>4 DEF Moved
    <2> QED BY <1>1, <1>4, <2>1, MovedCounters
<1>5. ASSUME NEW p \in Procs, NEW new, Plain(new), proc' = [proc EXCEPT ![p] = new],
             UNCHANGED <<run, files, noted, spent>>, row'.usage = row.usage, row'.seq = row.seq,
             row'.billed \in {row.billed, row.usage}
      PROVE  CountersOK' /\ RequestsOK'
    <2>1. \A q \in Procs : proc'[q] = proc[q] \/ Plain(proc'[q]) BY <1>1, <1>5
    <2>2. NoNewWrite BY <2>1 DEF NoNewWrite
    <2>3. CountersOK' BY <1>4, <1>5, <2>2
    <2>4. \A q \in Handlers : Changing(q)' => Changing(q) BY <1>1, <2>1 DEF Changing
    <2>5. \A q \in Handlers : proc'[q].pc = "commit" => proc[q].pc = "commit" /\ proc'[q].usage = proc[q].usage
        BY <1>1, <2>1
    <2> HIDE DEF Plain
    <2>6. RequestsOK' BY <1>1, <1>5, <2>4, <2>5, RequestsKept
    <2> QED BY <2>3, <2>6
<1>6. ASSUME NEW p \in Handlers, NEW new, Plain(new), Request(p, new),
             UNCHANGED <<run, files, noted, spent, row>>
      PROVE  CountersOK' /\ RequestsOK'
    <2>1. proc' = [proc EXCEPT ![p] = new] BY <1>6 DEF Request
    <2>2. p \in Procs BY <1>1
    <2>3. row'.usage = row.usage /\ row'.seq = row.seq /\ row'.billed = row.billed BY <1>6
    <2> HIDE DEF Plain
    <2> QED BY <1>5, <1>6, <2>1, <2>2, <2>3
<1>7. /\ Plain(IdleProc) /\ Plain(Cutting("due")) /\ Plain(Cutting("drop")) /\ Plain(CuttingForced("settle"))
      /\ Plain([IdleProc EXCEPT !.pc = "due"]) /\ Plain([IdleProc EXCEPT !.pc = "drop"])
      /\ Plain([IdleProc EXCEPT !.pc = "settle", !.force = TRUE])
    BY DEF IdleProc, Cutting, CuttingForced
<1>8. CASE Sweep
    <2>1. \/ proc' = [proc EXCEPT !["sweep"] = Cutting("due")]
          \/ proc' = [proc EXCEPT !["sweep"] = [IdleProc EXCEPT !.pc = "due"]]
        BY <1>8 DEF Sweep
    <2>2. UNCHANGED <<row, run, files, noted, spent>> BY <1>8 DEF Sweep, rowVars, runVars, bookVars
    <2>3. row'.usage = row.usage /\ row'.seq = row.seq /\ row'.billed = row.billed BY <2>2
    <2> HIDE DEF Plain
    <2> QED BY <1>1, <1>5, <1>7, <2>1, <2>2, <2>3
<1>9. CASE SweepDue
    <2>1. UNCHANGED <<row, run, files, noted, spent>> BY <1>9 DEF SweepDue, rowVars, runVars, bookVars
    <2>2. \A q \in Procs : \/ proc'[q] = proc[q]
                           \/ q = "sweep" /\ proc'[q].pc = "send"
        BY <1>1, <1>9 DEF SweepDue, ProcType
    <2>3. NoNewWrite BY <2>2 DEF NoNewWrite
    <2>4. CountersOK' BY <1>2, <1>4, <2>1, <2>3
    <2>5. \A q \in Handlers : proc'[q] = proc[q] BY <1>1, <2>2
    <2>6. \A q \in Handlers : Changing(q)' => Changing(q) BY <2>5 DEF Changing
    <2>7. \A q \in Handlers : proc'[q].pc = "commit" => proc[q].pc = "commit" /\ proc'[q].usage = proc[q].usage
        BY <2>5
    <2>8. RequestsOK' BY <1>1, <2>1, <2>6, <2>7, RequestsKept
    <2> QED BY <2>4, <2>8
<1>10. CASE Resume \/ SettleOrphan \/ ToggleMode
    <2>1. UNCHANGED <<row, run, files, noted, spent, proc>>
        BY <1>10 DEF Resume, SettleOrphan, ToggleMode, rowVars, runVars, bookVars
    <2> QED BY <1>1, <2>1 DEF CountersOK, Covers, WriteOK, RequestsOK, Changing, At
<1>11. ASSUME NEW p \in Handlers, ChangeModel(p) PROVE CountersOK' /\ RequestsOK'
    <2>1. PICK after \in BOOLEAN :
              Request(p, IF row.enabled THEN [Cutting("rebase") EXCEPT !.enabled = after]
                         ELSE [IdleProc EXCEPT !.pc = "commit", !.usage = row.usage, !.billed = row.billed,
                                               !.enabled = after])
        BY <1>11 DEF ChangeModel
    <2>2. /\ [Cutting("rebase") EXCEPT !.enabled = after].pc = "cut"
          /\ [IdleProc EXCEPT !.pc = "commit", !.usage = row.usage, !.billed = row.billed,
                              !.enabled = after].pc = "commit"
          /\ [IdleProc EXCEPT !.pc = "commit", !.usage = row.usage, !.billed = row.billed,
                              !.enabled = after].usage = row.usage
        BY DEF Cutting, IdleProc
    <2>3. PICK new : Request(p, new) /\ new.pc # "write" /\ (new.pc = "commit" => new.usage = row.usage)
        BY <2>1, <2>2
    <2>4. UNCHANGED <<run, files, noted, spent, row>> /\ run.pc \notin {"prepare", "work"}
        BY <1>11 DEF ChangeModel, rowVars, runVars, bookVars
    <2>5. proc'[p] = new /\ \A q \in Procs \ {p} : proc'[q] = proc[q] BY <1>1, <2>3 DEF Request
    <2>6. NoNewWrite BY <2>3, <2>5 DEF NoNewWrite
    <2>7. CountersOK' BY <1>2, <1>4, <2>4, <2>6
    <2>8. ASSUME NEW q \in Handlers PROVE proc'[q].pc = "commit" => proc'[q].usage = row.usage
        <3>1. proc[q].pc = "commit" => proc[q].usage = row.usage BY <1>1 DEF RequestsOK, At
        <3> QED BY <1>1, <2>3, <2>5, <3>1
    <2>9. RequestsOK' BY <2>4, <2>8 DEF RequestsOK, At
    <2> QED BY <2>7, <2>9
<1>12. ASSUME NEW p \in Handlers, Rebase(p) PROVE CountersOK' /\ RequestsOK'
    <2> DEFINE new == [proc[p] EXCEPT !.pc = "commit", !.usage = row.usage, !.billed = row.billed,
                                      !.was = row.enabled]
    <2>1. proc' = [proc EXCEPT ![p] = IdleProc] \/ proc' = [proc EXCEPT ![p] = new]
        BY <1>1, <1>12 DEF Rebase
    <2>2. IdleProc.pc = "idle" /\ new.pc = "commit" /\ new.usage = row.usage BY <1>1 DEF ProcType, IdleProc
    <2> HIDE DEF new
    <2>3. UNCHANGED <<run, files, noted, spent, row>> /\ proc[p].pc = "rebase"
        BY <1>12 DEF Rebase, rowVars, runVars, bookVars, At
    <2>4. /\ proc'[p].pc # "write" /\ (proc'[p].pc = "commit" => proc'[p].usage = row.usage)
          /\ \A q \in Procs \ {p} : proc'[q] = proc[q]
        BY <1>1, <2>1, <2>2
    <2>5. NoNewWrite BY <2>4 DEF NoNewWrite
    <2>6. CountersOK' BY <1>2, <1>4, <2>3, <2>5
    <2>7. \A q \in Handlers : Changing(q)' => Changing(q) BY <1>1, <2>3, <2>4 DEF Changing
    <2>8. \A q \in Handlers : proc'[q].pc = "commit" =>
                                  \/ proc[q].pc = "commit" /\ proc'[q].usage = proc[q].usage
                                  \/ proc'[q].usage = row.usage
        BY <1>1, <2>4
    <2>9. RequestsOK' BY <1>1, <2>3, <2>7, <2>8, RequestsKept
    <2> QED BY <2>6, <2>9
<1>13. ASSUME NEW p \in Handlers, CommitChange(p) PROVE CountersOK' /\ RequestsOK'
    <2>1. proc[p].usage = row.usage BY <1>1, <1>13 DEF CommitChange, RequestsOK
    <2>2. row'.usage = row.usage /\ row'.seq = row.seq /\ row'.billed \in {row.billed, row.usage}
        BY <1>2, <1>13, <2>1 DEF CommitChange
    <2>3. UNCHANGED <<run, files, noted, spent>> /\ proc' = [proc EXCEPT ![p] = IdleProc] /\ p \in Procs
        BY <1>1, <1>13 DEF CommitChange, runVars, bookVars
    <2> HIDE DEF Plain
    <2> QED BY <1>5, <1>7, <2>2, <2>3
<1>14. ASSUME NEW p \in Handlers, Drop(p) PROVE CountersOK' /\ RequestsOK'
    <2>1. row' = row /\ UNCHANGED <<run, files, noted, spent>> /\ proc' = [proc EXCEPT ![p] = IdleProc] /\ p \in Procs
        BY <1>1, <1>14 DEF Drop, runVars, bookVars
    <2>2. row'.usage = row.usage /\ row'.seq = row.seq /\ row'.billed = row.billed BY <2>1
    <2> HIDE DEF Plain
    <2> QED BY <1>5, <1>7, <2>1, <2>2
<1>15. ASSUME NEW p \in Handlers, Delete(p) \/ RetryBilling(p) PROVE CountersOK' /\ RequestsOK'
    <2>1. \/ Request(p, Cutting("drop")) \/ Request(p, [IdleProc EXCEPT !.pc = "drop"])
          \/ Request(p, CuttingForced("settle"))
          \/ Request(p, [IdleProc EXCEPT !.pc = "settle", !.force = TRUE])
        BY <1>15 DEF Delete, RetryBilling
    <2>2. UNCHANGED <<run, files, noted, spent, row>>
        BY <1>15 DEF Delete, RetryBilling, rowVars, runVars, bookVars
    <2> HIDE DEF Plain
    <2> QED BY <1>6, <1>7, <2>1, <2>2
<1>16. ASSUME NEW p \in Handlers, NEW n \in DOMAIN records, RetryRecord(p, n) PROVE CountersOK' /\ RequestsOK'
    <2> DEFINE new == [IdleProc EXCEPT !.pc = "send", !.todo = {n}, !.force = TRUE]
    <2>1. Plain(new) BY DEF IdleProc
    <2>2. Request(p, new) /\ UNCHANGED <<run, files, noted, spent, row>>
        BY <1>16 DEF RetryRecord, rowVars, runVars, bookVars
    <2> HIDE DEF Plain, new
    <2> QED BY <1>6, <2>1, <2>2
<1> QED
    BY <1>8, <1>9, <1>10, <1>11, <1>12, <1>13, <1>14, <1>15, <1>16
    DEF Sweeping, Requesting

LEMMA OvertakenStays == overtaken /\ [Next]_vars => overtaken'
BY DEF Next, vars, history, Bill, CutRead, CutWrite, Settle, Claim, Post, Save, Settled, Ripen, Running, Load, Switch,
       StartWork, PauseForBilling, BilledOn, EndRun, FinalBilled, Working, Consume, FlushFiles, FlushDb, BillNow,
       Failing, FailRun, CrashRun, CrashProc, Sweeping, Sweep, SweepDue, Requesting, Resume, SettleOrphan, ToggleMode,
       ChangeModel, Rebase, CommitChange, Delete, Drop, RetryBilling, RetryRecord

LEMMA IInvStep == IInv /\ [Next]_vars => IInv'
<1> SUFFICES ASSUME IInv, [Next]_vars, ~overtaken' PROVE CountersOK' /\ RequestsOK'
    BY TypesAndProcsStep DEF IInv, Counting
<1>1. Counting BY OvertakenStays DEF IInv
<1>2. BillingTypeOK' BY TypesAndProcsStep DEF IInv, TypesAndProcs
<1>3. ASSUME NEW p \in Procs, Bill(p) PROVE CountersOK' /\ RequestsOK' BY <1>1, <1>2, <1>3, BillInv
<1>4. CASE Running \/ Working \/ Failing BY <1>1, <1>2, <1>4, RunInv
<1>5. CASE Sweeping \/ Requesting BY <1>1, <1>2, <1>5, RequestInv
<1>6. CASE UNCHANGED vars \/ \E n \in DOMAIN records : Ripen(n)
    <2>1. UNCHANGED <<row, run, files, noted, spent, proc>>
        BY <1>6 DEF vars, Ripen, rowVars, runVars, bookVars
    <2> QED BY <1>1, <2>1 DEF Counting, CountersOK, Covers, WriteOK, RequestsOK, Changing, At
<1> QED BY <1>3, <1>4, <1>5, <1>6 DEF Next

LEMMA IInvAtStart == Init => IInv
<1> SUFFICES ASSUME Init PROVE CountersOK /\ RequestsOK BY TypesAndProcsAtStart DEF IInv, Counting
<1>1. \A p \in Procs : proc[p].pc = "idle" /\ proc[p].then = "idle" BY DEF Init, IdleProc
<1>2. Handlers \subseteq Procs BY DEF Procs
<1>3. /\ noted = 0 /\ spent \in Nat /\ files = spent /\ run.mem = 0 /\ run.pc = "off"
      /\ row.usage = spent /\ row.billed = 0
    BY DEF Init, NoRun
<1>4. CountersOK BY <1>1, <1>3 DEF CountersOK, Covers, WriteOK
<1> QED BY <1>1, <1>2, <1>3, <1>4 DEF RequestsOK, Changing, At

(* No more tokens are cut into records than were used (NotOvercharged),    *)
(* with any number of handlers whose requests interleave, through crashes  *)
(* and changes of model, unless a run was at work during one.              *)
THEOREM NeverOvercharged == Spec => []NotOvercharged
<1>1. IInv => NotOvercharged BY DEF IInv, Counting, CountersOK, NotOvercharged
<1> QED BY <1>1, IInvAtStart, IInvStep, PTL DEF Spec

-----------------------------------------------------------------------------
(* Billing implements Ledger.  A token that is used is a Use, a cut that   *)
(* is written is a Note, an answered request that was not charged before   *)
(* is a Charge, and every other step is a stutter: it leaves the amounts   *)
(* of the records alone.  A Note may be too large only when a run has      *)
(* overtaken a change of model.                                            *)
LedgerNext == OurLedger!Next \/ (overtaken' /\ noted' > noted /\ OurLedger!Note(noted' - noted))

LEMMA AmountsKept ==
    ASSUME DOMAIN records' = DOMAIN records,
           \A n \in DOMAIN records : records'[n].amount = records[n].amount,
           UNCHANGED <<spent, noted, charged>>
    PROVE  UNCHANGED OurLedger!vars
BY DEF OurLedger!vars

LEMMA RecordsKept ==
    ASSUME UNCHANGED <<records, spent, noted, charged>>
    PROVE  UNCHANGED OurLedger!vars
BY DEF OurLedger!vars

LEMMA BillLedger ==
    ASSUME IInv, NEW p \in Procs, Bill(p)
    PROVE  [LedgerNext]_OurLedger!vars
<1>1. /\ BillingTypeOK /\ ProcOK(proc[p], DOMAIN records) /\ proc[p] \in ProcType
      /\ records \in Seq(RecordType) /\ noted \in Nat /\ spent \in Nat
      /\ overtaken \/ (WriteOK(proc[p]) /\ noted <= spent)
    BY DEF IInv, Counting, TypesAndProcs, ProcsOK, CountersOK, BillingTypeOK
<1>2. CASE CutRead(p) \/ Settle(p) \/ Settled(p)
    <2>1. UNCHANGED <<records, spent, noted, charged>>
        BY <1>2 DEF CutRead, Settle, Settled, runVars, bookVars
    <2> QED BY <2>1, RecordsKept
<1>3. CASE CutWrite(p)
    <2>1. CASE StillCurrent(p)
        <3> DEFINE amount == proc[p].usage - proc[p].billed
                   new == [amount |-> amount, status |-> "pending", due |-> TRUE, attempts |-> 0]
        <3>1. /\ proc[p].usage \in Nat /\ proc[p].billed \in Nat /\ proc[p].billed < proc[p].usage
              /\ overtaken \/ noted + proc[p].usage <= spent + proc[p].billed
            BY <1>1, <1>3, <2>1 DEF ProcType, ProcOK, WriteOK, CutWrite, At, StillCurrent
        <3>2. amount \in Nat \ {0} BY <3>1
        <3>3. /\ records' = Append(records, new) /\ noted' = noted + amount
              /\ UNCHANGED <<spent, charged, overtaken>>
            BY <1>3, <2>1 DEF CutWrite, runVars, history
        <3> DEFINE before == [n \in DOMAIN records |-> records[n].amount]
        <3>4. [n \in DOMAIN records' |-> records'[n].amount] = Append(before, amount)
            <4>1. new.amount = amount OBVIOUS
            <4> HIDE DEF new, amount
            <4>2. before \in Seq(Nat) /\ Len(before) = Len(records)
                <5>1. DOMAIN records = 1..Len(records) /\ Len(records) \in Nat BY <1>1
                <5>2. ASSUME NEW n \in 1..Len(records) PROVE records[n].amount \in Nat
                    <6>1. records[n] \in RecordType BY <1>1
                    <6> QED BY <6>1 DEF RecordType
                <5>3. before \in [1..Len(records) -> Nat] BY <5>1, <5>2
                <5> HIDE DEF before
                <5> QED BY <5>1, <5>3
            <4>3. DOMAIN records' = 1..(Len(records) + 1) BY <1>1, <3>3
            <4>4. \A n \in 1..(Len(records) + 1) :
                      records'[n].amount = IF n = Len(records) + 1 THEN amount ELSE records[n].amount
                BY <1>1, <3>3, <4>1
            <4>5. /\ DOMAIN Append(before, amount) = 1..(Len(records) + 1)
                  /\ \A n \in 1..(Len(records) + 1) :
                        Append(before, amount)[n] = IF n = Len(records) + 1 THEN amount ELSE before[n]
                BY <4>2
            <4>6. \A n \in 1..(Len(records) + 1) : n # Len(records) + 1 => before[n] = records[n].amount
                BY <1>1
            <4> QED BY <4>2, <4>3, <4>4, <4>5, <4>6
        <3>5. OurLedger!Note(amount)
            <4> HIDE DEF amount, new
            <4> QED BY <3>3, <3>4 DEF OurLedger!Note
        <3>6. CASE overtaken
            <4> HIDE DEF amount, new
            <4>1. noted' - noted = amount /\ noted' > noted BY <1>1, <3>2, <3>3
            <4>2. OurLedger!Note(noted' - noted) BY <3>5, <4>1 DEF OurLedger!Note
            <4>3. overtaken' BY <3>3, <3>6
            <4> QED BY Zenon, <4>1, <4>2, <4>3 DEF LedgerNext
        <3>7. CASE ~overtaken
            <4>1. amount <= spent - noted BY <1>1, <3>1, <3>7
            <4> HIDE DEF amount, new
            <4>2. amount \in 1..(spent - noted) BY <1>1, <3>2, <4>1
            <4>3. \E a \in 1..(spent - noted) :
                      /\ [n \in DOMAIN records' |-> records'[n].amount]
                             = Append([n \in DOMAIN records |-> records[n].amount], a)
                      /\ noted' = noted + a /\ UNCHANGED <<spent, charged>>
                BY <3>3, <3>4, <4>2
            <4>4. OurLedger!Next BY <4>3 DEF OurLedger!Next, OurLedger!Note
            <4> QED BY Zenon, <4>4 DEF LedgerNext
        <3> QED BY <3>6, <3>7
    <2>2. CASE ~StillCurrent(p)
        <3>1. UNCHANGED <<records, spent, noted, charged>> BY <1>3, <2>2 DEF CutWrite, runVars
        <3> QED BY <3>1, RecordsKept
    <2> QED BY <2>1, <2>2
<1>4. CASE Claim(p)
    <2>1. DOMAIN records' = DOMAIN records /\ UNCHANGED <<spent, noted, charged>>
        BY <1>1, <1>4 DEF Claim, runVars
    <2>2. PICK m \in proc[p].todo :
              records' = records \/ records' = [records EXCEPT ![m].status = "pending", ![m].due = FALSE]
        BY <1>4 DEF Claim
    <2>3. ASSUME NEW n \in DOMAIN records PROVE records'[n].amount = records[n].amount
        <3>1. records[n] \in RecordType BY <1>1
        <3>2. [records[n] EXCEPT !.status = "pending", !.due = FALSE].amount = records[n].amount
            BY <3>1 DEF RecordType
        <3>3. records'[n] \in {records[n], [records[n] EXCEPT !.status = "pending", !.due = FALSE]}
            BY <1>1, <2>2
        <3> QED BY <3>2, <3>3
    <2> QED BY <2>1, <2>3, AmountsKept
<1>5. CASE Post(p)
    <2> DEFINE n == proc[p].rec
    <2>1. records' = records /\ spent' = spent /\ noted' = noted /\ n \in DOMAIN records
        BY <1>1, <1>5 DEF Post, runVars, ProcOK, At
    <2>2. charged' \in {charged, charged \cup {n}} BY <1>5 DEF Post
    <2>3. CASE charged' = charged BY <2>1, <2>3, RecordsKept
    <2>4. CASE charged' # charged
        <3>1. charged' = charged \cup {n} /\ n \notin charged BY <2>2, <2>4
        <3>2. n \in DOMAIN [m \in DOMAIN records |-> records[m].amount] \ charged BY <2>1, <3>1
        <3>3. OurLedger!Charge(n) BY <2>1, <3>1 DEF OurLedger!Charge
        <3> QED BY <3>2, <3>3 DEF LedgerNext, OurLedger!Next
    <2> QED BY <2>3, <2>4
<1>6. CASE Save(p)
    <2>1. DOMAIN records' = DOMAIN records /\ UNCHANGED <<spent, noted, charged>>
        BY <1>1, <1>6 DEF Save, runVars
    <2>2. ASSUME NEW n \in DOMAIN records PROVE records'[n].amount = records[n].amount
        BY <1>1, <1>6 DEF Save, RecordType
    <2> QED BY <2>1, <2>2, AmountsKept
<1> QED BY <1>2, <1>3, <1>4, <1>5, <1>6 DEF Bill

LEMMA LedgerStep == IInv /\ [Next]_vars => [LedgerNext]_OurLedger!vars
<1> SUFFICES ASSUME IInv, [Next]_vars PROVE [LedgerNext]_OurLedger!vars OBVIOUS
<1>1. ASSUME NEW p \in Procs, Bill(p) PROVE [LedgerNext]_OurLedger!vars BY <1>1, BillLedger
<1>2. ASSUME NEW n \in DOMAIN records, Ripen(n) PROVE UNCHANGED OurLedger!vars
    <2>1. records \in Seq(RecordType) BY DEF IInv, TypesAndProcs, BillingTypeOK
    <2>2. DOMAIN records' = DOMAIN records /\ UNCHANGED <<spent, noted, charged>>
        BY <1>2, <2>1 DEF Ripen, runVars
    <2>3. ASSUME NEW m \in DOMAIN records PROVE records'[m].amount = records[m].amount
        BY <1>2, <2>1 DEF Ripen, RecordType
    <2> QED BY <2>2, <2>3, AmountsKept
<1>3. CASE Consume
    <2>1. spent' = spent + 1 /\ UNCHANGED <<records, noted, charged>> BY <1>3 DEF Consume, bookVars
    <2> QED BY <2>1 DEF LedgerNext, OurLedger!Next, OurLedger!Use
<1>4. ASSUME UNCHANGED vars \/ Running \/ Failing \/ FlushFiles \/ FlushDb \/ BillNow \/ Sweeping \/ Requesting
      PROVE  UNCHANGED OurLedger!vars
    <2>1. CASE UNCHANGED vars BY <2>1, RecordsKept DEF vars, runVars, bookVars
    <2>2. CASE Running
        BY <2>2, RecordsKept DEF Running, Load, Switch, StartWork, PauseForBilling, BilledOn, EndRun, FinalBilled,
                                 runVars, bookVars
    <2>3. CASE Failing \/ FlushFiles \/ FlushDb \/ BillNow
        BY <2>3, RecordsKept DEF Failing, FailRun, CrashRun, CrashProc, FlushFiles, FlushDb, BillNow, runVars, bookVars
    <2>4. CASE Sweeping \/ Requesting
        BY <2>4, RecordsKept DEF Sweeping, Requesting, Sweep, SweepDue, Resume, SettleOrphan, ChangeModel, Rebase,
               CommitChange, Delete, Drop, RetryBilling, RetryRecord, ToggleMode, runVars, bookVars
    <2> QED BY <1>4, <2>1, <2>2, <2>3, <2>4
<1> QED BY <1>1, <1>2, <1>3, <1>4 DEF Next, Working

LEMMA LedgerStart == Init => OurLedger!Init
<1> SUFFICES ASSUME Init PROVE OurLedger!Init OBVIOUS
<1>1. records = <<>> /\ spent \in Nat /\ noted = 0 /\ charged = {} BY DEF Init
<1>2. [n \in DOMAIN records |-> records[n].amount] = <<>> BY <1>1
<1> QED BY <1>1, <1>2 DEF OurLedger!Init

(* Billing implements the ledger it promises (KeepsTheLedger): every token *)
(* is in at most one record, no record changes its amount, and a record is *)
(* charged at most once (services/billing.py:1-20); a record may be for    *)
(* tokens that were billed before only after a run has overtaken a change  *)
(* of model.                                                               *)
THEOREM LedgerKept == Spec => KeepsTheLedger
<1>1. KeepsTheLedger <=> OurLedger!Init /\ [][LedgerNext]_(OurLedger!vars) BY DEF KeepsTheLedger, LedgerNext
<1> QED BY <1>1, LedgerStart, LedgerStep, IInvAtStart, IInvStep, PTL DEF Spec

-----------------------------------------------------------------------------
(* A record is called paid only when a process saves the answer "paid" of  *)
(* a request, and it has that answer only of a request that charged the    *)
(* number it holds.  Nothing takes a charge back.                          *)
PaidOK ==
    /\ SucceededIsCharged
    /\ \A p \in Procs : At(p, "save") /\ proc[p].answer = "paid" => proc[p].rec \in charged

NoNewSave == \A p \in Procs : proc'[p] = proc[p] \/ proc'[p].pc # "save"

LEMMA PaidKept ==
    ASSUME PaidOK, UNCHANGED <<records, charged>>, NoNewSave
    PROVE  PaidOK'
BY DEF PaidOK, SucceededIsCharged, NoNewSave, At

(* The status a record is given says paid only for that answer, or when it *)
(* did so already.                                                         *)
LEMMA PaidAnswer ==
    ASSUME NEW a \in {"paid", "retry", "refused"}, NEW now, StatusAfter(a, now) = "succeeded"
    PROVE  a = "paid" \/ now = "succeeded"
<1>1. StatusAfter("retry", now) = now BY Zenon DEF StatusAfter
<1>2. StatusAfter("refused", now) = "failed" BY Zenon DEF StatusAfter
<1> QED BY <1>1, <1>2

LEMMA BillPaid ==
    ASSUME TypesAndProcs, PaidOK, NEW p \in Procs, Bill(p)
    PROVE  PaidOK'
<1>1. /\ proc \in [Procs -> ProcType] /\ proc[p] \in ProcType /\ ProcOK(proc[p], DOMAIN records)
      /\ records \in Seq(RecordType)
    BY DEF TypesAndProcs, BillingTypeOK, ProcsOK
<1>2. ASSUME Continue(p) PROVE NoNewSave
    <2>1. proc'[p].pc = proc[p].then /\ \A q \in Procs \ {p} : proc'[q] = proc[q]
        BY <1>1, <1>2 DEF Continue, IdleProc
    <2>2. proc[p].then # "save" BY <1>1 DEF ProcType
    <2> QED BY <2>1, <2>2 DEF NoNewSave
<1>3. CASE CutRead(p)
    <2>1. NoNewSave
        <3>1. CASE status # "deleted" /\ row.enabled /\ row.usage > row.billed
            <4> DEFINE new == [proc[p] EXCEPT !.pc = "write", !.usage = row.usage, !.billed = row.billed,
                                              !.seq = row.seq]
            <4>1. proc' = [proc EXCEPT ![p] = new] BY <1>1, <1>3, <3>1 DEF CutRead
            <4>2. new.pc = "write" BY <1>1 DEF ProcType
            <4> HIDE DEF new
            <4> QED BY <1>1, <4>1, <4>2 DEF NoNewSave
        <3> QED BY <1>2, <1>3, <3>1 DEF CutRead
    <2> QED BY <1>3, <2>1, PaidKept DEF CutRead, bookVars
<1>4. CASE CutWrite(p)
    <2>1. NoNewSave /\ charged' = charged BY <1>2, <1>4 DEF CutWrite
    <2>2. CASE StillCurrent(p)
        <3> DEFINE new == [amount |-> proc[p].usage - proc[p].billed, status |-> "pending",
                           due |-> TRUE, attempts |-> 0]
        <3>1. records' = Append(records, new) /\ new.status = "pending" BY <1>4, <2>2 DEF CutWrite
        <3> HIDE DEF new
        <3>2. ASSUME NEW n \in DOMAIN records', records'[n].status = "succeeded"
              PROVE  n \in DOMAIN records /\ records'[n] = records[n]
            BY <1>1, <3>1, <3>2
        <3> QED BY <2>1, <3>2 DEF PaidOK, SucceededIsCharged, NoNewSave, At
    <2>3. CASE ~StillCurrent(p)
        <3>1. records' = records BY <1>4, <2>3 DEF CutWrite
        <3> QED BY <2>1, <3>1, PaidKept
    <2> QED BY <2>2, <2>3
<1>5. CASE Settle(p) \/ Settled(p)
    <2>1. proc'[p].pc # "save" /\ \A q \in Procs \ {p} : proc'[q] = proc[q]
        <3>1. ASSUME NEW s PROVE [proc[p] EXCEPT !.pc = "send", !.todo = s].pc = "send"
            BY <1>1 DEF ProcType
        <3>2. [IdleProc EXCEPT !.pc = "settled", !.problem = Stuck].pc = "settled" /\ IdleProc.pc = "idle"
            BY DEF IdleProc
        <3> QED BY <1>1, <1>5, <3>1, <3>2 DEF Settle, Settled
    <2>2. NoNewSave BY <2>1 DEF NoNewSave
    <2> QED BY <1>5, <2>2, PaidKept DEF Settle, Settled, bookVars
<1>6. CASE Claim(p)
    <2> PICK n \in proc[p].todo :
            IF records[n].due /\ records[n].status \in Sendable(proc[p].force)
            THEN /\ records' = [records EXCEPT ![n].status = "pending", ![n].due = FALSE]
                 /\ proc' = [proc EXCEPT ![p].pc = "post", ![p].rec = n, ![p].todo = @ \ {n},
                                          ![p].attempts = records[n].attempts]
            ELSE /\ proc' = [proc EXCEPT ![p].todo = @ \ {n}]
                 /\ UNCHANGED records
        BY <1>6 DEF Claim
    <2>1. n \in DOMAIN records /\ records[n] \in RecordType BY <1>1 DEF ProcOK
    <2>2. charged' = charged /\ proc[p].pc = "send" BY <1>6 DEF Claim, At
    <2>3. NoNewSave
        <3> DEFINE taken == [proc[p] EXCEPT !.pc = "post", !.rec = n, !.todo = @ \ {n},
                                            !.attempts = records[n].attempts]
                   passed == [proc[p] EXCEPT !.todo = @ \ {n}]
        <3>1. taken.pc = "post" /\ passed.pc = "send" BY <1>1, <2>2 DEF ProcType
        <3>2. proc' = [proc EXCEPT ![p] = taken] \/ proc' = [proc EXCEPT ![p] = passed] BY <1>1
        <3> HIDE DEF taken, passed
        <3>3. proc'[p].pc # "save" /\ \A q \in Procs \ {p} : proc'[q] = proc[q] BY <1>1, <3>1, <3>2
        <3> QED BY <3>3 DEF NoNewSave
    <2>4. ASSUME NEW m \in DOMAIN records', records'[m].status = "succeeded"
          PROVE  m \in DOMAIN records /\ records[m].status = "succeeded"
        <3>1. [records[n] EXCEPT !.status = "pending", !.due = FALSE].status = "pending"
            BY <2>1 DEF RecordType
        <3>2. m \in DOMAIN records /\ (records'[m] = records[m]
                  \/ records'[m] = [records[n] EXCEPT !.status = "pending", !.due = FALSE])
            BY <1>1, <2>1
        <3> QED BY <2>4, <3>1, <3>2
    <2> QED BY <2>2, <2>3, <2>4 DEF PaidOK, SucceededIsCharged, NoNewSave, At
<1>7. CASE Post(p)
    <2>1. PICK a \in {"paid", "retry", "refused"} :
              /\ proc' = [proc EXCEPT ![p].pc = "save", ![p].answer = a]
              /\ a = "paid" => charged' = charged \cup {proc[p].rec}
        BY <1>7 DEF Post
    <2>2. records' = records /\ charged \subseteq charged' BY <1>7 DEF Post
    <2>3. /\ [proc[p] EXCEPT !.pc = "save", !.answer = a].answer = a
          /\ [proc[p] EXCEPT !.pc = "save", !.answer = a].rec = proc[p].rec
        BY <1>1 DEF ProcType
    <2>4. proc'[p].answer = a /\ proc'[p].rec = proc[p].rec /\ \A q \in Procs \ {p} : proc'[q] = proc[q]
        BY <1>1, <2>1, <2>3
    <2>5. ASSUME NEW q \in Procs, At(q, "save")', proc'[q].answer = "paid" PROVE proc'[q].rec \in charged'
        BY <2>1, <2>2, <2>4, <2>5 DEF PaidOK, At
    <2> QED BY <2>2, <2>5 DEF PaidOK, SucceededIsCharged
<1>8. CASE Save(p)
    <2> DEFINE n == proc[p].rec
               a == proc[p].answer
    <2>1. n \in DOMAIN records /\ proc[p].pc = "save" /\ a \in {"paid", "retry", "refused"}
        BY <1>1, <1>8 DEF Save, ProcOK, At, ProcType
    <2>2. charged' = charged /\ DOMAIN records' = DOMAIN records BY <1>1, <1>8 DEF Save
    <2>3. \A m \in DOMAIN records :
              records'[m].status = IF m = n THEN StatusAfter(a, records[n].status) ELSE records[m].status
        BY <1>1, <1>8, <2>1 DEF Save, RecordType
    <2>4. NoNewSave
        <3>1. /\ [IdleProc EXCEPT !.pc = "settled", !.problem = TRUE].pc = "settled" /\ IdleProc.pc = "idle"
              /\ [proc[p] EXCEPT !.pc = "send", !.rec = 0, !.answer = "none", !.attempts = 0].pc = "send"
            BY <1>1 DEF ProcType, IdleProc
        <3>2. proc'[p].pc # "save" /\ \A q \in Procs \ {p} : proc'[q] = proc[q]
            BY <1>1, <1>8, <3>1 DEF Save
        <3> QED BY <3>2 DEF NoNewSave
    <2>5. StatusAfter(a, records[n].status) = "succeeded" => n \in charged
        <3>1. StatusAfter(a, records[n].status) = "succeeded" => a = "paid" \/ records[n].status = "succeeded"
            BY <2>1, PaidAnswer
        <3> QED BY <2>1, <3>1 DEF PaidOK, SucceededIsCharged, At
    <2>6. ASSUME NEW m \in DOMAIN records', records'[m].status = "succeeded" PROVE m \in charged'
        <3> HIDE DEF n, a
        <3> QED BY <2>2, <2>3, <2>5, <2>6 DEF PaidOK, SucceededIsCharged
    <2> QED BY <2>2, <2>4, <2>6 DEF PaidOK, SucceededIsCharged, NoNewSave, At
<1> QED BY <1>3, <1>4, <1>5, <1>6, <1>7, <1>8 DEF Bill

(* The run, the sweep and the requests neither write records nor charge,   *)
(* and begin what they do elsewhere.                                       *)
NewElsewhere == \A p \in Procs : proc'[p] = proc[p] \/ proc'[p].pc \notin {"write", "save"}

LEMMA OthersElsewhere ==
    ASSUME TypesAndProcs, Running \/ Working \/ Failing \/ Sweeping \/ Requesting
    PROVE  UNCHANGED <<records, charged, noted>> /\ NewElsewhere
<1> DEFINE Elsewhere(q) == q.pc \notin {"write", "save"}
<1>1. proc \in [Procs -> ProcType] /\ "runner" \in Procs /\ Handlers \subseteq Procs /\ "sweep" \in Procs
    BY DEF TypesAndProcs, BillingTypeOK, Procs
<1>2. UNCHANGED <<records, charged, noted>>
    <2>1. CASE Running \/ Working \/ Failing
        BY <2>1 DEF Running, Working, Failing, Load, Switch, StartWork, PauseForBilling, BilledOn, EndRun,
               FinalBilled, Consume, FlushFiles, FlushDb, BillNow, FailRun, CrashRun, CrashProc, bookVars
    <2>2. CASE Sweeping \/ Requesting
        BY <2>2 DEF Sweeping, Requesting, Sweep, SweepDue, Resume, SettleOrphan, ChangeModel, Rebase,
               CommitChange, Delete, Drop, RetryBilling, RetryRecord, ToggleMode, bookVars
    <2> QED BY <2>1, <2>2
<1>3. ASSUME NEW p \in Procs, NEW new, Elsewhere(new), proc' = [proc EXCEPT ![p] = new] PROVE NewElsewhere
    BY <1>1, <1>3 DEF NewElsewhere
<1>4. ASSUME proc' = proc PROVE NewElsewhere BY <1>4 DEF NewElsewhere
<1>5. /\ Elsewhere(IdleProc) /\ Elsewhere(Cutting("settle")) /\ Elsewhere(Cutting("switch"))
      /\ Elsewhere(Cutting("due")) /\ Elsewhere(Cutting("drop")) /\ Elsewhere(CuttingForced("settle"))
      /\ Elsewhere([IdleProc EXCEPT !.pc = "switch"]) /\ Elsewhere([IdleProc EXCEPT !.pc = "settled"])
      /\ Elsewhere([IdleProc EXCEPT !.pc = "due"]) /\ Elsewhere([IdleProc EXCEPT !.pc = "drop"])
      /\ Elsewhere([IdleProc EXCEPT !.pc = "settle", !.force = TRUE])
    BY DEF IdleProc, Cutting, CuttingForced
<1>6. CASE Running
    <2>1. \/ proc' = [proc EXCEPT !["runner"] = IdleProc]
          \/ proc' = [proc EXCEPT !["runner"] = Cutting("settle")]
          \/ proc' = [proc EXCEPT !["runner"] = Cutting("switch")]
          \/ proc' = [proc EXCEPT !["runner"] = CuttingForced("settle")]
          \/ proc' = [proc EXCEPT !["runner"] = [IdleProc EXCEPT !.pc = "switch"]]
          \/ proc' = [proc EXCEPT !["runner"] = [IdleProc EXCEPT !.pc = "settled"]]
        BY <1>6 DEF Running, Load, Switch, StartWork, PauseForBilling, BilledOn, EndRun, FinalBilled
    <2> HIDE DEF Elsewhere
    <2> QED BY <1>1, <1>2, <1>3, <1>5, <2>1
<1>7. CASE Working \/ Failing
    <2>1. \/ proc' = proc \/ proc' = [proc EXCEPT !["runner"] = Cutting("settle")]
          \/ \E p \in Procs : proc' = [proc EXCEPT ![p] = IdleProc]
        BY <1>1, <1>7 DEF Working, Consume, FlushFiles, FlushDb, BillNow, Failing, FailRun, CrashRun, CrashProc
    <2> HIDE DEF Elsewhere
    <2> QED BY <1>1, <1>2, <1>3, <1>4, <1>5, <2>1
<1>8. CASE Sweeping
    <2>1. [proc["sweep"] EXCEPT !.pc = "send", !.todo = Due].pc = "send" BY <1>1 DEF ProcType
    <2>2. \/ proc' = [proc EXCEPT !["sweep"] = Cutting("due")]
          \/ proc' = [proc EXCEPT !["sweep"] = [IdleProc EXCEPT !.pc = "due"]]
          \/ proc' = [proc EXCEPT !["sweep"] = [proc["sweep"] EXCEPT !.pc = "send", !.todo = Due]]
        BY <1>1, <1>8 DEF Sweeping, Sweep, SweepDue
    <2>3. Elsewhere([proc["sweep"] EXCEPT !.pc = "send", !.todo = Due]) BY <2>1
    <2> HIDE DEF Elsewhere
    <2> QED BY <1>1, <1>2, <1>3, <1>5, <2>2, <2>3
<1>9. CASE Requesting
    <2> SUFFICES NewElsewhere BY <1>2
    <2>1. ASSUME NEW p \in Handlers, NEW new, Elsewhere(new), Request(p, new) PROVE NewElsewhere
        <3> HIDE DEF Elsewhere
        <3> QED BY <1>1, <1>3, <2>1 DEF Request
    <2>2. ASSUME NEW p \in Handlers, ChangeModel(p) PROVE NewElsewhere
        <3>1. PICK after \in BOOLEAN :
                  Request(p, IF row.enabled THEN [Cutting("rebase") EXCEPT !.enabled = after]
                             ELSE [IdleProc EXCEPT !.pc = "commit", !.usage = row.usage, !.billed = row.billed,
                                                   !.enabled = after])
            BY <2>2 DEF ChangeModel
        <3>2. /\ Elsewhere([Cutting("rebase") EXCEPT !.enabled = after])
              /\ Elsewhere([IdleProc EXCEPT !.pc = "commit", !.usage = row.usage, !.billed = row.billed,
                                            !.enabled = after])
            BY DEF Cutting, IdleProc
        <3> HIDE DEF Elsewhere
        <3> QED BY <2>1, <3>1, <3>2
    <2>3. ASSUME NEW p \in Handlers, Rebase(p) PROVE NewElsewhere
        <3> DEFINE new == [proc[p] EXCEPT !.pc = "commit", !.usage = row.usage, !.billed = row.billed,
                                          !.was = row.enabled]
        <3>1. proc' = [proc EXCEPT ![p] = IdleProc] \/ proc' = [proc EXCEPT ![p] = new]
            BY <1>1, <2>3 DEF Rebase
        <3>2. Elsewhere(new) /\ p \in Procs BY <1>1 DEF ProcType
        <3> HIDE DEF Elsewhere, new
        <3> QED BY <1>3, <1>5, <3>1, <3>2
    <2>4. ASSUME NEW p \in Handlers, CommitChange(p) \/ Drop(p) PROVE NewElsewhere
        <3>1. proc' = [proc EXCEPT ![p] = IdleProc] /\ p \in Procs BY <1>1, <2>4 DEF CommitChange, Drop
        <3> HIDE DEF Elsewhere
        <3> QED BY <1>3, <1>5, <3>1
    <2>5. ASSUME NEW p \in Handlers, Delete(p) \/ RetryBilling(p) PROVE NewElsewhere
        <3>1. \/ Request(p, Cutting("drop")) \/ Request(p, [IdleProc EXCEPT !.pc = "drop"])
              \/ Request(p, CuttingForced("settle"))
              \/ Request(p, [IdleProc EXCEPT !.pc = "settle", !.force = TRUE])
            BY <2>5 DEF Delete, RetryBilling
        <3> HIDE DEF Elsewhere
        <3> QED BY <1>5, <2>1, <3>1
    <2>6. CASE Resume \/ SettleOrphan \/ ToggleMode BY <1>4, <2>6 DEF Resume, SettleOrphan, ToggleMode
    <2>7. ASSUME NEW p \in Handlers, NEW n \in DOMAIN records, RetryRecord(p, n) PROVE NewElsewhere
        <3>1. Elsewhere([IdleProc EXCEPT !.pc = "send", !.todo = {n}, !.force = TRUE]) BY DEF IdleProc
        <3> HIDE DEF Elsewhere
        <3> QED BY <2>1, <2>7, <3>1 DEF RetryRecord
    <2> QED BY <1>9, <2>2, <2>3, <2>4, <2>5, <2>6, <2>7 DEF Requesting
<1> QED BY <1>6, <1>7, <1>8, <1>9

LEMMA PaidStep == TypesAndProcs /\ PaidOK /\ [Next]_vars => PaidOK'
<1> SUFFICES ASSUME TypesAndProcs, PaidOK, [Next]_vars PROVE PaidOK' OBVIOUS
<1>1. ASSUME NEW p \in Procs, Bill(p) PROVE PaidOK' BY <1>1, BillPaid
<1>2. ASSUME NEW n \in DOMAIN records, Ripen(n) PROVE PaidOK'
    <2>1. records \in Seq(RecordType) BY DEF TypesAndProcs, BillingTypeOK
    <2>2. proc' = proc /\ charged' = charged /\ DOMAIN records' = DOMAIN records BY <1>2, <2>1 DEF Ripen
    <2>3. ASSUME NEW m \in DOMAIN records PROVE records'[m].status = records[m].status
        BY <1>2, <2>1 DEF Ripen, RecordType
    <2> QED BY <2>2, <2>3 DEF PaidOK, SucceededIsCharged, At
<1>3. CASE Running \/ Working \/ Failing \/ Sweeping \/ Requesting
    <2>1. UNCHANGED <<records, charged>> /\ NewElsewhere BY <1>3, OthersElsewhere
    <2>2. NoNewSave BY <2>1 DEF NewElsewhere, NoNewSave
    <2> QED BY <2>1, <2>2, PaidKept
<1>4. CASE UNCHANGED vars
    <2>1. UNCHANGED <<records, charged, proc>> BY <1>4 DEF vars, bookVars
    <2> QED BY <2>1 DEF PaidOK, SucceededIsCharged, At
<1> QED BY <1>1, <1>2, <1>3, <1>4 DEF Next

(* A record that says it is paid was charged by the gateway, for whatever  *)
(* answers were lost or late and whoever else sent it (SucceededIsCharged; *)
(* services/billing.py:304).                                               *)
THEOREM PaidIsCharged == Spec => []SucceededIsCharged
<1>1. Init => PaidOK BY DEF Init, PaidOK, SucceededIsCharged, At, IdleProc
<1>2. PaidOK => SucceededIsCharged BY DEF PaidOK
<1>3. TypesAndProcs /\ PaidOK /\ [Next]_vars => TypesAndProcs' /\ PaidOK' BY PaidStep, TypesAndProcsStep
<1> QED BY <1>1, <1>2, <1>3, TypesAndProcsAtStart, PTL DEF Spec

-----------------------------------------------------------------------------
(* The summary.  The records of one status are a part of all of them, and  *)
(* Amount adds up what that part holds.                                    *)
Amounts == [n \in DOMAIN records |-> records[n].amount]
WithStatus(s) == {n \in DOMAIN records : records[n].status = s}

LEMMA RecordsFinite ==
    ASSUME BillingTypeOK
    PROVE  /\ IsFiniteSet(DOMAIN records) /\ \A s : IsFiniteSet(WithStatus(s))
           /\ \A n \in DOMAIN records : Amounts[n] \in Nat
<1>1. DOMAIN records = 1..Len(records) /\ Len(records) \in Nat BY DEF BillingTypeOK
<1>2. IsFiniteSet(DOMAIN records) BY <1>1, FS_Interval
<1>3. \A s : WithStatus(s) \subseteq DOMAIN records BY DEF WithStatus
<1>4. ASSUME NEW n \in DOMAIN records PROVE Amounts[n] \in Nat
    <2>1. records[n] \in RecordType BY DEF BillingTypeOK
    <2> QED BY <2>1 DEF Amounts, RecordType
<1> QED BY <1>2, <1>3, <1>4, FS_Subset

LEMMA AmountIsTotal ==
    ASSUME BillingTypeOK, NEW s
    PROVE  Amount(s) = Total(Amounts, WithStatus(s))
<1> DEFINE S == WithStatus(s)
           Eq(it) == it = [t \in SUBSET S |->
                              IF t = {} THEN 0
                              ELSE records[CHOOSE x \in t : TRUE].amount + it[t \ {CHOOSE x \in t : TRUE}]]
           it == CHOOSE it : Eq(it)
<1>1. IsFiniteSet(S) /\ S \subseteq DOMAIN records /\ \A n \in S : Amounts[n] \in Nat
    BY RecordsFinite DEF WithStatus
<1>2. Amount(s) = it[S] BY Zenon DEF Amount, MapThenSumSet, MapThenFoldSet, WithStatus
<1>3. ASSUME NEW t \in SUBSET S, t # {}
      PROVE  Amounts[CHOOSE x \in t : TRUE] = records[CHOOSE x \in t : TRUE].amount
    <2> DEFINE c == CHOOSE x \in t : TRUE
    <2>1. c \in t BY <1>3
    <2> HIDE DEF c
    <2>2. c \in DOMAIN records BY <1>1, <2>1
    <2>3. Amounts[c] = records[c].amount BY <2>2 DEF Amounts
    <2> QED BY <2>3 DEF c
<1> HIDE DEF S, it
<1>4. ASSUME NEW f PROVE Eq(f) <=> Folds(f, Amounts, S)
    <2>1. ASSUME NEW t \in SUBSET S
          PROVE  (IF t = {} THEN 0
                  ELSE records[CHOOSE x \in t : TRUE].amount + f[t \ {CHOOSE x \in t : TRUE}])
               = (IF t = {} THEN 0
                  ELSE Amounts[CHOOSE x \in t : TRUE] + f[t \ {CHOOSE x \in t : TRUE}])
        BY <1>3
    <2> QED BY <2>1 DEF Folds
<1>5. \E f : Eq(f)
    <2>1. PICK f : Folds(f, Amounts, S) BY <1>1, FoldsExist
    <2>2. Eq(f) BY <1>4, <2>1
    <2> HIDE DEF Eq
    <2> QED BY <2>2
<1>6. Eq(it)
    <2> HIDE DEF Eq
    <2> QED BY <1>5 DEF it
<1>7. Folds(it, Amounts, S) BY <1>4, <1>6
<1>8. it[S] = Total(Amounts, S) BY <1>1, <1>7, FoldsTotal
<1> QED BY <1>2, <1>8 DEF S

(* All records together, one status after the other.                       *)
LEMMA ByStatus ==
    ASSUME BillingTypeOK
    PROVE  Amount("succeeded") + Amount("pending") + Amount("failed") = Total(Amounts, DOMAIN records)
<1> DEFINE A == WithStatus("succeeded")
           B == WithStatus("pending")
           C == WithStatus("failed")
<1>1. IsFiniteSet(A) /\ IsFiniteSet(B) /\ IsFiniteSet(C) BY RecordsFinite
<1>2. IsFiniteSet(A \cup B) BY <1>1, FS_Union
<1>3. ASSUME NEW n \in DOMAIN records PROVE records[n].status \in {"succeeded", "pending", "failed"}
    <2>1. records[n] \in RecordType BY DEF BillingTypeOK
    <2> QED BY <2>1 DEF RecordType
<1>4. /\ A \cap B = {} /\ (A \cup B) \cap C = {} /\ (A \cup B) \cup C = DOMAIN records
    BY <1>3 DEF WithStatus
<1>5. /\ \A n \in A \cup B : Amounts[n] \in Nat
      /\ \A n \in (A \cup B) \cup C : Amounts[n] \in Nat
    <2>1. \A n \in DOMAIN records : Amounts[n] \in Nat BY RecordsFinite
    <2> HIDE DEF A, B, C
    <2> QED BY <1>4, <2>1
<1>6. Amount("succeeded") = Total(Amounts, A) /\ Amount("pending") = Total(Amounts, B)
      /\ Amount("failed") = Total(Amounts, C)
    BY AmountIsTotal
<1> HIDE DEF A, B, C
<1>7. Total(Amounts, A \cup B) = Total(Amounts, A) + Total(Amounts, B) BY <1>1, <1>4, <1>5, TotalUnion
<1>8. Total(Amounts, (A \cup B) \cup C) = Total(Amounts, A \cup B) + Total(Amounts, C)
    <2>1. (A \cup B) \cap C = {} BY <1>4
    <2>2. \A n \in (A \cup B) \cup C : Amounts[n] \in Nat BY <1>5
    <2> QED BY Zenon, <1>1, <1>2, <2>1, <2>2, TotalUnion
<1>9. Total(Amounts, (A \cup B) \cup C) = Total(Amounts, DOMAIN records) BY Zenon, <1>4
<1> QED BY <1>6, <1>7, <1>8, <1>9

LEMMA Difference ==
    ASSUME NEW a \in Nat, NEW b \in Nat, b > a
    PROVE  b - a \in Nat /\ b = a + (b - a)
OBVIOUS

(* What the records hold is what was noted: by the ledger's steps.         *)
NotedIsTotal == Total(Amounts, DOMAIN records) = noted

LEMMA NotedIsTotalStep ==
    ASSUME BillingTypeOK, BillingTypeOK', NotedIsTotal, [LedgerNext]_OurLedger!vars
    PROVE  NotedIsTotal'
<1>1. /\ DOMAIN Amounts = DOMAIN records /\ DOMAIN records = 1..Len(records) /\ Len(records) \in Nat
      /\ IsFiniteSet(DOMAIN records) /\ \A n \in DOMAIN records : Amounts[n] \in Nat
    BY RecordsFinite DEF Amounts, BillingTypeOK
<1>2. DOMAIN Amounts' = DOMAIN records' BY DEF Amounts
<1>3. CASE Amounts' = Amounts /\ noted' = noted
    <2>1. DOMAIN records' = DOMAIN records BY <1>1, <1>2, <1>3
    <2> QED BY Zenon, <1>3, <2>1 DEF NotedIsTotal
<1>4. ASSUME NEW amount \in Nat, Amounts' = Append(Amounts, amount), noted' = noted + amount
      PROVE  NotedIsTotal'
    <2> DEFINE n == Len(records) + 1
               new == Amounts'
    <2>1. Amounts \in Seq(Nat) /\ Len(Amounts) = Len(records) BY <1>1 DEF Amounts
    <2>2. DOMAIN new = 1..n /\ new[n] = amount /\ \A m \in DOMAIN records : new[m] = Amounts[m]
        BY <1>1, <1>4, <2>1
    <2>3. DOMAIN records' = DOMAIN records \cup {n} /\ n \notin DOMAIN records
        BY <1>1, <1>2, <2>2
    <2> HIDE DEF n, new
    <2>4. \A m \in DOMAIN records \cup {n} : new[m] \in Nat BY <1>1, <1>4, <2>2
    <2>5. Total(new, DOMAIN records \cup {n}) = Total(new, DOMAIN records) + new[n]
        <3>1. IsFiniteSet(DOMAIN records) /\ n \notin DOMAIN records BY <1>1, <2>3
        <3> QED BY Zenon, <3>1, <2>4, TotalAdd
    <2>6. Total(new, DOMAIN records) = Total(Amounts, DOMAIN records)
        <3>1. IsFiniteSet(DOMAIN records) BY <1>1
        <3>2. \A m \in DOMAIN records : Amounts[m] \in Nat /\ new[m] = Amounts[m] BY <1>1, <2>2
        <3> QED BY Zenon, <3>1, <3>2, TotalSame
    <2>7. Total(new, DOMAIN records') = noted' BY <1>4, <2>2, <2>3, <2>5, <2>6 DEF NotedIsTotal
    <2> QED BY <2>7 DEF NotedIsTotal, new
<1>5. CASE UNCHANGED OurLedger!vars
    BY <1>3, <1>5 DEF OurLedger!vars, Amounts
<1>6. CASE OurLedger!Next
    <2>1. CASE OurLedger!Use BY <1>3, <2>1 DEF OurLedger!Use, Amounts
    <2>2. ASSUME NEW m, OurLedger!Charge(m) PROVE NotedIsTotal' BY <1>3, <2>2 DEF OurLedger!Charge, Amounts
    <2>3. ASSUME NEW amount \in 1..(spent - noted), OurLedger!Note(amount) PROVE NotedIsTotal'
        <3>1. amount \in Nat BY DEF BillingTypeOK
        <3>2. Amounts' = Append(Amounts, amount) /\ noted' = noted + amount
            BY <2>3 DEF OurLedger!Note, Amounts
        <3> QED BY <1>4, <3>1, <3>2
    <2> QED BY <1>6, <2>1, <2>2, <2>3 DEF OurLedger!Next
<1>7. CASE noted' > noted /\ OurLedger!Note(noted' - noted)
    <2> DEFINE amount == noted' - noted
    <2>0. noted \in Nat /\ noted' \in Nat BY DEF BillingTypeOK
    <2>3. noted' > noted BY Zenon, <1>7
    <2>1. amount \in Nat /\ noted' = noted + amount BY Zenon, <2>0, <2>3, Difference
    <2>2. Amounts' = Append(Amounts, amount) BY <1>7 DEF OurLedger!Note, Amounts
    <2> HIDE DEF amount
    <2> QED BY <1>4, <2>1, <2>2
<1> QED BY <1>5, <1>6, <1>7 DEF LedgerNext

(* As long as nothing moves billed without a record, billed is what was    *)
(* noted, and a cut that may still be written has read it as it is.        *)
BilledIsNoted ==
    /\ ~rebased => row.billed = noted
    /\ \A p \in Procs : At(p, "write") /\ proc[p].seq = row.seq /\ ~rebased => proc[p].billed = row.billed

LEMMA BilledIsNotedStep ==
    ASSUME TypesAndProcs, BilledIsNoted, [Next]_vars
    PROVE  BilledIsNoted'
<1>1. /\ BillingTypeOK /\ proc \in [Procs -> ProcType] /\ noted \in Nat
      /\ row \in [usage : Nat, billed : Nat, seq : Nat, enabled : BOOLEAN]
      /\ \A p \in Procs : ProcOK(proc[p], DOMAIN records)
    BY DEF TypesAndProcs, ProcsOK, BillingTypeOK
<1>2. ASSUME UNCHANGED <<noted, rebased>>, row'.billed = row.billed, row'.seq = row.seq, NoNewWrite
      PROVE  BilledIsNoted'
    BY <1>2 DEF BilledIsNoted, NoNewWrite, At
<1>3. ASSUME NEW p \in Procs, Bill(p) PROVE BilledIsNoted'
    <2>1. CASE Settle(p) \/ Claim(p) \/ Post(p) \/ Save(p) \/ Settled(p)
        <3>1. UNCHANGED <<row, noted>> /\ NoNewWrite BY <1>1, <2>1, SendKeepsRows DEF NoNewWrite
        <3>2. rebased' = rebased BY <2>1 DEF Settle, Claim, Post, Save, Settled, history
        <3> QED BY <1>2, <3>1, <3>2
    <2>2. ASSUME Continue(p) PROVE proc'[p].pc # "write" /\ \A q \in Procs \ {p} : proc'[q] = proc[q]
        <3>1. proc'[p].pc = proc[p].then /\ \A q \in Procs \ {p} : proc'[q] = proc[q]
            BY <1>1, <2>2 DEF Continue, IdleProc
        <3> QED BY <1>1, <3>1 DEF ProcType
    <2>3. CASE CutRead(p)
        <3>1. UNCHANGED <<row, noted, rebased>> BY <2>3 DEF CutRead, rowVars, bookVars, history
        <3>2. CASE status # "deleted" /\ row.enabled /\ row.usage > row.billed
            <4>1. proc'[p] = [proc[p] EXCEPT !.pc = "write", !.usage = row.usage, !.billed = row.billed,
                                            !.seq = row.seq]
                  /\ \A q \in Procs \ {p} : proc'[q] = proc[q]
                BY <1>1, <2>3, <3>2 DEF CutRead
            <4>2. proc'[p].billed = row.billed BY <1>1, <4>1 DEF ProcType
            <4> QED BY <3>1, <4>1, <4>2 DEF BilledIsNoted, At
        <3>3. CASE ~(status # "deleted" /\ row.enabled /\ row.usage > row.billed)
            <4>1. NoNewWrite BY <2>2, <2>3, <3>3 DEF CutRead, NoNewWrite
            <4> QED BY <1>2, <3>1, <4>1
        <3> QED BY <3>2, <3>3
    <2>4. CASE CutWrite(p)
        <3>1. NoNewWrite /\ proc'[p].pc # "write" /\ (\A q \in Procs \ {p} : proc'[q] = proc[q])
              /\ rebased' = rebased
            BY <2>2, <2>4 DEF CutWrite, NoNewWrite, history
        <3>2. CASE StillCurrent(p)
            <4>1. proc[p].usage \in Nat /\ proc[p].billed \in Nat /\ proc[p].billed < proc[p].usage
                BY <1>1, <2>4 DEF CutWrite, At, ProcOK, ProcType
            <4>2. row' = RowAfterCut(p) /\ noted' = noted + (proc[p].usage - proc[p].billed)
                BY <2>4, <3>2 DEF CutWrite
            <4>3. row'.billed = proc[p].usage /\ row'.seq = row.seq + 1 BY <1>1, <4>2 DEF RowAfterCut
            <4>4. ~rebased => proc[p].billed = noted
                BY <2>4, <3>2 DEF BilledIsNoted, CutWrite, StillCurrent, At
            <4>5. ~rebased' => row'.billed = noted' BY <1>1, <3>1, <4>1, <4>2, <4>3, <4>4
            <4>6. ASSUME NEW q \in Procs, At(q, "write")' PROVE proc'[q].seq # row'.seq
                <5>1. q # p /\ proc'[q] = proc[q] /\ proc[q].pc = "write" BY <3>1, <4>6 DEF At
                <5>2. proc[q].seq <= row.seq /\ proc[q].seq \in Nat /\ row.seq \in Nat
                    <6>1. proc[q].seq \in DOMAIN records \cup {0} BY <1>1, <5>1 DEF ProcOK
                    <6>2. DOMAIN records = 1..row.seq /\ row.seq \in Nat BY <1>1 DEF BillingTypeOK
                    <6> QED BY <6>1, <6>2
                <5> QED BY <4>3, <5>1, <5>2
            <4> QED BY <4>5, <4>6 DEF BilledIsNoted
        <3>3. CASE ~StillCurrent(p)
            <4>1. UNCHANGED <<row, noted>> BY <2>4, <3>3 DEF CutWrite
            <4> QED BY <1>2, <3>1, <4>1
        <3> QED BY <3>2, <3>3
    <2> QED BY <1>3, <2>1, <2>3, <2>4 DEF Bill
<1>4. CASE Running \/ Working \/ Failing \/ Sweeping \/ Requesting
    <2>1. noted' = noted /\ NoNewWrite BY <1>1, <1>4, OthersElsewhere DEF NewElsewhere, NoNewWrite
    <2>2. ASSUME rebased' PROVE BilledIsNoted' BY <2>2 DEF BilledIsNoted
    <2>3. ASSUME rebased' = rebased, row' = row \/ row' = [row EXCEPT !.usage = run.mem] PROVE BilledIsNoted'
        <3>1. row'.billed = row.billed /\ row'.seq = row.seq BY <1>1, <2>3
        <3> QED BY <1>2, <2>1, <2>3, <3>1
    <2>4. CASE Switch BY <1>1, <2>2, <2>4 DEF Switch
    <2>5. ASSUME NEW p \in Handlers, CommitChange(p) PROVE BilledIsNoted'
        <3>1. CASE status = "deleted" BY <2>3, <2>5, <3>1 DEF CommitChange
        <3>2. CASE status # "deleted" BY <2>2, <2>5, <3>2 DEF CommitChange
        <3> QED BY <3>1, <3>2
    <2>6. CASE Running /\ ~Switch
        BY <2>3, <2>6 DEF Running, Load, StartWork, PauseForBilling, BilledOn, EndRun, FinalBilled, rowVars, history
    <2>7. CASE Working BY <2>3, <2>7 DEF Working, Consume, FlushFiles, FlushDb, BillNow, rowVars, history
    <2>8. CASE Failing BY <2>3, <2>8 DEF Failing, FailRun, CrashRun, CrashProc, rowVars, history
    <2>9. CASE Sweeping BY <2>3, <2>9 DEF Sweeping, Sweep, SweepDue, rowVars, history
    <2>10. CASE Requesting /\ ~\E p \in Handlers : CommitChange(p)
        BY <2>3, <2>10 DEF Requesting, Resume, SettleOrphan, ChangeModel, Rebase, Delete, Drop, RetryBilling,
                           RetryRecord, ToggleMode, rowVars, history
    <2> QED BY <1>4, <2>4, <2>5, <2>6, <2>7, <2>8, <2>9, <2>10
<1>5. CASE UNCHANGED vars \/ \E n \in DOMAIN records : Ripen(n)
    <2>1. UNCHANGED <<row, noted, rebased, proc>> BY <1>5 DEF vars, Ripen, rowVars, bookVars, history
    <2> QED BY <1>2, <2>1 DEF NoNewWrite
<1> QED BY <1>3, <1>4, <1>5 DEF Next

(* What makes the summary inductive.                                       *)
SummaryInv == IInv /\ NotedIsTotal /\ BilledIsNoted

LEMMA SummaryInvStep == SummaryInv /\ [Next]_vars => SummaryInv'
<1> SUFFICES ASSUME SummaryInv, [Next]_vars PROVE SummaryInv' OBVIOUS
<1>1. IInv' BY IInvStep DEF SummaryInv
<1>2. BillingTypeOK /\ BillingTypeOK' BY <1>1 DEF SummaryInv, IInv, TypesAndProcs
<1>3. NotedIsTotal' BY <1>2, LedgerStep, NotedIsTotalStep DEF SummaryInv
<1>4. BilledIsNoted' BY BilledIsNotedStep DEF SummaryInv, IInv
<1> QED BY <1>1, <1>3, <1>4 DEF SummaryInv

LEMMA SummaryInvAtStart == Init => SummaryInv
<1> SUFFICES ASSUME Init PROVE NotedIsTotal /\ BilledIsNoted BY IInvAtStart DEF SummaryInv
<1>1. DOMAIN records = {} /\ noted = 0 BY DEF Init
<1>2. NotedIsTotal BY <1>1, TotalEmpty DEF NotedIsTotal
<1>3. row.billed = 0 /\ \A p \in Procs : proc[p].pc = "idle" BY DEF Init, IdleProc
<1> QED BY <1>1, <1>2, <1>3 DEF BilledIsNoted, At

(* The summary a user sees accounts for all of the job's usage as long as  *)
(* billed was never moved without a record (SummaryAddsUp): what is        *)
(* charged, waiting and refused adds up to billed, and the rest is shown   *)
(* as not cut yet (services/billing.py:543).                               *)
THEOREM SummaryIsComplete == Spec => []SummaryAddsUp
<1>1. ASSUME SummaryInv, ~rebased, row.enabled
      PROVE  Amount("succeeded") + Amount("pending") + Amount("failed") + Unbilled
                 = IF row.usage > row.billed THEN row.usage ELSE row.billed
    <2>1. BillingTypeOK BY <1>1 DEF SummaryInv, IInv, TypesAndProcs
    <2>2. Amount("succeeded") + Amount("pending") + Amount("failed") = row.billed
        BY <1>1, <2>1, ByStatus DEF SummaryInv, NotedIsTotal, BilledIsNoted
    <2>3. row.usage \in Nat /\ row.billed \in Nat BY <2>1 DEF BillingTypeOK
    <2>4. row.billed + Unbilled = IF row.usage > row.billed THEN row.usage ELSE row.billed
        BY <1>1, <2>3 DEF Unbilled
    <2> QED BY <2>2, <2>4
<1>2. SummaryInv => SummaryAddsUp BY <1>1 DEF SummaryAddsUp
<1> QED BY <1>2, SummaryInvAtStart, SummaryInvStep, PTL DEF Spec

(* What the gateway has charged, in tokens, is no more than was used.      *)
ChargedWithinUse == overtaken \/ Total(Amounts, charged) <= spent

(* The gateway's books name records that exist: by the ledger's steps.     *)
BooksOK == charged \subseteq DOMAIN records

LEMMA BooksStep ==
    ASSUME BillingTypeOK, BillingTypeOK', BooksOK, [LedgerNext]_OurLedger!vars
    PROVE  BooksOK'
<1>1. /\ DOMAIN Amounts = DOMAIN records /\ DOMAIN Amounts' = DOMAIN records'
      /\ DOMAIN records = 1..Len(records) /\ Len(records) \in Nat
      /\ \A n \in DOMAIN records : Amounts[n] \in Nat
    BY RecordsFinite DEF Amounts, BillingTypeOK
<1>2. CASE UNCHANGED OurLedger!vars \/ OurLedger!Use
    BY <1>1, <1>2 DEF OurLedger!vars, OurLedger!Use, Amounts, BooksOK
<1>3. ASSUME NEW n \in DOMAIN Amounts \ charged, OurLedger!Charge(n) PROVE BooksOK'
    BY <1>1, <1>3 DEF OurLedger!Charge, Amounts, BooksOK
<1>4. ASSUME NEW amount \in Nat, Amounts' = Append(Amounts, amount), charged' = charged PROVE BooksOK'
    <2>2. Amounts \in Seq(Nat) /\ Len(Amounts) = Len(records) BY <1>1 DEF Amounts
    <2>3. DOMAIN Amounts' = 1..(Len(records) + 1) BY <1>4, <2>2
    <2> QED BY <1>1, <1>4, <2>3 DEF BooksOK
<1>5. ASSUME NEW amount \in 1..(spent - noted), OurLedger!Note(amount) PROVE BooksOK'
    <2>1. amount \in Nat BY DEF BillingTypeOK
    <2>2. Amounts' = Append(Amounts, amount) /\ charged' = charged BY <1>5 DEF OurLedger!Note, Amounts
    <2> QED BY <1>4, <2>1, <2>2
<1>6. CASE OurLedger!Next BY <1>2, <1>3, <1>5, <1>6 DEF OurLedger!Next, Amounts
<1>7. CASE noted' > noted /\ OurLedger!Note(noted' - noted)
    <2>1. noted \in Nat /\ noted' \in Nat BY DEF BillingTypeOK
    <2>2. noted' > noted BY Zenon, <1>7
    <2>3. noted' - noted \in Nat BY Zenon, <2>1, <2>2, Difference
    <2>4. Amounts' = Append(Amounts, noted' - noted) /\ charged' = charged BY <1>7 DEF OurLedger!Note, Amounts
    <2> QED BY Zenon, <1>4, <2>3, <2>4
<1> QED BY <1>2, <1>6, <1>7 DEF LedgerNext

(* What the user pays: the charged records are among those that were cut,  *)
(* so they add up to no more than the model used, through lost answers,    *)
(* second sends, crashes and requests in any number of handlers, unless a  *)
(* run was at work during a change of model (NotOvercharged).              *)
THEOREM NobodyPaysForMore == Spec => []ChargedWithinUse
<1>1. ASSUME SummaryInv, BooksOK PROVE ChargedWithinUse
    <2>1. BillingTypeOK /\ NotedIsTotal /\ (overtaken \/ noted <= spent)
        BY <1>1 DEF SummaryInv, IInv, Counting, TypesAndProcs, CountersOK
    <2>2. spent \in Nat /\ noted \in Nat BY <2>1 DEF BillingTypeOK
    <2>3. Total(Amounts, charged) \in Nat /\ Total(Amounts, charged) <= Total(Amounts, DOMAIN records)
        BY <1>1, <2>1, RecordsFinite, TotalMonotone DEF BooksOK
    <2> QED BY <2>1, <2>2, <2>3 DEF NotedIsTotal, ChargedWithinUse
<1>2. SummaryInv /\ BooksOK /\ [Next]_vars => BooksOK'
    <2>1. SummaryInv /\ [Next]_vars => BillingTypeOK /\ BillingTypeOK'
        BY SummaryInvStep DEF SummaryInv, IInv, TypesAndProcs
    <2> QED BY <2>1, LedgerStep, BooksStep DEF SummaryInv
<1>3. Init => BooksOK BY DEF Init, BooksOK
<1> QED BY <1>1, <1>2, <1>3, SummaryInvAtStart, SummaryInvStep, PTL DEF Spec
=============================================================================
