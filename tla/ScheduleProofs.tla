--------------------------- MODULE ScheduleProofs ----------------------------
(*****************************************************************************)
(* Safety of the scheduler for any number of processes, run ids, sessions,    *)
(* commands, operators and faults.                                            *)
(*                                                                           *)
(* The argument for Gate C: the lock leaves one process at work (LockInv), and *)
(* the row it works on is still `started' (MineInv).  An attempt that dies or  *)
(* raises gives its row up, and start_run never takes an id that has one, so   *)
(* there is a row for it that is not clean and will not become clean           *)
(* (StainInv).  That is why a report that found every recorded row clean was   *)
(* made when nothing was stained.                                             *)
(*****************************************************************************)
EXTENDS Schedule, FiniteSetTheorems, TLAPS

Working == {"prepare", "pipeline", "waits", "nightly", "finish"}

Jobs ==
    [pc : Working \cup {"idle", "start", "release"}, id : RunIds \cup {None},
     session : Sessions \cup {None}, moment : Nat, passed : BOOLEAN,
     unresolved : {0, 1}, nightly : BOOLEAN]

Waits == [state : {"awaiting", "approved", "expired"}, expires : Nat,
          resolved : Nat \cup {None}]

Reports == [pc : {"none", "cycles", "drills", "commands", "qualified"},
            stained : BOOLEAN, clean : SUBSET Sessions]

TypeOK ==
    /\ lock \in Procs \cup {None}
    /\ rows \in [RunIds -> Rows \cup {None}]
    /\ waits \in [Commands -> Waits \cup {None}]
    /\ status \in [RunIds -> {"absent", "started", "succeeded", "failed"}]
    /\ job \in [Procs -> Jobs]
    /\ moment \in [Operators -> Nat \cup {None}]
    /\ now \in Nat
    /\ stained \in BOOLEAN
    /\ clean \in SUBSET Sessions /\ IsFiniteSet(clean)

LockInv == \A p \in Procs : job[p].pc # "idle" => lock = p

\* A process at work has a run and a session, and its row is open; it says that
\* prepare() passed only of a pipeline that succeeded.
Mine(p) ==
    /\ job[p].pc # "idle" => job[p].id \in RunIds /\ job[p].session \in Sessions
    /\ job[p].pc \in Working =>
         rows[job[p].id] # None /\ rows[job[p].id].state = "started"
    /\ job[p].pc = "start" => ~job[p].passed
    /\ job[p].pc \in Working /\ job[p].passed => status[job[p].id] = "succeeded"

MineInv == \A p \in Procs : Mine(p)

\* The row of a stained attempt, which nobody works on any more.
Spoiled(r) ==
    /\ rows[r] # None /\ ~CleanRow(rows[r])
    /\ \A p \in Procs : job[p].pc \in Working => job[p].id # r

StainInv == stained => \E r \in RunIds : Spoiled(r)

CleanInv ==
    \A r \in RunIds : rows[r] # None /\ CleanRow(rows[r]) => rows[r].session \in clean

\* What evaluate_gate_c knows once it has read the runs.
ReportInv ==
    /\ report \in Reports
    /\ report.pc # "none" => ~report.stained /\ Cardinality(report.clean) >= MinSessions

\* No approval carries a moment at or after the expiry.
WaitInv ==
    \A c \in Commands : waits[c] # None /\ waits[c].state = "approved"
                          => waits[c].resolved < waits[c].expires

Inv == /\ TypeOK /\ LockInv /\ MineInv /\ StainInv /\ CleanInv
       /\ ReportInv /\ WaitInv /\ SucceededIsFinalized

-----------------------------------------------------------------------------
\* The empty tables and idle processes satisfy the invariant.
LEMMA InitInv == Init => Inv
<1> SUFFICES ASSUME Init PROVE Inv
  OBVIOUS
<1>1. Idle \in Jobs /\ Idle.pc = "idle"
  BY DEF Idle, Job, Jobs
<1>2. IsFiniteSet({})
  BY FS_EmptySet
<1>3. TypeOK
  <2> HIDE DEF Idle
  <2> QED
    BY Zenon, <1>1, <1>2 DEF Init, TypeOK
<1>4. LockInv /\ MineInv
  <2> HIDE DEF Idle
  <2> QED
    BY <1>1 DEF Init, LockInv, MineInv, Mine, Working
<1>5. StainInv /\ CleanInv /\ WaitInv /\ SucceededIsFinalized
  BY DEF Init, StainInv, CleanInv, WaitInv, SucceededIsFinalized
<1>6. ReportInv
  BY DEF Init, ReportInv, Reports, NoReport
<1> QED
  BY <1>3, <1>4, <1>5, <1>6 DEF Inv

-----------------------------------------------------------------------------
\* Steps of operators, of the evaluation and of the pipeline run by hand: the
\* schedule's rows and processes stay, and no pipeline that succeeded changes.
LEMMA OutsideInv ==
    ASSUME Inv, UNCHANGED <<lock, rows, job, stained, clean>>,
           status' \in [RunIds -> {"absent", "started", "succeeded", "failed"}],
           \A r \in RunIds : status[r] = "succeeded" => status'[r] = "succeeded",
           waits' \in [Commands -> Waits \cup {None}],
           moment' \in [Operators -> Nat \cup {None}], now' \in Nat,
           WaitInv', ReportInv'
    PROVE  Inv'
<1>1. TypeOK'
  BY DEF Inv, TypeOK
<1>2. LockInv' /\ CleanInv'
  BY DEF Inv, LockInv, CleanInv, CleanRow
<1>3. StainInv'
  BY DEF Inv, StainInv, Spoiled, CleanRow
<1>4. MineInv'
  BY DEF Inv, MineInv, Mine, Working
<1>5. SucceededIsFinalized'
  BY DEF Inv, SucceededIsFinalized
<1> QED
  BY <1>1, <1>2, <1>3, <1>4, <1>5 DEF Inv

\* Only one process is at work.
LEMMA Alone ==
    ASSUME LockInv, NEW p \in Procs, job[p].pc # "idle", NEW q \in Procs, q # p
    PROVE  job[q].pc = "idle"
BY DEF LockInv

\* A step of the process at work.
LEMMA RunStepInv ==
    ASSUME Inv, NEW p \in Procs, job[p].pc # "idle",
           job' \in [Procs -> Jobs],
           \A q \in Procs : q # p => job'[q] = job[q],
           UNCHANGED <<lock, moment, now, report>>,
           rows' \in [RunIds -> Rows \cup {None}],
           waits' \in [Commands -> Waits \cup {None}],
           status' \in [RunIds -> {"absent", "started", "succeeded", "failed"}],
           stained' \in BOOLEAN, clean' \in SUBSET Sessions, IsFiniteSet(clean'),
           Mine(p)', StainInv', CleanInv', WaitInv', SucceededIsFinalized'
    PROVE  Inv'
<1>1. \A q \in Procs : q # p => job'[q].pc = "idle"
  BY Alone DEF Inv
<1>2. TypeOK'
  BY DEF Inv, TypeOK
<1>3. LockInv'
  BY <1>1 DEF Inv, LockInv
<1>4. \A q \in Procs : q # p => Mine(q)'
  BY <1>1 DEF Mine, Working
<1>5. MineInv'
  BY <1>4 DEF MineInv
<1>6. ReportInv'
  BY DEF Inv, ReportInv
<1> QED
  BY <1>2, <1>3, <1>5, <1>6 DEF Inv

\* A spoiled row stays spoiled while nobody takes it up.
LEMMA StaysSpoiled ==
    ASSUME Inv, NEW p \in Procs, job[p].pc # "idle",
           \A q \in Procs : q # p => job'[q] = job[q],
           NEW r \in RunIds, Spoiled(r), rows'[r] = rows[r],
           job'[p].pc \in Working => job'[p].id # r
    PROVE  Spoiled(r)'
<1>1. \A q \in Procs : q # p => job'[q].pc = "idle"
  BY Alone DEF Inv
<1>2. ~CleanRow(rows[r])'
  BY DEF Spoiled, CleanRow
<1> QED
  BY <1>1, <1>2 DEF Spoiled, Working

\* The row of the process at work is spoiled when it gives the row up unclean.
LEMMA GivesUp ==
    ASSUME Inv, NEW p \in Procs, job[p].pc # "idle",
           \A q \in Procs : q # p => job'[q] = job[q],
           job'[p].pc \notin Working, job[p].id \in RunIds,
           rows'[job[p].id] # None, rows'[job[p].id].state # "succeeded"
    PROVE  StainInv'
<1>1. \A q \in Procs : job'[q].pc \notin Working
  BY Alone DEF Inv, Working
<1>2. PICK r \in RunIds : r = job[p].id
  OBVIOUS
<1>3. ~CleanRow(rows[r])' /\ rows'[r] # None
  BY <1>2 DEF CleanRow
<1>4. Spoiled(r)'
  BY <1>1, <1>3 DEF Spoiled
<1> QED
  BY <1>4 DEF StainInv

LEMMA GotoJob ==
    ASSUME TypeOK, NEW p \in Procs,
           NEW l \in Working \cup {"idle", "start", "release"}, Goto(p, l)
    PROVE  /\ job' \in [Procs -> Jobs]
           /\ job'[p].pc = l /\ job'[p].id = job[p].id
           /\ job'[p].session = job[p].session /\ job'[p].passed = job[p].passed
           /\ \A q \in Procs : q # p => job'[q] = job[q]
<1>1. job[p] \in Jobs
  BY DEF TypeOK
<1>2. job'[p] = [job[p] EXCEPT !.pc = l]
  BY DEF TypeOK, Goto
<1>3. job'[p] \in Jobs
  BY <1>1, <1>2 DEF Jobs
<1>4. job' = [job EXCEPT ![p] = job'[p]]
  BY <1>2 DEF TypeOK, Goto
<1>5. job' \in [Procs -> Jobs] /\ \A q \in Procs : q # p => job'[q] = job[q]
  BY <1>3, <1>4 DEF TypeOK
<1> QED
  BY <1>1, <1>2, <1>5 DEF Jobs

\* What a step that leaves the tables and the pipeline alone preserves, as long
\* as the process stays with its run or gives up none.
LEMMA TablesKept ==
    ASSUME Inv, NEW p \in Procs, job[p].pc # "idle",
           \A q \in Procs : q # p => job'[q] = job[q],
           job'[p].pc \in Working => job[p].pc \in Working /\ job'[p].id = job[p].id,
           UNCHANGED <<rows, stained, clean>>
    PROVE  StainInv' /\ CleanInv'
<1>1. CleanInv'
  BY DEF Inv, CleanInv, CleanRow
<1>2. ASSUME stained PROVE \E r \in RunIds : Spoiled(r)'
  <2>1. PICK r \in RunIds : Spoiled(r)
    BY <1>2 DEF Inv, StainInv
  <2>2. job'[p].pc \in Working => job'[p].id # r
    BY <2>1 DEF Spoiled
  <2>3. Spoiled(r)'
    BY <2>1, <2>2, StaysSpoiled
  <2> QED
    BY <2>3
<1> QED
  BY <1>1, <1>2 DEF StainInv

LEMMA StartRunInv ==
    ASSUME Inv, NEW p \in Procs, StartRun(p) PROVE Inv'
<1> DEFINE r == job[p].id
<1>1. /\ job[p].pc = "start" /\ r \in RunIds /\ job[p].session \in Sessions
      /\ ~job[p].passed /\ job[p] \in Jobs
  BY DEF Inv, TypeOK, MineInv, Mine, StartRun, At
<1>2. CASE rows[r] # None
  <2>1. Goto(p, "release") /\ rows' = rows
    BY <1>2 DEF StartRun
  <2>2. /\ job' \in [Procs -> Jobs] /\ job'[p].pc = "release"
        /\ job'[p].id = r /\ job'[p].session = job[p].session
        /\ \A q \in Procs : q # p => job'[q] = job[q]
    BY <2>1, GotoJob DEF Inv
  <2>3. Mine(p)'
    BY <1>1, <2>2 DEF Mine, Working
  <2>4. StainInv' /\ CleanInv'
    BY <1>1, <2>1, <2>2, TablesKept DEF Working, StartRun, ghosts
  <2>5. WaitInv' /\ SucceededIsFinalized'
    BY <2>1 DEF Inv, WaitInv, SucceededIsFinalized, StartRun, pipeline
  <2> QED
    BY <1>1, <2>1, <2>2, <2>3, <2>4, <2>5, RunStepInv
       DEF Inv, TypeOK, StartRun, pipeline, ghosts
<1>3. CASE rows[r] = None
  <2>1. Goto(p, "prepare") /\ rows' = [rows EXCEPT ![r] = Started(job[p].session)]
    BY <1>3 DEF StartRun
  <2>2. /\ job' \in [Procs -> Jobs] /\ job'[p].pc = "prepare"
        /\ job'[p].id = r /\ job'[p].session = job[p].session
        /\ job'[p].passed = job[p].passed
        /\ \A q \in Procs : q # p => job'[q] = job[q]
    BY <2>1, GotoJob DEF Inv, Working
  <2>3. /\ Started(job[p].session) \in Rows
        /\ Started(job[p].session).state = "started"
    BY <1>1 DEF Started, Rows
  <2>4. /\ rows' \in [RunIds -> Rows \cup {None}]
        /\ rows'[r] \in Rows /\ rows'[r].state = "started"
        /\ \A x \in RunIds : x # r => rows'[x] = rows[x]
    <3> HIDE DEF r
    <3> QED
      BY <1>1, <2>1, <2>3 DEF Inv, TypeOK
  <2>5. rows'[r] # None
    BY <2>4, ConfigAssumption
  <2>6. Mine(p)'
    BY <1>1, <2>2, <2>4, <2>5 DEF Mine, Working
  <2>7. ASSUME stained PROVE \E x \in RunIds : Spoiled(x)'
    <3>1. PICK x \in RunIds : Spoiled(x)
      BY <2>7 DEF Inv, StainInv
    <3>2. x # r
      BY <1>3, <3>1 DEF Spoiled
    <3>3. Spoiled(x)'
      BY <1>1, <2>2, <2>4, <3>1, <3>2, StaysSpoiled
    <3> QED
      BY <3>3
  <2>8. StainInv'
    BY <2>7 DEF StainInv, StartRun, ghosts
  <2>9. CleanInv'
    <3> HIDE DEF r
    <3> QED
      BY <1>1, <2>4 DEF Inv, CleanInv, CleanRow, StartRun, ghosts
  <2>10. WaitInv' /\ SucceededIsFinalized'
    <3> HIDE DEF r
    <3> QED
      BY <1>1, <2>4 DEF Inv, WaitInv, SucceededIsFinalized, StartRun, pipeline
  <2> QED
    BY <1>1, <2>2, <2>4, <2>6, <2>8, <2>9, <2>10, RunStepInv
       DEF Inv, TypeOK, StartRun, pipeline, ghosts
<1> QED
  BY <1>2, <1>3

\* The pipeline's guard refuses an id that is in the history, so no success
\* that was reported of it can be overwritten.
LEMMA PrepareInv ==
    ASSUME Inv, NEW p \in Procs, Prepare(p) PROVE Inv'
<1> DEFINE r == job[p].id
<1>1. /\ job[p].pc = "prepare" /\ r \in RunIds /\ job[p].session \in Sessions
      /\ rows[r] # None /\ rows[r].state = "started"
      /\ job[p].passed => status[r] = "succeeded"
  BY DEF Inv, MineInv, Mine, Working, Prepare, At
<1>2. PICK l \in {"pipeline", "waits"} : Goto(p, l)
  BY DEF Prepare
<1>3. /\ job' \in [Procs -> Jobs] /\ job'[p].pc \in {"pipeline", "waits"}
      /\ job'[p].id = r /\ job'[p].session = job[p].session
      /\ job'[p].passed = job[p].passed
      /\ \A q \in Procs : q # p => job'[q] = job[q]
  BY <1>2, GotoJob DEF Inv, Working
<1>4. /\ status' \in [RunIds -> {"absent", "started", "succeeded", "failed"}]
      /\ \A x \in RunIds : status[x] = "succeeded" => status'[x] = "succeeded"
  BY <1>1 DEF Inv, TypeOK, Prepare, MayBegin, Begin, pipeline
<1>5. UNCHANGED <<lock, rows, waits, moment, report, now, stained, clean>>
  BY DEF Prepare, tables, ghosts
<1>6. Mine(p)'
  BY <1>1, <1>3, <1>4, <1>5 DEF Mine, Working
<1>7. StainInv' /\ CleanInv'
  BY <1>1, <1>3, <1>5, TablesKept DEF Working
<1>8. WaitInv' /\ SucceededIsFinalized'
  BY <1>4, <1>5 DEF Inv, WaitInv, SucceededIsFinalized
<1> QED
  BY <1>1, <1>3, <1>4, <1>5, <1>6, <1>7, <1>8, RunStepInv DEF Inv, TypeOK

\* A process that goes on with its run, its tables as they are: prepare() has
\* answered, the commands were counted, or the checklist has run.
LEMMA GoesOn ==
    ASSUME Inv, NEW p \in Procs, job[p].pc \in Working,
           NEW j \in Jobs, job' = [job EXCEPT ![p] = j], j.pc \in Working,
           j.id = job[p].id, j.session = job[p].session,
           UNCHANGED <<lock, rows, waits, moment, report, now, stained, clean>>,
           status' \in [RunIds -> {"absent", "started", "succeeded", "failed"}],
           \A x \in RunIds : status[x] = "succeeded" => status'[x] = "succeeded",
           j.passed => status'[j.id] = "succeeded"
    PROVE  Inv'
<1>1. /\ job[p].pc # "idle" /\ job[p].id \in RunIds /\ job[p].session \in Sessions
      /\ rows[job[p].id] # None /\ rows[job[p].id].state = "started"
  BY DEF Inv, MineInv, Mine, Working
<1>2. /\ job' \in [Procs -> Jobs] /\ job'[p] = j
      /\ \A q \in Procs : q # p => job'[q] = job[q]
  BY DEF Inv, TypeOK
<1>3. Mine(p)'
  BY <1>1, <1>2 DEF Mine, Working
<1>4. StainInv' /\ CleanInv'
  BY <1>1, <1>2, TablesKept
<1>5. WaitInv' /\ SucceededIsFinalized'
  BY DEF Inv, WaitInv, SucceededIsFinalized
<1> QED
  BY <1>1, <1>2, <1>3, <1>4, <1>5, RunStepInv DEF Inv, TypeOK

LEMMA PreparedInv ==
    ASSUME Inv, NEW p \in Procs, NEW ok \in BOOLEAN, Prepared(p, ok) PROVE Inv'
<1> DEFINE j == [job[p] EXCEPT !.pc = "waits", !.passed = ok]
<1>1. job[p] \in Jobs /\ job[p].pc \in Working /\ job[p].id \in RunIds
  BY DEF Inv, TypeOK, MineInv, Mine, Prepared, At, Working
<1>2. /\ j \in Jobs /\ j.pc \in Working /\ j.id = job[p].id
      /\ j.session = job[p].session
  BY Zenon, <1>1 DEF Jobs, Working
<1>3. j.passed = ok
  BY <1>1 DEF Jobs
<1>4. job' = [job EXCEPT ![p] = j]
  BY Zenon DEF Inv, TypeOK, Prepared
<1>5. UNCHANGED <<lock, rows, waits, moment, report, now, stained, clean>>
  BY DEF Prepared, tables, ghosts
<1>6. /\ status' = [status EXCEPT ![job[p].id] = IF ok THEN "succeeded" ELSE "failed"]
      /\ status[job[p].id] = "started"
  BY DEF Prepared
<1>7. /\ status' \in [RunIds -> {"absent", "started", "succeeded", "failed"}]
      /\ \A x \in RunIds : status[x] = "succeeded" => status'[x] = "succeeded"
      /\ ok => status'[job[p].id] = "succeeded"
  BY <1>1, <1>6 DEF Inv, TypeOK
<1> HIDE DEF j
<1> QED
  BY Zenon, <1>1, <1>2, <1>3, <1>4, <1>5, <1>7, GoesOn

LEMMA ReconcileInv ==
    ASSUME Inv, NEW p \in Procs, Reconcile(p) PROVE Inv'
<1> DEFINE j == [job[p] EXCEPT !.pc = "nightly", !.unresolved = IF open THEN 1 ELSE 0]
<1>1. /\ job[p] \in Jobs /\ job[p].pc \in Working
      /\ job[p].passed => status[job[p].id] = "succeeded"
  BY DEF Inv, TypeOK, MineInv, Mine, Reconcile, At, Working
<1>2. /\ j \in Jobs /\ j.pc \in Working /\ j.id = job[p].id
      /\ j.session = job[p].session
  BY Zenon, <1>1 DEF Jobs, Working
<1>3. j.passed = job[p].passed
  BY <1>1 DEF Jobs
<1>4. job' = [job EXCEPT ![p] = j]
  BY Zenon DEF Inv, TypeOK, Reconcile
<1>5. UNCHANGED <<lock, rows, waits, moment, report, now, stained, clean, status>>
  BY DEF Reconcile, tables, ghosts, pipeline
<1> HIDE DEF j
<1> QED
  BY Zenon, <1>1, <1>2, <1>3, <1>4, <1>5, GoesOn DEF Inv, TypeOK

LEMMA NightlyInv ==
    ASSUME Inv, NEW p \in Procs, NEW sound \in BOOLEAN, Nightly(p, sound) PROVE Inv'
<1> DEFINE n == sound /\ LatestFinalized
           j == [job[p] EXCEPT !.pc = "finish", !.nightly = n]
<1>1. /\ job[p] \in Jobs /\ job[p].pc \in Working
      /\ job[p].passed => status[job[p].id] = "succeeded"
  BY DEF Inv, TypeOK, MineInv, Mine, Nightly, At, Working
<1>2. n \in BOOLEAN
  BY DEF LatestFinalized
<1>3. job' = [job EXCEPT ![p] = j]
  BY Zenon DEF Inv, TypeOK, Nightly
<1>4. UNCHANGED <<lock, rows, waits, moment, report, now, stained, clean, status>>
  BY DEF Nightly, tables, ghosts, pipeline
<1> HIDE DEF n
<1>5. /\ j \in Jobs /\ j.pc \in Working /\ j.id = job[p].id
      /\ j.session = job[p].session
  BY Zenon, <1>1, <1>2 DEF Jobs, Working
<1>6. j.passed = job[p].passed
  BY <1>1 DEF Jobs
<1> HIDE DEF j
<1> QED
  BY Zenon, <1>1, <1>3, <1>4, <1>5, <1>6, GoesOn DEF Inv, TypeOK

\* The except branch completes the row as failed and gives it up.
LEMMA RaiseInv ==
    ASSUME Inv, NEW p \in Procs, job[p].pc \in Working, Raise(p),
           UNCHANGED <<lock, waits, moment, report, now, status, clean>>
    PROVE  Inv'
<1> DEFINE r == job[p].id
<1>1. /\ job[p].pc # "idle" /\ r \in RunIds /\ job[p].session \in Sessions
      /\ rows[r] \in Rows
  BY DEF Inv, TypeOK, MineInv, Mine, Working
<1>2. Goto(p, "release") /\ stained'
  BY DEF Raise
<1>3. /\ job' \in [Procs -> Jobs] /\ job'[p].pc = "release"
      /\ job'[p].id = r /\ job'[p].session = job[p].session
      /\ \A q \in Procs : q # p => job'[q] = job[q]
  BY <1>2, GotoJob DEF Inv
<1> DEFINE row == [rows[r] EXCEPT !.state = "failed", !.unresolved = 1]
<1>4. row \in Rows /\ row.state = "failed"
  BY ZenonT(30), <1>1 DEF Rows
<1>5. rows' = [rows EXCEPT ![r] = row]
  BY DEF Raise, Inv, TypeOK
<1>6. /\ rows' \in [RunIds -> Rows \cup {None}]
      /\ rows'[r] \in Rows /\ rows'[r].state = "failed"
      /\ \A x \in RunIds : x # r => rows'[x] = rows[x]
  <2> HIDE DEF r, row
  <2> QED
    BY <1>1, <1>4, <1>5 DEF Inv, TypeOK
<1>7. rows'[r] # None
  BY <1>6, ConfigAssumption
<1>8. Mine(p)'
  BY <1>1, <1>3 DEF Mine, Working
<1>9. StainInv'
  BY <1>1, <1>3, <1>6, <1>7, GivesUp DEF Working
<1> HIDE DEF r, row
<1>10. CleanInv'
  BY <1>1, <1>6 DEF Inv, CleanInv, CleanRow
<1>11. WaitInv' /\ SucceededIsFinalized'
  BY <1>1, <1>6 DEF Inv, WaitInv, SucceededIsFinalized
<1> QED
  BY <1>1, <1>2, <1>3, <1>6, <1>8, <1>9, <1>10, <1>11, RunStepInv DEF Inv, TypeOK

LEMMA RequestApprovalInv ==
    ASSUME Inv, NEW p \in Procs, NEW c \in Commands, RequestApproval(p, c) PROVE Inv'
<1>1. job[p].pc \in Working /\ job[p].pc # "idle" /\ job[p] \in Jobs
  BY DEF Inv, TypeOK, RequestApproval, At, Working
<1>2. CASE waits[c] # None
  BY <1>1, <1>2, RaiseInv DEF RequestApproval, pipeline
<1>3. CASE waits[c] = None
  <2> DEFINE w == [state |-> "awaiting", expires |-> job[p].moment + Ttl,
                   resolved |-> None]
  <2>1. waits' = [waits EXCEPT ![c] = w]
    BY <1>3 DEF RequestApproval
  <2>2. UNCHANGED <<lock, rows, job, moment, report, now, status, stained, clean>>
    BY <1>3 DEF RequestApproval, pipeline
  <2>3. w \in Waits /\ w.state = "awaiting"
    BY <1>1, ConfigAssumption DEF Waits, Jobs
  <2> HIDE DEF w
  <2>4. waits' \in [Commands -> Waits \cup {None}]
    BY <2>1, <2>3 DEF Inv, TypeOK
  <2>5. WaitInv'
    BY <2>1, <2>3 DEF Inv, TypeOK, WaitInv
  <2>6. ReportInv'
    BY <2>2 DEF Inv, ReportInv
  <2> QED
    BY <2>2, <2>4, <2>5, <2>6, OutsideInv DEF Inv, TypeOK
<1> QED
  BY <1>2, <1>3

LEMMA StoreFailsInv ==
    ASSUME Inv, NEW p \in Procs, StoreFails(p) PROVE Inv'
BY RaiseInv DEF StoreFails, Working, pipeline

\* The except branch cannot write either: the row stays `started' and is given
\* up.
LEMMA StoreStaysDownInv ==
    ASSUME Inv, NEW p \in Procs, StoreStaysDown(p) PROVE Inv'
<1>1. /\ job[p].pc # "idle" /\ job[p].pc \in Working
      /\ job[p].id \in RunIds /\ job[p].session \in Sessions
      /\ rows[job[p].id] # None /\ rows[job[p].id].state = "started"
  BY Zenon DEF Inv, MineInv, Mine, Working, StoreStaysDown
<1>2. Goto(p, "release") /\ stained'
  BY DEF StoreStaysDown
<1>3. UNCHANGED <<lock, rows, waits, moment, report, now, status, clean>>
  BY DEF StoreStaysDown, tables, pipeline
<1>4. /\ job' \in [Procs -> Jobs] /\ job'[p].pc = "release"
      /\ job'[p].id = job[p].id /\ job'[p].session = job[p].session
      /\ \A q \in Procs : q # p => job'[q] = job[q]
  BY <1>2, GotoJob DEF Inv
<1>5. Mine(p)'
  BY <1>1, <1>4 DEF Mine, Working
<1>6. StainInv'
  BY <1>1, <1>3, <1>4, GivesUp DEF Working
<1>7. CleanInv' /\ WaitInv' /\ SucceededIsFinalized'
  BY Zenon, <1>3 DEF Inv, CleanInv, CleanRow, WaitInv, SucceededIsFinalized
<1> QED
  BY Zenon, <1>1, <1>2, <1>3, <1>4, <1>5, <1>6, <1>7, RunStepInv DEF Inv, TypeOK

\* finish_run: a run is recorded as succeeded, and its session counted, only
\* when prepare(), the checklist and the commands were all well.
LEMMA FinishRunInv ==
    ASSUME Inv, NEW p \in Procs, FinishRun(p) PROVE Inv'
<1> DEFINE r == job[p].id
           good == job[p].passed /\ job[p].nightly /\ job[p].unresolved = 0
           row == [state |-> IF Succeeded(p) THEN "succeeded" ELSE "failed",
                   session |-> job[p].session, passed |-> job[p].passed,
                   nightly |-> job[p].nightly, unresolved |-> job[p].unresolved]
<1>1. /\ job[p].pc # "idle" /\ job[p].pc \in Working /\ job[p] \in Jobs
      /\ r \in RunIds /\ job[p].session \in Sessions
      /\ job[p].passed => status[r] = "succeeded"
  BY ZenonT(30) DEF Inv, TypeOK, MineInv, Mine, Working, FinishRun, At
<1>2. Goto(p, "release")
  BY ZenonT(30) DEF FinishRun
<1>3. /\ job' \in [Procs -> Jobs] /\ job'[p].pc = "release"
      /\ job'[p].id = r /\ job'[p].session = job[p].session
      /\ \A q \in Procs : q # p => job'[q] = job[q]
  BY <1>2, GotoJob DEF Inv
<1>4. UNCHANGED <<lock, waits, moment, report, now, status>>
  BY ZenonT(30) DEF FinishRun, pipeline
<1>5. /\ rows' = [rows EXCEPT ![r] = row]
      /\ stained' = (stained \/ ~good)
      /\ clean' = IF good THEN clean \cup {job[p].session} ELSE clean
  BY Zenon DEF FinishRun
<1>6. row \in Rows
  BY <1>1 DEF Rows, Jobs
<1>7. good => row.state = "succeeded"
  BY DEF Succeeded
<1>8. ~good => row.state = "failed"
  BY DEF Succeeded
<1>9. row.session = job[p].session /\ (good => job[p].passed)
  OBVIOUS
<1>10. good \in BOOLEAN
  OBVIOUS
<1>11. CleanRow(row) => good
  BY <1>8 DEF CleanRow
<1> HIDE DEF row, good
<1>12. /\ rows' \in [RunIds -> Rows \cup {None}] /\ rows'[r] = row
       /\ \A x \in RunIds : x # r => rows'[x] = rows[x]
  <2> HIDE DEF r
  <2> QED
    BY <1>1, <1>5, <1>6 DEF Inv, TypeOK
<1>13. rows'[r] # None
  BY Zenon, <1>6, <1>12, ConfigAssumption
<1>14. Mine(p)'
  BY <1>1, <1>3 DEF Mine, Working
<1>15. StainInv'
  <2>1. CASE ~good
    BY <1>1, <1>3, <1>8, <1>12, <1>13, <2>1, GivesUp DEF Working
  <2>2. CASE good
    <3>1. stained' = stained
      BY <1>5, <2>2 DEF Inv, TypeOK
    <3>2. ASSUME stained PROVE \E x \in RunIds : Spoiled(x)'
      <4>1. PICK x \in RunIds : Spoiled(x)
        BY <3>2 DEF Inv, StainInv
      <4>2. x # r
        BY <1>1, <4>1 DEF Spoiled
      <4>3. Spoiled(x)'
        BY <1>1, <1>3, <1>12, <4>1, <4>2, StaysSpoiled DEF Working
      <4> QED
        BY <4>3
    <3> QED
      BY <3>1, <3>2 DEF StainInv
  <2> QED
    BY Zenon, <2>1, <2>2
<1>16. clean \subseteq clean' /\ (good => job[p].session \in clean')
  BY <1>5
<1>17. CleanInv'
  <2> SUFFICES ASSUME NEW x \in RunIds, rows'[x] # None, CleanRow(rows'[x])
               PROVE  rows'[x].session \in clean'
    BY DEF CleanInv, CleanRow
  <2>1. CASE x = r
    BY <1>9, <1>11, <1>12, <1>16, <2>1
  <2>2. CASE x # r
    BY <1>12, <1>16, <2>2 DEF Inv, CleanInv
  <2> QED
    BY <2>1, <2>2
<1>18. WaitInv'
  BY <1>4 DEF Inv, WaitInv
<1>19. SucceededIsFinalized'
  <2> SUFFICES ASSUME NEW x \in RunIds, rows'[x] # None, rows'[x].state = "succeeded"
               PROVE  status[x] = "succeeded"
    BY <1>4 DEF SucceededIsFinalized
  <2>1. CASE x = r
    BY <1>1, <1>8, <1>9, <1>12, <2>1
  <2>2. CASE x # r
    BY <1>12, <2>2 DEF Inv, SucceededIsFinalized
  <2> QED
    BY <2>1, <2>2
<1>20. stained' \in BOOLEAN
  BY <1>5, <1>10 DEF Inv, TypeOK
<1>21. clean' \in SUBSET Sessions
  BY <1>1, <1>5 DEF Inv, TypeOK
<1>22. IsFiniteSet(clean')
  <2>1. IsFiniteSet(clean)
    BY DEF Inv, TypeOK
  <2>2. IsFiniteSet(clean \cup {job[p].session})
    BY <2>1, FS_AddElement
  <2> QED
    BY <1>5, <2>1, <2>2
<1> QED
  BY ZenonT(30), <1>1, <1>3, <1>4, <1>12, <1>14, <1>15, <1>17, <1>18, <1>19, <1>20, <1>21,
     <1>22, RunStepInv DEF Inv, TypeOK

-----------------------------------------------------------------------------
\* The lock is taken and given up.

\* A step that moves a process outside the rows: nothing in the tables changes.
LEMMA EdgeInv ==
    ASSUME Inv, NEW p \in Procs, NEW j \in Jobs, job' = [job EXCEPT ![p] = j],
           j.pc \notin Working,
           j.pc # "idle" => j.id \in RunIds /\ j.session \in Sessions /\ ~j.passed,
           \A q \in Procs : q # p => job[q].pc = "idle",
           lock' \in Procs \cup {None}, j.pc # "idle" => lock' = p,
           UNCHANGED <<rows, waits, moment, report, now, clean>>,
           status' \in [RunIds -> {"absent", "started", "succeeded", "failed"}],
           \A x \in RunIds : rows[x] # None /\ rows[x].state = "succeeded"
                               => status'[x] = "succeeded",
           stained' \in BOOLEAN, stained' => \E r \in RunIds : rows[r] # None /\ ~CleanRow(rows[r])
    PROVE  Inv'
<1>1. /\ job' \in [Procs -> Jobs] /\ job'[p] = j
      /\ \A q \in Procs : q # p => job'[q] = job[q]
  BY DEF Inv, TypeOK
<1>2. TypeOK'
  BY Zenon, <1>1 DEF Inv, TypeOK
<1>3. \A q \in Procs : job'[q].pc \notin Working
  BY <1>1 DEF Working
<1>4. LockInv'
  BY Zenon, <1>1 DEF LockInv
<1>5. MineInv'
  BY <1>1, <1>3 DEF MineInv, Mine
<1>6. StainInv'
  BY Zenon, <1>3 DEF StainInv, Spoiled, CleanRow
<1>7. CleanInv' /\ WaitInv' /\ ReportInv'
  BY DEF Inv, CleanInv, CleanRow, WaitInv, ReportInv
<1>8. SucceededIsFinalized'
  BY DEF SucceededIsFinalized
<1> QED
  BY <1>2, <1>4, <1>5, <1>6, <1>7, <1>8 DEF Inv

\* A stained attempt has its row.
LEMMA StainHasRow ==
    ASSUME Inv, stained PROVE \E r \in RunIds : rows[r] # None /\ ~CleanRow(rows[r])
BY DEF Inv, StainInv, Spoiled

LEMMA IdleJob == Idle \in Jobs /\ Idle.pc = "idle"
BY Zenon DEF Idle, Job, Jobs

LEMMA AcquireInv ==
    ASSUME Inv, NEW p \in Procs, NEW r \in RunIds, NEW s \in Sessions,
           Acquire(p, r, s)
    PROVE  Inv'
<1> DEFINE j == Job("start", r, s, now)
<1>1. j \in Jobs /\ j.pc = "start" /\ j.id = r /\ j.session = s
  BY DEF Job, Jobs, Inv, TypeOK
<1>2. ~j.passed
  BY DEF Job
<1>3. lock = None /\ lock' = p /\ job' = [job EXCEPT ![p] = j]
  BY DEF Acquire
<1>4. \A q \in Procs : job[q].pc = "idle"
  BY <1>3, ConfigAssumption DEF Inv, LockInv
<1>5. UNCHANGED <<rows, waits, moment, report, now, clean, status, stained>>
  BY DEF Acquire, tables, pipeline, ghosts
<1>6. /\ stained' \in BOOLEAN
      /\ status' \in [RunIds -> {"absent", "started", "succeeded", "failed"}]
  BY <1>5 DEF Inv, TypeOK
<1>7. stained' => \E x \in RunIds : rows[x] # None /\ ~CleanRow(rows[x])
  BY <1>5, StainHasRow
<1>8. \A x \in RunIds : rows[x] # None /\ rows[x].state = "succeeded"
                          => status'[x] = "succeeded"
  BY Zenon, <1>5 DEF Inv, SucceededIsFinalized
<1> HIDE DEF j
<1> QED
  BY Zenon, <1>1, <1>2, <1>3, <1>4, <1>5, <1>6, <1>7, <1>8, EdgeInv DEF Working

LEMMA ReleaseInv ==
    ASSUME Inv, NEW p \in Procs, Release(p) PROVE Inv'
<1>1. job[p].pc # "idle" /\ job' = [job EXCEPT ![p] = Idle]
  BY DEF Release, At
<1>2. \A q \in Procs : q # p => job[q].pc = "idle"
  BY <1>1, Alone DEF Inv
<1>3. lock' \in Procs \cup {None}
  BY DEF Release, Inv, TypeOK
<1>4. UNCHANGED <<rows, waits, moment, report, now, clean, status, stained>>
  BY DEF Release, tables, pipeline, ghosts
<1>5. /\ stained' \in BOOLEAN
      /\ status' \in [RunIds -> {"absent", "started", "succeeded", "failed"}]
  BY <1>4 DEF Inv, TypeOK
<1>6. stained' => \E x \in RunIds : rows[x] # None /\ ~CleanRow(rows[x])
  BY <1>4, StainHasRow
<1>7. \A x \in RunIds : rows[x] # None /\ rows[x].state = "succeeded"
                          => status'[x] = "succeeded"
  BY Zenon, <1>4 DEF Inv, SucceededIsFinalized
<1> QED
  BY Zenon, <1>1, <1>2, <1>3, <1>4, <1>5, <1>6, <1>7, IdleJob, EdgeInv DEF Working

\* A killed process leaves its row as it was, and its pipeline's failure is no
\* success that a row records.
LEMMA CrashInv ==
    ASSUME Inv, NEW p \in Procs, Crash(p) PROVE Inv'
<1>1. job[p].pc # "idle" /\ job' = [job EXCEPT ![p] = Idle]
  BY DEF Crash, At
<1>2. \A q \in Procs : q # p => job[q].pc = "idle"
  BY <1>1, Alone DEF Inv
<1>3. UNCHANGED <<lock, rows, waits, moment, report, now, clean>>
  BY DEF Crash, tables
<1>4. lock' \in Procs \cup {None}
  BY <1>3 DEF Inv, TypeOK
<1>5. job[p].pc \in Working =>
        /\ job[p].id \in RunIds /\ rows[job[p].id] # None
        /\ rows[job[p].id].state = "started"
  BY <1>1 DEF Inv, MineInv, Mine
<1>6. stained' \in BOOLEAN
  BY DEF Crash, Inv, TypeOK
<1>7. job[p].pc \in Working \cup {"start", "release"}
  BY <1>1 DEF Inv, TypeOK, Jobs
<1>8. stained' => \E x \in RunIds : rows[x] # None /\ ~CleanRow(rows[x])
  <2>1. CASE job[p].pc \in Working
    BY <1>5, <2>1 DEF CleanRow
  <2>2. CASE job[p].pc \notin Working
    <3>1. stained' = stained
      BY <1>7, <2>2 DEF Crash, Inv, TypeOK
    <3> QED
      BY <3>1, StainHasRow
  <2> QED
    BY <2>1, <2>2
<1>9. status' \in [RunIds -> {"absent", "started", "succeeded", "failed"}]
  BY Zenon DEF Crash, Inv, TypeOK
<1>10. \A x \in RunIds : rows[x] # None /\ rows[x].state = "succeeded"
                           => status'[x] = "succeeded"
  <2> SUFFICES ASSUME NEW x \in RunIds, rows[x] # None, rows[x].state = "succeeded"
               PROVE  status'[x] = "succeeded"
    OBVIOUS
  <2>1. status[x] = "succeeded"
    BY DEF Inv, SucceededIsFinalized
  <2>2. job[p].pc = "pipeline" => x # job[p].id
    BY <1>5 DEF Working
  <2> QED
    BY <2>1, <2>2 DEF Crash, At, Inv, TypeOK
<1> QED
  BY Zenon, <1>1, <1>2, <1>3, <1>4, <1>6, <1>8, <1>9, <1>10, IdleJob, EdgeInv DEF Working

LEMMA RecoverLockInv ==
    ASSUME Inv, RecoverLock PROVE Inv'
<1>1. lock \in Procs /\ job[lock].pc = "idle" /\ lock' = None
  BY DEF Inv, TypeOK, RecoverLock, At
<1>2. UNCHANGED <<rows, job, waits, moment, report, now, clean, status, stained>>
  BY DEF RecoverLock, tables, pipeline, ghosts
<1>3. \A q \in Procs : job[q].pc = "idle"
  BY <1>1 DEF Inv, LockInv
<1>4. TypeOK' /\ LockInv'
  BY Zenon, <1>1, <1>2, <1>3 DEF Inv, TypeOK, LockInv
<1>5. MineInv' /\ CleanInv' /\ WaitInv' /\ ReportInv' /\ SucceededIsFinalized'
  BY <1>2 DEF Inv, MineInv, Mine, CleanInv, CleanRow, WaitInv, ReportInv,
              SucceededIsFinalized
<1>6. StainInv'
  BY Zenon, <1>2 DEF Inv, StainInv, Spoiled, CleanRow
<1> QED
  BY <1>4, <1>5, <1>6 DEF Inv

-----------------------------------------------------------------------------
\* Steps beside the schedule's runs.

\* What an operator's UPDATE does to a wait: nothing unless it is awaiting, and
\* an approval carries a moment before the expiry.
LEMMA ApprovalStep ==
    ASSUME TypeOK, WaitInv, NEW o \in Operators,
           ExpireApprovals(o) \/ \E c \in Commands : ApproveWait(o, c)
    PROVE  /\ waits' \in [Commands -> Waits \cup {None}]
           /\ moment' \in [Operators -> Nat \cup {None}]
           /\ WaitInv'
           /\ \A c \in Commands : waits[c] # None =>
                /\ waits[c].state # "awaiting" => waits'[c] = waits[c]
                /\ waits'[c].state = "approved" => waits'[c].resolved < waits'[c].expires
           /\ UNCHANGED <<lock, rows, job, stained, clean, status, now, report>>
<1>1. moment[o] # None /\ moment[o] \in Nat /\ moment' \in [Operators -> Nat \cup {None}]
  BY ZenonT(30) DEF TypeOK, ExpireApprovals, ApproveWait
<1>2. UNCHANGED <<lock, rows, job, stained, clean, status, now, report>>
  BY ZenonT(30) DEF ExpireApprovals, ApproveWait, pipeline, ghosts
<1>3. DOMAIN waits' = Commands /\ waits' = [d \in DOMAIN waits' |-> waits'[d]]
  BY ZenonT(30) DEF TypeOK, ExpireApprovals, ApproveWait
<1>4. ASSUME NEW d \in Commands
      PROVE  \/ waits'[d] = waits[d]
             \/ /\ waits[d] \in Waits /\ waits[d].state = "awaiting"
                /\ waits'[d] \in Waits /\ waits'[d].state = "expired"
             \/ /\ waits[d] \in Waits /\ waits[d].state = "awaiting"
                /\ waits'[d] \in Waits
                /\ waits'[d].resolved < waits'[d].expires
  <2>0. waits[d] # None => waits[d] \in Waits
    BY DEF TypeOK
  <2>1. CASE ExpireApprovals(o)
    <3>1. waits'[d] = IF /\ waits[d] # None /\ waits[d].state = "awaiting"
                         /\ waits[d].expires <= moment[o]
                      THEN [waits[d] EXCEPT !.state = "expired", !.resolved = moment[o]]
                      ELSE waits[d]
      BY Zenon, <2>1 DEF ExpireApprovals
    <3> QED
      BY ZenonT(30), <1>1, <2>0, <3>1 DEF Waits
  <2>2. ASSUME NEW c \in Commands, ApproveWait(o, c)
        PROVE  \/ waits'[d] = waits[d]
               \/ /\ waits[d] \in Waits /\ waits[d].state = "awaiting"
                  /\ waits'[d] \in Waits
                  /\ waits'[d].resolved < waits'[d].expires
    <3>1. CASE ~(d = c /\ Approvable(waits[c], moment[o]))
      BY <2>2, <3>1 DEF ApproveWait, TypeOK
    <3>2. CASE d = c /\ Approvable(waits[c], moment[o])
      <4>1. waits'[d] = [waits[d] EXCEPT !.state = "approved", !.resolved = moment[o]]
        BY <2>2, <3>2 DEF ApproveWait, TypeOK
      <4>2. /\ waits[d] \in Waits /\ waits[d].state = "awaiting"
            /\ waits[d].expires > moment[o]
        BY <2>0, <3>2 DEF Approvable
      <4> QED
        BY ZenonT(30), <1>1, <4>1, <4>2 DEF Waits
    <3> QED
      BY <3>1, <3>2
  <2> QED
    BY <2>1, <2>2
<1>5. waits' \in [Commands -> Waits \cup {None}]
  BY <1>3, <1>4 DEF TypeOK
<1>6. WaitInv'
  BY <1>4 DEF WaitInv
<1>7. \A c \in Commands : waits[c] # None =>
        /\ waits[c].state # "awaiting" => waits'[c] = waits[c]
        /\ waits'[c].state = "approved" => waits'[c].resolved < waits'[c].expires
  BY <1>4 DEF WaitInv
<1> QED
  BY Zenon, <1>1, <1>2, <1>5, <1>6, <1>7

LEMMA ApprovalInv ==
    ASSUME Inv, NEW o \in Operators,
           ExpireApprovals(o) \/ \E c \in Commands : ApproveWait(o, c)
    PROVE  Inv'
<1>1. ReportInv'
  BY ZenonT(30), ApprovalStep DEF Inv, ReportInv
<1> QED
  BY ZenonT(30), <1>1, ApprovalStep, OutsideInv DEF Inv, TypeOK

\* The pipeline run by hand never touches a run that succeeded.
LEMMA ManualInv ==
    ASSUME Inv, NEW r \in RunIds,
           ManualBegin(r) \/ \E ok \in BOOLEAN : ManualEnd(r, ok)
    PROVE  Inv'
<1>1. UNCHANGED <<lock, rows, waits, job, moment, report, now, stained, clean>>
  BY DEF ManualBegin, ManualEnd, tables, ghosts
<1>2. /\ status' \in [RunIds -> {"absent", "started", "succeeded", "failed"}]
      /\ \A x \in RunIds : status[x] = "succeeded" => status'[x] = "succeeded"
  BY Zenon DEF Inv, TypeOK, ManualBegin, ManualEnd, MayBegin, Begin
<1>3. WaitInv' /\ ReportInv'
  BY ZenonT(30), <1>1 DEF Inv, WaitInv, ReportInv
<1> QED
  BY <1>1, <1>2, <1>3, OutsideInv DEF Inv, TypeOK

\* Steps of the clock, the commands and the evidence.
LEMMA OtherInv ==
    ASSUME Inv,
           \/ CommandsChange \/ Tick \/ \E o \in Operators : TakeMoment(o)
           \/ \E c \in Commands, cycle \in CycleInputs : RecordMutationCycle(c, cycle)
           \/ \E s \in Sessions, d \in Drills, b \in BOOLEAN : RecordFaultDrill(s, d, b)
    PROVE  Inv'
<1>1. UNCHANGED <<lock, rows, waits, job, status, report, stained, clean>>
  BY DEF CommandsChange, Tick, TakeMoment, RecordMutationCycle, RecordFaultDrill,
         tables, pipeline, ghosts
<1>2. now' \in Nat /\ moment' \in [Operators -> Nat \cup {None}]
  BY SMTT(30) DEF Inv, TypeOK, CommandsChange, Tick, TakeMoment, RecordMutationCycle,
         RecordFaultDrill
<1>3. WaitInv' /\ ReportInv'
  BY <1>1 DEF Inv, WaitInv, ReportInv
<1> QED
  BY <1>1, <1>2, <1>3, OutsideInv DEF Inv, TypeOK

\* When every recorded row is clean, nothing is stained and the sessions that
\* were counted are sessions that went well.
LEMMA RunsQualifyEarned ==
    ASSUME Inv, RunsQualify
    PROVE  ~stained /\ Cardinality(clean) >= MinSessions
<1> DEFINE recorded == {r \in RunIds : rows[r] # None}
           good == {r \in recorded : CleanRow(rows[r])}
           sessions == {rows[r].session : r \in good}
<1>1. good = recorded /\ Cardinality(sessions) >= MinSessions
  BY Zenon DEF RunsQualify
<1>2. \A r \in RunIds : rows[r] # None => CleanRow(rows[r])
  BY <1>1
<1>3. ~stained
  BY <1>2, StainHasRow
<1>4. sessions \subseteq clean
  BY DEF Inv, CleanInv
<1>5. IsFiniteSet(clean)
  BY DEF Inv, TypeOK
<1> HIDE DEF sessions, good, recorded
<1>6. IsFiniteSet(sessions) /\ Cardinality(sessions) <= Cardinality(clean)
  BY <1>4, <1>5, FS_Subset
<1>7. Cardinality(sessions) \in Nat /\ Cardinality(clean) \in Nat
  BY <1>5, <1>6, FS_CardinalityType
<1>8. Cardinality(clean) >= MinSessions
  BY SMTT(30), <1>1, <1>6, <1>7, ConfigAssumption
<1> QED
  BY Zenon, <1>3, <1>8

LEMMA EvaluateInv ==
    ASSUME Inv, EvaluateRuns \/ EvaluateCycles \/ EvaluateDrills \/ EvaluateCommands
    PROVE  Inv'
<1>1. UNCHANGED <<lock, rows, waits, job, status, moment, now, stained, clean>>
  BY Zenon DEF EvaluateRuns, EvaluateCycles, EvaluateDrills, EvaluateCommands,
         tables, pipeline, ghosts
<1>2. NoReport \in Reports /\ NoReport.pc = "none"
  BY ZenonT(30) DEF NoReport, Reports
<1>3. ReportInv'
  <2>1. CASE EvaluateRuns /\ RunsQualify
    <3>1. report' = [pc |-> "cycles", stained |-> stained, clean |-> clean]
      BY <2>1 DEF EvaluateRuns
    <3>2. report' \in Reports
      BY <3>1 DEF Inv, TypeOK, Reports
    <3>3. report'.stained = stained /\ report'.clean = clean
      BY <3>1
    <3> QED
      BY <2>1, <3>2, <3>3, RunsQualifyEarned DEF ReportInv
  <2>2. CASE EvaluateRuns /\ ~RunsQualify
    BY <1>2, <2>2 DEF EvaluateRuns, ReportInv
  <2>3. ASSUME NEW pc \in {"drills", "commands", "qualified"}, NEW ok \in BOOLEAN,
               Evaluated(pc, ok), report.pc # "none"
        PROVE  ReportInv'
    <3>1. CASE ok
      <4>1. report' = [report EXCEPT !.pc = pc]
        BY <2>3, <3>1 DEF Evaluated
      <4>2. report \in Reports
        BY DEF Inv, ReportInv
      <4>3. /\ report' \in Reports
            /\ report'.stained = report.stained /\ report'.clean = report.clean
        BY <4>1, <4>2 DEF Reports
      <4> QED
        BY <2>3, <4>3 DEF Inv, ReportInv
    <3>2. CASE ~ok
      BY <1>2, <2>3, <3>2 DEF Evaluated, ReportInv
    <3> QED
      BY <2>3, <3>1, <3>2
  <2>4. CASE EvaluateCycles
    <3>1. CyclesQualify \in BOOLEAN
      BY DEF CyclesQualify
    <3> QED
      BY <2>3, <2>4, <3>1 DEF EvaluateCycles
  <2>5. CASE EvaluateDrills
    <3>1. DrillsQualify \in BOOLEAN
      BY DEF DrillsQualify
    <3> QED
      BY <2>3, <2>5, <3>1 DEF EvaluateDrills
  <2>6. CASE EvaluateCommands
    <3>1. (~open) \in BOOLEAN
      OBVIOUS
    <3> QED
      BY ZenonT(30), <2>3, <2>6, <3>1 DEF EvaluateCommands
  <2> QED
    BY <2>1, <2>2, <2>4, <2>5, <2>6
<1>4. WaitInv'
  BY <1>1 DEF Inv, WaitInv
<1> QED
  BY <1>1, <1>3, <1>4, OutsideInv DEF Inv, TypeOK

-----------------------------------------------------------------------------

LEMMA StutterInv ==
    ASSUME Inv, UNCHANGED vars PROVE Inv'
<1>1. UNCHANGED <<lock, rows, waits, job, status, moment, report, now, stained, clean>>
  BY DEF vars, tables, pipeline, ghosts
<1>2. WaitInv' /\ ReportInv'
  BY <1>1 DEF Inv, WaitInv, ReportInv
<1> QED
  BY <1>1, <1>2, OutsideInv DEF Inv, TypeOK

\* Every step preserves the invariant.
LEMMA StepInv ==
    ASSUME Inv, [Next]_vars PROVE Inv'
<1>1. ASSUME NEW p \in Procs, Run(p) PROVE Inv'
  BY <1>1, StartRunInv, PrepareInv, ReconcileInv, FinishRunInv, ReleaseInv,
     PreparedInv, NightlyInv DEF Run
<1>2. ASSUME NEW p \in Procs, StoreFails(p) \/ StoreStaysDown(p) \/ Crash(p) PROVE Inv'
  BY <1>2, StoreFailsInv, StoreStaysDownInv, CrashInv
<1>3. ASSUME NEW p \in Procs, NEW r \in RunIds, NEW s \in Sessions, Acquire(p, r, s)
      PROVE  Inv'
  BY <1>3, AcquireInv
<1>4. ASSUME NEW p \in Procs, NEW c \in Commands, RequestApproval(p, c) PROVE Inv'
  BY <1>4, RequestApprovalInv
<1>5. CASE RecoverLock
  BY <1>5, RecoverLockInv
<1>6. CASE \E r \in RunIds : ManualBegin(r) \/ \E b \in BOOLEAN : ManualEnd(r, b)
  BY <1>6, ManualInv
<1>7. ASSUME NEW o \in Operators,
             ExpireApprovals(o) \/ \E c \in Commands : ApproveWait(o, c)
      PROVE  Inv'
  BY <1>7, ApprovalInv
<1>8. CASE \/ CommandsChange \/ Tick \/ \E o \in Operators : TakeMoment(o)
           \/ \E c \in Commands, cycle \in CycleInputs : RecordMutationCycle(c, cycle)
           \/ \E s \in Sessions, d \in Drills, b \in BOOLEAN : RecordFaultDrill(s, d, b)
  BY <1>8, OtherInv
<1>9. CASE EvaluateRuns \/ EvaluateCycles \/ EvaluateDrills \/ EvaluateCommands
  BY <1>9, EvaluateInv
<1>10. CASE UNCHANGED vars
  BY <1>10, StutterInv
<1> QED
  BY <1>1, <1>2, <1>3, <1>4, <1>5, <1>6, <1>7, <1>8, <1>9, <1>10 DEF Next

\* The schedule's tables keep their invariant under any interleaving of runs,
\* kills, raising statements, operators, manual pipelines and evaluations.
THEOREM ScheduleInvariant == Spec => []Inv
<1>1. Init => Inv
  BY InitInv
<1>2. Inv /\ [Next]_vars => Inv'
  BY StepInv
<1> QED
  BY <1>1, <1>2, PTL DEF Spec

\* finish_run calls no run succeeded whose own pipeline run did not succeed.
THEOREM SuccessIsFinalized == Spec => []SucceededIsFinalized
<1>1. Inv => SucceededIsFinalized
  BY DEF Inv
<1> QED
  BY <1>1, ScheduleInvariant, PTL

\* evaluate_gate_c qualifies only on evidence that was earned.
THEOREM QualificationIsEarned == Spec => []QualifiedIsEarned
<1>1. Inv => QualifiedIsEarned
  BY DEF Inv, ReportInv, QualifiedIsEarned
<1> QED
  BY <1>1, ScheduleInvariant, PTL

\* The UPDATEs of approve_wait and expire_approvals resolve a wait once, and
\* approve none at or after its expiry.
THEOREM WaitsAreResolvedOnce == Spec => WaitsResolveOnce
<1> DEFINE Once ==
      \A c \in Commands : waits[c] # None =>
        /\ waits[c].state # "awaiting" => waits'[c] = waits[c]
        /\ waits'[c].state = "approved" => waits'[c].resolved < waits'[c].expires
<1>1. ASSUME Inv, Next PROVE Once
  <2>1. ASSUME NEW o \in Operators,
               ExpireApprovals(o) \/ \E c \in Commands : ApproveWait(o, c)
        PROVE  Once
    BY <1>1, <2>1, ApprovalStep DEF Inv
  <2>2. ASSUME NEW p \in Procs, NEW c \in Commands, RequestApproval(p, c)
        PROVE  Once
    <3>1. \A d \in Commands : waits[d] # None => waits'[d] = waits[d]
      BY ZenonT(30), <1>1, <2>2 DEF RequestApproval, Inv, TypeOK
    <3> QED
      BY Zenon, <1>1, <3>1 DEF Inv, WaitInv
  <2>3. ASSUME waits' = waits PROVE Once
    BY Zenon, <1>1, <2>3 DEF Inv, WaitInv
  <2>4. \/ waits' = waits
        \/ \E o \in Operators :
             ExpireApprovals(o) \/ \E c \in Commands : ApproveWait(o, c)
        \/ \E p \in Procs, c \in Commands : RequestApproval(p, c)
    BY Zenon, <1>1
       DEF Next, Run, StartRun, Prepare, Reconcile, FinishRun, Release, Prepared,
           Nightly, StoreFails, StoreStaysDown, Crash, Acquire, RecoverLock,
           CommandsChange, Tick, ManualBegin, ManualEnd, TakeMoment,
           RecordMutationCycle, RecordFaultDrill, EvaluateRuns, EvaluateCycles,
           EvaluateDrills, EvaluateCommands, tables
  <2> QED
    BY Zenon, <2>1, <2>2, <2>3, <2>4
<1>2. Inv /\ [Next]_vars => [Once]_vars
  BY <1>1
<1> QED
  BY <1>2, ScheduleInvariant, PTL DEF Spec, WaitsResolveOnce
=============================================================================
