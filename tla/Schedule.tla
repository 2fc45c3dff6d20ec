------------------------------ MODULE Schedule ------------------------------
(***************************************************************************)
(* Scheduled Demo preparation and its Gate C evidence.                     *)
(*                                                                         *)
(* An invocation of run_scheduled_demo takes the lock file, inserts its    *)
(* row, runs the pipeline, inserts approval waits, counts the unresolved   *)
(* commands, runs the nightly checklist and completes its row.  Beside it  *)
(* operators approve and expire waits with a moment they took earlier, the *)
(* pipeline is also run by hand, and evaluate_gate_c reads the tables one  *)
(* connection at a time.  A process may die, and a statement may raise,    *)
(* anywhere.                                                               *)
(***************************************************************************)
EXTENDS Integers, Sequences, FiniteSets

CONSTANTS
    Procs,          \* processes that run the schedule
    RunIds,         \* values of --run-id
    Sessions,       \* trading sessions
    Commands,       \* commands that may wait for an approval
    Operators,      \* processes that resolve approval waits
    Drills,         \* required_fault_drills
    CycleInputs,    \* mutation cycles an operator may record
    Ttl,            \* approval_ttl_seconds
    MinSessions,    \* minimum_trading_sessions
    MinCycles,      \* minimum_approved_mutation_cycles
    MaxTime,        \* bound on the clock
    MaxFaults,      \* bound on kills and raising statements
    None

\* A row of schedule_runs.
Rows == [state : {"started", "succeeded", "failed"}, session : Sessions,
         passed : BOOLEAN, nightly : BOOLEAN, unresolved : {0, 1}]

\* SchedulerConfig.load refuses anything else; None is no process and no row.
ASSUME ConfigAssumption ==
    /\ Ttl \in 1..300 /\ MinSessions \in Nat \ {0} /\ MinCycles \in Nat \ {0}
    /\ Drills # {}
    /\ None \notin Procs /\ None \notin Rows

VARIABLES
    lock,       \* schedule.lock: the process whose token it holds, or None
    rows,       \* schedule_runs, by pipeline_run_id (UNIQUE)
    waits,      \* approval_waits, by command_id (UNIQUE)
    cycles,     \* mutation_cycles, by command_id (UNIQUE)
    drills,     \* fault_drills: <<session, name, passed>>
    history,    \* run_history.csv: ids in the order of their starts
    status,     \* status of the runs in history
    job,        \* what each process is doing
    moment,     \* the `now' each operator took
    open,       \* the execution store holds an unresolved command
    report,     \* what evaluate_gate_c has read
    now, faults,
    stained,    \* history: a recorded attempt died, raised or was not clean
    clean       \* history: sessions with an attempt that went well to the end

tables == <<rows, waits, cycles, drills>>
pipeline == <<history, status>>
ghosts == <<stained, clean>>
vars == <<lock, tables, pipeline, job, moment, open, report, now, faults, ghosts>>

\* What a process is doing: the run, its session and moment, and what it has
\* found out so far.
Job(pc, r, s, m) == [pc |-> pc, id |-> r, session |-> s, moment |-> m,
                     passed |-> FALSE, unresolved |-> 0, nightly |-> FALSE]

Idle == Job("idle", None, None, 0)
NoReport == [pc |-> "none", stained |-> FALSE, clean |-> {}]

Init ==
    /\ lock = None /\ drills = {} /\ history = <<>>
    /\ rows = [r \in RunIds |-> None]
    /\ waits = [c \in Commands |-> None]
    /\ cycles = [c \in Commands |-> None]
    /\ status = [r \in RunIds |-> "absent"]
    /\ job = [p \in Procs |-> Idle]
    /\ moment = [o \in Operators |-> None]
    /\ open = FALSE /\ report = NoReport
    /\ now = 0 /\ faults = 0 /\ stained = FALSE /\ clean = {}

At(p, pc) == job[p].pc = pc
Goto(p, pc) == job' = [job EXCEPT ![p].pc = pc]

-----------------------------------------------------------------------------
\* The pipeline, as a scheduled or a manual run drives it.

\* run_pipeline's start guard: the history holds no run that is still open,
\* and none under this id.
MayBegin(r) == status[r] = "absent" /\ \A s \in RunIds : status[s] # "started"

Begin(r) == /\ history' = Append(history, r)
            /\ status' = [status EXCEPT ![r] = "started"]

\* latest_run_id and check_latest_run_finalization: the last run of the
\* history, whoever started it.
LatestFinalized ==
    /\ history # <<>>
    /\ status[history[Len(history)]] = "succeeded"

-----------------------------------------------------------------------------
\* ScheduledDemoRunner.run.  Every store call of one run carries the moment
\* that was taken before the lock.

Acquire(p, r, s) ==
    /\ At(p, "idle") /\ lock = None
    /\ lock' = p
    /\ job' = [job EXCEPT ![p] = Job("start", r, s, now)]
    /\ UNCHANGED <<tables, pipeline, moment, open, report, now, faults, ghosts>>

Started(s) == [state |-> "started", session |-> s, passed |-> FALSE,
               nightly |-> FALSE, unresolved |-> 0]

\* start_run: the INSERT raises for an id that has a row, and then there is
\* no row to complete.
StartRun(p) ==
    /\ At(p, "start")
    /\ IF rows[job[p].id] = None
       THEN /\ rows' = [rows EXCEPT ![job[p].id] = Started(job[p].session)]
            /\ Goto(p, "prepare")
       ELSE rows' = rows /\ Goto(p, "release")
    /\ UNCHANGED <<lock, waits, cycles, drills, pipeline, moment, open, report,
                   now, faults, ghosts>>

\* prepare: the pipeline runs under the run's id, or its guard refuses it.
Prepare(p) ==
    /\ At(p, "prepare")
    /\ IF MayBegin(job[p].id)
       THEN Begin(job[p].id) /\ Goto(p, "pipeline")
       ELSE UNCHANGED pipeline /\ Goto(p, "waits")
    /\ UNCHANGED <<lock, tables, moment, open, report, now, faults, ghosts>>

Prepared(p, ok) ==
    /\ At(p, "pipeline") /\ status[job[p].id] = "started"
    /\ status' = [status EXCEPT ![job[p].id] = IF ok THEN "succeeded" ELSE "failed"]
    /\ job' = [job EXCEPT ![p].pc = "waits", ![p].passed = ok]
    /\ UNCHANGED <<lock, tables, history, moment, open, report, now, faults, ghosts>>

\* The except branch: the row is completed as failed.
Raise(p) ==
    /\ rows' = [rows EXCEPT ![job[p].id] =
                  [@ EXCEPT !.state = "failed", !.unresolved = 1]]
    /\ stained' = TRUE
    /\ Goto(p, "release")

\* request_approval for one prepared wait; a second wait for a command raises.
RequestApproval(p, c) ==
    /\ At(p, "waits")
    /\ IF waits[c] = None
       THEN /\ waits' = [waits EXCEPT ![c] =
                           [state |-> "awaiting", expires |-> job[p].moment + Ttl,
                            resolved |-> None]]
            /\ UNCHANGED <<rows, stained, job>>
       ELSE waits' = waits /\ Raise(p)
    /\ UNCHANGED <<lock, cycles, drills, pipeline, moment, open, report, now,
                   faults, clean>>

\* reconcile: list_commands of the unresolved states.
Reconcile(p) ==
    /\ At(p, "waits")
    /\ job' = [job EXCEPT ![p].pc = "nightly", ![p].unresolved = IF open THEN 1 ELSE 0]
    /\ UNCHANGED <<lock, tables, pipeline, moment, open, report, now, faults, ghosts>>

\* nightly_checklist: the latest run is final, and the artifacts are sound.
Nightly(p, sound) ==
    /\ At(p, "nightly")
    /\ job' = [job EXCEPT ![p].pc = "finish", ![p].nightly = sound /\ LatestFinalized]
    /\ UNCHANGED <<lock, tables, pipeline, moment, open, report, now, faults, ghosts>>

\* Mutant: success without what prepare() reported.
SucceededByNightly(p) == job[p].nightly /\ job[p].unresolved = 0

Succeeded(p) == job[p].passed /\ job[p].nightly /\ job[p].unresolved = 0

\* finish_run, on a row that is still `started'.
FinishRun(p) ==
    /\ At(p, "finish")
    /\ rows' = [rows EXCEPT ![job[p].id] =
                  [state |-> IF Succeeded(p) THEN "succeeded" ELSE "failed",
                   session |-> job[p].session, passed |-> job[p].passed,
                   nightly |-> job[p].nightly, unresolved |-> job[p].unresolved]]
    /\ stained' = (stained \/ ~(job[p].passed /\ job[p].nightly /\ job[p].unresolved = 0))
    /\ clean' = IF job[p].passed /\ job[p].nightly /\ job[p].unresolved = 0
                THEN clean \cup {job[p].session} ELSE clean
    /\ Goto(p, "release")
    /\ UNCHANGED <<lock, waits, cycles, drills, pipeline, moment, open, report,
                   now, faults>>

\* ScheduleRunLock.release: only of the lock this process took.
Release(p) ==
    /\ At(p, "release")
    /\ lock' = IF lock = p THEN None ELSE lock
    /\ job' = [job EXCEPT ![p] = Idle]
    /\ UNCHANGED <<tables, pipeline, moment, open, report, now, faults, ghosts>>

\* A store call of a run that has its row raises.
StoreFails(p) ==
    /\ faults < MaxFaults /\ faults' = faults + 1
    /\ job[p].pc \in {"prepare", "waits", "finish"}
    /\ Raise(p)
    /\ UNCHANGED <<lock, waits, cycles, drills, pipeline, moment, open, report,
                   now, clean>>

\* It raises and the except branch's finish_run raises too, which is swallowed.
StoreStaysDown(p) ==
    /\ faults < MaxFaults /\ faults' = faults + 1
    /\ job[p].pc \in {"prepare", "waits", "finish"}
    /\ stained' = TRUE
    /\ Goto(p, "release")
    /\ UNCHANGED <<lock, tables, pipeline, moment, open, report, now, clean>>

\* The process is killed: the lock and the row stay as they are, and the
\* pipeline it had started, with it, is marked by the resolver later.
Crash(p) ==
    /\ ~At(p, "idle") /\ faults < MaxFaults /\ faults' = faults + 1
    /\ stained' = (stained \/ job[p].pc \notin {"start", "release"})
    /\ status' = IF At(p, "pipeline")
                 THEN [status EXCEPT ![job[p].id] = "failed"] ELSE status
    /\ job' = [job EXCEPT ![p] = Idle]
    /\ UNCHANGED <<lock, tables, history, moment, open, report, now, clean>>

\* The operator removes the lock of a process that is gone.
RecoverLock ==
    /\ lock # None /\ At(lock, "idle")
    /\ lock' = None
    /\ UNCHANGED <<tables, pipeline, job, moment, open, report, now, faults, ghosts>>

-----------------------------------------------------------------------------
\* The pipeline run by hand, and the execution store.

ManualBegin(r) ==
    /\ MayBegin(r)
    /\ Begin(r)
    /\ UNCHANGED <<lock, tables, job, moment, open, report, now, faults, ghosts>>

ManualEnd(r, ok) ==
    /\ status[r] = "started" /\ {p \in Procs : At(p, "pipeline") /\ job[p].id = r} = {}
    /\ status' = [status EXCEPT ![r] = IF ok THEN "succeeded" ELSE "failed"]
    /\ UNCHANGED <<lock, tables, history, job, moment, open, report, now, faults, ghosts>>

\* Only reconcile and evaluate_gate_c look at the commands, and only the
\* evaluation at the evidence below: a change just before such a look stands
\* for a change at any time since the last one.
CommandsChange ==
    /\ report.pc = "commands" \/ {p \in Procs : At(p, "waits")} # {}
    /\ open' = ~open
    /\ UNCHANGED <<lock, tables, pipeline, job, moment, report, now, faults, ghosts>>

Tick ==
    /\ now < MaxTime /\ now' = now + 1
    /\ UNCHANGED <<lock, tables, pipeline, job, moment, open, report, faults, ghosts>>

-----------------------------------------------------------------------------
\* Approval waits.  The caller supplies `now', so the statement may run later.
\* The evaluation shares no table with them: operators act while none is on.

TakeMoment(o) ==
    /\ moment[o] = None /\ report = NoReport
    /\ \E c \in Commands : waits[c] # None
    /\ moment' = [moment EXCEPT ![o] = now]
    /\ UNCHANGED <<lock, tables, pipeline, job, open, report, now, faults, ghosts>>

\* Mutant: the UPDATE without its condition on the state.
ApprovableUnexpired(w, m) == w # None /\ w.expires > m

Approvable(w, m) == w # None /\ w.state = "awaiting" /\ w.expires > m

\* approve_wait; it raises, and changes nothing, when no row matches.
ApproveWait(o, c) ==
    /\ moment[o] # None
    /\ waits' = IF Approvable(waits[c], moment[o])
                THEN [waits EXCEPT ![c].state = "approved", ![c].resolved = moment[o]]
                ELSE waits
    /\ moment' = [moment EXCEPT ![o] = None]
    /\ UNCHANGED <<lock, rows, cycles, drills, pipeline, job, open, report, now,
                   faults, ghosts>>

\* expire_approvals.
ExpireApprovals(o) ==
    /\ moment[o] # None
    /\ waits' = [c \in Commands |->
                   IF /\ waits[c] # None /\ waits[c].state = "awaiting"
                      /\ waits[c].expires <= moment[o]
                   THEN [waits[c] EXCEPT !.state = "expired", !.resolved = moment[o]]
                   ELSE waits[c]]
    /\ moment' = [moment EXCEPT ![o] = None]
    /\ UNCHANGED <<lock, rows, cycles, drills, pipeline, job, open, report, now,
                   faults, ghosts>>

-----------------------------------------------------------------------------
\* Gate C evidence.

RecordMutationCycle(c, cycle) ==
    /\ cycles[c] = None /\ report.pc = "cycles"
    /\ cycles' = [cycles EXCEPT ![c] = cycle]
    /\ UNCHANGED <<lock, rows, waits, drills, pipeline, job, moment, open, report,
                   now, faults, ghosts>>

RecordFaultDrill(s, d, passed) ==
    /\ report.pc = "drills" /\ \A b \in BOOLEAN : <<s, d, b>> \notin drills
    /\ drills' = drills \cup {<<s, d, passed>>}
    /\ UNCHANGED <<lock, rows, waits, cycles, pipeline, job, moment, open, report,
                   now, faults, ghosts>>

CleanRow(row) == /\ row.state = "succeeded" /\ row.passed /\ row.nightly
                 /\ row.unresolved = 0

\* Mutant: a run that has not ended counts neither way.
RunsQualifyEnded ==
    LET ended == {r \in RunIds : rows[r] # None /\ rows[r].state # "started"}
        good == {r \in ended : CleanRow(rows[r])}
    IN  good = ended /\ Cardinality({rows[r].session : r \in good}) >= MinSessions

\* Enough sessions have a clean run, and no recorded run is not clean.
RunsQualify ==
    LET recorded == {r \in RunIds : rows[r] # None}
        good == {r \in recorded : CleanRow(rows[r])}
    IN  good = recorded /\ Cardinality({rows[r].session : r \in good}) >= MinSessions

\* Enough cycles were approved by hand, and none has a blemish.
CyclesQualify ==
    LET recorded == {c \in Commands : cycles[c] # None}
    IN  /\ Cardinality({c \in recorded : cycles[c].approved}) >= MinCycles
        /\ \A c \in recorded : /\ ~cycles[c].duplicate
                               /\ cycles[c].resolved /\ cycles[c].recovered

\* Every required drill passed, in some session, and failed in none.
DrillsQualify ==
    \A d \in Drills : /\ \E s \in Sessions : <<s, d, TRUE>> \in drills
                      /\ \A s \in Sessions : <<s, d, FALSE>> \notin drills

\* evaluate_gate_c reads the three tables, each on its own connection, and
\* then the commands; one blocker is enough to refuse, and a refusal leaves
\* nothing behind.  The report keeps what was true when it began.
Evaluated(pc, ok) == report' = IF ok THEN [report EXCEPT !.pc = pc] ELSE NoReport

EvaluateRuns ==
    /\ report = NoReport /\ \A o \in Operators : moment[o] = None
    /\ report' = IF RunsQualify
                 THEN [pc |-> "cycles", stained |-> stained, clean |-> clean]
                 ELSE NoReport
    /\ UNCHANGED <<lock, tables, pipeline, job, moment, open, now, faults, ghosts>>

EvaluateCycles ==
    /\ report.pc = "cycles" /\ Evaluated("drills", CyclesQualify)
    /\ UNCHANGED <<lock, tables, pipeline, job, moment, open, now, faults, ghosts>>

EvaluateDrills ==
    /\ report.pc = "drills" /\ Evaluated("commands", DrillsQualify)
    /\ UNCHANGED <<lock, tables, pipeline, job, moment, open, now, faults, ghosts>>

EvaluateCommands ==
    /\ report.pc = "commands" /\ Evaluated("qualified", ~open)
    /\ UNCHANGED <<lock, tables, pipeline, job, moment, open, now, faults, ghosts>>

-----------------------------------------------------------------------------

Run(p) ==
    \/ StartRun(p) \/ Prepare(p) \/ Reconcile(p) \/ FinishRun(p) \/ Release(p)
    \/ \E b \in BOOLEAN : Prepared(p, b) \/ Nightly(p, b)

Next ==
    \/ \E p \in Procs :
         \/ Run(p) \/ StoreFails(p) \/ StoreStaysDown(p) \/ Crash(p)
         \/ \E r \in RunIds, s \in Sessions : Acquire(p, r, s)
         \/ \E c \in Commands : RequestApproval(p, c)
    \/ RecoverLock \/ CommandsChange \/ Tick
    \/ \E r \in RunIds : ManualBegin(r) \/ \E b \in BOOLEAN : ManualEnd(r, b)
    \/ \E o \in Operators :
         TakeMoment(o) \/ ExpireApprovals(o) \/ \E c \in Commands : ApproveWait(o, c)
    \/ \E c \in Commands, cycle \in CycleInputs : RecordMutationCycle(c, cycle)
    \/ \E s \in Sessions, d \in Drills, b \in BOOLEAN : RecordFaultDrill(s, d, b)
    \/ EvaluateRuns \/ EvaluateCycles \/ EvaluateDrills \/ EvaluateCommands

Spec == Init /\ [][Next]_vars

-----------------------------------------------------------------------------

\* A schedule run recorded as succeeded is true of its own pipeline run: the
\* nightly checklist looks at whatever run is the latest, but finish_run never
\* calls a run succeeded whose own pipeline failed or was refused.
SucceededIsFinalized ==
    \A r \in RunIds : rows[r] # None /\ rows[r].state = "succeeded"
                        => status[r] = "succeeded"

\* Gate C qualifies only on earned evidence: when evaluate_gate_c began, no
\* attempt that had its row had died, raised or come out unclean, also when
\* the store was down and the row says nothing of it, and as many sessions as
\* are required had an attempt that went well to the end.
QualifiedIsEarned ==
    report.pc = "qualified" =>
        ~report.stained /\ Cardinality(report.clean) >= MinSessions

\* An approval wait is resolved once: an approval never overrules an expiry or
\* another approval although operators act on moments they took earlier, and
\* no approval carries a moment at or after the expiry.
WaitsResolveOnce ==
    [][\A c \in Commands : waits[c] # None =>
         /\ waits[c].state # "awaiting" => waits'[c] = waits[c]
         /\ waits'[c].state = "approved" => waits'[c].resolved < waits'[c].expires]_vars
=============================================================================
