# Verification of the advisory pipeline and its Demo execution path

This directory holds TLA+ models of the parts of the repository where the order
of steps matters: orders that must be sent at most once, files that several
processes change, multi-file updates that a crash can cut in two, evidence that
ages while it is used, and agents that read what earlier runs left behind. TLC
checks the models on small instances. TLAPS proves the central results for every
instance.

## The system

A daily pipeline (`run_pipeline.py`) runs agents as subprocesses. The research
agents turn a universe of tickers into advisory orders. The Fill Agent books the
fills an operator records and is the only one that changes positions and cash.
The monitoring agents check, mark and value the books. The Journal Agent records
the advice. A finalizer then reconciles, validates, seals the artifacts in a
manifest and writes a finalization record; the next start is refused unless the
history is clean. A resolver closes runs that were interrupted. A scheduler runs
the pipeline under a lock and collects evidence for Gate C, a qualification.

Beside it stands an execution path for a broker's Demo account, disabled by
default. An operator prepares an intent, the risk check decides on it, the
operator approves, a gate authorises, and a coordinator claims and sends the
order. Unknown outcomes are resolved by lookups, never by a second send.
Confirmed executions are staged in a CSV for the Fill Agent, or applied to an
exact book of the broker account. Three pilot programs (manual, standing and
finite mandate) place small orders within budgets and keep an economic ledger
and an execution journal. A kill switch disables writes.

| Part | Module | What makes it hard |
|---|---|---|
| execution store, coordinator, approval, gate | `Submission` | stale reads, lost or late messages, crashes, expiry |
| operator recovery and staging | `OperatorRecovery` | three stores, a crash between any two, an abandoned lock |
| broker runtime | `BrokerRuntime` | one commit over six files, an account that moves during its capture |
| pilot programs, ledger and journal | `PilotCycle` | three stores, third parties on the account, midnight, lost answers |
| clocks of an order | `OrderEvidence` | nothing is read again before the request; every check is of something that has aged |
| kill switch | `KillSwitch` | no lock, two files |
| scheduler and Gate C | `Schedule` | stale clocks of operators, tables read one after the other, kills |
| research agents | `ResearchPipeline` | files of earlier runs, sessions that close between two agents |
| Fill Agent | `FillAgent` | durable per-fill steps, holdings at the end |
| monitoring, integrity, equity, journal, sealing | `Bookkeeping` | outside edits, deaths between agents, a migration beside the owner's editor |
| run lifecycle and resolver | `RunLifecycle` | kills and I/O errors in the failure path itself |

The parts meet in few places. The kill switch and the risk check enter the gate
of `Submission` as verdicts. `OperatorRecovery` models the lookup part of
`Submission` again, in more detail, with evidence and staging. The staged rows
reach `FillAgent` as fills. `OrderEvidence` and `PilotCycle` describe the same
programs, one by their clocks and one by their stores. `FillAgent` is one agent
of `PositionDay`, and all agents together are the `RunAgents` step of
`RunLifecycle`. These views are checked one by one, except where a refinement or
a composition is named below. `PROJECT.json` lists every component with its
sources and status, and every hazard with its line.

## Modules

Execution path:

- `ExecutionDomain`: the command states and the allowed transitions, shared.
- `SendOnce`: the abstract promise. The right to send an intent is claimed once,
  used at most once, or forfeited.
- `Submission`: the store, coordinator, approval and gate for one submit command
  per intent. One store method is one transaction and one action. What a process
  read earlier stays in its local record and may be stale, including the one
  `now` a call uses throughout. Refusals of the gate that depend on the kill
  switch, session or configuration are one nondeterministic refusal.
- `OperatorRecovery`: `DemoOperator.reconcile` under the lock file, one action
  per durable write. Answers of the broker are honest and may be early.
- `KillSwitch`: callers that read and write the two files without a lock. The
  hash of an event is its position in the audit, so distinct events are taken to
  have distinct hashes. A crash inside an append leaves a line nobody can parse.
  `openAtRead` is a history variable.
- `BrokerBook`: the abstract promise of the broker runtime, one book that is
  opened once and posts each terminal command in a single step.
- `AccountEvidence`: the bracketed account capture, three reads between two
  clocks, and the checks repeated on it.
- `BrokerRuntime`: initialize, recover, snapshot and apply_confirmed of
  concurrent processes, every write of a file its own step. A digest is the
  content it digests. A refinement mapping reads the book off the files, or off
  the journal while a transaction is durable and unfinished.
- `PilotLedger`: the ledger as a record, each committed SQLite transaction an
  operator on it. `ExecutionJournal`: the phases of a command in the
  hash-chained journal, and their order.
- `PilotCycle`: the three programs over ledger, command store and journal. They
  exclude each other with `operator.lock`, which the system releases at death, so
  one program runs at a time and can die between any two durable steps. A third
  party opens and closes positions and moves cash.
- `OrderEvidence`: four programs (manual, standing, finite, and the connector's
  operator) as sequences of reads, checks and writes, with time passing inside
  and between them. The limits are scaled down in the order of the real ones.

Pipeline:

- `RunLifecycle`: `run_pipeline`, run history, reconciliation row, finalizer,
  layered failure recording and the resolver. A file's content is which run
  wrote it and with what status.
- `ResearchPipeline`: the agents from Universe to Advisory, one action each, with
  their early returns and the files they then leave as they were. A price is the
  session it covers; scores are small ranks. The fields `by` and `obs` of the
  rows are ground truth the files do not have; only the properties read them.
- `FillAgent`: one run after another over an input that grows. Every durable
  write is a step. Prices, quantities and fees are small integers. A position
  row carries a history field, `fills`, that the code does not have.
- `PositionDay`: integrity check, tracking, second check, exit advice and equity
  after the Fill Agent, which is one step here, with the SQLite copies of state,
  cash and equity. `Edit` is a change by anything but the Fill Agent.
- `RunSeal` extends it with the checksums before the first agent and the
  finalizer's comparisons after the last, as one step; `RunLifecycle` has the
  single writes of that step.
- `AdvisoryJournal`: the Journal Agent, the owner's annotations and the history
  migration, which may stop after any of its file operations.
- `Bookkeeping` composes `RunSeal` and `AdvisoryJournal` into whole runs.
- `Schedule`: scheduled invocations, nightly checklist, approval waits and their
  operators, manual runs, and the evaluation of Gate C table by table. `stained`
  and `clean` are history variables.

Proofs are in modules of their own: `SubmissionProofs`, `OrderProofs` (the operator
recovery, the kill switch and the clocks of an order), `BrokerRuntimeProofs`,
`FillAgentProofs`, `BookkeepingProofs`, `ScheduleProofs` and `RunLifecycleProofs`.
`SumTheorems` has the facts about sums they share. `OrderProofs` extends the three
modules it is about together, so `KillSwitch` and `OrderEvidence` name their
specifications `SwitchSpec` and `OrderSpec`. `MC*` modules give TLC the constants
and symmetry.

Operators commented "Mutant" are faulty variants of the definition that follows
them. They are used by no specification. For each property of each passing run,
`PROJECT.json` names one such variant that violates it.

## Runs

| Run | Distinct states | What it shows |
|---|---|---|
| `submission` | 710,965 | two processes, one intent: at most one send, every send backed by a live approval, recorded outcomes are the broker's, `SendOnce` is implemented |
| `operator_recovery` | 608,044 | two operators, two commands, one crash: evidence comes first, a closed order had ended, staged rows stay, a reconciled command is eventually staged |
| `kill_switch` | 181,959 | three callers: a status that allows writes was true, a reset saw every event, and only a reset that nobody overtook opens writes |
| `broker_books` | 430,666 | two processes, two commands, one crash, one edit, one transfer: the book is always one whole past account, `BrokerBook` is implemented, a durable transaction is finished |
| `pilot` | 113,547 | three scenarios of two orders: attribution is true, cash is explained, orders stay in budget, a marked loss stops them, completion follows the record, received orders resolve |
| `evidence` | 832,520 | four programs: at dispatch every piece of evidence is within its limit and every authority is alive |
| `scheduler` | 1,081,218 | two runners, two operators, one evaluator: a succeeded row has a finalised run, Gate C rests on clean history, a wait is resolved once |
| `research` | 2,504,860 | two runs, two tickers, one close of trading: orders on setups of their own run rest on fresh prices, and no order contradicts the regime |
| `bookkeeping` | 2,077,690 | two runs, two positions, two outside edits: sealed cash is explained, closed positions stay frozen, the equity row counts the books, no advice or annotation is lost |
| `fill_agent` | 713,844 | four fills of seven kinds, three runs: no cash movement is lost or repeated, every position row balances with the ledger |
| `run_lifecycle` | 672,012 | two runs, two faults: starts are clean, failed is final, the resolver's audit is true, a run with a reconciliation row is resolved |
| `stale_signals` | violation | the finding below |

### Bounds

- `submission`: intents share no row, so one is enough for the races; two
  processes give every pair of sender and reconciler; two decisions let one
  supersede the other; `MaxTime` 2 with an approval life of 1 lets an approval
  expire before the intent does. Processes are interchangeable (symmetry).
- `operator_recovery`: two commands, because the CSV is shared between them; two
  executions, so that a partial fill can be seen before the final one.
- `kill_switch`: three events are an initialisation and the two changes that
  race; the third caller reads. Callers are interchangeable (symmetry).
- `broker_books`: the second command adds to the position the first opened and
  fills in two executions, so a commit touches several rows of several files;
  the first may fill short. Three ticks with an age limit of one make captures
  stale, one lagging mark makes their clocks spread, and one withdrawal makes
  the account disagree with the records.
- `pilot`: `Scenarios` separates what need not be combined: a death, an order by
  hand before one of the finite mandate, and three acts of a third party around
  one finite order. A cost of one breaches the order cap; two days with one
  submission a day make midnight matter.
- `evidence`: the clock (`Horizon` 7) runs past every limit, the day changes at
  4 and the mandate ends at 6, so each limit is the binding one in some
  behaviour.
- `scheduler`: two run ids and two runners give a pipeline that another one
  overtakes; two operators give an approval against a sweep. Processes and
  operators are interchangeable (symmetry).
- `research`: the second run meets the files of the first; one close of trading
  falls between any two agents; two tickers of one sector compete for its limit.
- `bookkeeping`: the constraint `OneHalfAtATime` explores the books with an empty
  journal and the journal with unchanged books. The two halves read nothing of
  each other.
- `fill_agent`: four fills allow a buy, two slices and a refused or repeated
  fill; three runs allow a kill, a restore and a rerun. The fee of 2 over 3 units
  does not divide evenly. One kind is malformed, one is a short sale, and one is a
  sale whose fee is more than its proceeds.
- `run_lifecycle`: the second run meets what the first left behind; two faults
  allow one in the normal path and one in the recording of the failure. One
  process is alive at a time (`MaxLive` 1), see Disagreements.

Deadlock is checked in `operator_recovery` and `run_lifecycle`. In the other runs
a bound ends the behaviour: the clock, the days, the runs or the audit are used
up.

### Fairness

A process that is not killed takes its next step (weak fairness of its steps).
The number of kills is bounded, so they stop eventually. The rest is what
operators and schedules do, not what the code guarantees:

- `OperatorRecovery`: an abandoned lock is removed once its owner is gone, and a
  command is reconciled again and again (strong fairness, since the lock is
  taken in between).
- `RunLifecycle`: the resolver is run for an interrupted run it accepts, as
  `docs/operator_runbook.md` prescribes.
- `BrokerRuntime`: some program keeps coming back to the runtime.
- `PilotCycle`: a started program runs on, the broker works off the orders it
  received, and an operator who has an incomplete claim runs its program again
  (strong fairness, since other programs run in between).

Nothing else is assumed of the broker. The other modules state safety only.

## Findings

`stale_signals`: when the universe leaves no usable ticker, the Signal Agent
returns without writing, so `signal_setups.csv` keeps the rows of an earlier run.
The agents after it go on from them, and the advisory orders carry the new run's
id. The freshness gate looks at prices, not at the run the setups belong to. The
runbook says that stale evidence produces `no_trade` and stops the pipeline.

## Disagreements

In five more places the code and a text of the repository differ. The models have
the behaviour; no run checks it, and the properties above are stated so as not to
depend on it.

- `execution/coordinator.py:354`: a crash between the transition to `filled` and
  the one to `reconciled` leaves a command every later reconcile refuses, so its
  executions are never staged. The comment at `execution/operator.py:432` says "A
  crash at either boundary can be recovered by another read, not send."
  `ReconciledIsStaged` speaks of reconciled commands only.
- `shared/runtime_recovery.py:219`: a run killed before its first reconciliation
  row cannot be resolved, because the resolver requires the row, and it blocks
  every later start. `docs/operator_runbook.md:129` says "The resolver defaults
  the run to `failed`." `InterruptedRunResolves` asks for the row.
- `shared/run_history.py:210`: two starts at the same time both pass the guard;
  the history is read, checked and rewritten without a lock. The docstring at
  lines 100-102 says "The pipeline must fail closed rather than start a new
  economic-state mutation path while a previous run is still unresolved." With
  `MaxLive` 2, `RunLifecycle` has two pipelines at work at once.
- `agents/fill_agent/fill_agent.py:1213`: a run that stops, or raises on a later
  fill, after marking a fill and before writing `portfolio_state.csv` leaves a
  fill that is skipped from then on and is in no position. `README.md:144` says
  the agent "processes fills and updates canonical portfolio state, cash, and
  realised outcomes"; `docs/operator_runbook.md:152` takes a `fill_id` in
  `processed_fills.csv` as processed.
- `shared/run_reconciliation.py:333`: a completed run with a partial close fails
  `validate_run_reconciliation`, which counts only open and close events;
  `tests/test_fill_agent.py:149` has partial closes succeed. `RunSeal` refuses
  such a run.

## Proofs

| Theorem | Module | Says, for every value of the constants |
|---|---|---|
| `TypeCorrect` | `SubmissionProofs` | rows, process states and broker records keep their types |
| `AtMostOnce`, `SendsAreBacked` | `SubmissionProofs` | no intent is sent twice; every send was claimed inside the window of a consumed approval of an accepted decision |
| `OutcomeIsTrue` | `SubmissionProofs` | a terminal state on a row is the broker's own outcome |
| `SubmissionImplementsSendOnce` | `SubmissionProofs` | the initial states and every step of `Submission` map to those of `SendOnce` or to a stutter |
| `EvidenceFirst`, `ClosedAtTheEnd`, `StagingOnlyGrows` | `OrderProofs` | evidence precedes transitions and rows; only ended orders are closed; no staged row is dropped |
| `SwitchTypeCorrect`, `StatusConsistent`, `OnlyResetOpens`, `ResetSawAll` | `OrderProofs` | files keep their shapes; a permissive status was true; only a reset that nobody overtook opens writes, and it saw every event |
| `SuccessIsFinalized`, `QualificationIsEarned`, `WaitsAreResolvedOnce` | `ScheduleProofs` | a succeeded row is true of its own pipeline; Gate C rests on earned evidence; a wait is resolved once and in time |
| `LifecycleTypes`, `StartsClean`, `AuditTrue`, `FailedFinal` | `RunLifecycleProofs` | with one process at a time: no run has two rows; a start finds every other run settled; the resolver's audit stays true; failed is final |
| `EvidenceIsFresh`, `AuthorityHolds` | `OrderProofs` | at dispatch every age limit and every authority holds, for every choice of limits |
| `BookIsPast` | `BrokerRuntimeProofs` | the committed book is one whole past account, no later than the time it claims to cover |
| `RuntimeImplementsBook` | `BrokerRuntimeProofs` | the initial states and every step of `BrokerRuntime` map to those of `BrokerBook` or to a stutter |
| `SealedExplained`, `ClosedFrozen`, `EquityCounts`, `AdviceKept` | `BookkeepingProofs` | sealed runs agree about the cash; closed positions stay frozen; an equity row values the books; no advice or annotation is lost |
| `CashExplained`, `RowsBalance` | `FillAgentProofs` | cash is each marked fill once, and the ledger explains it; every position row balances with the ledger |

The assumptions are those named in the modules, and TLC evaluates them in every
run. Bounds and limits are natural numbers. Marker values such as `None`, `NoBook`
or `"free"` are none of the values they stand apart from. The configuration is one
`SchedulerConfig.load` accepts. Amounts are integers, which stand for exact
decimals, and the positions, the executions of an order and the runs are finitely
many. The theorems about `RunLifecycle` have one hypothesis more, `MaxLive = 1`: the
runbook's rule that a single pipeline or resolver works at a time. The code does not
enforce it, and without it they are false (see Disagreements).

The properties are not inductive by themselves. What was added, and why:

- `Submission`. `SendInv` ties each send to a claim that one process holds: a
  command that was not claimed has no send, and a process that may still send
  holds the only unused claim. `BackingInv` keeps what the claim rested on after
  the decision is superseded and the approval consumed. `OutcomeInv` says that a
  lookup answer in a process's hands is still true, since a broker order never
  leaves a final state.
- `KillSwitch`. What a status answers depends on a state it has read and an audit
  it has yet to read. `ReadInv` adds that a state that still agrees with the audit
  was in force when it was read. It survives an append because no head points
  beyond the audit (part of `TypeOK`), so an append makes every earlier read
  disagree.
- `OperatorRecovery`. The lock file excludes other writers (`LockInv`), also
  after a crash, because the operator removes it only when its owner is gone.
  Then what a process read of ledger, commands and CSV is still there when it
  writes (`Holds`), every staged row was reported (`Reported`), the ledger is never
  ahead of the broker (`LedgerInv`) and a command never ahead of the ledger
  (`CommandInv`).
- `Schedule`. One process is at work (`LockInv`), on a row that is still
  `started` (`MineInv`). An attempt that dies or raises gives up its row, and
  `start_run` never takes an id that has one. So a stained history has a row that
  is not clean and never becomes clean (`StainInv`), which a report that found
  only clean rows cannot have met.
- `OrderEvidence`. An authorization ends with the earliest of what it rests on
  (`BoundInv`), nothing of that is read again afterwards (`LateStep`), nobody is
  past the submission without one (`PhaseInv`), and claim and hook look at its
  end (`DispatchInv`). The sequences of the programs enter through one lemma,
  `Places`.
- `RunLifecycle`. The start guard looks at the latest row only. `SettledInv` says
  that the rows before it are settled, `RunInv` that the row a run works on stays
  the latest until the run ends, because nobody else works meanwhile (`Serial`).
  The resolver writes four files in an order; `ResolverInv` says which it has
  written, and `AuditInv` that nothing undoes them once the audit lists the run:
  its id is refused at the guard.
- `BrokerRuntime`. The lock leaves one program inside (`LockInv`), so what it read
  of the files is still there when it commits (`DiskInv`). Its call was made with
  one capture, which is not replaced while the call is pending (`CallInv`) and is
  the account of one moment although it is read in two requests (`CapInv`). So the
  book in the journal, like the one in the checkpoint, is an account the broker
  had, and follows from the checkpoint by posting one command, whichever writes a
  crash leaves out.
- `Bookkeeping`. A manifest is compared with the one before it through the equity
  row of its run. `SealInv` ties each manifest to that row, and `CashInv` the row to
  the cash file and its SQLite copy: edits only add to the file, so where the three
  agree no edit was made since the booking. The journal is replaced by a migration
  only after it was archived as it is (`JournalInv`).
- `FillAgent`. A fill goes to five files one after the other. `MarkInv` says at
  every point which fills the cash has and which the ledger has, and that a fill
  whose money has moved is in `trade_fills.csv` already, where the recovery guard
  sees it. `BookInv` follows the positions, whose copy in memory is ahead of the
  ledger between a booking and its ledger row. `CoverInv` is the check of the
  balance before a purchase.

Sums over sets (cash, market value, principal) are `MapThenSumSet`, which recurses
over subsets. `SumTheorems` derives from its defining equation, by induction over
the cardinality of a set written out with the least counterexample, that a sum
exists, is an integer, and grows by one summand when its set grows by one element.

Only model-checked:

- All liveness properties. TLAPS has no support for fairness here.
- `PilotCycle` with `PilotLedger` and `ExecutionJournal`: three programs over three
  stores, whose invariant is not worked out yet.
- `ResearchPipeline`: its properties follow rows through a chain of agents, each
  a construction over the files of the one before.

## Behaviours worth knowing

No text of the repository contradicts these, so no run refutes anything, but they
follow from the code and are in the models.

Execution path:

- A reset of the kill switch whose check came before an engage can chain to the
  engage's event and undo it. Two events then carry one revision.
- A fill between the closing read of a capture and its completion, or two fills
  between two captures, leaves the broker book refusing for good. It fails closed.
- A capture is validated before the wait for the lock, not after it.
- The connector's placement follows its claim without another check. For manual
  and connector orders the evidence properties hold at the claim. The connector's
  deadline knows no end of day.
- Ledger holds of the pilot are never cleared and imports are refused while one
  is unresolved. A mark between a third party's change and its import blocks both
  for good.
- A crash after the ledger's claim and before the send, a request that was lost,
  and a rejected order of the standing mandate leave a claim no code path
  releases.
- A manual claim whose answer was lost has nothing to look it up by.
- A breach is committed and then raised. The next cycle completes the journal
  while the hold stays.
- A standing program that dies between the settled ledger and the reconciled
  command, followed by a finite setup and order, leaves that command open.
- A setup of the finite mandate that was cut short cannot be completed.

Scheduler:

- Approval waits expire from the moment before `prepare()`. A slow pipeline makes
  waits that are born expired.
- An operator's stale `now` approves after the real expiry if no sweep ran.
- One unclean or unfinished row blocks Gate C from then on.

Pipeline:

- `news_review.csv` has no columns `has_news` and `news_severity`, so
  `determine_news_block` never blocks. A shortlisted ticker without news does
  block the gate.
- Portfolio and Advisory exclude tickers with status `open` only, so a position
  marked `exit_required` may be advised again.
- A run that books fills and dies before the equity row makes the next run fail
  its reconciliation. The one after it passes.
- An outside edit of the books after a succeeded run blocks every later start. An
  edit between the finalizer's comparison and its second manifest is sealed.
- A Fill Agent run without new fills copies an outside edit into SQLite.
- The Fill Agent checks the balance before a purchase and not after a sale: a sale
  whose fees are more than its proceeds can take the cash below zero.
- Removing an open row from `portfolio_state.csv` violates no invariant.
- A history migration that stops inside its first copy, or after the replacement
  with an annotation before it is resumed, is refused afterwards.

`SealedIsExplained` assumes that outside edits change cash in one direction
(`EditCash`); two that cancel out are invisible to any comparison of balances.

## Not modelled

- Decimal arithmetic, exposure, cash and loss checks of the risk evaluator, and
  accounting baselines: pure functions of one snapshot. Their verdict is an input.
- HTTP, parsing, schemas, evidence files and request signing.
- Instrument registration, broker mappings and advisory import of the store.
- Signatures and catalog checks of mandates, and the standing usage waiver.
- Backtests and the strategy registry: batch numerics of one process.
- Building and verifying archives. A restore is one step of `FillAgent`.
- Heartbeats and the operator-action log of the scheduler, which nothing reads.
- Caching and retries of market data, which no agent configures. The degraded
  mode of the freshness gate, which no agent can reach.
- Command-line wrappers and read-only views.
- That `OperatorRecovery` refines `Submission`: the lookups are modelled twice and
  compared only by reading.
