------------------------------ MODULE RunSeal ------------------------------
(***************************************************************************)
(* What run_pipeline puts around the agents of PositionDay.  Before the    *)
(* first agent the checksums of the economic files are kept; after the     *)
(* last one the finalizer reconciles the run, looks for artifacts of other *)
(* runs, explains every change of an economic file and compares the files  *)
(* with their SQLite copies, and then seals all of it in a manifest.  The  *)
(* next run starts only while the manifest of a latest run that succeeded  *)
(* still matches the files.                                                *)
(*                                                                         *)
(* The finalizer is one step here; RunLifecycle has its writes and what is *)
(* left when it is killed between two of them.  A checksum is the content. *)
(***************************************************************************)
EXTENDS PositionDay

VARIABLES
  pre,          \* pre_economic_state.json of the run
  sealed        \* artifact manifests of runs that succeeded

svars == <<pre, sealed>>

\* capture_economic_checksums
Economic == [state |-> state, cash |-> cash, fills |-> fills]

SInit ==
  /\ Init
  /\ pre = Economic
  /\ sealed = {[run |-> 0, pre |-> Economic, post |-> Economic]}

\* _parity_tables: the tables that are replaced are compared as a whole ...
ReplacedAgree == sidecar.state = state /\ sidecar.cash = cash

\* ... and _prepare_df keeps the rows of the run in the ones that are appended to.
OfRun(r, rows) == {row \in rows : row.run = r}
AppendedAgree(r) == OfRun(r, ToSet(history)) = OfRun(r, sidecar.equity)

\* validate_sqlite_dual_write_parity
Parity(r) == ReplacedAgree /\ AppendedAgree(r)

\* build_artifact_manifest
Manifest == [run |-> run, pre |-> pre, post |-> Economic]

\* validate_artifact_manifest
Matches(m) == m.post = Economic

\* A latest run that succeeded proves it (_assert_latest_succeeded_run_has_verifiable_proof).
ProofMatches == \A m \in sealed : m.run = run => Matches(m) /\ Parity(run)

StartRun ==
  /\ pc = "idle" /\ run < MaxRuns
  /\ ProofMatches
  /\ run' = run + 1 /\ pc' = "capture"
  /\ UNCHANGED <<books, snapshot, report, monitor, alerts, exits, equity, edits, svars>>

\* capture_pre_economic_state
Capture ==
  /\ pc = "capture" /\ pc' = "fill"
  /\ pre' = Economic
  /\ UNCHANGED <<run, books, snapshot, report, monitor, alerts, exits, equity, edits, sealed>>

----------------------------------------------------------------------------
(* The row of run_reconciliation_summary.csv *)

\* _compute_cash_delta_from_cash_ledger, _count_processed_fills, _count_event_type
Amounts(r) == MapThenSumSet(LAMBDA f : f.amount, OfRun(r, fills))
Processed(r) == Cardinality(OfRun(r, fills))
Counted(r, kind) == Cardinality({f \in OfRun(r, fills) : f.kind = kind})

\* _extract_validation_counts: the failures of the latest validation event.
Failures == IF report.clean THEN 0 ELSE 1

\* _compute_deltas_from_equity_history: from the row before this run's last one.
EquityRows(r) == {i \in DOMAIN history : history[i].run = r}

\* Mutant: the cash delta is always taken from the ledger.
CashDeltaOfLedger(r) == Amounts(r)

CashDelta(r) ==
  LET i == Max(EquityRows(r)) IN history[i].cash - history[i - 1].cash

\* validate_run_reconciliation
Reconciles(r) ==
  /\ EquityRows(r) # {}
  /\ Failures = 0
  /\ Processed(r) = Counted(r, "open") + Counted(r, "close")
  /\ CashDelta(r) = Amounts(r)

----------------------------------------------------------------------------
(* The other checks of finalize_run *)

\* _validate_current_run_artifacts
OfThisRun(r) ==
  /\ report.run = r
  /\ EquityRows(r) # {}
  /\ summary.latest.run = r
  /\ \A p \in DOMAIN monitor : monitor[p].run = r
  /\ exits # None /\ (exits.advice # <<>> => exits.run = r)

\* _validate_lifecycle_report
LifecyclePassed == report.clean

\* load_pre_economic_checksums, and the files that no longer have theirs.
Changed(before) == {f \in DOMAIN before : before[f] # Economic[f]}

\* validate_economic_changes
Explained(r, changed) ==
  changed # {} =>
    /\ Processed(r) > 0
    /\ "state" \in changed => Counted(r, "open") + Counted(r, "close") > 0
    /\ "cash" \in changed => "fills" \in changed

\* finalize_run
Finalize ==
  /\ pc = "finalize" /\ pc' = "idle"
  /\ sealed' = IF /\ Reconciles(run) /\ OfThisRun(run) /\ LifecyclePassed
                  /\ Explained(run, Changed(pre)) /\ Parity(run)
                 THEN sealed \cup {Manifest}
                 ELSE sealed
  /\ UNCHANGED <<run, books, snapshot, report, monitor, alerts, exits, equity, edits, pre>>

----------------------------------------------------------------------------

\* Whatever was changed beside the agents, before or while they ran, two runs
\* in a row that are sealed as succeeded agree about the cash: it moved from one
\* manifest to the next by exactly the ledger of the second run.  And a run
\* sealed without fills left every position as its first checksums found it
\* (finalize_run: the equity chain, the explained changes and the SQLite copies
\* together).
SealedIsExplained ==
  \A m \in sealed :
    LET mine == {f \in m.post.fills : f.run = m.run} IN
    /\ \A last \in sealed : last.run = m.run - 1 =>
         m.post.cash - last.post.cash = MapThenSumSet(LAMBDA f : f.amount, mine)
    /\ mine = {} => m.post.state = m.pre.state
============================================================================
