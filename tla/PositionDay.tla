---------------------------- MODULE PositionDay ----------------------------
(***************************************************************************)
(* The bookkeeping half of a pipeline run: after the Fill Agent has        *)
(* brought portfolio_state.csv up to date, Lifecycle Integrity compares it *)
(* with the snapshot of the last check that passed, Position Tracking      *)
(* marks the active positions in portfolio_monitor.csv, Lifecycle          *)
(* Integrity looks once more, the Exit Agent writes its advice, and        *)
(* Portfolio Equity appends a row to the equity history.  A run dies at    *)
(* the first agent that raises, or in the middle of any of them, and the   *)
(* next run finds the files as they were left.                             *)
(*                                                                         *)
(* portfolio_state.csv is a plain file: Edit is a change made to one of    *)
(* its rows by anything but the Fill Agent, at any moment.  Finding such a *)
(* change is what the Lifecycle Integrity Agent is for.                    *)
(***************************************************************************)
EXTENDS Integers, Sequences, FiniteSets, SequencesExt, FiniteSetsExt

CONSTANTS
  Positions,    \* position ids, each of a ticker of its own, in file order
  Quantities,   \* quantities of a fill
  ExitPrices,   \* prices at which a position may be closed
  Entry,        \* the price at which positions are opened
  Stop, Target, \* stop_loss and take_profit of a position
  MaxRuns,      \* bound: pipeline runs
  MaxEdits,     \* bound: changes from outside
  None

ASSUME LevelsAreOrdered == Stop < Entry /\ Entry < Target

ASSUME AmountsAreIntegers ==
  /\ IsFiniteSet(Positions)
  /\ Entry \in Int /\ Quantities \subseteq Int /\ ExitPrices \subseteq Int

VARIABLES
  run, pc,      \* the run and the agent at work
  state,        \* portfolio_state.csv
  cash,         \* cash_state.csv
  fills,        \* rows of processed_fills.csv, trade_fills.csv and cash_ledger.csv
  snapshot,     \* portfolio_state_prev_snapshot.csv
  report,       \* lifecycle_integrity_report.csv
  monitor,      \* portfolio_monitor.csv
  alerts,       \* position_alerts.csv
  exits,        \* exit_advice.csv
  history,      \* portfolio_equity_history.csv
  summary,      \* performance_summary.csv
  sidecar,      \* the SQLite copies of portfolio_state, cash_state and the history
  edits

books == <<state, cash, fills>>
equity == <<history, summary, sidecar>>
vars == <<run, pc, books, snapshot, report, monitor, alerts, exits, equity, edits>>

\* apply_drawdown_metrics: the running peak of the whole history.
Peak(h) == Max({h[i].total : i \in DOMAIN h})

\* build_performance_summary: the latest row, the peak and the row count.
Summary(h) == [latest |-> Last(h), peak |-> Peak(h), count |-> Len(h)]

\* _write_baseline_state: no positions, and one row of equity for the opening
\* cash, which counts as 0 here.
Init ==
  /\ run = 0 /\ pc = "idle"
  /\ state = [p \in Positions |-> None] /\ cash = 0 /\ fills = {}
  /\ snapshot = None /\ report = [run |-> 0, clean |-> TRUE]
  /\ monitor = [p \in {} |-> None] /\ alerts = {} /\ exits = None
  /\ history = <<[run |-> 0, cash |-> 0, value |-> 0, total |-> 0]>>
  /\ summary = Summary(history) /\ edits = 0
  /\ sidecar = [state |-> state, cash |-> cash, equity |-> {history[1]}]

----------------------------------------------------------------------------
(* Rows of portfolio_state.csv *)

\* ACTIVE_POSITION_STATUSES and the other groups of portfolio_state_helpers.
Rows(s) == {p \in Positions : s[p] # None}
Active(s) == {p \in Rows(s) : s[p].status \in {"open", "exit_required"}}
Closed(s) == {p \in Rows(s) : s[p].status = "closed"}

\* A position as open_long_position leaves it.  `whole' stands for the
\* valuation fields of an active row and the closure fields of a closed one.
Opened(q) == [status |-> "open", quantity |-> q, pnl |-> 0, flag |-> FALSE,
              run |-> run, whole |-> TRUE]

----------------------------------------------------------------------------
(* The driver, the Fill Agent, and changes from outside *)

\* An agent that raises, or is killed, ends the run.
Dies ==
  /\ pc # "idle" /\ pc' = "idle"
  /\ UNCHANGED <<run, books, snapshot, report, monitor, alerts, exits, equity, edits>>

\* The Fill Agent as a whole, with at most one new fill.  An input file without
\* fills leaves everything alone; one whose fills are all processed still has
\* the state written back and copied to SQLite.
FillNothing ==
  /\ pc = "fill" /\ pc' = "integrity1"
  /\ \/ UNCHANGED sidecar
     \/ fills # {} /\ sidecar' = [sidecar EXCEPT !.state = state]
  /\ UNCHANGED <<run, books, snapshot, report, monitor, alerts, exits, history, summary, edits>>

\* The rows, the cash and the ledger of a fill, in both copies.
Booked(rows, amount, kind) ==
  /\ pc = "fill" /\ pc' = "integrity1"
  /\ state' = rows /\ cash' = cash + amount
  /\ fills' = fills \cup {[run |-> run, kind |-> kind, amount |-> amount]}
  /\ sidecar' = [sidecar EXCEPT !.state = rows, !.cash = cash + amount]
  /\ UNCHANGED <<run, snapshot, report, monitor, alerts, exits, history, summary, edits>>

FillOpens(p, q) ==
  /\ state[p] = None
  /\ Booked([state EXCEPT ![p] = Opened(q)], -q * Entry, "open")

FillCloses(p, price) ==
  /\ p \in Active(state)
  /\ Booked([state EXCEPT ![p] =
              [@ EXCEPT !.status = "closed", !.flag = FALSE, !.run = run, !.whole = TRUE,
                        !.pnl = @ + (price - Entry) * state[p].quantity]],
            state[p].quantity * price, "close")

\* Every row a row may be edited into: another status (the owner marking an
\* exit included), another quantity, result, flag or blank fields.  Tracking
\* reads the file once and writes twice; an edit between its writes is the
\* same as one after them, and is not generated.
Edited(row) ==
  {[row EXCEPT !.status = s] : s \in {"open", "exit_required", "closed"}} \cup
  {[row EXCEPT !.status = "exit_required", !.flag = TRUE],
   [row EXCEPT !.quantity = 0], [row EXCEPT !.quantity = @ + 1],
   [row EXCEPT !.pnl = @ + 1], [row EXCEPT !.flag = ~@], [row EXCEPT !.whole = ~@]}

Edit(p) ==
  /\ edits < MaxEdits /\ pc # "marking" /\ p \in Rows(state)
  /\ \E row \in Edited(state[p]) \cup {None} :
       state' = [state EXCEPT ![p] = row]
  /\ edits' = edits + 1
  /\ UNCHANGED <<run, pc, cash, fills, snapshot, report, monitor, alerts, exits, equity>>

\* The cash is changed one way only: changes that take each other back between
\* two checks are invisible to every comparison of balances.
EditCash ==
  /\ edits < MaxEdits /\ pc # "marking"
  /\ cash' = cash + 1 /\ edits' = edits + 1
  /\ UNCHANGED <<run, pc, state, fills, snapshot, report, monitor, alerts, exits, equity>>

----------------------------------------------------------------------------
(* Lifecycle Integrity: the invariants of shared/invariants.py *)

Previous == IF snapshot = None THEN [p \in Positions |-> None] ELSE snapshot

\* total_equity_equals_cash_plus_open_market_value, of the latest row.
EquityAddsUp ==
  Last(history).total = Last(history).cash + Last(history).value

\* closed_positions_cannot_mutate_economic_fields
ClosedUnchanged ==
  \A p \in Closed(Previous) :
    /\ p \in Rows(state)
    /\ \A field \in {"status", "quantity", "pnl"} : state[p][field] = Previous[p][field]

\* realised_pnl_changes_only_through_fills_or_explicit_cash_events
ResultsExplained ==
  Rows(Previous) # {} => \A p \in Closed(state) :
    \/ p \notin Rows(Previous) /\ state[p].pnl = 0
    \/ p \in Rows(Previous) /\ state[p].pnl = Previous[p].pnl
    \/ \E f \in fills : f.run = state[p].run

\* VALID_LIFECYCLE_TRANSITIONS
MayFollow(old, new) ==
  new \in CASE old = "open" -> {"open", "exit_required", "closed"}
            [] old = "exit_required" -> {"exit_required", "closed"}
            [] old = "closed" -> {"closed"}

\* lifecycle_transitions_are_valid_only
LifecycleValid ==
  /\ \A p \in Active(state) : state[p].quantity > 0
  /\ \A p \in Rows(state) : state[p].flag = (state[p].status = "exit_required")
  /\ \A p \in Rows(state) \cap Rows(Previous) :
       MayFollow(Previous[p].status, state[p].status)

\* open_positions_have_live_valuation_fields_populated
ActiveValued == \A p \in Active(state) : state[p].whole

\* closed_positions_have_closure_fields_populated
ClosureRecorded == \A p \in Closed(state) : state[p].whole

\* evaluate_all_invariants: every one of them is critical.
Sound == /\ EquityAddsUp /\ ClosedUnchanged /\ ResultsExplained
         /\ LifecycleValid /\ ActiveValued /\ ClosureRecorded

\* Mutant: the snapshot is taken before the outcome is known.
IntegritySnapshotsFirst(here, next) ==
  /\ pc = here
  /\ snapshot' = state
  /\ report' = [run |-> run, clean |-> Sound]
  /\ pc' = IF Sound THEN next ELSE "idle"
  /\ UNCHANGED <<run, books, monitor, alerts, exits, equity, edits>>

\* run_lifecycle_integrity_agent: a critical issue raises after the report is
\* written; only a clean check takes the new snapshot.
Integrity(here, next) ==
  /\ pc = here
  /\ report' = [run |-> run, clean |-> Sound]
  /\ IF Sound THEN snapshot' = state /\ pc' = next
     ELSE pc' = "idle" /\ UNCHANGED snapshot
  /\ UNCHANGED <<run, books, monitor, alerts, exits, equity, edits>>

----------------------------------------------------------------------------
(* Position Tracking *)

\* get_latest_price returns its fallback: the mark of the last monitor row,
\* and before there is one the entry price.
LatestPrice(p) == IF p \in DOMAIN monitor THEN monitor[p].price ELSE Entry

\* process_active_position; market_value is quantity times price.
MarkOf(p) == [status |-> state[p].status, quantity |-> state[p].quantity,
            price |-> LatestPrice(p), run |-> run]

\* validate_tracking_inputs raises at the first row that fails it; these rows
\* were reached before.
Reached == {p \in Active(state) : \A r \in Active(state) : r <= p => state[r].quantity > 0}

\* append_alert, row by row.
Alerted == {<<run, p>> : p \in {r \in Reached : state[r].status = "exit_required"}}

\* run_position_tracking_agent: every alert is written before the monitor is.
TrackingAlerts ==
  /\ pc = "tracking"
  /\ alerts' = alerts \cup Alerted
  /\ pc' = IF Reached = Active(state) THEN "marking" ELSE "idle"
  /\ UNCHANGED <<run, books, snapshot, report, monitor, exits, equity, edits>>

TrackingMarks ==
  /\ pc = "marking" /\ pc' = "integrity2"
  /\ monitor' = [p \in Active(state) |-> MarkOf(p)]
  /\ UNCHANGED <<run, books, snapshot, report, alerts, exits, equity, edits>>

----------------------------------------------------------------------------
(* Exit and Portfolio Equity *)

\* Mutant: only the set of positions is compared, not their fields.
MonitorCoversIds == DOMAIN monitor = Active(state)

\* merge_authoritative_monitor: exactly the active positions, in agreement with
\* the Fill Agent's columns.
MonitorAgrees ==
  /\ DOMAIN monitor = Active(state)
  /\ \A p \in Active(state) : /\ monitor[p].status = state[p].status
                              /\ monitor[p].quantity = state[p].quantity

\* validate_state_for_exit_decisions
Decidable == \A p \in Active(state) : state[p].quantity > 0

\* exit_decision_for_row
ExitAction(p) ==
  CASE p \in Closed(state) -> "hold"
    [] p \in Active(state) /\ state[p].flag -> "review"
    [] p \in Active(state) /\ ~state[p].flag /\ monitor[p].price >= Target -> "take_profit"
    [] p \in Active(state) /\ ~state[p].flag /\ monitor[p].price <= Stop -> "close"
    [] OTHER -> "hold"

\* run_exit_agent
ExitAgent ==
  /\ pc = "exit"
  /\ IF MonitorAgrees /\ Decidable
       THEN exits' = [run |-> run, advice |-> [p \in Rows(state) |-> ExitAction(p)]] /\ pc' = "equity"
       ELSE pc' = "idle" /\ UNCHANGED exits
  /\ UNCHANGED <<run, books, snapshot, report, monitor, alerts, equity, edits>>

OpenMarketValue ==
  MapThenSumSet(LAMBDA p : monitor[p].quantity * monitor[p].price, DOMAIN monitor)

Snapshot == [run |-> run, cash |-> cash, value |-> OpenMarketValue,
             total |-> cash + OpenMarketValue]

\* run_portfolio_equity_agent, up to the write of the history.
EquityHistory ==
  /\ pc = "equity"
  /\ IF MonitorAgrees
       THEN history' = Append(history, Snapshot) /\ pc' = "summary"
       ELSE pc' = "idle" /\ UNCHANGED history
  /\ UNCHANGED <<run, books, snapshot, report, monitor, alerts, exits, summary, sidecar, edits>>

EquitySummary ==
  /\ pc = "summary" /\ pc' = "sidecar"
  /\ summary' = Summary(history)
  /\ UNCHANGED <<run, books, snapshot, report, monitor, alerts, exits, history, sidecar, edits>>

EquitySidecar ==
  /\ pc = "sidecar" /\ pc' = "journal"
  /\ sidecar' = [sidecar EXCEPT !.equity = @ \cup {Last(history)}]
  /\ UNCHANGED <<run, books, snapshot, report, monitor, alerts, exits, history, summary, edits>>

----------------------------------------------------------------------------

\* Once a check that passed has seen a position closed, no later snapshot shows
\* it reopened, gone, or with another quantity or result: whatever happens to
\* the file between two checks, the record of the past the checks compare with
\* is frozen (run_lifecycle_integrity_agent, write_snapshot).
ClosedStaysFrozen ==
  [][snapshot' # snapshot => \A p \in Closed(Previous) :
       /\ snapshot'[p] # None
       /\ snapshot'[p].status = "closed"
       /\ snapshot'[p].quantity = Previous[p].quantity
       /\ snapshot'[p].pnl = Previous[p].pnl]_vars

\* An equity row values the positions the books hold at that moment, each at the
\* mark of this run, however the books changed since they were marked
\* (run_portfolio_equity_agent, merge_authoritative_monitor).
EquityCountsBooks ==
  [][history' # history => Last(history').value =
       MapThenSumSet(LAMBDA p : state[p].quantity * monitor[p].price, Active(state))]_vars
============================================================================
