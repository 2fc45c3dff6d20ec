-------------------------- MODULE ExecutionJournal --------------------------
(***************************************************************************)
(* The append-only execution journal of the Demo pilot: one chain of rows,   *)
(* each row a phase of one command.  Rows are identified by (command, phase, *)
(* identity), so appending a row again changes nothing.  A command's rows    *)
(* are modelled by the set of its phases.                                    *)
(* Source: agents/journal_agent/execution_journal.py.                        *)
(***************************************************************************)

Phases == {"intent", "dispatch", "outcome", "reconciliation"}

\* The order _read enforces on the rows of one command.
MayAppend(seen, phase) ==
  CASE phase = "intent"         -> seen = {}
    [] phase = "dispatch"       -> "intent" \in seen /\ "reconciliation" \notin seen
    [] phase = "outcome"        -> "dispatch" \in seen /\ "reconciliation" \notin seen
    [] phase = "reconciliation" -> "outcome" \in seen

\* _append: a row that is there already is returned as it is.
Append(seen, phase) ==
  IF phase \notin seen /\ MayAppend(seen, phase) THEN seen \cup {phase} ELSE seen

\* reconstruct and reconcile_finite write what is missing, in this order.
NextPhase(seen) ==
  CASE "intent" \notin seen   -> "intent"
    [] "dispatch" \notin seen -> "dispatch"
    [] "outcome" \notin seen  -> "outcome"
    [] OTHER                  -> "reconciliation"

\* terminal: the row the ledger's completion refers to.
Terminal(seen) == "reconciliation" \in seen
=============================================================================
