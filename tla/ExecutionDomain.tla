--------------------------- MODULE ExecutionDomain ---------------------------
(***************************************************************************)
(* The vocabulary of the Demo execution path: the lifecycle states of a     *)
(* broker command and the table of legal transitions between them.          *)
(* Source: execution/domain.py.                                             *)
(***************************************************************************)

CommandStates ==
  { "proposed", "risk_rejected", "awaiting_approval", "approved",
    "submission_pending", "acknowledged", "partially_filled", "filled",
    "rejected", "cancel_pending", "cancelled", "unknown", "reconciling",
    "reconciled" }

\* ALLOWED_TRANSITIONS.  "reconciled" is the only state without a successor.
AllowedTransitions(s) ==
  CASE s = "proposed"           -> {"risk_rejected", "awaiting_approval"}
    [] s = "risk_rejected"      -> {"reconciled"}
    [] s = "awaiting_approval"  -> {"approved", "risk_rejected"}
    [] s = "approved"           -> {"submission_pending"}
    [] s = "submission_pending" -> {"acknowledged", "rejected", "unknown"}
    [] s = "acknowledged"       -> {"partially_filled", "filled", "rejected",
                                    "cancel_pending", "unknown"}
    [] s = "partially_filled"   -> {"partially_filled", "filled",
                                    "cancel_pending", "unknown", "reconciled"}
    [] s = "filled"             -> {"reconciled"}
    [] s = "rejected"           -> {"reconciled"}
    [] s = "cancel_pending"     -> {"cancelled", "partially_filled", "filled",
                                    "unknown"}
    [] s = "cancelled"          -> {"reconciled"}
    [] s = "unknown"            -> {"reconciling"}
    [] s = "reconciling"        -> {"reconciled", "acknowledged",
                                    "partially_filled", "filled", "rejected",
                                    "cancelled", "unknown"}
    [] OTHER                    -> {}

\* The states reconcile_command first moves to "unknown".
InFlightStates ==
  {"submission_pending", "acknowledged", "partially_filled", "cancel_pending"}
=============================================================================
