------------------------- MODULE MCOperatorRecovery -------------------------
(* Instance of OperatorRecovery for model checking. *)
EXTENDS OperatorRecovery
=============================================================================
