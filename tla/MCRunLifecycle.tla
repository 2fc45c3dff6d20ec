--------------------------- MODULE MCRunLifecycle ---------------------------
(* Instance of RunLifecycle for model checking. *)
EXTENDS RunLifecycle
=============================================================================
