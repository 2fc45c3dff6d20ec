--------------------------- MODULE MCOrderEvidence ---------------------------
(* Limits scaled down in the order of the real ones; the clock runs past all  *)
(* of them.                                                                   *)
EXTENDS OrderEvidence
=============================================================================
