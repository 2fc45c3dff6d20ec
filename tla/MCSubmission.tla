---------------------------- MODULE MCSubmission -----------------------------
(***************************************************************************)
(* Small instances of Submission for TLC.                                   *)
(***************************************************************************)
EXTENDS Submission, TLC

MCExpiry == [i \in Intents |-> MaxTime]
WorkerSymmetry == Permutations(Workers)
=============================================================================
