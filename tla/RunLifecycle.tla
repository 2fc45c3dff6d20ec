---------------------------- MODULE RunLifecycle ----------------------------
(***************************************************************************)
(* The life of a pipeline run: the start guard and the status column of    *)
(* run_history.csv, the two-phase finalizer with its reconciliation row,   *)
(* SQLite mirror, artifact manifest and finalization record, the layered   *)
(* recording of a failure, and the resolver an operator runs after an      *)
(* interruption.  Every durable write is a step of its own, so a process   *)
(* can be killed between any two of them.                                  *)
(*                                                                         *)
(* Each read-modify-write of one row is one step.  Starting is not: the    *)
(* code reads the whole file, checks it (hashing every artifact) and then  *)
(* writes the copy it read.  The same holds of the resolver.               *)
(***************************************************************************)
EXTENDS Integers, Sequences, FiniteSets

CONSTANTS
    Runs,        \* run ids the pipeline may be given
    Boot,        \* BOOTSTRAP_RUN_ID
    MaxLive,     \* processes (pipelines and resolver) alive at one time
    MaxFaults    \* bound on kills and on raised I/O errors

ASSUME RunAssumption ==
    /\ IsFiniteSet(Runs) /\ Boot \notin Runs
    /\ MaxLive \in Nat \ {0} /\ MaxFaults \in Nat

VARIABLES
    history,     \* rows of run_history.csv, in file order
    recon,       \* status column of run_reconciliation_summary.csv, by run
    mirror,      \* the SQLite copy of those two status columns
    artifacts,   \* the run whose agents last wrote the other artifacts
    captured,    \* runs that have a pre_economic_state.json
    manifest,    \* artifact_manifest.json: what its checksums were taken of
    record,      \* outcome in run_finalization.json
    audit,       \* interrupted_run_resolutions.json: <<run, status>>
    pc,          \* where the pipeline process of each run is
    snap,        \* the run history that process read when it started
    resolver,    \* the resolver process
    faults       \* kills and I/O errors so far

proof == <<captured, manifest, record>>

files == <<history, recon, mirror, artifacts, proof, audit>>

vars == <<files, pc, snap, resolver, faults>>

Ids == Runs \cup {Boot}

RunStatuses == {"started", "validating", "succeeded", "failed"}

Unresolved == {"started", "validating"}

Stopped == {"idle", "refused", "done", "failed", "killed"}

FinalizerSteps == {"begin", "reconcile", "validate", "complete", "terminal",
                   "seal", "record", "verify"}

Rows(h, r) == {k \in DOMAIN h : h[k].run = r}

HasRow(h, r) == Cardinality(Rows(h, r)) = 1

Status(h, r) == h[CHOOSE k \in Rows(h, r) : TRUE].status

SetStatus(h, r, s) ==
    [k \in DOMAIN h |-> IF h[k].run = r THEN [run |-> r, status |-> s]
                                        ELSE h[k]]

Live == {r \in Runs : pc[r] \notin Stopped}

Busy == Cardinality(Live) + (IF resolver.pc = "idle" THEN 0 ELSE 1)

NoManifest == [history |-> <<>>, recon |-> <<>>, artifacts |-> Boot]

Sealed == [history |-> history, recon |-> recon, artifacts |-> artifacts]

\* A finalization record proves success while the manifest it names still
\* matches every artifact and both control rows say succeeded.
ProofValid(r) ==
    /\ record[r] = "succeeded"
    /\ manifest[r] = Sealed
    /\ HasRow(history, r) /\ Status(history, r) = "succeeded"
    /\ recon[r] = "succeeded"

\* CSV/SQLite parity of the control rows of one run.
Parity(r) ==
    /\ mirror[r].recon = recon[r]
    /\ mirror[r].history =
         IF HasRow(history, r) THEN Status(history, r) ELSE "none"

LatestProved(r) ==
    LET prior == {k \in DOMAIN history : history[k].run # r}
    IN  prior # {} =>
          LET last == history[CHOOSE k \in prior : \A j \in prior : j <= k]
          IN  last.status = "succeeded" =>
                ProofValid(last.run) /\ Parity(last.run)

\* Mutant: a start asks that earlier rows are resolved, not for their proof.
StartAllowedUnproved(r) ==
    \A k \in DOMAIN history :
      history[k].run # r => history[k].status \notin Unresolved

StartAllowed(r) ==
    /\ \A k \in DOMAIN history :
         history[k].run # r => history[k].status \notin Unresolved
    /\ LatestProved(r)

Init ==
    /\ history = <<[run |-> Boot, status |-> "succeeded"]>>
    /\ recon = [r \in Ids |-> IF r = Boot THEN "succeeded" ELSE "none"]
    /\ mirror = [r \in Ids |-> IF r = Boot
                               THEN [history |-> "succeeded", recon |-> "succeeded"]
                               ELSE [history |-> "none", recon |-> "none"]]
    /\ artifacts = Boot
    /\ captured = {}
    /\ manifest = [r \in Ids |-> IF r = Boot THEN Sealed ELSE NoManifest]
    /\ record = [r \in Ids |-> IF r = Boot THEN "succeeded" ELSE "none"]
    /\ audit = {}
    /\ pc = [r \in Runs |-> "idle"]
    /\ snap = [r \in Runs |-> <<>>]
    /\ resolver = [pc |-> "idle"]
    /\ faults = 0

-----------------------------------------------------------------------------
Goto(r, l) == pc' = [pc EXCEPT ![r] = l]

\* An exception of the pipeline or the finalizer reaches _persist_failure.
Raise(r) == Goto(r, "fail_history")

Fault == faults < MaxFaults /\ faults' = faults + 1

\* The history row of r is written, and copied to SQLite unless that
\* best-effort upsert is skipped.
WriteHistory(r, h) ==
    /\ history' = h
    /\ \/ /\ mirror' = [mirror EXCEPT ![r].history = Status(h, r)]
          /\ UNCHANGED faults
       \/ UNCHANGED mirror /\ Fault

\* The reconciliation row of r is rebuilt from its history row.
WriteRecon(r) ==
    /\ recon' = [recon EXCEPT ![r] = Status(history, r)]
    /\ \/ /\ mirror' = [mirror EXCEPT ![r].recon = Status(history, r)]
          /\ UNCHANGED faults
       \/ UNCHANGED mirror /\ Fault

-----------------------------------------------------------------------------
(***************************************************************************)
(* Starting.                                                               *)
(***************************************************************************)

\* start_run_record reads the history it will later append to.  A run id
\* that was tried before may be tried again.
ReadHistory(r) ==
    /\ pc[r] \in Stopped
    /\ Busy < MaxLive
    /\ snap' = [snap EXCEPT ![r] = history]
    /\ Goto(r, "check")
    /\ UNCHANGED <<files, resolver, faults>>

\* Mutant: the id is not looked for in the history that was read.
CheckStartNoDuplicates(r) ==
    /\ pc[r] = "check"
    /\ IF StartAllowed(r)
         THEN Goto(r, "append") /\ UNCHANGED snap
         ELSE Goto(r, "refused") /\ snap' = [snap EXCEPT ![r] = <<>>]
    /\ UNCHANGED <<files, resolver, faults>>

\* The guard reads the file again; the duplicate check uses the first copy.
CheckStart(r) ==
    /\ pc[r] = "check"
    /\ IF StartAllowed(r) /\ Rows(snap[r], r) = {}
         THEN Goto(r, "append") /\ UNCHANGED snap
         ELSE Goto(r, "refused") /\ snap' = [snap EXCEPT ![r] = <<>>]
    /\ UNCHANGED <<files, resolver, faults>>

AppendRow(r) ==
    /\ pc[r] = "append"
    /\ WriteHistory(r, Append(snap[r], [run |-> r, status |-> "started"]))
    /\ snap' = [snap EXCEPT ![r] = <<>>]
    /\ Goto(r, "capture")
    /\ UNCHANGED <<recon, artifacts, proof, audit, resolver>>

\* capture_pre_economic_state never replaces an earlier capture.
CaptureState(r) ==
    /\ pc[r] = "capture"
    /\ captured' = captured \cup {r}
    /\ IF r \in captured THEN Raise(r) ELSE Goto(r, "agents")
    /\ UNCHANGED <<history, recon, mirror, artifacts, manifest, record, audit,
                   snap, resolver, faults>>

\* The agents run one after the other; the first that fails stops the run
\* with part of the artifacts written.
RunAgents(r) ==
    /\ pc[r] = "agents"
    /\ artifacts' = r
    /\ \/ Goto(r, "begin") /\ UNCHANGED faults
       \/ Raise(r) /\ Fault
    /\ UNCHANGED <<history, recon, mirror, proof, audit, snap, resolver>>

-----------------------------------------------------------------------------
(***************************************************************************)
(* finalize_run.                                                           *)
(***************************************************************************)

\* begin_run_validation.  A run that already has a record is only verified
\* against it, and raises: its row cannot say succeeded at this point.
BeginValidation(r) ==
    /\ pc[r] = "begin"
    /\ IF record[r] = "none" /\ HasRow(history, r)
                           /\ Status(history, r) = "started"
         THEN /\ WriteHistory(r, SetStatus(history, r, "validating"))
              /\ Goto(r, "reconcile")
         ELSE Raise(r) /\ UNCHANGED <<history, mirror, faults>>
    /\ UNCHANGED <<recon, artifacts, proof, audit, snap, resolver>>

Reconcile(r) ==
    /\ pc[r] = "reconcile"
    /\ IF HasRow(history, r)
         THEN WriteRecon(r) /\ Goto(r, "validate")
         ELSE Raise(r) /\ UNCHANGED <<recon, mirror, faults>>
    /\ UNCHANGED <<history, artifacts, proof, audit, snap, resolver>>

\* The checks between the two phases; parity is the last of them.
Validate(r) ==
    /\ pc[r] = "validate"
    /\ IF Parity(r) THEN Goto(r, "complete") ELSE Raise(r)
    /\ UNCHANGED <<files, snap, resolver, faults>>

CompleteRow(r) ==
    /\ pc[r] = "complete"
    /\ IF HasRow(history, r) /\ Status(history, r) = "validating"
         THEN /\ WriteHistory(r, SetStatus(history, r, "succeeded"))
              /\ Goto(r, "terminal")
         ELSE Raise(r) /\ UNCHANGED <<history, mirror, faults>>
    /\ UNCHANGED <<recon, artifacts, proof, audit, snap, resolver>>

ReconcileTerminal(r) ==
    /\ pc[r] = "terminal"
    /\ IF HasRow(history, r)
         THEN WriteRecon(r) /\ Goto(r, "seal")
         ELSE Raise(r) /\ UNCHANGED <<recon, mirror, faults>>
    /\ UNCHANGED <<history, artifacts, proof, audit, snap, resolver>>

SealManifest(r) ==
    /\ pc[r] = "seal"
    /\ IF Parity(r)
         THEN manifest' = [manifest EXCEPT ![r] = Sealed] /\ Goto(r, "record")
         ELSE Raise(r) /\ UNCHANGED manifest
    /\ UNCHANGED <<history, recon, mirror, artifacts, captured, record,
                   audit, snap, resolver, faults>>

WriteRecord(r) ==
    /\ pc[r] = "record"
    /\ record' = [record EXCEPT ![r] = "succeeded"]
    /\ Goto(r, "verify")
    /\ UNCHANGED <<history, recon, mirror, artifacts, captured, manifest,
                   audit, snap, resolver, faults>>

VerifyRecord(r) ==
    /\ pc[r] = "verify"
    /\ IF ProofValid(r) THEN Goto(r, "done") ELSE Raise(r)
    /\ UNCHANGED <<files, snap, resolver, faults>>

\* Any step of the finalizer may raise before it writes.
FinalizerRaises(r) ==
    /\ pc[r] \in FinalizerSteps
    /\ Raise(r) /\ Fault
    /\ UNCHANGED <<files, snap, resolver>>

-----------------------------------------------------------------------------
(***************************************************************************)
(* _persist_failure and record_failed_finalization: each layer swallows    *)
(* the error of the one before it.                                         *)
(***************************************************************************)

\* force_fail_run_record, whatever the status of the row.
ForceFail(r, next) ==
    /\ Goto(r, next)
    /\ IF HasRow(history, r) /\ Status(history, r) # "failed"
         THEN WriteHistory(r, SetStatus(history, r, "failed"))
         ELSE UNCHANGED <<history, mirror, faults>>
    /\ UNCHANGED <<recon, artifacts, proof, audit, snap, resolver>>

FailHistory(r) == pc[r] = "fail_history" /\ ForceFail(r, "fail_recon")

FailRecon(r) ==
    /\ pc[r] = "fail_recon"
    /\ Goto(r, "fail_record")
    /\ IF HasRow(history, r) THEN WriteRecon(r)
                             ELSE UNCHANGED <<recon, mirror, faults>>
    /\ UNCHANGED <<history, artifacts, proof, audit, snap, resolver>>

FailRecord(r) ==
    /\ pc[r] = "fail_record"
    /\ record' = [record EXCEPT ![r] = "failed"]
    /\ Goto(r, "fail_event")
    /\ UNCHANGED <<history, recon, mirror, artifacts, captured, manifest,
                   audit, snap, resolver, faults>>

\* The record could not be written: the history row is the last resort.
FailFallback(r) == pc[r] = "fail_fallback" /\ ForceFail(r, "fail_event")

\* The run_failed event goes to event_log.csv, one of the artifacts.
FailEvent(r) ==
    /\ pc[r] = "fail_event"
    /\ artifacts' = r
    /\ Goto(r, "failed")
    /\ UNCHANGED <<history, recon, mirror, proof, audit, snap, resolver, faults>>

NextLayer ==
    [fail_history |-> "fail_recon", fail_recon |-> "fail_record",
     fail_record |-> "fail_fallback", fail_fallback |-> "fail_event",
     fail_event |-> "failed"]

LayerRaises(r) ==
    /\ pc[r] \in DOMAIN NextLayer
    /\ Goto(r, NextLayer[pc[r]]) /\ Fault
    /\ UNCHANGED <<files, snap, resolver>>

Kill(r) ==
    /\ r \in Live
    /\ Goto(r, "killed") /\ Fault
    /\ snap' = [snap EXCEPT ![r] = <<>>]
    /\ UNCHANGED <<files, resolver>>

-----------------------------------------------------------------------------
(***************************************************************************)
(* resolve_interrupted_run: everything is read first, then the history,    *)
(* the reconciliation summary, SQLite and the audit trail are written.     *)
(***************************************************************************)

\* Mutant: a finalization record is enough for success.
ResolvedByRecord(r) ==
    IF record[r] = "succeeded" THEN "succeeded" ELSE "failed"

\* Mutant: a run without proof keeps its status.
ResolvedAsFound(r) ==
    IF ProofValid(r) THEN "succeeded" ELSE Status(history, r)

ResolvedStatus(r) ==
    IF ProofValid(r) /\ Status(history, r) # "failed" THEN "succeeded"
                                                     ELSE "failed"

\* The summary file exists from the bootstrap on, so a run without exactly
\* one row in it is refused before anything is written.
ResolveRead(r) ==
    /\ resolver.pc = "idle"
    /\ Busy < MaxLive
    /\ HasRow(history, r)
    /\ recon[r] # "none"
    /\ resolver' = [pc |-> "history", run |-> r, status |-> ResolvedStatus(r),
                    history |-> SetStatus(history, r, ResolvedStatus(r)),
                    recon |-> [recon EXCEPT ![r] = ResolvedStatus(r)]]
    /\ UNCHANGED <<files, pc, snap, faults>>

ResolveHistory ==
    /\ resolver.pc = "history"
    /\ history' = resolver.history
    /\ resolver' = [resolver EXCEPT !.pc = "recon"]
    /\ UNCHANGED <<recon, mirror, artifacts, proof, audit, pc, snap, faults>>

ResolveRecon ==
    /\ resolver.pc = "recon"
    /\ recon' = resolver.recon
    /\ resolver' = [resolver EXCEPT !.pc = "mirror"]
    /\ UNCHANGED <<history, mirror, artifacts, proof, audit, pc, snap, faults>>

\* Mutant: the resolver mirrors the history row alone.
ResolveMirrorHistory ==
    /\ resolver.pc = "mirror"
    /\ mirror' = [mirror EXCEPT ![resolver.run].history = resolver.status]
    /\ resolver' = [resolver EXCEPT !.pc = "audit"]
    /\ UNCHANGED <<history, recon, artifacts, proof, audit, pc, snap, faults>>

ResolveMirror ==
    /\ resolver.pc = "mirror"
    /\ mirror' = [mirror EXCEPT ![resolver.run] =
                    [history |-> resolver.status, recon |-> resolver.status]]
    /\ resolver' = [resolver EXCEPT !.pc = "audit"]
    /\ UNCHANGED <<history, recon, artifacts, proof, audit, pc, snap, faults>>

ResolveAudit ==
    /\ resolver.pc = "audit"
    /\ audit' = audit \cup {<<resolver.run, resolver.status>>}
    /\ resolver' = [pc |-> "idle"]
    /\ UNCHANGED <<history, recon, mirror, artifacts, proof, pc, snap, faults>>

\* The resolver is killed or raises (an unwritable database, say).
ResolverStops ==
    /\ resolver.pc # "idle"
    /\ resolver' = [pc |-> "idle"] /\ Fault
    /\ UNCHANGED <<files, pc, snap>>

-----------------------------------------------------------------------------
PipelineStep(r) ==
    \/ CheckStart(r) \/ AppendRow(r) \/ CaptureState(r) \/ RunAgents(r)
    \/ BeginValidation(r) \/ Reconcile(r) \/ Validate(r) \/ CompleteRow(r)
    \/ ReconcileTerminal(r) \/ SealManifest(r) \/ WriteRecord(r)
    \/ VerifyRecord(r)
    \/ FailHistory(r) \/ FailRecon(r) \/ FailRecord(r) \/ FailFallback(r)
    \/ FailEvent(r)

PipelineFault(r) == FinalizerRaises(r) \/ LayerRaises(r) \/ Kill(r)

ResolverStep ==
    ResolveHistory \/ ResolveRecon \/ ResolveMirror \/ ResolveAudit

Next ==
    \/ \E r \in Runs : ReadHistory(r) \/ PipelineStep(r) \/ PipelineFault(r)
    \/ \E r \in Ids : ResolveRead(r)
    \/ ResolverStep \/ ResolverStops

Spec == Init /\ [][Next]_vars

\* A process that is not killed goes on.  The operator, who may first try
\* other starts (strong fairness), runs the resolver for a run it accepts
\* (docs/operator_runbook.md, step 4 of the triage).
FairSpec ==
    /\ Spec
    /\ \A r \in Runs : WF_vars(PipelineStep(r)) /\ SF_vars(ResolveRead(r))
    /\ WF_vars(ResolverStep)

-----------------------------------------------------------------------------
(***************************************************************************)
(* Properties.                                                             *)
(***************************************************************************)

HistoryRows == [run : Ids, status : RunStatuses]

\* The statuses, process states and proofs are among the values the code
\* writes, and no run has two rows in run_history.csv.
TypeOK ==
    /\ history \in Seq(HistoryRows)
    /\ \A r \in Ids : Cardinality(Rows(history, r)) <= 1
    /\ recon \in [Ids -> RunStatuses \cup {"none"}]
    /\ mirror \in [Ids -> [history : RunStatuses \cup {"none"},
                           recon : RunStatuses \cup {"none"}]]
    /\ artifacts \in Ids /\ captured \in SUBSET Runs
    /\ record \in [Ids -> {"none", "succeeded", "failed"}]
    /\ DOMAIN manifest = Ids
    /\ audit \in SUBSET (Ids \X {"succeeded", "failed"})
    /\ DOMAIN pc = Runs /\ DOMAIN snap = Runs
    /\ faults \in 0..MaxFaults

\* Whatever was killed or raised before, once a run has been let in every
\* other run is terminal, and each one that says succeeded has a complete
\* finalization record and a succeeded reconciliation row: the start guard
\* looks only at the latest row, and still vouches for all of them.
StartsAreClean ==
    \A r \in Runs : pc[r] \in {"append", "capture", "agents"} =>
        \A k \in DOMAIN history : history[k].run # r =>
            /\ history[k].status \notin Unresolved
            /\ history[k].status = "succeeded" =>
                 record[history[k].run] = "succeeded"
                 /\ recon[history[k].run] = "succeeded"

\* A run recorded failed stays failed: neither a late step of its own
\* finalizer nor the resolver turns it into a success.
FailedIsFinal ==
    [][\A r \in Ids :
         (HasRow(history, r) /\ Status(history, r) = "failed")
           => (HasRow(history, r)' /\ Status(history, r)' = "failed")]_vars

\* The audit trail of the resolver never contradicts the run history: a run
\* it lists as resolved to failed is failed there, in the reconciliation
\* summary and in SQLite.
AuditIsTrue ==
    \A r \in Ids : <<r, "failed">> \in audit =>
        /\ Status(history, r) = "failed"
        /\ recon[r] = "failed" /\ mirror[r].recon = "failed"

\* Under the runbook's triage, an interrupted run that reached its
\* reconciliation row is eventually terminal.
InterruptedRunResolves ==
    \A r \in Runs :
        (/\ pc[r] = "killed" /\ HasRow(history, r)
         /\ Status(history, r) \in Unresolved /\ recon[r] # "none")
           ~> (HasRow(history, r) /\ Status(history, r) \notin Unresolved)
=============================================================================
