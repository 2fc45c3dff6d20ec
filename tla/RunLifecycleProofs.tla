------------------------- MODULE RunLifecycleProofs --------------------------
(*****************************************************************************)
(* Safety of a run's lifecycle and of its resolution for any number of       *)
(* runs, faults and rows, under the runbook's rule that one process works    *)
(* at a time (MaxLive = 1).                                                  *)
(*                                                                           *)
(* A start looks at the latest row only. StartsAreClean therefore needs the  *)
(* rows before it to be settled as well (SettledInv), and the row that a     *)
(* run works on to be the latest until it ends (RunInv), which holds         *)
(* because nobody else works meanwhile (Serial). AuditIsTrue is made of      *)
(* writes to four files, in an order; ResolverInv says which of them the     *)
(* resolver has done, AuditInv that nothing undoes them once the audit row   *)
(* is there.                                                                 *)
(*****************************************************************************)
EXTENDS RunLifecycle, FiniteSetTheorems, SequenceTheorems, TLAPS

\* The control points at which a run has its row.
Entered == {"capture", "agents", "begin", "reconcile", "validate", "complete",
            "terminal", "seal", "record", "verify", "fail_history", "fail_recon",
            "fail_record", "fail_fallback", "fail_event"}

\* What the variables hold.
Points == Stopped \cup {"check", "append"} \cup Entered

Statuses == RunStatuses \cup {"none"}

Resolvers ==
    [pc : {"history", "recon", "mirror", "audit"}, run : Ids,
     status : {"succeeded", "failed"}, history : Seq(HistoryRows),
     recon : [Ids -> Statuses]]

\* No run has two rows.
Unique(h) == \A i, j \in DOMAIN h : h[i].run = h[j].run => i = j

\* The history is never empty and has one row for each run.
TypeInv ==
    /\ history \in Seq(HistoryRows) /\ Unique(history) /\ history # <<>>
    /\ recon \in [Ids -> Statuses]
    /\ mirror \in [Ids -> [history : Statuses, recon : Statuses]]
    /\ artifacts \in Ids /\ captured \in SUBSET Runs
    /\ record \in [Ids -> {"none", "succeeded", "failed"}]
    /\ DOMAIN manifest = Ids
    /\ audit \in SUBSET (Ids \X {"succeeded", "failed"})
    /\ pc \in [Runs -> Points] /\ DOMAIN snap = Runs
    /\ resolver \in [pc : {"idle"}] \cup Resolvers
    /\ faults \in 0..MaxFaults

\* One process at a time.
Serial ==
    /\ \A r, s \in Runs : pc[r] \notin Stopped /\ pc[s] \notin Stopped => r = s
    /\ resolver.pc # "idle" => \A r \in Runs : pc[r] \in Stopped

\* The history h has run r as s.
RowIs(h, r, s) == \E k \in DOMAIN h : h[k] = [run |-> r, status |-> s]

\* A row that a later start relied on.
SettledRow(k) ==
    /\ history[k].status \notin Unresolved
    /\ history[k].status = "succeeded" =>
         /\ record[history[k].run] = "succeeded"
         /\ recon[history[k].run] = "succeeded"

\* The guard looks at the latest row only, so all the others must be settled.
SettledInv == \A k \in 1..(Len(history) - 1) : SettledRow(k)

\* Until its row is appended a run holds the history it read; afterwards its
\* row is the last one.
RunInv ==
    \A r \in Runs :
      /\ pc[r] \in {"check", "append"} => snap[r] = history
      /\ pc[r] = "append" => /\ \A k \in DOMAIN history : history[k].run # r
                             /\ SettledRow(Len(history))
      /\ pc[r] \in Entered => history[Len(history)].run = r

\* What the audit trail lists as failed is failed everywhere, for good: its id
\* is refused at the start guard.
AuditInv ==
    \A r \in Ids : <<r, "failed">> \in audit =>
      /\ RowIs(history, r, "failed")
      /\ recon[r] = "failed" /\ mirror[r].recon = "failed"
      /\ r \in Runs => pc[r] \in Stopped \cup {"check"}

\* How far the resolver is.
ResolverInv ==
    resolver.pc # "idle" =>
      LET r == resolver.run  s == resolver.status IN
      /\ resolver.pc = "history" =>
           /\ \E k \in DOMAIN history : history[k].run = r
           /\ resolver.history = SetStatus(history, r, s)
           /\ RowIs(history, r, "failed") => s = "failed"
      /\ resolver.pc \in {"history", "recon"} => resolver.recon = [recon EXCEPT ![r] = s]
      /\ s = "succeeded" => /\ record[r] = "succeeded" /\ recon[r] = "succeeded"
                            /\ RowIs(history, r, "succeeded")
      /\ resolver.pc # "history" => RowIs(history, r, s)
      /\ resolver.pc \in {"mirror", "audit"} => recon[r] = s
      /\ resolver.pc = "audit" => mirror[r].recon = s

\* The inductive invariant.
IInv == TypeInv /\ Serial /\ SettledInv /\ RunInv /\ AuditInv /\ ResolverInv

------------------------------------------------------------------------------
\* With unique rows, the row of a run is the one that is looked up.
LEMMA RowFacts ==
    ASSUME NEW h \in Seq(HistoryRows), Unique(h), NEW r
    PROVE  /\ Cardinality(Rows(h, r)) <= 1
           /\ HasRow(h, r) <=> \E k \in DOMAIN h : h[k].run = r
           /\ \A k \in DOMAIN h : h[k].run = r =>
                HasRow(h, r) /\ Status(h, r) = h[k].status
<1>1. CASE \E k \in DOMAIN h : h[k].run = r
  <2>1. PICK k \in DOMAIN h : h[k].run = r
    BY <1>1
  <2>2. Rows(h, r) = {k}
    BY <2>1 DEF Rows, Unique
  <2>3. Cardinality(Rows(h, r)) = 1
    BY Zenon, <2>2, FS_Singleton
  <2>4. Status(h, r) = h[k].status
    BY <2>2 DEF Status
  <2>5. \A j \in DOMAIN h : h[j].run = r => j = k
    BY <2>1 DEF Unique
  <2> QED
    BY <2>1, <2>3, <2>4, <2>5 DEF HasRow
<1>2. CASE ~ \E k \in DOMAIN h : h[k].run = r
  <2>1. Rows(h, r) = {}
    BY <1>2 DEF Rows
  <2>2. Cardinality(Rows(h, r)) = 0
    BY <2>1, FS_EmptySet
  <2> QED
    BY <1>2, <2>2 DEF HasRow
<1> QED
  BY <1>1, <1>2

\* The same, in terms of the status a row states.
LEMMA RowIsFacts ==
    ASSUME NEW h \in Seq(HistoryRows), Unique(h), NEW r, NEW s
    PROVE  RowIs(h, r, s) <=> HasRow(h, r) /\ Status(h, r) = s
<1>1. \A k \in DOMAIN h : h[k] \in HistoryRows
  OBVIOUS
<1>2. \A k \in DOMAIN h : h[k] = [run |-> r, status |-> s]
                            <=> h[k].run = r /\ h[k].status = s
  BY <1>1 DEF HistoryRows
<1> QED
  BY <1>2, RowFacts DEF RowIs

\* SetStatus changes the status of one row and nothing else.
LEMMA SetStatusFacts ==
    ASSUME NEW h \in Seq(HistoryRows), Unique(h), NEW r \in Ids, NEW s \in RunStatuses,
           NEW g, g = SetStatus(h, r, s)
    PROVE  /\ g \in Seq(HistoryRows) /\ Unique(g)
           /\ Len(g) = Len(h) /\ DOMAIN g = DOMAIN h
           /\ \A k \in DOMAIN h : /\ g[k].run = h[k].run
                                  /\ h[k].run # r => g[k] = h[k]
                                  /\ h[k].run = r => g[k] = [run |-> r, status |-> s]
<1>1. DOMAIN g = 1..Len(h) /\ Len(h) \in Nat
  BY DEF SetStatus
<1>2. \A k \in 1..Len(h) :
        g[k] = IF h[k].run = r THEN [run |-> r, status |-> s] ELSE h[k]
  BY DEF SetStatus
<1>3. \A k \in 1..Len(h) : g[k] \in HistoryRows
  <2>1. \A k \in 1..Len(h) : h[k] \in HistoryRows
    OBVIOUS
  <2>2. [run |-> r, status |-> s] \in HistoryRows
    BY DEF HistoryRows
  <2> QED
    BY <1>2, <2>1, <2>2
<1>4. g = [k \in 1..Len(h) |-> g[k]]
  BY DEF SetStatus
<1>5. g \in Seq(HistoryRows) /\ Len(g) = Len(h)
  BY <1>1, <1>3, <1>4
<1>6. \A k \in DOMAIN h : /\ g[k].run = h[k].run
                          /\ h[k].run # r => g[k] = h[k]
                          /\ h[k].run = r => g[k] = [run |-> r, status |-> s]
  BY <1>2
<1>7. Unique(g)
  BY <1>1, <1>6 DEF Unique
<1> QED
  BY <1>1, <1>5, <1>6, <1>7

\* The same for the run history.
LEMMA StatusSet ==
    ASSUME TypeInv, NEW r \in Ids, NEW s \in RunStatuses,
           history' = SetStatus(history, r, s)
    PROVE  /\ history' \in Seq(HistoryRows) /\ Unique(history') /\ history' # <<>>
           /\ Len(history') = Len(history) /\ DOMAIN history' = DOMAIN history
           /\ \A k \in DOMAIN history :
                /\ history'[k].run = history[k].run
                /\ history[k].run # r => history'[k] = history[k]
                /\ history[k].run = r => history'[k] = [run |-> r, status |-> s]
<1>h. /\ history \in Seq(HistoryRows) /\ Unique(history) /\ history # <<>>
  BY DEF TypeInv
<1>1. /\ history' \in Seq(HistoryRows) /\ Unique(history')
      /\ Len(history') = Len(history) /\ DOMAIN history' = DOMAIN history
      /\ \A k \in DOMAIN history :
           /\ history'[k].run = history[k].run
           /\ history[k].run # r => history'[k] = history[k]
           /\ history[k].run = r => history'[k] = [run |-> r, status |-> s]
  BY <1>h, SetStatusFacts
<1> QED
  BY <1>h, <1>1

\* No process is alive when one more may start.
LEMMA NobodyBusy ==
    ASSUME MaxLive = 1, TypeInv, Busy < MaxLive
    PROVE  resolver.pc = "idle" /\ \A r \in Runs : pc[r] \in Stopped
<1>1. IsFiniteSet(Live)
  BY RunAssumption, FS_Subset DEF Live
<1>2. Cardinality(Live) \in Nat
  BY <1>1, FS_CardinalityType
<1>3. Cardinality(Live) = 0 /\ resolver.pc = "idle"
  BY <1>2 DEF Busy
<1>4. Live = {}
  BY <1>1, <1>3, FS_EmptySet
<1> QED
  BY <1>3, <1>4 DEF Live

\* A fault is counted.
LEMMA FaultType == TypeInv /\ Fault => faults' \in 0..MaxFaults
BY RunAssumption DEF TypeInv, Fault

------------------------------------------------------------------------------
\* A run that has its row works on that row, on its own records and on the
\* artifacts; nothing any other run depends on changes.
LEMMA RunFrame ==
    ASSUME IInv, NEW r \in Runs, pc[r] \in Entered,
           NEW l \in Entered \cup Stopped, Goto(r, l),
           \/ history' = history
           \/ \E s \in RunStatuses : history' = SetStatus(history, r, s),
           recon' \in [Ids -> Statuses],
           mirror' \in [Ids -> [history : Statuses, recon : Statuses]],
           record' \in [Ids -> {"none", "succeeded", "failed"}],
           \A q \in Ids \ {r} : /\ recon'[q] = recon[q] /\ mirror'[q] = mirror[q]
                                /\ record'[q] = record[q],
           artifacts' \in Ids, captured' \in SUBSET Runs,
           DOMAIN manifest' = Ids, faults' \in 0..MaxFaults,
           UNCHANGED <<audit, resolver>>,
           snap' = snap \/ snap' = [snap EXCEPT ![r] = <<>>]
    PROVE  IInv'
<1>t. TypeInv /\ Serial /\ SettledInv /\ RunInv /\ AuditInv
  BY DEF IInv
<1>i. r \in Ids /\ Runs \subseteq Ids
  BY DEF Ids
<1>h. /\ history \in Seq(HistoryRows) /\ Unique(history) /\ history # <<>>
      /\ Len(history) \in Nat \ {0} /\ DOMAIN history = 1..Len(history)
  BY <1>t DEF TypeInv
<1>1. /\ history' \in Seq(HistoryRows) /\ Unique(history') /\ history' # <<>>
      /\ Len(history') = Len(history) /\ DOMAIN history' = DOMAIN history
      /\ \A k \in DOMAIN history : /\ history'[k].run = history[k].run
                                   /\ history[k].run # r => history'[k] = history[k]
  <2>1. CASE history' = history
    BY <1>h, <2>1 DEF Unique
  <2>2. ASSUME NEW s \in RunStatuses, history' = SetStatus(history, r, s)
        PROVE  /\ history' \in Seq(HistoryRows) /\ Unique(history') /\ history' # <<>>
               /\ Len(history') = Len(history) /\ DOMAIN history' = DOMAIN history
               /\ \A k \in DOMAIN history :
                    /\ history'[k].run = history[k].run
                    /\ history[k].run # r => history'[k] = history[k]
    BY ZenonT(30), <1>t, <1>i, <2>2, StatusSet
  <2> QED
    BY <2>1, <2>2
<1>2. /\ pc' \in [Runs -> Points] /\ pc'[r] = l
      /\ \A q \in Runs : q # r => pc'[q] = pc[q]
  BY <1>t DEF TypeInv, Goto, Points
<1>3. TypeInv'
  <2>1. DOMAIN snap' = Runs
    BY <1>t DEF TypeInv
  <2> QED
    BY <1>t, <1>1, <1>2, <2>1 DEF TypeInv
<1>s. resolver.pc = "idle" /\ \A q \in Runs : q # r => pc[q] \in Stopped
  BY <1>t DEF Serial, Entered, Stopped
<1>4. Serial' /\ ResolverInv'
  BY <1>2, <1>s DEF Serial, ResolverInv
<1>5. history[Len(history)].run = r
  BY <1>t DEF RunInv
<1>6. \A k \in 1..(Len(history) - 1) : history[k].run # r /\ history[k].run \in Ids
  <2>1. \A k \in 1..Len(history) : history[k] \in HistoryRows
    BY <1>h
  <2>2. SUFFICES ASSUME NEW k \in 1..(Len(history) - 1)
                 PROVE  history[k].run # r /\ history[k].run \in Ids
    OBVIOUS
  <2>5. \A m \in Nat \ {0} : \A i \in 1..(m - 1) : i \in 1..m /\ m \in 1..m /\ i # m
    OBVIOUS
  <2>3. k \in DOMAIN history /\ Len(history) \in DOMAIN history /\ k # Len(history)
    BY Zenon, <1>h, <2>5
  <2>4. history[k].run # history[Len(history)].run
    BY <1>h, <2>3, Zenon DEF Unique
  <2> QED
    BY <1>5, <2>1, <2>3, <2>4 DEF HistoryRows
<1>7. SettledInv'
  <2> SUFFICES ASSUME NEW k \in 1..(Len(history) - 1) PROVE SettledRow(k)'
    BY <1>1 DEF SettledInv
  <2>1. SettledRow(k) /\ k \in DOMAIN history
    BY <1>t, <1>h DEF SettledInv
  <2> QED
    BY <1>1, <1>6, <2>1 DEF SettledRow
<1>8. RunInv'
  <2> SUFFICES ASSUME NEW q \in Runs
               PROVE  /\ pc'[q] \notin {"check", "append"}
                      /\ pc'[q] \in Entered => history'[Len(history')].run = q
    BY DEF RunInv
  <2>1. CASE q = r
    BY SMTT(30), <1>1, <1>2, <1>5, <1>h, <2>1 DEF Entered, Stopped
  <2>2. CASE q # r
    BY <1>2, <1>s, <2>2 DEF Entered, Stopped
  <2> QED
    BY <2>1, <2>2
<1>9. AuditInv'
  <2> SUFFICES ASSUME NEW q \in Ids, <<q, "failed">> \in audit
               PROVE  /\ RowIs(history', q, "failed")
                      /\ recon'[q] = "failed" /\ mirror'[q].recon = "failed"
                      /\ q \in Runs => pc'[q] \in Stopped \cup {"check"}
    BY DEF AuditInv
  <2>1. /\ RowIs(history, q, "failed") /\ recon[q] = "failed"
        /\ mirror[q].recon = "failed"
        /\ q \in Runs => pc[q] \in Stopped \cup {"check"}
    BY <1>t DEF AuditInv
  <2>2. q # r
    BY <2>1 DEF Entered, Stopped
  <2>3. RowIs(history', q, "failed")
    BY <1>1, <2>1, <2>2 DEF RowIs
  <2> QED
    BY <1>2, <2>1, <2>2, <2>3
<1> QED
  BY <1>3, <1>4, <1>7, <1>8, <1>9 DEF IInv

\* Writing the history row of a run, and the copy of it in SQLite.
LEMMA WriteHistoryEffect ==
    ASSUME TypeInv, NEW r \in Ids, NEW h \in Seq(HistoryRows), Unique(h),
           \E k \in DOMAIN h : h[k].run = r, WriteHistory(r, h)
    PROVE  /\ history' = h /\ faults' \in 0..MaxFaults
           /\ mirror' \in [Ids -> [history : Statuses, recon : Statuses]]
           /\ \A q \in Ids \ {r} : mirror'[q] = mirror[q]
           /\ \A q \in Ids : mirror'[q].recon = mirror[q].recon
<1>1. Status(h, r) \in Statuses
  <2>1. PICK k \in DOMAIN h : h[k].run = r
    OBVIOUS
  <2>2. h[k] \in HistoryRows
    OBVIOUS
  <2> QED
    BY ZenonT(30), <2>1, <2>2, RowFacts DEF HistoryRows, Statuses
<1>2. CASE UNCHANGED mirror /\ Fault
  BY <1>2, FaultType DEF WriteHistory, TypeInv
<1>3. CASE mirror' = [mirror EXCEPT ![r].history = Status(h, r)] /\ UNCHANGED faults
  <2>1. mirror \in [Ids -> [history : Statuses, recon : Statuses]]
    BY DEF TypeInv
  <2> QED
    BY <1>1, <1>3, <2>1 DEF WriteHistory, TypeInv
<1> QED
  BY <1>2, <1>3 DEF WriteHistory

\* Rebuilding the reconciliation row of a run, and the copy of it in SQLite.
LEMMA WriteReconEffect ==
    ASSUME TypeInv, NEW r \in Ids, HasRow(history, r), WriteRecon(r)
    PROVE  /\ faults' \in 0..MaxFaults /\ recon' \in [Ids -> Statuses]
           /\ mirror' \in [Ids -> [history : Statuses, recon : Statuses]]
           /\ \A q \in Ids \ {r} : recon'[q] = recon[q] /\ mirror'[q] = mirror[q]
<1>1. Status(history, r) \in Statuses
  <2>1. PICK k \in DOMAIN history : history[k].run = r
    BY RowFacts DEF TypeInv
  <2>2. history[k] \in HistoryRows
    BY DEF TypeInv
  <2>3. Status(history, r) = history[k].status
    BY <2>1, RowFacts DEF TypeInv
  <2> QED
    BY <2>2, <2>3 DEF HistoryRows, Statuses
<1>r. recon' \in [Ids -> Statuses] /\ \A q \in Ids \ {r} : recon'[q] = recon[q]
  BY <1>1 DEF WriteRecon, TypeInv
<1>2. CASE UNCHANGED mirror /\ Fault
  BY <1>r, <1>2, FaultType DEF TypeInv
<1>3. CASE mirror' = [mirror EXCEPT ![r].recon = Status(history, r)] /\ UNCHANGED faults
  <2>1. mirror \in [Ids -> [history : Statuses, recon : Statuses]]
    BY DEF TypeInv
  <2> QED
    BY <1>r, <1>1, <1>3, <2>1 DEF TypeInv
<1> QED
  BY <1>2, <1>3 DEF WriteRecon

------------------------------------------------------------------------------
\* Steps that leave every control row alone.
LEMMA QuietRunStep ==
    ASSUME IInv, NEW r \in Runs, pc[r] \in Entered,
           NEW l \in Entered \cup Stopped, Goto(r, l),
           UNCHANGED <<history, recon, mirror, audit, resolver>>,
           artifacts' \in {artifacts, r},
           captured' = captured \/ captured' = captured \cup {r},
           \/ UNCHANGED record
           \/ \E s \in {"succeeded", "failed"} : record' = [record EXCEPT ![r] = s],
           \/ UNCHANGED manifest
           \/ manifest' = [manifest EXCEPT ![r] = Sealed],
           UNCHANGED faults \/ Fault,
           snap' = snap \/ snap' = [snap EXCEPT ![r] = <<>>]
    PROVE  IInv'
<1>t. TypeInv
  BY DEF IInv
<1>1. /\ record' \in [Ids -> {"none", "succeeded", "failed"}]
      /\ \A q \in Ids \ {r} : record'[q] = record[q]
  BY <1>t DEF TypeInv
<1>2. artifacts' \in Ids /\ captured' \in SUBSET Runs /\ DOMAIN manifest' = Ids
  BY <1>t DEF TypeInv, Ids
<1>3. faults' \in 0..MaxFaults
  BY <1>t, FaultType DEF TypeInv
<1> QED
  BY <1>t, <1>1, <1>2, <1>3, RunFrame DEF TypeInv

\* Steps that write the history row of the run.
LEMMA RowRunStep ==
    ASSUME IInv, NEW r \in Runs, pc[r] \in Entered,
           NEW l \in Entered \cup Stopped, Goto(r, l),
           NEW s \in RunStatuses, WriteHistory(r, SetStatus(history, r, s)),
           UNCHANGED <<recon, artifacts, proof, audit, snap, resolver>>
    PROVE  IInv'
<1>t. TypeInv /\ RunInv /\ r \in Ids
  BY DEF IInv, Ids
<1>h. /\ history \in Seq(HistoryRows) /\ Unique(history) /\ history # <<>>
      /\ Len(history) \in DOMAIN history /\ history[Len(history)].run = r
  BY <1>t DEF TypeInv, RunInv
<1>1. history' = SetStatus(history, r, s)
  BY DEF WriteHistory
<1>2. /\ history' \in Seq(HistoryRows) /\ Unique(history')
      /\ \E k \in DOMAIN history' : history'[k].run = r
  BY Zenon, <1>1, <1>h, <1>t, StatusSet
<1>3. /\ faults' \in 0..MaxFaults
      /\ mirror' \in [Ids -> [history : Statuses, recon : Statuses]]
      /\ \A q \in Ids \ {r} : mirror'[q] = mirror[q]
  BY <1>1, <1>2, <1>t, WriteHistoryEffect
<1> QED
  BY Zenon, <1>1, <1>3, <1>t, RunFrame DEF TypeInv, proof

\* Steps that write the reconciliation row of the run.
LEMMA ReconRunStep ==
    ASSUME IInv, NEW r \in Runs, pc[r] \in Entered,
           NEW l \in Entered \cup Stopped, Goto(r, l),
           HasRow(history, r), WriteRecon(r),
           UNCHANGED <<history, artifacts, proof, audit, snap, resolver>>
    PROVE  IInv'
<1>t. TypeInv /\ r \in Ids
  BY DEF IInv, Ids
<1>1. /\ faults' \in 0..MaxFaults /\ recon' \in [Ids -> Statuses]
      /\ mirror' \in [Ids -> [history : Statuses, recon : Statuses]]
      /\ \A q \in Ids \ {r} : recon'[q] = recon[q] /\ mirror'[q] = mirror[q]
  BY <1>t, WriteReconEffect
<1> QED
  BY <1>1, <1>t, RunFrame DEF TypeInv, proof

\* The pipeline between its row and the finalizer, and the finalizer.
LEMMA FinalizerKeeps ==
    ASSUME IInv, NEW r \in Runs,
           \/ CaptureState(r) \/ RunAgents(r) \/ BeginValidation(r) \/ Reconcile(r)
           \/ Validate(r) \/ CompleteRow(r) \/ ReconcileTerminal(r)
           \/ SealManifest(r) \/ WriteRecord(r) \/ VerifyRecord(r)
           \/ FinalizerRaises(r)
    PROVE  IInv'
<1>e. pc[r] \in Entered
  BY DEF CaptureState, RunAgents, BeginValidation, Reconcile, Validate, CompleteRow,
         ReconcileTerminal, SealManifest, WriteRecord, VerifyRecord, FinalizerRaises,
         FinalizerSteps, Entered
<1>l. {"agents", "begin", "reconcile", "validate", "complete", "terminal", "seal",
       "record", "verify", "done", "fail_history"} \subseteq Entered \cup Stopped
  BY DEF Entered, Stopped
<1>s. {"validating", "succeeded"} \subseteq RunStatuses
  BY DEF RunStatuses
<1>1. CASE CaptureState(r)
  BY <1>1, <1>e, <1>l, QuietRunStep DEF CaptureState, Raise
<1>2. CASE RunAgents(r)
  BY <1>2, <1>e, <1>l, QuietRunStep DEF RunAgents, Raise, proof
<1>3. CASE BeginValidation(r)
  <2>1. CASE Raise(r) /\ UNCHANGED <<history, mirror, faults>>
    BY Zenon, <1>3, <1>e, <1>l, <2>1, QuietRunStep DEF BeginValidation, Raise, proof
  <2>2. CASE ~(Raise(r) /\ UNCHANGED <<history, mirror, faults>>)
    BY <1>3, <1>e, <1>l, <1>s, <2>2, RowRunStep DEF BeginValidation
  <2> QED
    BY <2>1, <2>2
<1>4. CASE Reconcile(r)
  <2>1. CASE HasRow(history, r)
    BY <1>4, <1>e, <1>l, <2>1, ReconRunStep DEF Reconcile
  <2>2. CASE ~HasRow(history, r)
    BY <1>4, <1>e, <1>l, <2>2, QuietRunStep DEF Reconcile, Raise, proof
  <2> QED
    BY <2>1, <2>2
<1>5. CASE Validate(r)
  BY <1>5, <1>e, <1>l, QuietRunStep DEF Validate, Raise, files, proof
<1>6. CASE CompleteRow(r)
  <2>1. CASE Raise(r) /\ UNCHANGED <<history, mirror, faults>>
    BY <1>6, <1>e, <1>l, <2>1, QuietRunStep DEF CompleteRow, Raise, proof
  <2>2. CASE ~(Raise(r) /\ UNCHANGED <<history, mirror, faults>>)
    BY <1>6, <1>e, <1>l, <1>s, <2>2, RowRunStep DEF CompleteRow
  <2> QED
    BY <2>1, <2>2
<1>7. CASE ReconcileTerminal(r)
  <2>1. CASE HasRow(history, r)
    BY <1>7, <1>e, <1>l, <2>1, ReconRunStep DEF ReconcileTerminal
  <2>2. CASE ~HasRow(history, r)
    BY <1>7, <1>e, <1>l, <2>2, QuietRunStep DEF ReconcileTerminal, Raise, proof
  <2> QED
    BY <2>1, <2>2
<1>8. CASE SealManifest(r)
  BY <1>8, <1>e, <1>l, QuietRunStep DEF SealManifest, Raise
<1>9. CASE WriteRecord(r)
  BY Zenon, <1>9, <1>e, <1>l, QuietRunStep DEF WriteRecord
<1>10. CASE VerifyRecord(r)
  BY <1>10, <1>e, <1>l, QuietRunStep DEF VerifyRecord, Raise, files, proof
<1>11. CASE FinalizerRaises(r)
  BY <1>11, <1>e, <1>l, QuietRunStep DEF FinalizerRaises, Raise, files, proof
<1> QED
  BY <1>1, <1>2, <1>3, <1>4, <1>5, <1>6, <1>7, <1>8, <1>9, <1>10, <1>11

\* The layers of _persist_failure.
LEMMA FailureKeeps ==
    ASSUME IInv, NEW r \in Runs,
           \/ FailHistory(r) \/ FailRecon(r) \/ FailRecord(r) \/ FailFallback(r)
           \/ FailEvent(r) \/ LayerRaises(r)
    PROVE  IInv'
<1>e. pc[r] \in Entered
  BY DEF FailHistory, FailRecon, FailRecord, FailFallback, FailEvent, LayerRaises,
         NextLayer, Entered
<1>l. {"fail_recon", "fail_record", "fail_fallback", "fail_event", "failed"}
         \subseteq Entered \cup Stopped
  BY DEF Entered, Stopped
<1>1. ASSUME NEW l \in {"fail_recon", "fail_event"}, ForceFail(r, l) PROVE IInv'
  <2>1. CASE UNCHANGED <<history, mirror, faults>>
    BY <1>1, <1>e, <1>l, <2>1, QuietRunStep DEF ForceFail, proof
  <2>2. CASE ~UNCHANGED <<history, mirror, faults>>
    BY <1>1, <1>e, <1>l, <2>2, RowRunStep DEF ForceFail, RunStatuses
  <2> QED
    BY <2>1, <2>2
<1>2. CASE FailHistory(r) \/ FailFallback(r)
  BY <1>1, <1>2 DEF FailHistory, FailFallback
<1>3. CASE FailRecon(r)
  <2>1. CASE HasRow(history, r)
    BY <1>3, <1>e, <1>l, <2>1, ReconRunStep DEF FailRecon
  <2>2. CASE ~HasRow(history, r)
    BY <1>3, <1>e, <1>l, <2>2, QuietRunStep DEF FailRecon, proof
  <2> QED
    BY <2>1, <2>2
<1>4. CASE FailRecord(r)
  BY ZenonT(30), <1>4, <1>e, <1>l, QuietRunStep DEF FailRecord
<1>5. CASE FailEvent(r)
  BY <1>5, <1>e, <1>l, QuietRunStep DEF FailEvent, proof
<1>6. CASE LayerRaises(r)
  <2>1. NextLayer[pc[r]] \in Entered \cup Stopped
    BY <1>6, <1>l DEF LayerRaises, NextLayer
  <2> QED
    BY <1>6, <1>e, <2>1, QuietRunStep DEF LayerRaises, files, proof
<1> QED
  BY <1>2, <1>3, <1>4, <1>5, <1>6

------------------------------------------------------------------------------
\* A process that is starting, or dies, writes nothing.
LEMMA StartFrame ==
    ASSUME IInv, NEW r \in Runs, NEW l \in Stopped \cup {"check", "append"}, Goto(r, l),
           UNCHANGED <<files, resolver>>, resolver.pc = "idle",
           \A q \in Runs : q # r => pc[q] \in Stopped,
           DOMAIN snap' = Runs, faults' \in 0..MaxFaults,
           l \in {"check", "append"} => snap'[r] = history,
           l = "append" => /\ \A k \in DOMAIN history : history[k].run # r
                           /\ SettledRow(Len(history))
    PROVE  IInv'
<1>t. TypeInv /\ SettledInv /\ RunInv /\ AuditInv
  BY DEF IInv
<1>u. /\ history' = history /\ recon' = recon /\ mirror' = mirror
      /\ artifacts' = artifacts /\ captured' = captured /\ manifest' = manifest
      /\ record' = record /\ audit' = audit /\ resolver' = resolver
  BY DEF files, proof
<1>1. /\ pc' \in [Runs -> Points] /\ pc'[r] = l
      /\ \A q \in Runs : q # r => pc'[q] = pc[q]
  BY <1>t DEF TypeInv, Goto, Points
<1>2. TypeInv'
  BY <1>t, <1>u, <1>1 DEF TypeInv
<1>3. Serial' /\ ResolverInv'
  BY <1>u, <1>1 DEF Serial, ResolverInv
<1>4. SettledInv' /\ \A k : SettledRow(k)' <=> SettledRow(k)
  BY <1>t, <1>u DEF SettledInv, SettledRow
<1>5. RunInv'
  <2> SUFFICES ASSUME NEW q \in Runs
               PROVE  /\ pc'[q] \in {"check", "append"} => snap'[q] = history
                      /\ pc'[q] = "append" =>
                           /\ \A k \in DOMAIN history : history[k].run # q
                           /\ SettledRow(Len(history))
                      /\ pc'[q] \in Entered => history[Len(history)].run = q
    BY <1>u, <1>4 DEF RunInv
  <2>1. CASE q = r
    BY <1>1, <2>1 DEF Entered, Stopped
  <2>2. CASE q # r
    BY <1>1, <2>2 DEF Entered, Stopped
  <2> QED
    BY <2>1, <2>2
<1>6. AuditInv'
  <2> SUFFICES ASSUME NEW q \in Ids, <<q, "failed">> \in audit
               PROVE  /\ RowIs(history, q, "failed")
                      /\ recon[q] = "failed" /\ mirror[q].recon = "failed"
                      /\ q \in Runs => pc'[q] \in Stopped \cup {"check"}
    BY <1>u DEF AuditInv
  <2>1. /\ RowIs(history, q, "failed")
        /\ recon[q] = "failed" /\ mirror[q].recon = "failed"
        /\ q \in Runs => pc[q] \in Stopped \cup {"check"}
    BY <1>t DEF AuditInv
  <2>2. \E k \in DOMAIN history : history[k].run = q
    BY <2>1 DEF RowIs
  <2>3. q = r => l # "append"
    BY <2>2
  <2> QED
    BY <1>1, <2>1, <2>3
<1> QED
  BY <1>2, <1>3, <1>4, <1>5, <1>6 DEF IInv

\* The start guard: what it checks of the latest row settles that row.
LEMMA GuardSettles ==
    ASSUME IInv, NEW r \in Runs, StartAllowed(r),
           \A k \in DOMAIN history : history[k].run # r
    PROVE  SettledRow(Len(history))
<1>h. /\ history \in Seq(HistoryRows) /\ Len(history) \in Nat \ {0}
      /\ DOMAIN history = 1..Len(history)
  BY DEF IInv, TypeInv
<1> DEFINE n == Len(history)
           prior == {k \in DOMAIN history : history[k].run # r}
           last == CHOOSE k \in prior : \A j \in prior : j <= k
<1>1. prior = 1..n
  BY <1>h
<1>2. \E k \in prior : \A j \in prior : j <= k
  BY <1>h, <1>1
<1>3. last \in prior /\ \A j \in prior : j <= last
  BY <1>2
<1>4. last = n
  BY <1>h, <1>1, <1>3
<1>5. history[last].status = "succeeded" => ProofValid(history[last].run)
  BY <1>h, <1>1 DEF StartAllowed, LatestProved
<1> HIDE DEF last
<1>6. history[n].status \notin Unresolved
  BY <1>h DEF StartAllowed
<1> QED
  BY <1>4, <1>5, <1>6 DEF SettledRow, ProofValid

\* A run reads the history and passes or fails its guard, or is killed.
LEMMA StartKeeps ==
    ASSUME MaxLive = 1, IInv, NEW r \in Runs, ReadHistory(r) \/ CheckStart(r) \/ Kill(r)
    PROVE  IInv'
<1>t. TypeInv /\ Serial /\ RunInv
  BY DEF IInv
<1>d. DOMAIN snap = Runs /\ faults \in 0..MaxFaults
  BY <1>t DEF TypeInv
<1>1. CASE ReadHistory(r)
  <2>1. resolver.pc = "idle" /\ \A q \in Runs : pc[q] \in Stopped
    BY <1>1, <1>t, NobodyBusy DEF ReadHistory
  <2>2. DOMAIN snap' = Runs /\ snap'[r] = history
    BY <1>1, <1>d DEF ReadHistory
  <2> QED
    BY <1>1, <1>d, <2>1, <2>2, StartFrame DEF ReadHistory
<1>2. CASE CheckStart(r)
  <2>1. pc[r] = "check" /\ snap[r] = history
    BY <1>2, <1>t DEF CheckStart, RunInv
  <2>2. resolver.pc = "idle" /\ \A q \in Runs : q # r => pc[q] \in Stopped
    BY <1>t, <2>1 DEF Serial, Stopped
  <2>3. CASE StartAllowed(r) /\ Rows(snap[r], r) = {}
    <3>1. \A k \in DOMAIN history : history[k].run # r
      BY <2>1, <2>3 DEF Rows
    <3>2. SettledRow(Len(history))
      BY <2>3, <3>1, GuardSettles
    <3> QED
      BY <1>2, <1>d, <2>1, <2>2, <2>3, <3>1, <3>2, StartFrame DEF CheckStart
  <2>4. CASE ~(StartAllowed(r) /\ Rows(snap[r], r) = {})
    <3>1. DOMAIN snap' = Runs /\ Goto(r, "refused") /\ "refused" \in Stopped
      BY <1>2, <1>d, <2>4 DEF CheckStart, Stopped
    <3> QED
      BY <1>2, <1>d, <2>2, <3>1, StartFrame DEF CheckStart, Stopped
  <2> QED
    BY <2>3, <2>4
<1>3. CASE Kill(r)
  <2>1. /\ pc[r] \notin Stopped /\ "killed" \in Stopped /\ Goto(r, "killed")
        /\ snap' = [snap EXCEPT ![r] = <<>>] /\ UNCHANGED <<files, resolver>>
    BY <1>3 DEF Kill, Live, Stopped
  <2>2. resolver.pc = "idle" /\ \A q \in Runs : q # r => pc[q] \in Stopped
    BY <1>t, <2>1 DEF Serial
  <2>3. faults' \in 0..MaxFaults
    BY <1>3, <1>t, FaultType DEF Kill
  <2>4. DOMAIN snap' = Runs
    BY <1>d, <2>1
  <2> QED
    BY <2>1, <2>2, <2>3, <2>4, StartFrame DEF Stopped
<1> QED
  BY <1>1, <1>2, <1>3

\* The new row comes after rows that are all settled.
LEMMA AppendKeeps ==
    ASSUME IInv, NEW r \in Runs, AppendRow(r)
    PROVE  IInv'
<1>t. TypeInv /\ Serial /\ SettledInv /\ RunInv /\ AuditInv /\ r \in Ids
  BY DEF IInv, Ids
<1> DEFINE row == [run |-> r, status |-> "started"]
           h == Append(history, row)
<1>a. /\ pc[r] = "append" /\ snap[r] = history
      /\ \A k \in DOMAIN history : history[k].run # r
      /\ SettledRow(Len(history))
  BY <1>t DEF AppendRow, RunInv
<1>h. /\ history \in Seq(HistoryRows) /\ Unique(history)
      /\ Len(history) \in Nat \ {0} /\ DOMAIN history = 1..Len(history)
  BY <1>t DEF TypeInv
<1>1. row \in HistoryRows
  BY <1>t DEF HistoryRows, RunStatuses
<1>2. /\ h \in Seq(HistoryRows) /\ Len(h) = Len(history) + 1 /\ h # <<>>
      /\ DOMAIN h = 1..(Len(history) + 1)
      /\ \A k \in 1..Len(history) : h[k] = history[k]
      /\ h[Len(history) + 1] = row
  BY <1>h, <1>1
<1>w. WriteHistory(r, h)
  BY <1>a DEF AppendRow
<1> HIDE DEF h
<1>3. Unique(h)
  BY <1>2, <1>h, <1>a DEF Unique
<1>4. /\ history' = h /\ faults' \in 0..MaxFaults
      /\ mirror' \in [Ids -> [history : Statuses, recon : Statuses]]
      /\ \A q \in Ids : mirror'[q].recon = mirror[q].recon
  <2>1. \E k \in DOMAIN h : h[k].run = r
    BY <1>2, <1>h
  <2> QED
    BY <1>t, <1>w, <1>2, <1>3, <2>1, WriteHistoryEffect
<1>u. /\ recon' = recon /\ artifacts' = artifacts /\ captured' = captured
      /\ manifest' = manifest /\ record' = record /\ audit' = audit
      /\ resolver' = resolver /\ DOMAIN snap' = Runs
  BY <1>t DEF AppendRow, proof, TypeInv
<1>5. /\ pc' \in [Runs -> Points] /\ pc'[r] = "capture"
      /\ \A q \in Runs : q # r => pc'[q] = pc[q]
  BY <1>t DEF AppendRow, TypeInv, Goto, Points, Entered
<1>6. TypeInv'
  BY <1>t, <1>2, <1>3, <1>4, <1>5, <1>u DEF TypeInv
<1>s. resolver.pc = "idle" /\ \A q \in Runs : q # r => pc[q] \in Stopped
  BY <1>a, <1>t DEF Serial, Stopped
<1>7. Serial' /\ ResolverInv'
  BY <1>5, <1>s, <1>u DEF Serial, ResolverInv
<1>8. SettledInv'
  <2> SUFFICES ASSUME NEW k \in 1..Len(history) PROVE SettledRow(k)'
    BY <1>2, <1>4, <1>h DEF SettledInv
  <2>1. SettledRow(k)
    BY <1>a, <1>t, <1>h DEF SettledInv
  <2> QED
    BY <1>2, <1>4, <1>u, <2>1 DEF SettledRow
<1>9. RunInv'
  <2> SUFFICES ASSUME NEW q \in Runs
               PROVE  /\ pc'[q] \notin {"check", "append"}
                      /\ pc'[q] \in Entered => h[Len(h)].run = q
    BY <1>4 DEF RunInv
  <2>1. CASE q = r
    BY <1>2, <1>5, <2>1
  <2>2. CASE q # r
    BY <1>5, <1>s, <2>2 DEF Entered, Stopped
  <2> QED
    BY <2>1, <2>2
<1>10. AuditInv'
  <2> SUFFICES ASSUME NEW q \in Ids, <<q, "failed">> \in audit
               PROVE  /\ RowIs(h, q, "failed")
                      /\ recon[q] = "failed" /\ mirror[q].recon = "failed"
                      /\ q \in Runs => pc'[q] \in Stopped \cup {"check"}
    BY <1>4, <1>u DEF AuditInv
  <2>1. /\ RowIs(history, q, "failed")
        /\ recon[q] = "failed" /\ mirror[q].recon = "failed"
        /\ q \in Runs => pc[q] \in Stopped \cup {"check"}
    BY <1>t DEF AuditInv
  <2>2. RowIs(h, q, "failed")
    BY <1>2, <1>h, <2>1 DEF RowIs
  <2>3. q # r
    BY <1>a, <2>1 DEF RowIs
  <2> QED
    BY <1>5, <2>1, <2>2, <2>3
<1> QED
  BY <1>6, <1>7, <1>8, <1>9, <1>10 DEF IInv

------------------------------------------------------------------------------
\* The resolver works alone, on rows no run is working on.
LEMMA ResolverAlone ==
    ASSUME IInv, resolver.pc # "idle"
    PROVE  /\ resolver \in Resolvers
           /\ \A r \in Runs : pc[r] \in Stopped /\ pc[r] \notin {"check", "append"}
                              /\ pc[r] \notin Entered
BY DEF IInv, TypeInv, Serial, Stopped, Entered

\* What the resolver reads before it writes anything.
LEMMA ResolveReadKeeps ==
    ASSUME MaxLive = 1, IInv, NEW r \in Ids, ResolveRead(r)
    PROVE  IInv'
<1>t. TypeInv /\ SettledInv /\ RunInv /\ AuditInv
  BY DEF IInv
<1>u. UNCHANGED <<history, recon, mirror, artifacts, captured, manifest, record,
                  audit, pc, snap, faults>>
  BY DEF ResolveRead, files, proof
<1> DEFINE s == ResolvedStatus(r)
<1>s. s \in {"succeeded", "failed"}
  BY DEF ResolvedStatus
<1>h. history \in Seq(HistoryRows) /\ Unique(history)
  BY <1>t DEF TypeInv
<1>a. \A q \in Runs : pc[q] \in Stopped
  BY <1>t, NobodyBusy DEF ResolveRead
<1>1. resolver' = [pc |-> "history", run |-> r, status |-> s,
                   history |-> SetStatus(history, r, s),
                   recon |-> [recon EXCEPT ![r] = s]]
  BY DEF ResolveRead
<1>2. /\ RowIs(history, r, "failed") => s = "failed"
      /\ s = "succeeded" => /\ record[r] = "succeeded" /\ recon[r] = "succeeded"
                            /\ RowIs(history, r, "succeeded")
  BY <1>h, RowIsFacts DEF ResolvedStatus, ProofValid
<1>3. \E k \in DOMAIN history : history[k].run = r
  BY <1>h, RowFacts DEF ResolveRead
<1> HIDE DEF s
<1>4. /\ SetStatus(history, r, s) \in Seq(HistoryRows)
      /\ [recon EXCEPT ![r] = s] \in [Ids -> Statuses]
  <2>1. s \in RunStatuses /\ s \in Statuses
    BY <1>s DEF RunStatuses, Statuses
  <2> QED
    BY ZenonT(30), <1>h, <1>t, <2>1, SetStatusFacts DEF TypeInv
<1>5. resolver' \in Resolvers
  BY <1>1, <1>4, <1>s DEF Resolvers
<1>6. TypeInv'
  BY <1>t, <1>u, <1>5 DEF TypeInv
<1>7. Serial'
  BY <1>a, <1>u DEF Serial
<1>8. SettledInv' /\ RunInv' /\ AuditInv'
  BY ZenonT(30), <1>t, <1>u DEF SettledInv, SettledRow, RunInv, AuditInv
<1>9. ResolverInv'
  BY <1>1, <1>2, <1>3, <1>u DEF ResolverInv
<1> QED
  BY <1>6, <1>7, <1>8, <1>9 DEF IInv

\* One run has one status.
LEMMA OneStatus ==
    ASSUME TypeInv, NEW r, NEW s, RowIs(history, r, s)
    PROVE  \A k \in DOMAIN history : history[k].run = r => history[k].status = s
BY DEF TypeInv, RowIs, Unique

\* A write of the resolver: what it must say about the row it resolves.
LEMMA ResolverFrame ==
    ASSUME IInv, resolver.pc # "idle",
           NEW l \in {"recon", "mirror", "audit"}, resolver' = [resolver EXCEPT !.pc = l],
           UNCHANGED <<artifacts, proof, audit, pc, snap, faults>>,
           history' = history \/ history' = SetStatus(history, resolver.run, resolver.status),
           recon' = recon \/ recon' = [recon EXCEPT ![resolver.run] = resolver.status],
           \/ mirror' = mirror
           \/ mirror' = [mirror EXCEPT ![resolver.run] =
                           [history |-> resolver.status, recon |-> resolver.status]],
           resolver.pc = "history" =>
             history' = SetStatus(history, resolver.run, resolver.status)
                                      /\ recon' = recon,
           l = "recon" => resolver.pc = "history",
           l \in {"mirror", "audit"} =>
             resolver.pc # "history" /\ recon'[resolver.run] = resolver.status,
           l = "audit" => mirror'[resolver.run].recon = resolver.status
    PROVE  IInv'
<1> DEFINE r == resolver.run  s == resolver.status
<1>t. TypeInv /\ Serial /\ SettledInv /\ RunInv /\ AuditInv /\ ResolverInv
  BY DEF IInv
<1>r. /\ resolver \in Resolvers /\ r \in Ids /\ s \in {"succeeded", "failed"}
      /\ s \in RunStatuses /\ s \in Statuses
  BY ResolverAlone DEF Resolvers, RunStatuses, Statuses
<1>p. /\ resolver' \in Resolvers /\ resolver'.run = r /\ resolver'.status = s
      /\ resolver'.pc = l /\ resolver'.history = resolver.history
      /\ resolver'.recon = resolver.recon
  BY <1>r DEF Resolvers
<1>u. /\ artifacts' = artifacts /\ captured' = captured /\ manifest' = manifest
      /\ record' = record /\ audit' = audit /\ pc' = pc /\ snap' = snap
      /\ faults' = faults
  BY DEF proof
<1>h. /\ history \in Seq(HistoryRows) /\ Unique(history)
      /\ Len(history) \in Nat \ {0} /\ DOMAIN history = 1..Len(history)
  BY <1>t DEF TypeInv
<1>a. \A q \in Runs : /\ pc[q] \in Stopped
                      /\ pc[q] \notin {"check", "append"} /\ pc[q] \notin Entered
  BY ResolverAlone
<1>i. /\ resolver.pc = "history" => /\ \E k \in DOMAIN history : history[k].run = r
                                    /\ RowIs(history, r, "failed") => s = "failed"
      /\ s = "succeeded" => /\ record[r] = "succeeded" /\ recon[r] = "succeeded"
                            /\ RowIs(history, r, "succeeded")
      /\ resolver.pc # "history" => RowIs(history, r, s)
      /\ resolver.pc = "history" => resolver.recon = [recon EXCEPT ![r] = s]
  BY <1>t DEF ResolverInv
<1> HIDE DEF r, s
<1>1. /\ history' \in Seq(HistoryRows) /\ Unique(history') /\ history' # <<>>
      /\ Len(history') = Len(history) /\ DOMAIN history' = DOMAIN history
      /\ \A k \in DOMAIN history :
           /\ history'[k].run = history[k].run
           /\ history[k].run # r => history'[k] = history[k]
           /\ history[k].run = r => history'[k] = [run |-> r, status |-> s]
  <2>1. CASE history' = SetStatus(history, r, s)
    BY <1>t, <1>r, <2>1, StatusSet
  <2>2. CASE history' = history /\ resolver.pc # "history"
    <3>1. \A k \in DOMAIN history : history[k] \in HistoryRows
      BY <1>h
    <3>2. \A k \in DOMAIN history : history[k].run = r => history[k].status = s
      BY <1>t, <1>i, <2>2, OneStatus
    <3>3. \A k \in DOMAIN history : history[k].run = r => history[k] = [run |-> r, status |-> s]
      BY <3>1, <3>2 DEF HistoryRows
    <3> QED
      BY <1>h, <1>t, <2>2, <3>3 DEF TypeInv
  <2> QED
    BY <2>1, <2>2 DEF r, s
<1>2. RowIs(history', r, s)
  <2>1. \E k \in DOMAIN history : history[k].run = r
    BY <1>i DEF RowIs
  <2> QED
    BY <1>1, <2>1 DEF RowIs
<1>3. /\ recon' \in [Ids -> Statuses] /\ \A q \in Ids : q # r => recon'[q] = recon[q]
      /\ recon'[r] \in {recon[r], s}
  BY ZenonT(30), <1>r, <1>t DEF TypeInv, r, s
<1>4. /\ mirror' \in [Ids -> [history : Statuses, recon : Statuses]]
      /\ \A q \in Ids : q # r => mirror'[q] = mirror[q]
      /\ mirror'[r].recon \in {mirror[r].recon, s}
  <2> DEFINE m == [history |-> s, recon |-> s]
  <2>1. mirror \in [Ids -> [history : Statuses, recon : Statuses]]
    BY <1>t DEF TypeInv
  <2>2. m \in [history : Statuses, recon : Statuses] /\ m.recon = s
    BY <1>r
  <2>3. mirror' = mirror \/ mirror' = [mirror EXCEPT ![r] = m]
    BY DEF r, s
  <2> HIDE DEF m
  <2> QED
    BY <1>r, <2>1, <2>2, <2>3
<1>5. TypeInv'
  BY <1>t, <1>u, <1>p, <1>1, <1>3, <1>4 DEF TypeInv
<1>6. Serial'
  BY <1>a, <1>u DEF Serial
<1>7. RunInv'
  BY <1>a, <1>u DEF RunInv
<1>8. SettledInv'
  <2> SUFFICES ASSUME NEW k \in 1..(Len(history) - 1) PROVE SettledRow(k)'
    BY <1>1 DEF SettledInv
  <2>1. SettledRow(k) /\ k \in DOMAIN history
    BY <1>t, <1>h DEF SettledInv
  <2>2. history[k].run \in Ids
    <3>1. history[k] \in HistoryRows
      BY <1>h, <2>1
    <3> QED
      BY <3>1 DEF HistoryRows
  <2>3. CASE history[k].run = r
    BY <1>1, <1>3, <1>i, <1>r, <1>u, <2>1, <2>3 DEF SettledRow, Unresolved
  <2>4. CASE history[k].run # r
    BY <1>1, <1>3, <1>u, <2>1, <2>2, <2>4 DEF SettledRow
  <2> QED
    BY <2>3, <2>4
<1>9. AuditInv'
  <2> SUFFICES ASSUME NEW q \in Ids, <<q, "failed">> \in audit
               PROVE  /\ RowIs(history', q, "failed")
                      /\ recon'[q] = "failed" /\ mirror'[q].recon = "failed"
                      /\ q \in Runs => pc[q] \in Stopped \cup {"check"}
    BY <1>u DEF AuditInv
  <2>1. /\ RowIs(history, q, "failed")
        /\ recon[q] = "failed" /\ mirror[q].recon = "failed"
        /\ q \in Runs => pc[q] \in Stopped \cup {"check"}
    BY <1>t DEF AuditInv
  <2>2. CASE q = r
    <3>1. s = "failed"
      <4>1. CASE resolver.pc = "history"
        BY <1>i, <2>1, <2>2, <4>1
      <4>2. CASE resolver.pc # "history"
        BY <1>i, <1>t, <2>1, <2>2, <4>2, OneStatus DEF RowIs
      <4> QED
        BY <4>1, <4>2
    <3> QED
      BY <1>2, <1>3, <1>4, <2>1, <2>2, <3>1
  <2>3. CASE q # r
    <3>1. RowIs(history', q, "failed")
      BY <1>1, <2>1, <2>3 DEF RowIs
    <3> QED
      BY <1>3, <1>4, <2>1, <2>3, <3>1
  <2> QED
    BY <2>2, <2>3
<1>10. ResolverInv'
  <2>1. s = "succeeded" => record'[r] = "succeeded" /\ recon'[r] = "succeeded"
    BY <1>i, <1>3, <1>u
  <2>2. l = "recon" => resolver'.recon = [recon' EXCEPT ![r] = s]
    BY <1>i, <1>p DEF r, s
  <2> QED
    BY <1>2, <1>p, <2>1, <2>2 DEF ResolverInv, r, s
<1> QED
  BY <1>5, <1>6, <1>7, <1>8, <1>9, <1>10 DEF IInv

\* The writes of the resolver, in the order history, summary, SQLite, audit.
LEMMA ResolverKeeps ==
    ASSUME IInv, ResolverStep \/ ResolverStops
    PROVE  IInv'
<1>t. TypeInv /\ Serial /\ SettledInv /\ RunInv /\ AuditInv /\ ResolverInv
  BY DEF IInv
<1>i. resolver.pc # "idle"
  BY DEF ResolverStep, ResolveHistory, ResolveRecon, ResolveMirror, ResolveAudit,
         ResolverStops
<1>a. /\ resolver \in Resolvers
      /\ \A q \in Runs : pc[q] \in Stopped /\ pc[q] \notin {"check", "append"}
                         /\ pc[q] \notin Entered
  BY <1>i, ResolverAlone
<1>b. resolver.run \in Ids /\ resolver.status \in {"succeeded", "failed"}
  BY <1>a DEF Resolvers
<1>1. CASE ResolveHistory
  <2>1. resolver.pc = "history" /\ history' = SetStatus(history, resolver.run, resolver.status)
    BY <1>1, <1>t DEF ResolveHistory, ResolverInv
  <2>2. /\ resolver' = [resolver EXCEPT !.pc = "recon"]
        /\ recon' = recon /\ mirror' = mirror
        /\ UNCHANGED <<artifacts, proof, audit, pc, snap, faults>>
    BY <1>1 DEF ResolveHistory
  <2> QED
    BY <1>i, <2>1, <2>2, ResolverFrame
<1>2. CASE ResolveRecon
  <2>1. resolver.pc = "recon" /\ recon' = [recon EXCEPT ![resolver.run] = resolver.status]
    BY <1>2, <1>t DEF ResolveRecon, ResolverInv
  <2>2. recon'[resolver.run] = resolver.status
    BY <1>b, <1>t, <2>1 DEF TypeInv
  <2>3. /\ resolver' = [resolver EXCEPT !.pc = "mirror"]
        /\ history' = history /\ mirror' = mirror
        /\ UNCHANGED <<artifacts, proof, audit, pc, snap, faults>>
    BY <1>2 DEF ResolveRecon
  <2> QED
    BY <1>i, <2>1, <2>2, <2>3, ResolverFrame
<1>3. CASE ResolveMirror
  <2> DEFINE m == [history |-> resolver.status, recon |-> resolver.status]
  <2>1. resolver.pc = "mirror" /\ mirror' = [mirror EXCEPT ![resolver.run] = m]
    BY Zenon, <1>3 DEF ResolveMirror
  <2>2. mirror'[resolver.run].recon = resolver.status
    <3>1. DOMAIN mirror = Ids
      BY <1>t DEF TypeInv
    <3>2. mirror'[resolver.run] = m
      BY <1>b, <3>1, <2>1
    <3>3. m.recon = resolver.status
      OBVIOUS
    <3> QED
      BY Zenon, <3>2, <3>3
  <2>3. /\ resolver' = [resolver EXCEPT !.pc = "audit"]
        /\ history' = history /\ recon' = recon
        /\ UNCHANGED <<artifacts, proof, audit, pc, snap, faults>>
    BY <1>3 DEF ResolveMirror
  <2>4. recon'[resolver.run] = resolver.status
    BY <1>t, <2>1, <2>3 DEF ResolverInv
  <2> QED
    BY <1>i, <2>1, <2>2, <2>3, <2>4, ResolverFrame
<1>4. CASE ResolveAudit \/ ResolverStops
  <2>1. /\ UNCHANGED <<history, recon, mirror, artifacts, captured, manifest, record,
                       pc, snap>>
        /\ resolver' = [pc |-> "idle"]
        /\ resolver'.pc = "idle" /\ resolver' \in [pc : {"idle"}]
    BY <1>4 DEF ResolveAudit, ResolverStops, files, proof
  <2>2. faults' \in 0..MaxFaults
    BY <1>4, <1>t, FaultType DEF ResolveAudit, ResolverStops, TypeInv
  <2>3. /\ audit' \in SUBSET (Ids \X {"succeeded", "failed"})
        /\ \A q \in Ids : <<q, "failed">> \in audit' =>
             \/ <<q, "failed">> \in audit
             \/ /\ q = resolver.run /\ resolver.status = "failed"
                /\ resolver.pc = "audit"
    <3>1. CASE ResolverStops
      BY <1>t, <3>1 DEF ResolverStops, files, TypeInv
    <3>2. CASE ResolveAudit
      <4>1. audit' = audit \cup {<<resolver.run, resolver.status>>} /\ resolver.pc = "audit"
        BY <3>2 DEF ResolveAudit
      <4> QED
        BY <1>b, <1>t, <4>1 DEF TypeInv
    <3> QED
      BY <1>4, <3>1, <3>2
  <2>4. TypeInv'
    BY <1>t, <2>1, <2>2, <2>3 DEF TypeInv
  <2>5. Serial' /\ SettledInv' /\ RunInv'
    BY <1>t, <2>1 DEF Serial, SettledInv, SettledRow, RunInv
  <2>6. AuditInv'
    <3> SUFFICES ASSUME NEW q \in Ids, <<q, "failed">> \in audit'
                 PROVE  /\ RowIs(history, q, "failed")
                        /\ recon[q] = "failed" /\ mirror[q].recon = "failed"
                        /\ q \in Runs => pc[q] \in Stopped \cup {"check"}
      BY <2>1 DEF AuditInv
    <3>1. CASE <<q, "failed">> \in audit
      BY <1>t, <3>1 DEF AuditInv
    <3>2. CASE /\ q = resolver.run /\ resolver.status = "failed"
               /\ resolver.pc = "audit"
      BY <1>a, <1>t, <3>2 DEF ResolverInv
    <3> QED
      BY <2>3, <3>1, <3>2
  <2>7. ResolverInv'
    BY <2>1 DEF ResolverInv
  <2> QED
    BY <2>4, <2>5, <2>6, <2>7 DEF IInv
<1> QED
  BY <1>1, <1>2, <1>3, <1>4 DEF ResolverStep

------------------------------------------------------------------------------
\* The first row is there, succeeded and with its proof, and nobody works.
LEMMA IInvInit == Init => IInv
<1> SUFFICES ASSUME Init PROVE IInv
  OBVIOUS
<1> USE DEF Init
<1> DEFINE row == [run |-> Boot, status |-> "succeeded"]
<1>1. history = <<row>> /\ row \in HistoryRows /\ Boot \in Ids /\ Runs \subseteq Ids
  BY DEF HistoryRows, Ids, RunStatuses
<1>2. /\ history \in Seq(HistoryRows) /\ Len(history) = 1 /\ DOMAIN history = {1}
      /\ history[1] = row /\ history # <<>>
  BY <1>1
<1>3. Unique(history)
  BY <1>2 DEF Unique
<1>4. /\ recon \in [Ids -> Statuses]
      /\ record \in [Ids -> {"none", "succeeded", "failed"}]
      /\ DOMAIN manifest = Ids /\ pc \in [Runs -> Points] /\ DOMAIN snap = Runs
      /\ faults \in 0..MaxFaults /\ resolver \in [pc : {"idle"}]
  BY RunAssumption DEF Statuses, RunStatuses, Points, Stopped
<1>5. mirror \in [Ids -> [history : Statuses, recon : Statuses]]
  BY DEF Statuses, RunStatuses
<1>6. TypeInv
  BY <1>1, <1>2, <1>3, <1>4, <1>5 DEF TypeInv
<1>7. Serial
  BY DEF Serial, Stopped
<1>8. SettledInv /\ RunInv /\ AuditInv /\ ResolverInv
  BY <1>2 DEF SettledInv, RunInv, AuditInv, ResolverInv, Entered
<1> QED
  BY <1>6, <1>7, <1>8 DEF IInv

\* Every step keeps the invariant.
LEMMA IInvStep ==
    ASSUME MaxLive = 1, IInv, [Next]_vars
    PROVE  IInv'
<1>1. ASSUME NEW r \in Runs, ReadHistory(r) \/ PipelineStep(r) \/ PipelineFault(r)
      PROVE  IInv'
  BY <1>1, StartKeeps, AppendKeeps, FinalizerKeeps, FailureKeeps
     DEF PipelineStep, PipelineFault
<1>2. ASSUME NEW r \in Ids, ResolveRead(r) PROVE IInv'
  BY <1>2, ResolveReadKeeps
<1>3. CASE ResolverStep \/ ResolverStops
  BY Zenon, <1>3, ResolverKeeps
<1>4. CASE UNCHANGED vars
  <2>1. UNCHANGED <<history, recon, mirror, artifacts, captured, manifest, record, audit,
                    pc, snap, resolver, faults>>
    BY Zenon, <1>4 DEF vars, files, proof
  <2>2. TypeInv' /\ Serial'
    BY ZenonT(30), <2>1 DEF IInv, TypeInv, Serial
  <2>3. SettledInv' /\ RunInv'
    BY ZenonT(30), <2>1 DEF IInv, SettledInv, SettledRow, RunInv
  <2>4. AuditInv' /\ ResolverInv'
    BY ZenonT(30), <2>1 DEF IInv, AuditInv, ResolverInv
  <2> QED
    BY Zenon, <2>2, <2>3, <2>4 DEF IInv
<1> QED
  BY <1>1, <1>2, <1>3, <1>4 DEF Next

------------------------------------------------------------------------------
\* A failed row survives a write that is guarded by its status, or that
\* writes failed again.
LEMMA FailedRowKept ==
    ASSUME TypeInv, NEW r \in Ids, NEW s \in RunStatuses,
           history' = SetStatus(history, r, s),
           s = "failed" \/ ~RowIs(history, r, "failed"),
           NEW q, RowIs(history, q, "failed")
    PROVE  RowIs(history', q, "failed")
<1>1. PICK k \in DOMAIN history : history[k] = [run |-> q, status |-> "failed"]
  BY DEF RowIs
<1>2. /\ DOMAIN history' = DOMAIN history
      /\ \A j \in DOMAIN history :
           /\ history[j].run # r => history'[j] = history[j]
           /\ history[j].run = r => history'[j] = [run |-> r, status |-> s]
  BY SMTT(30), StatusSet
<1> QED
  BY <1>1, <1>2 DEF RowIs

\* Every step keeps the failed rows: the finalizer's two writes ask for
\* started and validating, the failure layers write failed, a start appends
\* to the history it read, and the resolver maps failed to failed.
LEMMA FailedStep ==
    ASSUME IInv, [Next]_vars, NEW q, RowIs(history, q, "failed")
    PROVE  RowIs(history', q, "failed")
<1>t. TypeInv /\ RunInv /\ ResolverInv /\ history \in Seq(HistoryRows) /\ Unique(history)
  BY DEF IInv, TypeInv
<1>1. CASE history' = history
  BY <1>1
<1>2. ASSUME NEW r \in Runs,
             BeginValidation(r) \/ CompleteRow(r) \/ FailHistory(r) \/ FailFallback(r)
      PROVE  RowIs(history', q, "failed")
  <2>1. \/ history' = history
        \/ /\ history' = SetStatus(history, r, "validating")
           /\ Status(history, r) = "started"
        \/ /\ history' = SetStatus(history, r, "succeeded")
           /\ Status(history, r) = "validating"
        \/ history' = SetStatus(history, r, "failed")
    BY <1>2 DEF BeginValidation, CompleteRow, FailHistory, FailFallback, ForceFail,
                WriteHistory
  <2>2. RowIs(history, r, "failed") => Status(history, r) = "failed"
    BY <1>t, RowIsFacts
  <2>3. r \in Ids /\ {"validating", "succeeded", "failed"} \subseteq RunStatuses
    BY Zenon DEF Ids, RunStatuses
  <2> QED
    BY <1>t, <2>1, <2>2, <2>3, FailedRowKept
<1>3. ASSUME NEW r \in Runs, AppendRow(r)
      PROVE  RowIs(history', q, "failed")
  <2> DEFINE row == [run |-> r, status |-> "started"]
  <2>1. snap[r] = history /\ history' = Append(history, row)
    BY <1>3, <1>t DEF AppendRow, RunInv, WriteHistory
  <2>2. PICK k \in DOMAIN history : history[k] = [run |-> q, status |-> "failed"]
    BY DEF RowIs
  <2> HIDE DEF row
  <2>3. k \in DOMAIN history' /\ history'[k] = history[k]
    <3>1. DOMAIN history = 1..Len(history) /\ Len(history) \in Nat
      BY <1>t
    <3>2. /\ DOMAIN history' = 1..(Len(history) + 1)
          /\ \A i \in 1..Len(history) : history'[i] = history[i]
      BY <1>t, <2>1
    <3> QED
      BY <2>2, <3>1, <3>2
  <2> QED
    BY <2>2, <2>3 DEF RowIs
<1>4. CASE ResolveHistory
  <2>1. /\ resolver.pc = "history"
        /\ history' = SetStatus(history, resolver.run, resolver.status)
        /\ RowIs(history, resolver.run, "failed") => resolver.status = "failed"
    BY <1>4, <1>t DEF ResolveHistory, ResolverInv
  <2>2. resolver.run \in Ids /\ resolver.status \in RunStatuses
    BY <2>1, ResolverAlone DEF Resolvers, RunStatuses
  <2> QED
    BY <1>t, <2>1, <2>2, FailedRowKept
<1>5. \/ history' = history
      \/ \E r \in Runs : \/ BeginValidation(r) \/ CompleteRow(r) \/ FailHistory(r)
                         \/ FailFallback(r) \/ AppendRow(r)
      \/ ResolveHistory
  <2>1. ASSUME NEW r \in Runs, ReadHistory(r) \/ PipelineStep(r) \/ PipelineFault(r)
        PROVE  \/ history' = history
               \/ BeginValidation(r) \/ CompleteRow(r) \/ FailHistory(r)
               \/ FailFallback(r) \/ AppendRow(r)
    BY ZenonT(30), <2>1
       DEF ReadHistory, PipelineStep, PipelineFault, CheckStart, CaptureState,
           RunAgents, Reconcile, Validate, ReconcileTerminal, SealManifest, WriteRecord,
           VerifyRecord, FailRecon, FailRecord, FailEvent, FinalizerRaises,
           LayerRaises, Kill, files
  <2>2. ASSUME NEW r \in Ids, ResolveRead(r) PROVE history' = history
    BY <2>2 DEF ResolveRead, files
  <2>3. CASE ResolverStep \/ ResolverStops
    BY <2>3
       DEF ResolverStep, ResolverStops, ResolveRecon, ResolveMirror, ResolveAudit, files
  <2>4. CASE UNCHANGED vars
    BY <2>4 DEF vars, files
  <2> QED
    BY Zenon, <2>1, <2>2, <2>3, <2>4 DEF Next
<1> QED
  BY <1>1, <1>2, <1>3, <1>4, <1>5

\* The invariant implies what the run of the model checks.
LEMMA IInvImplies == IInv => TypeOK /\ StartsAreClean /\ AuditIsTrue
<1> SUFFICES ASSUME IInv PROVE TypeOK /\ StartsAreClean /\ AuditIsTrue
  OBVIOUS
<1>t. TypeInv /\ SettledInv /\ RunInv /\ AuditInv
  BY DEF IInv
<1>h. /\ history \in Seq(HistoryRows) /\ Unique(history)
      /\ Len(history) \in Nat \ {0} /\ DOMAIN history = 1..Len(history)
  BY <1>t DEF TypeInv
<1>1. TypeOK
  <2>1. \A r \in Ids : Cardinality(Rows(history, r)) <= 1
    BY <1>h, RowFacts
  <2>2. DOMAIN pc = Runs
    BY <1>t DEF TypeInv
  <2> QED
    BY <1>t, <2>1, <2>2 DEF TypeOK, TypeInv, Statuses
<1>2. StartsAreClean
  <2> SUFFICES ASSUME NEW r \in Runs, pc[r] \in {"append", "capture", "agents"},
                      NEW k \in DOMAIN history, history[k].run # r
               PROVE  SettledRow(k)
    BY DEF StartsAreClean, SettledRow
  <2>1. CASE k = Len(history)
    BY <1>t, <2>1 DEF RunInv, Entered
  <2>2. CASE k # Len(history)
    <3>1. k \in 1..(Len(history) - 1)
      BY <1>h, <2>2
    <3> QED
      BY <1>t, <3>1 DEF SettledInv
  <2> QED
    BY <2>1, <2>2
<1>3. AuditIsTrue
  <2> SUFFICES ASSUME NEW r \in Ids, <<r, "failed">> \in audit
               PROVE  /\ Status(history, r) = "failed"
                      /\ recon[r] = "failed" /\ mirror[r].recon = "failed"
    BY DEF AuditIsTrue
  <2>1. RowIs(history, r, "failed") /\ recon[r] = "failed" /\ mirror[r].recon = "failed"
    BY <1>t DEF AuditInv
  <2> QED
    BY <1>h, <2>1, RowIsFacts
<1> QED
  BY <1>1, <1>2, <1>3

\* The inductive invariant: with one process at a time, as the runbook asks,
\* the guard of start_run_record, the finalizer, the failure layers and the
\* resolver keep it through every kill and raised error.
THEOREM LifecycleInvariant ==
    ASSUME MaxLive = 1
    PROVE  Spec => []IInv
<1>1. IInv /\ [Next]_vars => IInv'
  BY IInvStep
<1> QED
  BY <1>1, IInvInit, PTL DEF Spec

\* The control files hold what the code writes, and no run ever has two rows in
\* run_history.csv.
THEOREM LifecycleTypes ==
    ASSUME MaxLive = 1
    PROVE  Spec => []TypeOK
<1>1. IInv => TypeOK
  BY IInvImplies
<1> QED
  BY <1>1, LifecycleInvariant, PTL

\* The start guard proves only the latest row, and yet every other run is
\* terminal, and each success has its record and its reconciliation row, when
\* a run is let in.
THEOREM StartsClean ==
    ASSUME MaxLive = 1
    PROVE  Spec => []StartsAreClean
<1>1. IInv => StartsAreClean
  BY IInvImplies
<1> QED
  BY <1>1, LifecycleInvariant, PTL

\* What the resolver's audit trail lists as failed is failed in the history,
\* in the reconciliation summary and in SQLite, for as long as it is listed.
THEOREM AuditTrue ==
    ASSUME MaxLive = 1
    PROVE  Spec => []AuditIsTrue
<1>1. IInv => AuditIsTrue
  BY IInvImplies
<1> QED
  BY <1>1, LifecycleInvariant, PTL

\* No step of the finalizer, of the failure layers, of another run or of the
\* resolver turns a failed run into anything else.
THEOREM FailedFinal ==
    ASSUME MaxLive = 1
    PROVE  Spec => FailedIsFinal
<1> DEFINE A == \A r \in Ids :
                  (HasRow(history, r) /\ Status(history, r) = "failed")
                    => (HasRow(history, r)' /\ Status(history, r)' = "failed")
<1>1. IInv /\ [Next]_vars => A
  <2> SUFFICES ASSUME IInv, [Next]_vars, NEW r \in Ids, HasRow(history, r),
                      Status(history, r) = "failed"
               PROVE  HasRow(history', r) /\ Status(history', r) = "failed"
    BY DEF HasRow, Status, Rows
  <2>1. history \in Seq(HistoryRows) /\ Unique(history)
    BY DEF IInv, TypeInv
  <2>2. history' \in Seq(HistoryRows) /\ Unique(history')
    BY IInvStep DEF IInv, TypeInv
  <2>3. RowIs(history, r, "failed")
    BY <2>1, RowIsFacts
  <2>4. RowIs(history', r, "failed")
    BY <2>3, FailedStep
  <2> QED
    BY <2>2, <2>4, RowIsFacts
<1>2. IInv /\ [Next]_vars => [A]_vars
  BY <1>1
<1> HIDE DEF A
<1>3. Spec => [][A]_vars
  BY <1>2, LifecycleInvariant, PTL DEF Spec
<1> QED
  BY <1>3 DEF A, FailedIsFinal
==============================================================================
