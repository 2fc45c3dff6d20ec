---------------------------- MODULE Bookkeeping ----------------------------
(***************************************************************************)
(* The second half of a pipeline run as run_pipeline drives it: the books  *)
(* (PositionDay) and then the journal (AdvisoryJournal), between the two   *)
(* ends of RunSeal, with the journal migration, the owner's annotations    *)
(* and changes to the books going on beside the runs.                      *)
(***************************************************************************)
EXTENDS RunSeal, AdvisoryJournal

bvars == <<vars, svars, jvars>>

BInit == SInit /\ JInit

\* The Journal Agent as the last agent of a run, or started again by hand with
\* the id of that run.  A shortlist may be empty, and then nothing is recorded.
JournalRun ==
  /\ run > 0 /\ pc \in {"journal", "idle"}
  /\ \/ \E on \in (SUBSET Tickers) \ {{}} : \E shortlist \in [on -> Advice] : Record(run, shortlist)
     \/ pc = "journal" /\ UNCHANGED jvars
  /\ pc' = IF pc = "journal" THEN "finalize" ELSE "idle"
  /\ UNCHANGED <<run, books, snapshot, report, monitor, alerts, exits, equity, edits, svars>>

AgentsNext ==
  \/ Dies
  \/ FillNothing
  \/ \E p \in Positions : \/ \E q \in Quantities : FillOpens(p, q)
                          \/ \E price \in ExitPrices : FillCloses(p, price)
                          \/ Edit(p)
  \/ EditCash
  \/ Integrity("integrity1", "tracking") \/ Integrity("integrity2", "exit")
  \/ TrackingAlerts \/ TrackingMarks
  \/ ExitAgent \/ EquityHistory \/ EquitySummary \/ EquitySidecar

\* Everything the migration touches is out of reach of the other agents: its
\* steps are generated between runs and at the Journal Agent's turn only.
JournalNext ==
  /\ pc \in {"idle", "journal"}
  /\ \/ \E r \in journal : Review(r)
     \/ \E reviewed \in {journal} \cup {dir.name : dir \in archives} : Begin(reviewed)
     \/ Archive \/ Replace \/ Complete \/ MigrationDies

BNext ==
  \/ AgentsNext /\ UNCHANGED <<svars, jvars>>
  \/ (StartRun \/ Capture \/ Finalize) /\ UNCHANGED jvars
  \/ JournalNext /\ UNCHANGED <<vars, svars>>
  \/ JournalRun

Spec == BInit /\ [][BNext]_bvars
============================================================================
