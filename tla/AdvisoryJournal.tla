-------------------------- MODULE AdvisoryJournal --------------------------
(***************************************************************************)
(* trade_journal.csv: the record of the advice each run gave, which the    *)
(* owner annotates by hand.  The Journal Agent appends the advice of a run *)
(* under the key (run_id, ticker); history_migration moves a journal from  *)
(* before there were keys to its operational form, keeping the original    *)
(* bytes in an archive.  The two exclude each other with a file lock; the  *)
(* owner's editor takes no lock.  The migration may be killed after any of *)
(* its writes and is then applied again from what it left.                 *)
(***************************************************************************)
EXTENDS Integers, FiniteSets

CONSTANTS
  Tickers,      \* tickers that may be on the final shortlist
  Advice,       \* what the advice on a ticker may say
  MaxReviews,   \* bound: annotations by the owner
  Blank         \* a run_id or ticker left empty

ASSUME AdviceExists == Tickers # {} /\ Advice # {}

VARIABLES
  journal,      \* the rows of trade_journal.csv
  archives,     \* trade_journal.csv.history: one record per directory
  historyDir,   \* whether that directory exists
  mig,          \* the migration at work; it holds the lock
  reviews

jvars == <<journal, archives, historyDir, mig, reviews>>

Unlocked == [name |-> {}, current |-> {}, pc |-> "unlocked"]

Row(r, t, a, at) == [run |-> r, ticker |-> t, advice |-> a, at |-> at, review |-> "open"]

\* Journals older versions left: rows without an identity, and rows a retry
\* appended a second time.
Legacy == LET t == CHOOSE x \in Tickers : TRUE  a == CHOOSE x \in Advice : TRUE
          IN  {Row(0, Blank, a, 0), Row(0, t, a, 0), Row(0, t, a, 1)}

JInit ==
  /\ journal \in SUBSET Legacy
  /\ archives = {} /\ historyDir = FALSE /\ mig = Unlocked /\ reviews = 0

----------------------------------------------------------------------------
(* What the two writers make of the rows *)

Keyed(rows) == {r \in rows : r.ticker # Blank}
SameKey(r, s) == r.run = s.run /\ r.ticker = s.ticker

\* journal_duplicate_source_or_review_conflict
Conflicting(rows) ==
  \E r, s \in Keyed(rows) : SameKey(r, s) /\ (r.advice # s.advice \/ r.review # s.review)

\* _plan: the rows with an identity, each group by its earliest entry.
Operational(rows) ==
  {r \in Keyed(rows) : \A s \in Keyed(rows) : SameKey(r, s) => r.at <= s.at}

\* An archive directory is named after the hash of its original and is done
\* when completed.json is there.
Done(dir) == dir.stage = "completed"

\* validate_journal_history
HistoryComplete == historyDir => archives # {} /\ \A dir \in archives : Done(dir)

\* merge_journal_entries on the existing rows: no blank and no repeated key.
Mergeable == /\ Keyed(journal) = journal
             /\ \A r, s \in journal : SameKey(r, s) => r = s

\* Changed source advice under a key the journal has.
Contradicts(new) == \E r \in journal, s \in new : SameKey(r, s) /\ r.advice # s.advice

\* The entries whose key the journal does not have.
Additions(new) == {s \in new : \A r \in journal : ~SameKey(r, s)}

----------------------------------------------------------------------------
(* The Journal Agent and the owner *)

\* build_journal_entries, for a shortlist that says advice[t] of ticker t.
Entries(r, shortlist) == {Row(r, t, shortlist[t], 2) : t \in DOMAIN shortlist}

\* main and record_shortlist; the lock is not waited for.
Record(r, shortlist) ==
  LET new == Entries(r, shortlist) IN
  /\ mig = Unlocked /\ HistoryComplete
  /\ Mergeable /\ ~Contradicts(new)
  /\ journal' = journal \cup Additions(new)
  /\ UNCHANGED <<archives, historyDir, mig, reviews>>

\* The owner fills in the review columns of a row, whatever is running.
Review(r) ==
  /\ reviews < MaxReviews /\ r.review = "open"
  /\ journal' = (journal \ {r}) \cup {[r EXCEPT !.review = "done"]}
  /\ reviews' = reviews + 1
  /\ UNCHANGED <<archives, historyDir, mig>>

----------------------------------------------------------------------------
(* The migration *)

\* The directory of the plan for `original', if it exists.
Directory(original) == {dir \in archives : dir.name = original}

\* apply_migration up to its first write, for a plan inspected on the journal
\* `reviewed'.  A directory without its original.csv cannot be resumed.
Begin(reviewed) ==
  LET dirs == Directory(reviewed)
      original == IF dirs = {} THEN journal ELSE reviewed IN
  /\ mig = Unlocked
  /\ \A dir \in dirs : dir.stage # "made"
  /\ ~Conflicting(original)
  /\ original = reviewed
  /\ \A dir \in dirs : ~Done(dir)
  /\ journal \in {original, Operational(original)}
  /\ \A dir \in archives \ dirs : Done(dir)
  /\ historyDir' = TRUE
  /\ mig' = [name |-> reviewed, current |-> journal, pc |-> "archive"]
  /\ UNCHANGED <<journal, archives, reviews>>

\* _directory and the four _create_exact calls, in order; a file that is there
\* with the same bytes is left alone.
Stages == <<"made", "original", "operational", "plan", "prepared">>

Archive ==
  LET dirs == Directory(mig.name)
      at == IF dirs = {} THEN 0
            ELSE CHOOSE i \in 1..5 : \E dir \in dirs : dir.stage = Stages[i] IN
  /\ mig.pc = "archive"
  /\ IF at = 5
       THEN mig' = [mig EXCEPT !.pc = "replace"] /\ UNCHANGED archives
       ELSE /\ archives' = (archives \ dirs) \cup {[name |-> mig.name, stage |-> Stages[at + 1]]}
            /\ UNCHANGED mig
  /\ UNCHANGED <<journal, historyDir, reviews>>

\* Mutant: the operational rows are written without reading the source again.
ReplaceBlindly ==
  /\ mig.pc = "replace"
  /\ journal' = Operational(mig.name)
  /\ mig' = [mig EXCEPT !.pc = "complete"]
  /\ UNCHANGED <<archives, historyDir, reviews>>

\* The source is replaced if it was the original when the lock was taken, and
\* still is when it is read again.
Replace ==
  /\ mig.pc = "replace"
  /\ IF mig.current # mig.name
       THEN mig' = [mig EXCEPT !.pc = "complete"] /\ UNCHANGED journal
     ELSE IF journal = mig.name
       THEN journal' = Operational(mig.name) /\ mig' = [mig EXCEPT !.pc = "complete"]
       ELSE mig' = Unlocked /\ UNCHANGED journal
  /\ UNCHANGED <<archives, historyDir, reviews>>

\* The readback, completed.json and the release of the lock.
Complete ==
  /\ mig.pc = "complete"
  /\ archives' = IF journal = Operational(mig.name)
                   THEN (archives \ Directory(mig.name))
                          \cup {[name |-> mig.name, stage |-> "completed"]}
                   ELSE archives
  /\ mig' = Unlocked
  /\ UNCHANGED <<journal, historyDir, reviews>>

\* A kill releases the lock.
MigrationDies ==
  /\ mig # Unlocked /\ mig' = Unlocked
  /\ UNCHANGED <<journal, archives, historyDir, reviews>>

----------------------------------------------------------------------------

\* What keeps a row of the journal: the row itself, or an archive that holds
\* it next to, when it has an identity, a row that says the same of the key.
Kept(r, rows, dirs) ==
  \/ r \in rows
  \/ /\ \E dir \in dirs : r \in dir.name /\ dir.stage \in {"prepared", "completed"}
     /\ r \in Keyed({r}) =>
          \E s \in rows : SameKey(r, s) /\ r.advice = s.advice /\ r.review = s.review

\* No step of the Journal Agent or of the migration, however often either is
\* killed and repeated, loses advice or an annotation: a row leaves the journal
\* only for an archive, and if it has an identity its advice and its review
\* stay in the journal too (record_shortlist, apply_migration).
AdviceIsKept ==
  [][reviews' = reviews => \A r \in journal : Kept(r, journal', archives')]_jvars
============================================================================
