------------------------- MODULE BookkeepingProofs -------------------------
(*****************************************************************************)
(* Safety of the daily bookkeeping, which is PositionDay, RunSeal and        *)
(* AdvisoryJournal in one, for any number of positions, quantities, prices,  *)
(* runs, edits and reviews.                                                  *)
(*                                                                           *)
(* Of the books: two sealed runs in a row are explained by the fills         *)
(* between them (SealedExplained), a closed position is not touched again    *)
(* (ClosedFrozen), and the equity row is what the monitor's values sum to    *)
(* (EquityCounts). SealedIsExplained is not inductive. A manifest is         *)
(* compared with the one before through the equity row of its run, so        *)
(* SealAt ties each manifest to that row, and CashInv ties the row to the    *)
(* two copies of the cash: edits only add to the file, so when finalize      *)
(* finds the file, the row and the SQLite copy in agreement, no edit was     *)
(* made since the booking.                                                   *)
(*                                                                           *)
(* Of the journal: advice that is recorded and not reviewed stays in the     *)
(* journal, or in the archive that a migration left (AdviceKept), because a  *)
(* migration replaces a journal only after it was archived as it is          *)
(* (JournalInv).                                                             *)
(*****************************************************************************)
EXTENDS Bookkeeping, SumTheorems

\* The agents before the equity row of a run is written, and those after it.
Early == {"capture", "fill", "integrity1", "tracking", "marking", "integrity2",
          "exit", "equity"}
Late == {"summary", "sidecar", "journal", "finalize"}

\* What the variables hold.
Columns == {"status", "quantity", "pnl", "flag", "run", "whole"}

HistoryRows == [run : Nat, cash : Int, value : Int, total : Int]

\* The history is never empty; a row of the state has every column.
BookTypes ==
  /\ run \in Nat /\ pc \in {"idle"} \cup Early \cup Late
  /\ DOMAIN state = Positions
  /\ \A p \in Positions : state[p] # None =>
       DOMAIN state[p] = Columns /\ state[p].quantity \in Int
  /\ cash \in Int
  /\ DOMAIN monitor \subseteq Positions
  /\ \A p \in DOMAIN monitor : monitor[p].quantity \in Int /\ monitor[p].price \in Int
  /\ history \in Seq(HistoryRows) /\ history # <<>>
  /\ DOMAIN sidecar = {"state", "cash", "equity"} /\ sidecar.cash \in Int
  /\ DOMAIN pre = {"state", "cash", "fills"}

\* The SQLite copy of the cash follows the bookings and not the other changes,
\* which only add to it.  The equity row of a run is the last of the history,
\* and is taken after its last booking.
CashInv ==
  /\ sidecar.cash <= cash
  /\ \A i \in DOMAIN history : history[i].run <= run
  /\ pc \in Early => \A i \in DOMAIN history : history[i].run < run
  /\ pc \in Late =>
       /\ Len(history) >= 2
       /\ \A i \in 1..(Len(history) - 1) : history[i].run < run
       /\ history[Len(history)].run = run
       /\ sidecar.cash <= history[Len(history)].cash
       /\ history[Len(history)].cash <= cash

\* The manifest of a run states the cash of that run's equity row, which is the
\* last row until the next run appends its own.
SealAt(m) ==
  /\ m.run \in Nat /\ m.run <= run
  /\ pc # "idle" => m.run < run
  /\ m.run = run => history[Len(history)].cash = m.post.cash
  /\ m.run = run - 1 /\ pc \in Early => history[Len(history)].cash = m.post.cash
  /\ m.run = run - 1 /\ pc \in Late => history[Len(history) - 1].cash = m.post.cash

\* ... for every manifest there is.
SealInv == \A m \in sealed : SealAt(m)

\* The rows of the journal and the contents of an archive.
JournalRows == [run : Nat, ticker : Tickers \cup {Blank}, advice : Advice, at : 0..2,
                review : {"open", "done"}]

StageNames == {"made", "original", "operational", "plan", "prepared", "completed"}

\* A migration at work has a plan without conflicts, whose archive is not
\* completed yet, and is prepared before the journal is replaced.
JournalInv ==
  /\ journal \in SUBSET JournalRows /\ reviews \in Nat
  /\ archives \in SUBSET [name : SUBSET JournalRows, stage : StageNames]
  /\ mig \in [name : SUBSET JournalRows, current : SUBSET JournalRows,
              pc : {"unlocked", "archive", "replace", "complete"}]
  /\ mig.pc # "unlocked" => ~Conflicting(mig.name)
  /\ mig.pc = "archive" => \A dir \in Directory(mig.name) : dir.stage # "completed"
  /\ mig.pc = "replace" => \E dir \in Directory(mig.name) : dir.stage = "prepared"

\* The inductive invariant, of the books and of the journal.
BookInv == BookTypes /\ CashInv /\ SealInv /\ SealedIsExplained

IInv == BookInv /\ JournalInv

----------------------------------------------------------------------------
(* The value of the open positions *)

\* The monitor has finitely many rows, so their values have a sum.
LEMMA MonitorFinite == BookTypes => IsFiniteSet(DOMAIN monitor)
BY AmountsAreIntegers, FS_Subset DEF BookTypes

\* OpenMarketValue adds up quantity times price over the monitor.
LEMMA MarketValueSums ==
  ASSUME BookTypes
  PROVE  \E g : /\ Sums(g, [p \in DOMAIN monitor |-> monitor[p].quantity * monitor[p].price],
                        DOMAIN monitor)
                /\ OpenMarketValue = g[DOMAIN monitor]
<1> DEFINE X == DOMAIN monitor
           G(g) == g = [s \in SUBSET X |->
             IF s = {} THEN 0
             ELSE monitor[Pick(s)].quantity * monitor[Pick(s)].price + g[s \ {Pick(s)}]]
           it == CHOOSE g : G(g)
           w == [p \in X |-> monitor[p].quantity * monitor[p].price]
<1>1. OpenMarketValue = it[X]
  BY DEF OpenMarketValue, MapThenSumSet, MapThenFoldSet, Pick
<1>2. \A s \in SUBSET X : s # {} =>
        w[Pick(s)] = monitor[Pick(s)].quantity * monitor[Pick(s)].price
  BY DEF Pick
<1> HIDE DEF w
<1>3. \A g : Sums(g, w, X) <=> G(g)
  BY <1>2 DEF Sums
<1>4. G(it)
  BY Zenon, <1>3, SumExists, MonitorFinite
<1> HIDE DEF G, it
<1>5. Sums(it, w, X)
  BY <1>3, <1>4
<1> QED
  BY <1>1, <1>5 DEF w

\* It is an amount.
LEMMA MarketValueType == BookTypes => OpenMarketValue \in Int
<1> SUFFICES ASSUME BookTypes PROVE OpenMarketValue \in Int
  OBVIOUS
<1> DEFINE X == DOMAIN monitor
           w == [p \in X |-> monitor[p].quantity * monitor[p].price]
<1>1. PICK g : Sums(g, w, X) /\ OpenMarketValue = g[X]
  BY MarketValueSums
<1>2. w \in [X -> Int]
  BY DEF BookTypes
<1> HIDE DEF w
<1> QED
  BY <1>1, <1>2, SumIsInt, MonitorFinite

\* The same sum over the positions of the books.
BookValue == MapThenSumSet(LAMBDA p : state[p].quantity * monitor[p].price, Active(state))

\* A monitor that agrees with the books values what they hold.
LEMMA AgreeingValues ==
  ASSUME BookTypes, MonitorAgrees
  PROVE  OpenMarketValue = BookValue
<1> DEFINE X == DOMAIN monitor
           G(g) == g = [s \in SUBSET X |->
             IF s = {} THEN 0
             ELSE state[Pick(s)].quantity * monitor[Pick(s)].price + g[s \ {Pick(s)}]]
           it == CHOOSE g : G(g)
           w == [p \in X |-> monitor[p].quantity * monitor[p].price]
<1>0. X = Active(state) /\ \A p \in X : monitor[p].quantity = state[p].quantity
  BY DEF MonitorAgrees
<1>1. BookValue = it[X]
  <2>1. X = Active(state)
    BY <1>0
  <2> HIDE DEF X
  <2> QED
    BY <2>1 DEF BookValue, MapThenSumSet, MapThenFoldSet, Pick
<1>2. \A s \in SUBSET X : s # {} =>
        w[Pick(s)] = state[Pick(s)].quantity * monitor[Pick(s)].price
  BY <1>0 DEF Pick
<1>p. PICK g : Sums(g, w, X) /\ OpenMarketValue = g[X]
  BY MarketValueSums
<1> HIDE DEF w
<1>3. \A h : Sums(h, w, X) <=> G(h)
  BY <1>2 DEF Sums
<1>4. G(it)
  BY ZenonT(30), <1>3, SumExists, MonitorFinite
<1> HIDE DEF G, it
<1>5. Sums(it, w, X)
  BY <1>3, <1>4
<1>6. it = g
  BY ZenonT(30), <1>5, <1>p, SumUnique, MonitorFinite
<1> QED
  BY <1>1, <1>p, <1>6

----------------------------------------------------------------------------
(* The journal *)

\* The rows the Journal Agent writes, and the ones older versions left.
LEMMA RowType ==
  /\ \A r \in Nat, t \in Tickers \cup {Blank}, a \in Advice, at \in 0..2 :
       Row(r, t, a, at) \in JournalRows
  /\ Legacy \in SUBSET JournalRows
<1>1. \A r \in Nat, t \in Tickers \cup {Blank}, a \in Advice, at \in 0..2 :
        Row(r, t, a, at) \in JournalRows
  BY DEF Row, JournalRows
<1>2. (CHOOSE x \in Tickers : TRUE) \in Tickers /\ (CHOOSE x \in Advice : TRUE) \in Advice
  BY AdviceExists
<1>3. Legacy \in SUBSET JournalRows
  BY SMTT(30), <1>1, <1>2 DEF Legacy
<1> QED
  BY ZenonT(30), <1>1, <1>3

\* Of the rows with one key the plan keeps one of the earliest.
LEMMA EarliestKept ==
  ASSUME NEW rows \in SUBSET JournalRows, NEW r \in Keyed(rows)
  PROVE  \E s \in Operational(rows) : SameKey(r, s)
<1> DEFINE Same == {s \in Keyed(rows) : SameKey(r, s)}
<1>1. r \in Same /\ \A s \in Same : s.at \in 0..2
  BY DEF SameKey, Keyed, JournalRows
<1>2. \E s \in Same : \A u \in Same : s.at <= u.at
  <2>1. CASE \E s \in Same : s.at = 0
    BY <1>1, <2>1
  <2>2. CASE (~ \E s \in Same : s.at = 0) /\ \E s \in Same : s.at = 1
    BY <1>1, <2>2
  <2>3. CASE (~ \E s \in Same : s.at = 0) /\ (~ \E s \in Same : s.at = 1)
    BY <1>1, <2>3
  <2> QED
    BY <2>1, <2>2, <2>3
<1> QED
  BY <1>2 DEF Operational, SameKey

\* Migration adds no row.
LEMMA OperationalSubset == \A rows : Operational(rows) \subseteq rows
BY DEF Operational, Keyed

\* The journal starts empty and without archives.
LEMMA JournalInit == JInit => JournalInv
BY RowType DEF JInit, JournalInv, Unlocked

\* A run records its shortlist, a row is reviewed, a migration begins.
Recorded == \E on \in (SUBSET Tickers) \ {{}} : \E shortlist \in [on -> Advice] :
              Record(run, shortlist)
Reviewed == \E r \in journal : Review(r)
Begun == \E reviewed \in {journal} \cup {dir.name : dir \in archives} : Begin(reviewed)

\* The steps of AdvisoryJournal, as Bookkeeping takes them.
JournalStep == \/ Recorded \/ Reviewed \/ Begun \/ Archive \/ Replace \/ Complete
               \/ MigrationDies \/ UNCHANGED jvars

\* The agent, the owner and every step of the migration keep the invariant,
\* and none but the owner takes a row away that is not kept elsewhere.
LEMMA JournalKeeps ==
  ASSUME JournalInv, run \in Nat, JournalStep
  PROVE  /\ JournalInv'
         /\ reviews' = reviews => \A r \in journal : Kept(r, journal', archives')
<1> DEFINE P == /\ JournalInv'
                /\ reviews' = reviews => \A r \in journal : Kept(r, journal', archives')
<1>i. /\ journal \in SUBSET JournalRows /\ reviews \in Nat
      /\ archives \in SUBSET [name : SUBSET JournalRows, stage : StageNames]
      /\ mig \in [name : SUBSET JournalRows, current : SUBSET JournalRows,
                  pc : {"unlocked", "archive", "replace", "complete"}]
      /\ mig.pc # "unlocked" => ~Conflicting(mig.name)
      /\ mig.pc = "archive" => \A dir \in Directory(mig.name) : dir.stage # "completed"
      /\ mig.pc = "replace" => \E dir \in Directory(mig.name) : dir.stage = "prepared"
  BY DEF JournalInv
<1>u. /\ Unlocked.pc = "unlocked"
      /\ Unlocked \in [name : SUBSET JournalRows, current : SUBSET JournalRows,
                       pc : {"unlocked", "archive", "replace", "complete"}]
  BY DEF Unlocked
<1>k. journal \subseteq journal' => \A r \in journal : Kept(r, journal', archives')
  BY DEF Kept
<1>1. ASSUME NEW on \in SUBSET Tickers, NEW shortlist \in [on -> Advice],
             Record(run, shortlist)
      PROVE  P
  <2>1. Entries(run, shortlist) \in SUBSET JournalRows
    BY RowType DEF Entries
  <2>2. /\ journal' = journal \cup Additions(Entries(run, shortlist))
        /\ UNCHANGED <<archives, historyDir, mig, reviews>>
    BY <1>1 DEF Record
  <2>3. journal' \in SUBSET JournalRows /\ journal \subseteq journal'
    BY ZenonT(30), <1>i, <2>1, <2>2 DEF Additions
  <2> QED
    BY ZenonT(30), <1>i, <1>k, <2>2, <2>3 DEF JournalInv, Directory
<1>2. ASSUME NEW r \in journal, Review(r) PROVE P
  <2>1. [r EXCEPT !.review = "done"] \in JournalRows
    BY <1>i DEF JournalRows
  <2>2. journal' \in SUBSET JournalRows /\ reviews' \in Nat /\ reviews' # reviews
        /\ UNCHANGED <<archives, historyDir, mig>>
    BY SMTT(30), <1>2, <1>i, <2>1 DEF Review
  <2> QED
    BY <1>i, <2>2 DEF JournalInv, Directory
<1>3. ASSUME NEW reviewed \in {journal} \cup {dir.name : dir \in archives}, Begin(reviewed)
      PROVE  P
  <2>1. reviewed \in SUBSET JournalRows
    BY <1>i
  <2>2. /\ mig' = [name |-> reviewed, current |-> journal, pc |-> "archive"]
        /\ ~Conflicting(reviewed)
        /\ \A dir \in Directory(reviewed) : dir.stage # "completed"
        /\ UNCHANGED <<journal, archives, reviews>>
    BY <1>3 DEF Begin, Done
  <2>3. /\ mig' \in [name : SUBSET JournalRows, current : SUBSET JournalRows,
                     pc : {"unlocked", "archive", "replace", "complete"}]
        /\ mig'.name = reviewed /\ mig'.pc = "archive"
    BY <1>i, <2>1, <2>2
  <2> QED
    BY ZenonT(30), <1>i, <1>k, <2>2, <2>3 DEF JournalInv, Directory
<1>4. CASE Archive
  <2> DEFINE dirs == Directory(mig.name)
             at == IF dirs = {} THEN 0
                   ELSE CHOOSE i \in 1..5 : \E dir \in dirs : dir.stage = Stages[i]
  <2>1. mig.pc = "archive" /\ UNCHANGED <<journal, historyDir, reviews>>
    BY <1>4 DEF Archive
  <2>2. \/ at = 5 /\ mig' = [mig EXCEPT !.pc = "replace"] /\ UNCHANGED archives
        \/ /\ at # 5 /\ UNCHANGED mig
           /\ archives' = (archives \ dirs) \cup {[name |-> mig.name, stage |-> Stages[at + 1]]}
    BY Zenon, <1>4 DEF Archive
  <2>3. dirs # {} => at \in 1..5 /\ \E dir \in dirs : dir.stage = Stages[at]
    <3>1. ASSUME NEW d \in dirs
          PROVE  \E i \in 1..5 : \E dir \in dirs : dir.stage = Stages[i]
      <4>1. d.stage \in {"made", "original", "operational", "plan", "prepared"}
        BY <1>i, <2>1 DEF Directory, StageNames
      <4> HIDE DEF dirs
      <4>2. /\ Stages[1] = "made" /\ Stages[2] = "original" /\ Stages[3] = "operational"
            /\ Stages[4] = "plan" /\ Stages[5] = "prepared"
        BY DEF Stages
      <4> QED
        BY <4>1, <4>2
    <3> HIDE DEF dirs
    <3> QED
      BY ZenonT(30), <3>1
  <2> HIDE DEF at
  <2>4. at \in 0..5 /\ (at = 5 => \E dir \in dirs : dir.stage = "prepared")
    <3>1. dirs = {} => at = 0
      BY DEF at
    <3>2. Stages[5] = "prepared"
      BY DEF Stages
    <3> HIDE DEF dirs
    <3> QED
      BY SMTT(30), <2>3, <3>1, <3>2
  <2>5. CASE at = 5
    <3>1. /\ mig' \in [name : SUBSET JournalRows, current : SUBSET JournalRows,
                       pc : {"unlocked", "archive", "replace", "complete"}]
          /\ mig'.name = mig.name /\ mig'.pc = "replace"
      BY <1>i, <2>2, <2>5
    <3>2. UNCHANGED archives
      BY <2>2, <2>5
    <3> QED
      BY ZenonT(30), <1>i, <1>k, <2>1, <2>4, <2>5, <3>1, <3>2 DEF JournalInv, Directory
  <2>6. CASE at # 5
    <3> DEFINE new == [name |-> mig.name, stage |-> Stages[at + 1]]
    <3>1. Stages[at + 1] \in {"made", "original", "operational", "plan", "prepared"}
      BY <2>4, <2>6 DEF Stages
    <3>2. new \in [name : SUBSET JournalRows, stage : StageNames] /\ new.stage # "completed"
      BY <1>i, <3>1 DEF StageNames
    <3>3. archives' = (archives \ dirs) \cup {new} /\ UNCHANGED mig
      BY <2>2, <2>6
    <3> HIDE DEF new
    <3>4. archives' \in SUBSET [name : SUBSET JournalRows, stage : StageNames]
      BY ZenonT(30), <1>i, <3>2, <3>3
    <3>5. \A dir \in Directory(mig.name)' : dir.stage # "completed"
      BY ZenonT(30), <1>i, <2>1, <3>2, <3>3 DEF Directory
    <3> QED
      BY ZenonT(30), <1>i, <1>k, <2>1, <3>3, <3>4, <3>5 DEF JournalInv
  <2> QED
    BY <2>5, <2>6
<1>5. CASE Replace
  <2>1. mig.pc = "replace" /\ UNCHANGED <<archives, historyDir, reviews>>
    BY <1>5 DEF Replace
  <2>2. \/ mig' = [mig EXCEPT !.pc = "complete"] /\ UNCHANGED journal
        \/ /\ journal = mig.name /\ journal' = Operational(mig.name)
           /\ mig' = [mig EXCEPT !.pc = "complete"]
        \/ mig' = Unlocked /\ UNCHANGED journal
    BY <1>5 DEF Replace
  <2>3. /\ mig' \in [name : SUBSET JournalRows, current : SUBSET JournalRows,
                     pc : {"unlocked", "archive", "replace", "complete"}]
        /\ mig'.pc \in {"unlocked", "complete"}
        /\ mig'.pc = "complete" => mig'.name = mig.name
    BY <1>i, <1>u, <2>2
  <2>4. journal' \in SUBSET JournalRows
    BY <1>i, <2>2, OperationalSubset
  <2>5. JournalInv'
    BY <1>i, <2>1, <2>3, <2>4 DEF JournalInv
  <2>6. ASSUME NEW r \in journal PROVE Kept(r, journal', archives')
    <3>1. CASE UNCHANGED journal
      BY <3>1 DEF Kept
    <3>2. CASE journal = mig.name /\ journal' = Operational(mig.name)
      <4>1. \E dir \in archives' : r \in dir.name /\ dir.stage \in {"prepared", "completed"}
        BY <1>i, <2>1, <3>2 DEF Directory
      <4>2. ASSUME r \in Keyed({r})
            PROVE  \E s \in journal' :
                     SameKey(r, s) /\ r.advice = s.advice /\ r.review = s.review
        <5>1. r \in Keyed(journal)
          BY <4>2 DEF Keyed
        <5>2. PICK s \in Operational(journal) : SameKey(r, s)
          BY <1>i, <5>1, EarliestKept
        <5>3. s \in Keyed(journal)
          BY <5>2 DEF Operational
        <5> QED
          BY ZenonT(30), <1>i, <2>1, <3>2, <5>1, <5>2, <5>3 DEF Conflicting
      <4> QED
        BY <4>1, <4>2 DEF Kept
    <3> QED
      BY <2>2, <3>1, <3>2
  <2> QED
    BY <2>5, <2>6
<1>6. CASE Complete
  <2> DEFINE new == [name |-> mig.name, stage |-> "completed"]
  <2>1. /\ mig' = Unlocked /\ UNCHANGED <<journal, historyDir, reviews>>
        /\ archives' \subseteq archives \cup {new}
    BY <1>6 DEF Complete
  <2>2. new \in [name : SUBSET JournalRows, stage : StageNames]
    BY <1>i DEF StageNames
  <2> HIDE DEF new
  <2>3. archives' \in SUBSET [name : SUBSET JournalRows, stage : StageNames]
    BY <1>i, <2>1, <2>2
  <2> QED
    BY ZenonT(30), <1>i, <1>k, <1>u, <2>1, <2>3 DEF JournalInv
<1>7. CASE MigrationDies
  BY <1>7, <1>i, <1>k, <1>u DEF MigrationDies, JournalInv
<1>8. CASE UNCHANGED jvars
  BY <1>8, <1>i, <1>k DEF jvars, JournalInv, Directory
<1>9. CASE Recorded
  <2>1. PICK on \in (SUBSET Tickers) \ {{}} : \E shortlist \in [on -> Advice] :
               Record(run, shortlist)
    BY <1>9 DEF Recorded
  <2>2. on \in SUBSET Tickers
    OBVIOUS
  <2> QED
    BY <1>1, <2>1, <2>2
<1>10. CASE Reviewed
  BY <1>2, <1>10 DEF Reviewed
<1>11. CASE Begun
  BY <1>3, <1>11 DEF Begun
<1> QED
  BY ZenonT(30), <1>4, <1>5, <1>6, <1>7, <1>8, <1>9, <1>10, <1>11 DEF JournalStep

----------------------------------------------------------------------------
(* The sealed runs *)

\* The fills a manifest lists for its own run, and the sum of their amounts.
Ledger(m) == {f \in m.post.fills : f.run = m.run}

Total(X) == MapThenSumSet(LAMBDA f : f.amount, X)

\* What SealedIsExplained says of one manifest and of two in a row.
LeftAlone(m) == Ledger(m) = {} => m.post.state = m.pre.state
Follows(last, m) ==
  last.run = m.run - 1 => m.post.cash - last.post.cash = Total(Ledger(m))

\* SealedIsExplained in these terms.
LEMMA SealedMeans ==
  SealedIsExplained <=> \A m \in sealed : /\ \A last \in sealed : Follows(last, m)
                                          /\ LeftAlone(m)
BY DEF SealedIsExplained, Follows, LeftAlone, Ledger, Total

\* The same after a step.
LEMMA SealedMeansNext ==
  SealedIsExplained' <=> \A m \in sealed' : /\ \A last \in sealed' : Follows(last, m)
                                            /\ LeftAlone(m)
BY DEF SealedIsExplained, Follows, LeftAlone, Ledger, Total, MapThenSumSet, MapThenFoldSet

\* A step that leaves the history and the manifests alone: it stays on its side
\* of the equity row, or ends the run, and the cash moves by a booking, in both
\* copies, or by a change from outside.
LEMMA BookFrame ==
  ASSUME BookInv, BookTypes', UNCHANGED <<run, history, sealed>>,
         \/ sidecar'.cash = sidecar.cash /\ cash <= cash'
         \/ pc \in Early /\ sidecar'.cash = cash',
         \/ pc' = pc
         \/ pc \in Early /\ pc' \in Early \cup {"idle"}
         \/ pc \in Late /\ pc' \in Late \cup {"idle"}
  PROVE  BookInv'
<1>t. BookTypes /\ CashInv /\ SealInv /\ SealedIsExplained
  BY DEF BookInv
<1>e. /\ \A l \in Early : l # "idle" /\ l \notin Late
      /\ \A l \in Late : l # "idle" /\ l \notin Early
      /\ "idle" \notin Early /\ "idle" \notin Late
  BY DEF Early, Late
<1>n. /\ cash \in Int /\ cash' \in Int /\ sidecar.cash \in Int /\ sidecar'.cash \in Int
      /\ run \in Nat /\ Len(history) \in Nat \ {0} /\ DOMAIN history = 1..Len(history)
      /\ \A i \in DOMAIN history : history[i].cash \in Int
  <2>1. \A i \in DOMAIN history : history[i] \in HistoryRows
    BY <1>t DEF BookTypes
  <2> QED
    BY <1>t, <2>1 DEF BookTypes, HistoryRows
<1>1. CashInv'
  <2>1. sidecar'.cash <= cash'
    BY <1>n, <1>t DEF CashInv
  <2>2. pc' \in Early => pc \in Early
    BY <1>e
  <2>3. pc' \in Late => pc \in Late
    BY <1>e
  <2>4. pc \in Late => sidecar'.cash = sidecar.cash /\ cash <= cash'
    BY <1>e
  <2>5. pc \in Late => history[Len(history)].cash \in Int
    BY <1>n
  <2> QED
    BY SMTT(30), <1>n, <1>t, <2>1, <2>2, <2>3, <2>4, <2>5 DEF CashInv
<1>2. SealInv'
  <2> SUFFICES ASSUME NEW m \in sealed PROVE SealAt(m)'
    BY DEF SealInv
  <2>1. SealAt(m)
    BY <1>t DEF SealInv
  <2> QED
    BY <1>e, <1>n, <2>1 DEF SealAt
<1>3. SealedIsExplained'
  BY ZenonT(30), <1>t, SealedMeans, SealedMeansNext
<1> QED
  BY <1>1, <1>2, <1>3 DEF BookInv

\* The rows of portfolio_state.csv keep their columns and a numeric quantity.
RowsTyped(s) ==
  /\ DOMAIN s = Positions
  /\ \A p \in Positions : s[p] # None => DOMAIN s[p] = Columns /\ s[p].quantity \in Int

\* A step that leaves the monitor and the history alone keeps the types.
LEMMA TypesFrame ==
  ASSUME BookTypes, run' \in Nat, pc' \in {"idle"} \cup Early \cup Late, RowsTyped(state'),
         cash' \in Int, UNCHANGED <<monitor, history>>,
         DOMAIN sidecar' = {"state", "cash", "equity"}, sidecar'.cash \in Int,
         DOMAIN pre' = {"state", "cash", "fills"}
  PROVE  BookTypes'
BY DEF BookTypes, RowsTyped

\* ... of the rows of the state.
LEMMA StateTyped == BookTypes => RowsTyped(state)
BY DEF BookTypes, RowsTyped

----------------------------------------------------------------------------
(* The agents *)

\* The Fill Agent.
LEMMA FillKeeps ==
  ASSUME BookInv, UNCHANGED svars, NEW p \in Positions,
         \/ \E q \in Quantities : FillOpens(p, q)
         \/ \E price \in ExitPrices : FillCloses(p, price)
  PROVE  BookInv'
<1>t. BookTypes /\ RowsTyped(state) /\ cash \in Int
  BY StateTyped DEF BookInv, BookTypes
<1>a. ASSUME NEW rows, NEW amount \in Int, NEW kind, RowsTyped(rows),
             Booked(rows, amount, kind)
      PROVE  BookInv'
  <2>1. /\ pc = "fill" /\ pc' = "integrity1" /\ state' = rows /\ cash' = cash + amount
        /\ sidecar' = [sidecar EXCEPT !.state = rows, !.cash = cash + amount]
        /\ UNCHANGED <<run, monitor, history>>
    BY <1>a DEF Booked
  <2>2. pc \in Early /\ pc' \in Early
    BY <2>1 DEF Early
  <2>3. DOMAIN sidecar = {"state", "cash", "equity"}
    BY <1>t DEF BookTypes
  <2>4. /\ DOMAIN sidecar' = {"state", "cash", "equity"} /\ sidecar'.cash = cash'
        /\ cash' \in Int
    BY SMTT(30), <1>t, <1>a, <2>1, <2>3
  <2>5. UNCHANGED <<pre, sealed>>
    BY DEF svars
  <2>6. BookTypes'
    BY ZenonT(30), <1>a, <1>t, <2>1, <2>2, <2>4, <2>5, TypesFrame DEF BookTypes
  <2> QED
    BY ZenonT(30), <2>1, <2>2, <2>4, <2>5, <2>6, BookFrame
<1>1. ASSUME NEW q \in Quantities, FillOpens(p, q) PROVE BookInv'
  <2> DEFINE rows == [state EXCEPT ![p] = Opened(q)]
  <2>1. DOMAIN Opened(q) = Columns /\ Opened(q).quantity \in Int /\ -q * Entry \in Int
    BY AmountsAreIntegers DEF Opened, Columns
  <2>2. RowsTyped(rows)
    BY <1>t, <2>1 DEF RowsTyped
  <2>3. Booked(rows, -q * Entry, "open")
    BY <1>1 DEF FillOpens
  <2> HIDE DEF rows
  <2> QED
    BY ZenonT(30), <1>a, <2>1, <2>2, <2>3
<1>2. ASSUME NEW price \in ExitPrices, FillCloses(p, price) PROVE BookInv'
  <2> DEFINE rows == [state EXCEPT ![p] =
                       [@ EXCEPT !.status = "closed", !.flag = FALSE, !.run = run, !.whole = TRUE,
                                 !.pnl = @ + (price - Entry) * state[p].quantity]]
  <2>1. state[p] # None
    BY ZenonT(30), <1>2 DEF FillCloses, Active, Rows
  <2>2. DOMAIN state[p] = Columns /\ state[p].quantity \in Int
    BY <1>t, <2>1 DEF RowsTyped
  <2>3. /\ DOMAIN rows = Positions /\ \A r \in Positions : r # p => rows[r] = state[r]
        /\ DOMAIN rows[p] = Columns /\ rows[p].quantity = state[p].quantity
    BY ZenonT(30), <1>t, <2>2 DEF Columns, RowsTyped
  <2>4. Booked(rows, state[p].quantity * price, "close")
    BY ZenonT(30), <1>2 DEF FillCloses
  <2>5. state[p].quantity * price \in Int
    BY <2>2, AmountsAreIntegers
  <2> HIDE DEF rows
  <2>6. RowsTyped(rows)
    BY <1>t, <2>2, <2>3 DEF RowsTyped
  <2> QED
    BY ZenonT(30), <1>a, <2>4, <2>5, <2>6
<1> QED
  BY ZenonT(30), <1>1, <1>2

\* Changes from outside: of a row, or of the cash.
LEMMA EditKeeps ==
  ASSUME BookInv, UNCHANGED svars, EditCash \/ \E p \in Positions : Edit(p)
  PROVE  BookInv'
<1>t. BookTypes /\ RowsTyped(state) /\ cash \in Int
  BY StateTyped DEF BookInv, BookTypes
<1>s. UNCHANGED <<pre, sealed>>
  BY DEF svars
<1>1. CASE EditCash
  <2>1. /\ cash' = cash + 1
        /\ UNCHANGED <<run, pc, state, monitor, history, sidecar>>
    BY <1>1 DEF EditCash, equity
  <2>2. cash' \in Int /\ cash <= cash'
    BY <1>t, <2>1
  <2>3. BookTypes'
    BY ZenonT(30), <1>s, <1>t, <2>1, <2>2 DEF BookTypes
  <2> QED
    BY ZenonT(30), <1>s, <2>1, <2>2, <2>3, BookFrame
<1>2. ASSUME NEW p \in Positions, Edit(p) PROVE BookInv'
  <2>1. /\ p \in Rows(state) /\ UNCHANGED <<run, pc, cash, monitor, history, sidecar>>
    BY <1>2 DEF Edit, equity
  <2>2. DOMAIN state[p] = Columns /\ state[p].quantity \in Int
    BY <1>t, <2>1 DEF RowsTyped, Rows
  <2>3. PICK row \in Edited(state[p]) \cup {None} : state' = [state EXCEPT ![p] = row]
    BY ZenonT(30), <1>2 DEF Edit
  <2>4. row # None => DOMAIN row = Columns /\ row.quantity \in Int
    <3> SUFFICES ASSUME row \in Edited(state[p])
                 PROVE  DOMAIN row = Columns /\ row.quantity \in Int
      BY <2>3
    <3> DEFINE r == state[p]
    <3>1. DOMAIN r = Columns /\ r.quantity \in Int /\ "quantity" \in DOMAIN r
      BY <2>2 DEF Columns
    <3>2. \/ \E s \in {"open", "exit_required", "closed"} : row = [r EXCEPT !.status = s]
          \/ row = [r EXCEPT !.status = "exit_required", !.flag = TRUE]
          \/ row = [r EXCEPT !.quantity = 0] \/ row = [r EXCEPT !.quantity = @ + 1]
          \/ row = [r EXCEPT !.pnl = @ + 1] \/ row = [r EXCEPT !.flag = ~@]
          \/ row = [r EXCEPT !.whole = ~@]
      BY DEF Edited
    <3> HIDE DEF r
    <3>3. ASSUME NEW s, row = [r EXCEPT !.status = s]
          PROVE  DOMAIN row = Columns /\ row.quantity \in Int
      BY <3>1, <3>3
    <3>4. CASE row = [r EXCEPT !.status = "exit_required", !.flag = TRUE]
      BY <3>1, <3>4
    <3>5. CASE row = [r EXCEPT !.quantity = 0] \/ row = [r EXCEPT !.quantity = @ + 1]
      BY <3>1, <3>5
    <3>6. CASE row = [r EXCEPT !.pnl = @ + 1]
      BY Zenon, <3>1, <3>6
    <3>7. ASSUME NEW b, row = [r EXCEPT !.flag = b] \/ row = [r EXCEPT !.whole = b]
          PROVE  DOMAIN row = Columns /\ row.quantity \in Int
      BY <3>1, <3>7
    <3> QED
      BY <3>2, <3>3, <3>4, <3>5, <3>6, <3>7
  <2>5. RowsTyped(state')
    BY ZenonT(30), <1>t, <2>3, <2>4 DEF RowsTyped
  <2>6. BookTypes'
    BY ZenonT(30), <1>s, <1>t, <2>1, <2>5 DEF BookTypes, RowsTyped
  <2>7. cash <= cash'
    BY SMTT(30), <1>t, <2>1
  <2> QED
    BY ZenonT(30), <1>s, <2>1, <2>6, <2>7, BookFrame
<1> QED
  BY <1>1, <1>2

\* The steps that touch neither the cash nor the positions.
LEMMA QuietKeeps ==
  ASSUME BookInv,
         \/ /\ UNCHANGED svars
            /\ \/ Dies \/ FillNothing
               \/ Integrity("integrity1", "tracking") \/ Integrity("integrity2", "exit")
               \/ TrackingAlerts \/ ExitAgent \/ EquitySummary \/ EquitySidecar
               \/ pc = "equity" /\ ~MonitorAgrees /\ EquityHistory
         \/ Capture \/ JournalRun
         \/ UNCHANGED <<vars, svars>>
  PROVE  BookInv'
<1>t. BookTypes /\ RowsTyped(state) /\ cash \in Int
  BY Zenon, StateTyped DEF BookInv, BookTypes
<1>1. UNCHANGED <<run, state, cash, monitor, history, sealed>>
  BY DEF svars, vars, books, equity, Dies, FillNothing, Integrity, TrackingAlerts,
     ExitAgent,
         EquitySummary, EquitySidecar, EquityHistory, Capture, JournalRun
<1>2. DOMAIN sidecar' = {"state", "cash", "equity"} /\ sidecar'.cash = sidecar.cash
  <2>1. \/ UNCHANGED sidecar \/ sidecar' = [sidecar EXCEPT !.state = state]
        \/ sidecar' = [sidecar EXCEPT !.equity = @ \cup {Last(history)}]
    BY DEF svars, vars, books, equity, Dies, FillNothing, Integrity, TrackingAlerts,
       ExitAgent,
           EquitySummary, EquitySidecar, EquityHistory, Capture, JournalRun
  <2>2. DOMAIN sidecar = {"state", "cash", "equity"}
    BY <1>t DEF BookTypes
  <2>3. CASE UNCHANGED sidecar
    BY <2>2, <2>3
  <2>4. CASE sidecar' = [sidecar EXCEPT !.state = state]
    BY <2>2, <2>4
  <2>5. ASSUME NEW e, sidecar' = [sidecar EXCEPT !.equity = e]
        PROVE  DOMAIN sidecar' = {"state", "cash", "equity"} /\ sidecar'.cash = sidecar.cash
    BY <2>2, <2>5
  <2> QED
    BY ZenonT(30), <2>1, <2>3, <2>4, <2>5
<1>3. DOMAIN pre' = {"state", "cash", "fills"}
  <2>1. UNCHANGED pre \/ pre' = Economic
    BY DEF svars, Capture, JournalRun
  <2>2. DOMAIN pre = {"state", "cash", "fills"}
    BY <1>t DEF BookTypes
  <2> QED
    BY Zenon, <2>1, <2>2 DEF Economic
<1>4. \/ pc' = pc
      \/ pc \in Early /\ pc' \in Early \cup {"idle"}
      \/ pc \in Late /\ pc' \in Late \cup {"idle"}
  <2>1. CASE Dies
    BY <1>t, <2>1 DEF Dies, BookTypes
  <2>2. CASE \/ FillNothing \/ TrackingAlerts
             \/ Integrity("integrity1", "tracking") \/ Integrity("integrity2", "exit")
    BY <2>2 DEF FillNothing, TrackingAlerts, Integrity, Early
  <2>3. CASE ExitAgent \/ (pc = "equity" /\ ~MonitorAgrees /\ EquityHistory) \/ Capture
    BY <2>3 DEF ExitAgent, EquityHistory, Capture, Early
  <2>4. CASE EquitySummary \/ EquitySidecar
    BY <2>4 DEF EquitySummary, EquitySidecar, Late
  <2>5. CASE JournalRun
    BY <2>5 DEF JournalRun, Late
  <2>6. CASE UNCHANGED <<vars, svars>>
    BY Zenon, <2>6 DEF vars
  <2> QED
    BY ZenonT(30), <2>1, <2>2, <2>3, <2>4, <2>5, <2>6
<1>5. pc' \in {"idle"} \cup Early \cup Late
  BY <1>4, <1>t DEF BookTypes
<1>6. RowsTyped(state') /\ run' \in Nat /\ cash' \in Int /\ sidecar'.cash \in Int
  BY <1>1, <1>2, <1>t DEF BookTypes
<1>7. BookTypes'
  BY ZenonT(30), <1>1, <1>2, <1>3, <1>5, <1>6, <1>t, TypesFrame
<1>8. cash <= cash'
  BY <1>1, <1>t
<1> QED
  BY ZenonT(30), <1>1, <1>2, <1>4, <1>7, <1>8, BookFrame

\* Position Tracking marks what the books hold, at known prices.
LEMMA MarksKeep ==
  ASSUME BookInv, UNCHANGED svars, TrackingMarks
  PROVE  BookInv'
<1>t. BookTypes /\ RowsTyped(state) /\ cash \in Int
  BY StateTyped DEF BookInv, BookTypes
<1>1. /\ pc = "marking" /\ pc' = "integrity2"
      /\ monitor' = [p \in Active(state) |-> MarkOf(p)]
      /\ UNCHANGED <<run, state, cash, history, sidecar, pre, sealed>>
  BY DEF TrackingMarks, svars, books, equity
<1>2. pc \in Early /\ pc' \in Early
  BY Zenon, <1>1 DEF Early
<1>3. ASSUME NEW p \in Active(state)
      PROVE  p \in Positions /\ MarkOf(p).quantity \in Int /\ MarkOf(p).price \in Int
  <2>1. p \in Positions /\ state[p].quantity \in Int
    BY <1>t DEF Active, Rows, RowsTyped
  <2>2. LatestPrice(p) \in Int
    BY <1>t, AmountsAreIntegers DEF LatestPrice, BookTypes
  <2> QED
    BY <2>1, <2>2 DEF MarkOf
<1>4. /\ DOMAIN monitor' \subseteq Positions
      /\ \A p \in DOMAIN monitor' : monitor'[p].quantity \in Int /\ monitor'[p].price \in Int
  BY <1>1, <1>3
<1>5. BookTypes'
  BY <1>1, <1>2, <1>4, <1>t DEF BookTypes
<1>6. cash <= cash'
  BY <1>1, <1>t
<1> QED
  BY ZenonT(30), <1>1, <1>2, <1>5, <1>6, BookFrame

\* A new run begins behind the equity row of the last one.
LEMMA StartKeeps ==
  ASSUME BookInv, StartRun
  PROVE  BookInv'
<1>t. BookTypes /\ CashInv /\ SealInv /\ SealedIsExplained
  BY DEF BookInv
<1>1. /\ pc = "idle" /\ pc' = "capture" /\ run' = run + 1
      /\ UNCHANGED <<state, cash, monitor, history, sidecar, pre, sealed>>
  BY DEF StartRun, svars, books, equity
<1>2. pc' \in Early /\ pc' \notin Late
  BY <1>1 DEF Early, Late
<1>n. /\ run \in Nat /\ run' \in Nat
      /\ \A i \in DOMAIN history : history[i].run \in Nat
  <2>1. \A i \in DOMAIN history : history[i] \in HistoryRows
    BY <1>t DEF BookTypes
  <2> QED
    BY SMTT(30), <1>1, <1>t, <2>1 DEF BookTypes, HistoryRows
<1>3. BookTypes'
  BY ZenonT(30), <1>1, <1>2, <1>n, <1>t DEF BookTypes
<1>4. CashInv'
  BY SMTT(30), <1>1, <1>2, <1>n, <1>t DEF CashInv
<1>5. SealInv'
  <2> SUFFICES ASSUME NEW m \in sealed PROVE SealAt(m)'
    BY <1>1 DEF SealInv
  <2>1. SealAt(m)
    BY <1>t DEF SealInv
  <2> QED
    BY SMTT(30), <1>1, <1>2, <1>n, <2>1 DEF SealAt
<1>6. SealedIsExplained'
  BY <1>1, <1>t, SealedMeans, SealedMeansNext
<1> QED
  BY <1>3, <1>4, <1>5, <1>6 DEF BookInv

\* The equity row: it states the cash at this moment, after the last booking.
LEMMA EquityKeeps ==
  ASSUME BookInv, UNCHANGED svars, MonitorAgrees, EquityHistory
  PROVE  BookInv'
<1>t. BookTypes /\ CashInv /\ SealInv /\ SealedIsExplained
  BY DEF BookInv
<1>1. /\ pc = "equity" /\ pc' = "summary" /\ history' = Append(history, Snapshot)
      /\ UNCHANGED <<run, state, cash, monitor, sidecar, pre, sealed>>
  BY DEF EquityHistory, svars, books
<1>2. pc \in Early /\ pc' \in Late /\ pc' \notin Early /\ pc' # "idle" /\ pc # "idle"
  BY <1>1 DEF Early, Late
<1>s. Snapshot \in HistoryRows /\ Snapshot.run = run /\ Snapshot.cash = cash
  <2>1. cash \in Int /\ run \in Nat /\ OpenMarketValue \in Int
    BY <1>t, MarketValueType DEF BookTypes
  <2>2. cash + OpenMarketValue \in Int
    BY <2>1
  <2> QED
    BY <2>1, <2>2 DEF Snapshot, HistoryRows
<1>h. /\ history \in Seq(HistoryRows) /\ Len(history) \in Nat \ {0}
      /\ DOMAIN history = 1..Len(history)
  BY <1>t DEF BookTypes
<1>3. /\ history' \in Seq(HistoryRows) /\ Len(history') = Len(history) + 1
      /\ DOMAIN history' = 1..(Len(history) + 1) /\ history' # <<>>
      /\ \A i \in 1..Len(history) : history'[i] = history[i]
      /\ history'[Len(history')] = Snapshot
  BY SMTT(30), <1>1, <1>h, <1>s
<1>n. /\ run \in Nat /\ cash \in Int /\ sidecar.cash \in Int
      /\ \A i \in DOMAIN history : history[i].run \in Nat /\ history[i].cash \in Int
  <2>1. \A i \in DOMAIN history : history[i] \in HistoryRows
    BY SMTT(30), <1>h
  <2> QED
    BY <1>t, <2>1 DEF BookTypes, HistoryRows
<1>4. BookTypes'
  BY ZenonT(30), <1>1, <1>2, <1>3, <1>t DEF BookTypes
<1>5. CashInv'
  <2>1. sidecar'.cash <= cash'
    BY <1>1, <1>t DEF CashInv
  <2>2. \A i \in 1..Len(history) : history'[i].run < run
    BY ZenonT(30), <1>2, <1>3, <1>h, <1>t DEF CashInv
  <2>3. \A i \in DOMAIN history' : history'[i].run <= run
    <3> SUFFICES ASSUME NEW i \in DOMAIN history' PROVE history'[i].run <= run
      OBVIOUS
    <3>1. CASE i \in 1..Len(history)
      BY SMTT(30), <1>3, <1>n, <1>h, <2>2, <3>1
    <3>2. CASE i = Len(history')
      BY SMTT(30), <1>3, <1>s, <1>n, <3>2
    <3> QED
      BY SMTT(30), <1>3, <1>h, <3>1, <3>2
  <2>4. /\ Len(history') >= 2 /\ Len(history') - 1 = Len(history)
        /\ history'[Len(history')].run = run /\ history'[Len(history')].cash = cash
    BY SMTT(30), <1>3, <1>h, <1>s
  <2> QED
    BY SMTT(30), <1>1, <1>2, <1>n, <2>1, <2>2, <2>3, <2>4 DEF CashInv
<1>6. SealInv'
  <2> SUFFICES ASSUME NEW m \in sealed PROVE SealAt(m)'
    BY <1>1 DEF SealInv
  <2>1. SealAt(m)
    BY <1>t DEF SealInv
  <2>2. history'[Len(history') - 1] = history[Len(history)]
    BY SMTT(30), <1>3, <1>h
  <2> QED
    BY SMTT(30), <1>1, <1>2, <1>n, <2>1, <2>2 DEF SealAt
<1>7. SealedIsExplained'
  BY ZenonT(30), <1>1, <1>t, SealedMeans, SealedMeansNext
<1> QED
  BY ZenonT(30), <1>4, <1>5, <1>6, <1>7 DEF BookInv

\* The cash delta of a run that has its equity row is taken from that row and
\* the one before it.
LEMMA DeltaOfRun ==
  ASSUME BookInv, pc \in Late
  PROVE  CashDelta(run) = history[Len(history)].cash - history[Len(history) - 1].cash
<1>t. BookTypes /\ CashInv
  BY DEF BookInv
<1>1. /\ Len(history) \in Nat /\ DOMAIN history = 1..Len(history) /\ run \in Nat
      /\ \A i \in DOMAIN history : history[i].run \in Nat
  <2>1. \A i \in DOMAIN history : history[i] \in HistoryRows
    BY <1>t DEF BookTypes
  <2> QED
    BY <1>t, <2>1 DEF BookTypes, HistoryRows
<1>2. EquityRows(run) = {Len(history)}
  <2>1. /\ Len(history) >= 2 /\ history[Len(history)].run = run
        /\ \A i \in 1..(Len(history) - 1) : history[i].run < run
    BY <1>t DEF CashInv
  <2>2. \A i \in DOMAIN history : i # Len(history) => history[i].run # run
    BY <1>1, <2>1
  <2> QED
    BY SMTT(30), <1>1, <2>1, <2>2 DEF EquityRows
<1>3. Max({Len(history)}) = Len(history)
  BY <1>1 DEF Max
<1> QED
  BY <1>2, <1>3 DEF CashDelta

\* The finalizer.  Parity leaves no change from outside since the last booking,
\* so the equity row states the cash that is sealed; the row before it states
\* the cash of the run before, if that was sealed.
LEMMA FinalizeKeeps ==
  ASSUME BookInv, Finalize
  PROVE  BookInv'
<1>t. BookTypes /\ CashInv /\ SealInv /\ SealedIsExplained
  BY DEF BookInv
<1>1. /\ pc = "finalize" /\ pc' = "idle"
      /\ UNCHANGED <<run, state, cash, fills, monitor, history, sidecar, pre>>
  BY DEF Finalize, books, equity
<1>2. pc \in Late /\ pc \notin Early /\ pc # "idle" /\ pc' \notin Late /\ pc' \notin Early
  BY <1>1 DEF Early, Late
<1>n. /\ run \in Nat /\ cash \in Int /\ sidecar.cash \in Int
      /\ Len(history) \in Nat \ {0} /\ DOMAIN history = 1..Len(history)
      /\ \A i \in DOMAIN history : history[i].cash \in Int
  <2>1. \A i \in DOMAIN history : history[i] \in HistoryRows
    BY <1>t DEF BookTypes
  <2> QED
    BY SMTT(30), <1>t, <2>1 DEF BookTypes, HistoryRows
<1>3. BookTypes'
  BY ZenonT(30), <1>1, <1>t DEF BookTypes
<1>4. CashInv'
  BY ZenonT(30), <1>1, <1>2, <1>t DEF CashInv
<1>5. CASE sealed' = sealed
  <2>1. SealInv'
    <3> SUFFICES ASSUME NEW m \in sealed PROVE SealAt(m)'
      BY <1>5 DEF SealInv
    <3>1. SealAt(m)
      BY <1>t DEF SealInv
    <3> QED
      BY <1>1, <1>2, <1>n, <3>1 DEF SealAt
  <2>2. SealedIsExplained'
    BY <1>5, <1>t, SealedMeans, SealedMeansNext
  <2> QED
    BY <1>3, <1>4, <2>1, <2>2 DEF BookInv
<1>6. CASE /\ sealed' = sealed \cup {Manifest}
           /\ Reconciles(run) /\ Explained(run, Changed(pre)) /\ Parity(run)
  <2> DEFINE M == Manifest
  <2>m. /\ M.run = run /\ M.post.cash = cash /\ M.post.fills = fills
        /\ M.post.state = state /\ M.pre = pre
    BY DEF Manifest, Economic
  <2> HIDE DEF M
  <2>1. history[Len(history)].cash = cash
    <3>1. sidecar.cash = cash
      BY <1>6 DEF Parity, ReplacedAgree
    <3>2. /\ sidecar.cash <= history[Len(history)].cash /\ history[Len(history)].cash <= cash
          /\ history[Len(history)].cash \in Int
      BY <1>2, <1>n, <1>t DEF CashInv
    <3> QED
      BY <1>n, <3>1, <3>2
  <2>2. Ledger(M) = OfRun(run, fills)
    BY <2>m DEF Ledger, OfRun
  <2>3. Amounts(run) = Total(Ledger(M))
    BY <2>2 DEF Amounts, Total
  <2>4. history[Len(history)].cash - history[Len(history) - 1].cash = Total(Ledger(M))
    BY ZenonT(30), <1>2, <1>6, <2>3, DeltaOfRun DEF Reconciles
  <2>5. ASSUME NEW last \in sealed, last.run = run - 1
        PROVE  cash - last.post.cash = Total(Ledger(M))
    <3>1. SealAt(last)
      BY <1>t DEF SealInv
    <3>2. history[Len(history) - 1].cash = last.post.cash
      BY ZenonT(30), <1>2, <2>5, <3>1 DEF SealAt
    <3> QED
      BY ZenonT(30), <2>1, <2>4, <3>2
  <2>6. LeftAlone(M)
    <3> SUFFICES ASSUME Ledger(M) = {} PROVE state = pre.state
      BY <2>m DEF LeftAlone
    <3>1. Processed(run) = 0
      BY <2>2, FS_EmptySet DEF Processed
    <3>2. Changed(pre) = {}
      BY <1>6, <3>1 DEF Explained
    <3>3. "state" \in DOMAIN pre /\ "state" \notin Changed(pre)
      BY <1>t, <3>2 DEF BookTypes
    <3>4. Economic["state"] = state
      BY DEF Economic
    <3> QED
      BY <3>3, <3>4 DEF Changed
  <2>7. \A m \in sealed : m.run \in Nat /\ m.run < run
    BY <1>2, <1>t DEF SealInv, SealAt
  <2>8. SealedIsExplained'
    <3>1. ASSUME NEW m \in sealed', NEW last \in sealed' PROVE Follows(last, m)
      <4>1. CASE m \in sealed /\ last \in sealed
        BY ZenonT(30), <1>t, <4>1, SealedMeans
      <4>2. CASE m = M /\ last \in sealed
        BY ZenonT(30), <2>5, <2>m, <4>2 DEF Follows
      <4>3. CASE last = M
        <5>1. m.run \in Nat /\ m.run <= run
          BY SMTT(30), <1>6, <1>n, <2>7, <2>m DEF M
        <5> QED
          BY SMTT(30), <1>n, <2>m, <4>3, <5>1 DEF Follows
      <4> QED
        BY <1>6, <4>1, <4>2, <4>3 DEF M
    <3>2. \A m \in sealed' : LeftAlone(m)
      BY ZenonT(30), <1>6, <1>t, <2>6, SealedMeans DEF M
    <3> QED
      BY <3>1, <3>2, SealedMeansNext
  <2>9. SealInv'
    <3> SUFFICES ASSUME NEW m \in sealed' PROVE SealAt(m)'
      BY DEF SealInv
    <3>1. CASE m = M
      <4>1. m.run = run /\ m.post.cash = cash
        BY Zenon, <2>m, <3>1
      <4>2. run <= run
        BY <1>n
      <4> QED
        BY Zenon, <1>1, <1>2, <1>n, <2>1, <4>1, <4>2 DEF SealAt
    <3>2. CASE m \in sealed
      <4>1. SealAt(m)
        BY <1>t, <3>2 DEF SealInv
      <4> QED
        BY ZenonT(30), <1>1, <1>2, <1>n, <4>1 DEF SealAt
    <3> QED
      BY ZenonT(30), <1>6, <3>1, <3>2 DEF M
  <2> QED
    BY ZenonT(30), <1>3, <1>4, <2>8, <2>9 DEF BookInv
<1> QED
  BY <1>5, <1>6 DEF Finalize

----------------------------------------------------------------------------
(* The composition *)

\* The books start with one equity row and nothing sealed.
LEMMA BookInit == SInit => BookInv
<1> SUFFICES ASSUME SInit PROVE BookInv
  BY Zenon
<1> DEFINE row == [run |-> 0, cash |-> 0, value |-> 0, total |-> 0]
           M == [run |-> 0, pre |-> Economic, post |-> Economic]
<1>1. /\ run = 0 /\ pc = "idle" /\ state = [p \in Positions |-> None] /\ cash = 0
      /\ fills = {} /\ monitor = [p \in {} |-> None] /\ history = <<row>>
      /\ sidecar = [state |-> state, cash |-> cash, equity |-> {history[1]}]
      /\ pre = Economic /\ sealed = {M}
  BY DEF SInit, Init
<1>2. /\ row \in HistoryRows /\ row.run = 0 /\ row.cash = 0
  BY SMTT(30) DEF HistoryRows
<1>3. M.run = 0 /\ M.post.cash = 0 /\ M.pre = M.post
  BY ZenonT(30), <1>1 DEF Economic
<1> HIDE DEF row, M
<1>4. /\ history \in Seq(HistoryRows) /\ history # <<>> /\ Len(history) = 1
      /\ DOMAIN history = {1} /\ history[1] = row
  BY SMTT(30), <1>1, <1>2
<1>5. BookTypes
  BY SMTT(30), <1>1, <1>4 DEF BookTypes, Economic
<1>6. CashInv
  BY SMTT(30), <1>1, <1>2, <1>4 DEF CashInv, Early, Late
<1>7. SealInv
  BY SMTT(30), <1>1, <1>2, <1>3, <1>4 DEF SealInv, SealAt, Early, Late
<1>8. SealedIsExplained
  <2>1. Follows(M, M) /\ LeftAlone(M)
    BY <1>3 DEF Follows, LeftAlone
  <2> QED
    BY ZenonT(30), <1>1, <2>1, SealedMeans
<1> QED
  BY ZenonT(30), <1>5, <1>6, <1>7, <1>8 DEF BookInv

\* Every step of the composition keeps the invariant of the books ...
LEMMA BookStep == BookInv /\ [BNext]_bvars => BookInv'
<1> SUFFICES ASSUME BookInv, [BNext]_bvars PROVE BookInv'
  OBVIOUS
<1>1. CASE AgentsNext /\ UNCHANGED svars
  <2>1. CASE EquityHistory
    BY ZenonT(30), <1>1, <2>1, EquityKeeps, QuietKeeps DEF EquityHistory
  <2>2. CASE \E p \in Positions : \/ \E q \in Quantities : FillOpens(p, q)
                                  \/ \E price \in ExitPrices : FillCloses(p, price)
    BY ZenonT(30), <1>1, <2>2, FillKeeps
  <2>3. CASE EditCash \/ \E p \in Positions : Edit(p)
    BY ZenonT(30), <1>1, <2>3, EditKeeps
  <2>4. CASE TrackingMarks
    BY ZenonT(30), <1>1, <2>4, MarksKeep
  <2>5. CASE \/ Dies \/ FillNothing
             \/ Integrity("integrity1", "tracking") \/ Integrity("integrity2", "exit")
             \/ TrackingAlerts \/ ExitAgent \/ EquitySummary \/ EquitySidecar
    BY ZenonT(30), <1>1, <2>5, QuietKeeps
  <2> QED
    BY ZenonT(30), <1>1, <2>1, <2>2, <2>3, <2>4, <2>5 DEF AgentsNext
<1>2. CASE StartRun
  BY <1>2, StartKeeps
<1>3. CASE Finalize
  BY <1>3, FinalizeKeeps
<1>4. CASE Capture \/ JournalRun \/ UNCHANGED <<vars, svars>>
  BY <1>4, QuietKeeps
<1> QED
  BY ZenonT(30), <1>1, <1>2, <1>3, <1>4 DEF BNext, bvars

\* ... and is a step of the journal, or leaves it alone.
LEMMA JournalSteps == [BNext]_bvars => JournalStep
<1> SUFFICES ASSUME [BNext]_bvars PROVE JournalStep
  OBVIOUS
<1>1. CASE JournalNext
  BY <1>1 DEF JournalNext, JournalStep, Reviewed, Begun
<1>2. CASE JournalRun
  <2>1. Recorded \/ UNCHANGED jvars
    BY <1>2 DEF JournalRun, Recorded
  <2> QED
    BY <2>1 DEF JournalStep
<1>3. CASE UNCHANGED jvars
  BY Zenon, <1>3 DEF JournalStep
<1> QED
  BY <1>1, <1>2, <1>3 DEF BNext, bvars

\* Every step keeps the invariant.
LEMMA IInvStep == IInv /\ [BNext]_bvars => IInv'
BY BookStep, JournalSteps, JournalKeeps DEF IInv, BookInv, BookTypes

\* The inductive invariant of the bookkeeping half of a run.
THEOREM BookkeepingInvariant == Spec => []IInv
<1>1. BInit => IInv
  BY BookInit, JournalInit DEF BInit, IInv
<1> QED
  BY <1>1, IInvStep, PTL DEF Spec

\* Two runs in a row that finalize_run sealed as succeeded agree about the cash,
\* up to the ledger of the second, and one without fills left the positions
\* alone, whatever was changed beside the agents.
THEOREM SealedExplained == Spec => []SealedIsExplained
<1>1. IInv => SealedIsExplained
  BY DEF IInv, BookInv
<1> QED
  BY <1>1, BookkeepingInvariant, PTL

\* No snapshot of a later check that passed differs about a closed position.
THEOREM ClosedFrozen == Spec => ClosedStaysFrozen
<1> DEFINE A == snapshot' # snapshot => \A p \in Closed(Previous) :
                  /\ snapshot'[p] # None
                  /\ snapshot'[p].status = "closed"
                  /\ snapshot'[p].quantity = Previous[p].quantity
                  /\ snapshot'[p].pnl = Previous[p].pnl
<1>1. [BNext]_bvars => [A]_vars
  <2> SUFFICES ASSUME [BNext]_bvars, snapshot' # snapshot,
                      NEW p \in Closed(Previous)
               PROVE  /\ snapshot'[p] # None
                      /\ snapshot'[p].status = "closed"
                      /\ snapshot'[p].quantity = Previous[p].quantity
                      /\ snapshot'[p].pnl = Previous[p].pnl
    BY Zenon
  <2>1. Sound /\ snapshot' = state
    BY ZenonT(30)
       DEF BNext, bvars, vars, AgentsNext, JournalRun, StartRun, Capture, Finalize, Dies,
           FillNothing, FillOpens, FillCloses, Booked, Edit, EditCash, Integrity,
           TrackingAlerts, TrackingMarks, ExitAgent, EquityHistory, EquitySummary,
           EquitySidecar
  <2>2. p \in Rows(state) /\ Previous[p].status = "closed"
        /\ state[p].status = Previous[p].status
        /\ state[p].quantity = Previous[p].quantity /\ state[p].pnl = Previous[p].pnl
    BY <2>1 DEF Sound, ClosedUnchanged, Closed
  <2> QED
    BY ZenonT(30), <2>1, <2>2 DEF Rows
<1> HIDE DEF A
<1>2. Spec => [][A]_vars
  BY <1>1, PTL DEF Spec
<1> QED
  BY <1>2 DEF A, ClosedStaysFrozen

\* An equity row values exactly the positions the books hold when it is written.
THEOREM EquityCounts == Spec => EquityCountsBooks
<1> DEFINE A == history' # history => Last(history').value = BookValue
<1>1. IInv /\ [BNext]_bvars => [A]_vars
  <2> SUFFICES ASSUME IInv, [BNext]_bvars, history' # history
               PROVE  Last(history').value = BookValue
    BY Zenon
  <2>1. MonitorAgrees /\ history' = Append(history, Snapshot)
    BY ZenonT(30)
       DEF BNext, bvars, vars, equity, AgentsNext, JournalRun, StartRun, Capture,
           Finalize,
           Dies, FillNothing, FillOpens, FillCloses, Booked, Edit, EditCash, Integrity,
           TrackingAlerts, TrackingMarks, ExitAgent, EquityHistory, EquitySummary,
           EquitySidecar
  <2>2. BookTypes /\ history \in Seq(HistoryRows)
    BY DEF IInv, BookInv, BookTypes
  <2>3. Last(history') = Snapshot
    BY <2>1, <2>2 DEF Last
  <2>4. Snapshot.value = OpenMarketValue
    BY DEF Snapshot
  <2> QED
    BY ZenonT(30), <2>1, <2>2, <2>3, <2>4, AgreeingValues
<1> HIDE DEF A
<1>2. Spec => [][A]_vars
  BY <1>1, BookkeepingInvariant, PTL DEF Spec
<1> QED
  BY <1>2 DEF A, EquityCountsBooks, BookValue

\* No run of the Journal Agent and no migration, however often it is killed and
\* repeated, loses advice or an annotation.
THEOREM AdviceKept == Spec => AdviceIsKept
<1> DEFINE A == reviews' = reviews => \A r \in journal : Kept(r, journal', archives')
<1>1. IInv /\ [BNext]_bvars => [A]_jvars
  BY JournalSteps, JournalKeeps DEF IInv, BookInv, BookTypes
<1> HIDE DEF A
<1>2. Spec => [][A]_jvars
  BY <1>1, BookkeepingInvariant, PTL DEF Spec
<1> QED
  BY <1>2 DEF A, AdviceIsKept
============================================================================
