-------------------------- MODULE FillAgentProofs ---------------------------
(***************************************************************************)
(* The money and the positions of the fill agent, for any input of the     *)
(* operator, starting cash, number of rows, runs and kills.                *)
(*                                                                         *)
(* One fill is written to five files, one after the other, and a kill may  *)
(* fall between any two. CashMatchesMarks says that the cash is right only *)
(* when the recovery guard finds every trade marked, so the invariant has  *)
(* to say what the files hold at every point in between (MarkInv): which   *)
(* fills the cash has, which the ledger has, and that a fill whose money   *)
(* has moved is already in trade_fills.csv, where the guard will see it.   *)
(* BookInv does the same for the rows of portfolio_state.csv, whose copy   *)
(* in memory is ahead of the ledger between a booking and its ledger row.  *)
(* CoverInv is the check of the balance in open_long_position, and needs   *)
(* that no sale costs more than it brings.                                 *)
(*                                                                         *)
(* What the cash, the ledger and a position add up are sums over sets of   *)
(* fills; SumTheorems says how a sum grows by one fill.                    *)
(***************************************************************************)
EXTENDS FillAgent, SumTheorems, SequenceTheorems

\* What the variables hold.
Tickers == {f.ticker : f \in FillKinds}

Rows == [ticker : Tickers, status : {"open", "closed"}, quantity : Nat \ {0},
         price : Int, feesLeft : Int, realised : Int, opened : Nat, closed : Nat,
         fills : SUBSET Nat]

Types == {"", "position_open", "position_close", "position_partial_close"}
Events == {"", "position_opened", "position_closed", "position_reduced",
           "cash_adjusted", "fill_processed"}

\* Rows of the cash ledger, and what the booking of a fill leaves for it.
LedgerRows == [fill : Nat, position : Nat, ticker : Tickers, type : Types,
               amount : Int, fees : Int, after : Int]

Bookings == [type : Types, event : Events, position : Nat]

\* Files whose fills are among the first n rows of the input.
FilesOf(n) ==
  [portfolio : Seq(Rows), cash : Int, ledger : Seq(LedgerRows), trades : SUBSET (1..n),
   processed : SUBSET [fill : 1..n, run : Nat],
   events : SUBSET [fill : 0..n, type : Events, run : Nat]]

\* Where the agent works on a fill that is in trade_fills.csv, and where it works
\* at all.
Writing == {"apply", "ledger", "event", "cash_event", "mark"}
Busy == Writing \cup {"next", "fill_event"}

\* The agent is past its validation of the input whenever it works.
TypeInv ==
  /\ input \in [1..MaxFills -> FillKinds] /\ offered \in 0..MaxFills
  /\ files \in FilesOf(offered) /\ backup \in FilesOf(offered)
  /\ pc \in Busy \cup {"idle"} /\ run \in Nat /\ state \in Seq(Rows)
  /\ cur \in [fill : 0..offered, booking : Bookings]
  /\ pc # "idle" => ValidBatch

\* The marked fills, and those in the ledger.
Marks(f) == {m.fill : m \in f.processed}
LedgerFills(ledger) == {ledger[n].fill : n \in DOMAIN ledger}

\* The cash that a row of the input moves, and that the rows in X do.
Net(row) == IF row.action = "buy" THEN -(row.quantity * row.price + row.fees)
                                  ELSE row.quantity * row.price - row.fees
NetSum(in, X) == MapThenSumSet(LAMBDA k : Net(in[k]), X)

\* The cash of the files is that of the fills in moved, of which the ledger has
\* those in listed.
Explains(in, f, moved, listed) ==
  /\ f.cash = StartingCash + NetSum(in, moved)
  /\ LedgerFills(f.ledger) = listed /\ Len(f.ledger) = Cardinality(listed)
  /\ moved = listed /\ listed # {} => f.ledger[Len(f.ledger)].after = f.cash

\* Cash, ledger and marks have the same fills.
Consistent(in, f) == Explains(in, f, Marks(f), Marks(f))

\* The fill the agent is at.
Now == cur.fill

\* A fill is in trade_fills.csv before anything else is written for it, and
\* marked when the money is.  Files left with more trades than marks need not be
\* consistent, and the guard does not let a run start from them.
MarkInv ==
  /\ pc = "idle" /\ files.trades \subseteq Marks(files) => Consistent(input, files)
  /\ pc \in {"next", "apply", "fill_event"} => Consistent(input, files)
  /\ pc \in Writing => Now \in files.trades /\ Now \notin Marks(files)
  /\ pc = "ledger" => Explains(input, files, Marks(files) \cup {Now}, Marks(files))
  /\ pc \in {"event", "cash_event", "mark"} =>
       Explains(input, files, Marks(files) \cup {Now}, Marks(files) \cup {Now})
  /\ Consistent(input, backup)

\* No sale costs more in fees than it brings.
SalesPay == \A k \in 1..offered : Fill(k).action = "sell" => NetCash(k) >= 0

\* Then no balance is negative.
CoverInv == SalesPay => files.cash >= 0 /\ backup.cash >= 0

\* The money that a row of the ledger moved, and that the fills in X did.
Paid(row) == row.amount - (IF row.type = "position_open" THEN row.fees ELSE 0)
Listed(ledger, X) == {n \in DOMAIN ledger : ledger[n].fill \in X}
FlowOf(ledger, X) == MapThenSumSet(LAMBDA n : Paid(ledger[n]), Listed(ledger, X))

\* The rows balance with the ledger, which has all their fills.
Balanced(rows, ledger) ==
  \A n \in DOMAIN rows : /\ rows[n].fills \subseteq LedgerFills(ledger)
                         /\ Booked(rows[n]) = FlowOf(ledger, rows[n].fills)

\* The rows balance once the ledger has fill k, which moves the amount.
Almost(rows, ledger, k, amount) ==
  \A n \in DOMAIN rows :
    /\ rows[n].fills \subseteq LedgerFills(ledger) \cup {k}
    /\ Booked(rows[n]) = FlowOf(ledger, rows[n].fills)
                           + (IF k \in rows[n].fills THEN amount ELSE 0)

\* portfolio_state.csv balances at all times, the copy in memory except between
\* the booking of a fill and its ledger row.
BookInv ==
  /\ Balanced(files.portfolio, files.ledger) /\ Balanced(backup.portfolio, backup.ledger)
  /\ pc \in Busy \ {"ledger"} => Balanced(state, files.ledger)
  /\ pc = "ledger" =>
       /\ Almost(state, files.ledger, Now, Net(input[Now]))
       /\ cur.booking.type = "position_open" <=> input[Now].action = "buy"

\* The inductive invariant.
IInv == TypeInv /\ MarkInv /\ CoverInv /\ BookInv

----------------------------------------------------------------------------
(* Sums *)

\* A row of the input moves an integer amount.
LEMMA NetTyped ==
  ASSUME NEW in \in [1..MaxFills -> FillKinds], NEW k \in 1..MaxFills
  PROVE  Net(in[k]) \in Int
<1>1. in[k] \in FillKinds
  OBVIOUS
<1>2. in[k].quantity \in Int /\ in[k].price \in Int /\ in[k].fees \in Int
  BY <1>1, FillAssumption
<1> QED
  BY <1>2 DEF Net

\* NetSum adds up Net.
LEMMA NetSumIs ==
  ASSUME NEW in, NEW X, IsFiniteSet(X)
  PROVE  NetSum(in, X) = SumOver([k \in X |-> Net(in[k])], X)
<1> DEFINE G(g) == g = [s \in SUBSET X |->
             IF s = {} THEN 0 ELSE Net(in[Pick(s)]) + g[s \ {Pick(s)}]]
           it == CHOOSE g : G(g)
           w == [k \in X |-> Net(in[k])]
<1>1. NetSum(in, X) = it[X]
  BY DEF NetSum, MapThenSumSet, MapThenFoldSet, Pick
<1>2. \A s \in SUBSET X : s # {} => w[Pick(s)] = Net(in[Pick(s)])
  BY DEF Pick
<1> HIDE DEF w
<1>3. \A g : Sums(g, w, X) <=> G(g)
  BY <1>2 DEF Sums
<1>4. G(it)
  BY Zenon, <1>3, SumExists
<1> HIDE DEF G, it
<1>5. Sums(it, w, X)
  BY <1>3, <1>4
<1>6. NetSum(in, X) = SumOver(w, X)
  BY <1>1, <1>5, SumIs
<1> QED
  BY <1>6 DEF w

\* FlowOf adds up Paid.
LEMMA FlowIs ==
  ASSUME NEW ledger \in Seq(LedgerRows), NEW Y
  PROVE  /\ IsFiniteSet(Listed(ledger, Y))
         /\ FlowOf(ledger, Y) =
              SumOver([n \in Listed(ledger, Y) |-> Paid(ledger[n])], Listed(ledger, Y))
<1> DEFINE X == Listed(ledger, Y)
           G(g) == g = [s \in SUBSET X |->
             IF s = {} THEN 0 ELSE Paid(ledger[Pick(s)]) + g[s \ {Pick(s)}]]
           it == CHOOSE g : G(g)
           w == [n \in X |-> Paid(ledger[n])]
<1>f. IsFiniteSet(X)
  <2>1. DOMAIN ledger = 1..Len(ledger) /\ Len(ledger) \in Nat
    OBVIOUS
  <2>2. IsFiniteSet(1..Len(ledger))
    BY <2>1, FS_Interval
  <2>3. X \subseteq 1..Len(ledger)
    BY <2>1 DEF Listed
  <2> QED
    BY <2>2, <2>3, FS_Subset
<1>1. FlowOf(ledger, Y) = it[X]
  BY DEF FlowOf, MapThenSumSet, MapThenFoldSet, Pick
<1>2. \A s \in SUBSET X : s # {} => w[Pick(s)] = Paid(ledger[Pick(s)])
  BY DEF Pick
<1> HIDE DEF w
<1>3. \A g : Sums(g, w, X) <=> G(g)
  BY <1>2 DEF Sums
<1>4. G(it)
  BY Zenon, <1>f, <1>3, SumExists
<1> HIDE DEF G, it
<1>5. Sums(it, w, X)
  BY <1>3, <1>4
<1>6. FlowOf(ledger, Y) = SumOver(w, X)
  BY <1>f, <1>1, <1>5, SumIs
<1> QED
  BY <1>f, <1>6 DEF w

\* The cash of one more fill.
LEMMA NetSumWith ==
  ASSUME NEW in \in [1..MaxFills -> FillKinds], NEW X \in SUBSET (1..MaxFills)
  PROVE  /\ IsFiniteSet(X) /\ NetSum(in, X) \in Int
         /\ \A k \in (1..MaxFills) \ X : NetSum(in, X \cup {k}) = NetSum(in, X) + Net(in[k])
<1>1. IsFiniteSet(X)
  <2>1. MaxFills \in Nat
    BY FillAssumption
  <2>2. IsFiniteSet(1..MaxFills)
    BY <2>1, FS_Interval
  <2> QED
    BY Zenon, <2>2, FS_Subset
<1> DEFINE w == [k \in 1..MaxFills |-> Net(in[k])]
<1>2. \A k \in 1..MaxFills : w[k] \in Int /\ w[k] = Net(in[k])
  BY Zenon, NetTyped
<1> HIDE DEF w
<1>3. ASSUME NEW Y \in SUBSET (1..MaxFills), IsFiniteSet(Y)
      PROVE  NetSum(in, Y) = SumOver(w, Y)
  <2> DEFINE v == [k \in Y |-> Net(in[k])]
  <2>1. \A k \in Y : v[k] = w[k]
    BY <1>2
  <2>2. NetSum(in, Y) = SumOver(v, Y)
    BY Zenon, <1>3, NetSumIs
  <2> HIDE DEF v
  <2> QED
    BY Zenon, <1>3, <2>1, <2>2, SumAgrees
<1>4. NetSum(in, X) \in Int
  BY Zenon, <1>1, <1>2, <1>3, SumTyped
<1>5. ASSUME NEW k \in (1..MaxFills) \ X
      PROVE  NetSum(in, X \cup {k}) = NetSum(in, X) + Net(in[k])
  <2>1. IsFiniteSet(X \cup {k}) /\ X \cup {k} \in SUBSET (1..MaxFills) /\ k \notin X
    BY <1>1, FS_AddElement
  <2>2. SumOver(w, X \cup {k}) = SumOver(w, X) + w[k]
    BY Zenon, <1>1, <1>2, <2>1, SumWith
  <2> QED
    BY <1>1, <1>2, <1>3, <2>1, <2>2
<1> QED
  BY <1>1, <1>4, <1>5

\* A ledger row moves an integer amount.
LEMMA PaidTyped == \A row \in LedgerRows : Paid(row) \in Int
BY DEF Paid, LedgerRows

\* The money that a fill without a row moved.
LEMMA FlowWithout ==
  ASSUME NEW ledger \in Seq(LedgerRows), NEW X
  PROVE  /\ FlowOf(ledger, X) \in Int
         /\ X \cap LedgerFills(ledger) = {} => FlowOf(ledger, X) = 0
         /\ \A k : k \notin LedgerFills(ledger) =>
              FlowOf(ledger, X \cup {k}) = FlowOf(ledger, X)
<1> DEFINE L == Listed(ledger, X)
           w == [n \in L |-> Paid(ledger[n])]
<1>1. IsFiniteSet(L) /\ FlowOf(ledger, X) = SumOver(w, L)
  BY FlowIs
<1>2. \A n \in L : w[n] \in Int
  BY PaidTyped DEF Listed
<1> HIDE DEF w
<1>3. FlowOf(ledger, X) \in Int
  BY <1>1, <1>2, SumTyped
<1>4. X \cap LedgerFills(ledger) = {} => L = {}
  BY DEF Listed, LedgerFills
<1>5. \A k : k \notin LedgerFills(ledger) => Listed(ledger, X \cup {k}) = L
  BY DEF Listed, LedgerFills
<1>6. \A k : k \notin LedgerFills(ledger) => FlowOf(ledger, X \cup {k}) = FlowOf(ledger, X)
  BY <1>5 DEF FlowOf
<1> HIDE DEF L
<1> QED
  BY ZenonT(30), <1>1, <1>3, <1>4, <1>6, SumOfNone

\* A ledger with one more row.
LEMMA FlowWith ==
  ASSUME NEW ledger \in Seq(LedgerRows), NEW row \in LedgerRows, NEW X
  PROVE  FlowOf(Append(ledger, row), X)
           = FlowOf(ledger, X) + (IF row.fill \in X THEN Paid(row) ELSE 0)
<1> DEFINE more == Append(ledger, row)
           m == Len(ledger) + 1
           L == Listed(ledger, X)
           w == [n \in DOMAIN more |-> Paid(more[n])]
<1>1. /\ more \in Seq(LedgerRows) /\ DOMAIN more = 1..m /\ DOMAIN ledger = 1..(m - 1)
      /\ m \in Nat \ {0} /\ more[m] = row
      /\ \A n \in 1..(m - 1) : more[n] = ledger[n]
  OBVIOUS
<1> HIDE DEF more, m
<1>2. Listed(more, X) = IF row.fill \in X THEN L \cup {m} ELSE L
  BY <1>1 DEF Listed
<1>3. L \subseteq 1..(m - 1) /\ m \notin L
  BY <1>1 DEF Listed
<1>4. (\A n \in 1..m : w[n] \in Int) /\ w[m] = Paid(row)
  BY <1>1, PaidTyped
<1>5. IsFiniteSet(L) /\ FlowOf(ledger, X) = SumOver(w, L)
  <2> DEFINE v == [n \in L |-> Paid(ledger[n])]
  <2>1. IsFiniteSet(L) /\ FlowOf(ledger, X) = SumOver(v, L)
    BY FlowIs
  <2>2. \A n \in L : v[n] = w[n]
    BY <1>1, <1>3
  <2> HIDE DEF v, w, L
  <2> QED
    BY <2>1, <2>2, SumAgrees
<1>6. FlowOf(more, X) = SumOver(w, Listed(more, X))
  <2> DEFINE v == [n \in Listed(more, X) |-> Paid(more[n])]
  <2>1. IsFiniteSet(Listed(more, X)) /\ FlowOf(more, X) = SumOver(v, Listed(more, X))
    BY <1>1, FlowIs
  <2>2. \A n \in Listed(more, X) : v[n] = w[n]
    BY DEF Listed
  <2> HIDE DEF v, w
  <2> QED
    BY <2>1, <2>2, SumAgrees
<1> HIDE DEF w, L
<1>7. SumOver(w, L \cup {m}) = SumOver(w, L) + Paid(row)
  <2>1. \A n \in L \cup {m} : w[n] \in Int
    BY <1>1, <1>3, <1>4
  <2> QED
    BY ZenonT(30), <1>3, <1>4, <1>5, <2>1, SumWith
<1>8. SumOver(w, L) \in Int
  <2>1. \A n \in L : w[n] \in Int
    BY <1>1, <1>3, <1>4
  <2> QED
    BY <1>5, <2>1, SumTyped
<1>9. FlowOf(more, X) = FlowOf(ledger, X) + (IF row.fill \in X THEN Paid(row) ELSE 0)
  BY <1>2, <1>5, <1>6, <1>7, <1>8
<1> QED
  BY <1>9 DEF more

----------------------------------------------------------------------------
(* What a step needs of the files *)

\* Files with the cash, the ledger and the marks of others are as consistent.
LEMMA SameMoney ==
  ASSUME NEW in, NEW f, NEW g, g.cash = f.cash, g.ledger = f.ledger, NEW A, NEW B,
         Explains(in, f, A, B)
  PROVE  Explains(in, g, A, B)
BY DEF Explains

\* The marks of the files are rows of the input.
LEMMA MarksTyped ==
  ASSUME NEW n, NEW f \in FilesOf(n)
  PROVE  Marks(f) \in SUBSET (1..n)
BY DEF FilesOf, Marks

\* The files that a step does not move.
LEMMA FilesGrow ==
  ASSUME NEW n \in Nat, NEW f \in FilesOf(n)
  PROVE  f \in FilesOf(n + 1)
BY DEF FilesOf

\* The smallest of some naturals is one of them.
LEMMA MinIn ==
  ASSUME NEW S \in SUBSET Nat, S # {}
  PROVE  Min(S) \in S
<1>1. PICK m \in S : \A y \in S : ~ (<<y, m>> \in OpToRel(<, Nat))
  BY Zenon, NatLessThanWellFounded, WFMin
<1>2. ASSUME NEW y \in S PROVE m <= y
  <2>1. m \in Nat /\ y \in Nat
    OBVIOUS
  <2>2. ~(y < m)
    BY ZenonT(30), <1>1, <2>1 DEF OpToRel
  <2> QED
    BY <2>1, <2>2
<1> QED
  BY Zenon, <1>2 DEF Min

\* The invariant holds before the first fill.
LEMMA FillInit == Init => IInv
<1> SUFFICES ASSUME Init PROVE IInv
  OBVIOUS
<1>a. StartingCash \in Nat /\ MaxFills \in Nat
  BY FillAssumption
<1>1. TypeInv
  <2>1. files \in FilesOf(0)
    <3>1. <<>> \in Seq(Rows) /\ <<>> \in Seq(LedgerRows) /\ StartingCash \in Int
      BY <1>a
    <3> QED
      BY <3>1 DEF Init, FilesOf
  <2>2. cur \in [fill : 0..0, booking : Bookings]
    <3>1. NoBooking \in Bookings
      BY DEF Bookings, NoBooking, Types, Events
    <3>2. cur = [fill |-> 0, booking |-> NoBooking] /\ 0 \in 0..0
      BY DEF Init
    <3> QED
      BY <3>1, <3>2
  <2> QED
    BY <1>a, <2>1, <2>2 DEF Init, TypeInv
<1>2. Marks(files) = {} /\ LedgerFills(files.ledger) = {} /\ Len(files.ledger) = 0
  BY DEF Init, Marks, LedgerFills
<1>3. NetSum(input, {}) = 0 /\ Cardinality({}) = 0
  BY Zenon, FS_EmptySet, NetSumIs, SumOfNone
<1>4. Consistent(input, files)
  <2>1. files.cash = StartingCash /\ StartingCash = StartingCash + 0
    BY <1>a DEF Init
  <2> QED
    BY <1>2, <1>3, <2>1 DEF Consistent, Explains
<1>5. MarkInv
  BY <1>4 DEF MarkInv, Init, Writing
<1>6. CoverInv
  BY <1>a DEF CoverInv, Init
<1>7. BookInv
  BY DEF BookInv, Balanced, Init, Busy, Writing
<1> QED
  BY <1>1, <1>5, <1>6, <1>7 DEF IInv

\* The steps that write no file.
LEMMA QuietKeeps ==
  ASSUME IInv, OfferFill \/ Start \/ Kill
  PROVE  IInv'
<1>t. TypeInv
  BY DEF IInv
<1>a. MaxFills \in Nat /\ offered \in Nat /\ run \in Nat
  BY <1>t, FillAssumption DEF TypeInv
<1>1. CASE OfferFill
  <2>1. TypeInv'
    BY SMTT(30), <1>t, <1>a, <1>1, FilesGrow DEF TypeInv, OfferFill, FilesOf
  <2>2. MarkInv'
    BY <1>1 DEF IInv, MarkInv, OfferFill, Now
  <2>3. CoverInv'
    BY <1>a, <1>1 DEF IInv, CoverInv, SalesPay, OfferFill, Fill, NetCash, Gross
  <2>4. BookInv'
    BY <1>1 DEF IInv, BookInv, OfferFill, Now
  <2> QED
    BY <2>1, <2>2, <2>3, <2>4 DEF IInv
<1>2. CASE Start
  <2>1. UNCHANGED <<input, offered, files, backup, cur>> /\ state' = files.portfolio
    BY <1>2 DEF Start
  <2>2. \/ pc = "idle" /\ pc' = "next" /\ ValidBatch /\ Clean
        \/ pc = "idle" /\ pc' = "idle"
    BY <1>2 DEF Start
  <2>3. TypeInv'
    <3>1. files.portfolio \in Seq(Rows) /\ run' \in Nat
      BY <1>t, <1>a, <1>2 DEF TypeInv, FilesOf, Start
    <3>2. ValidBatch' <=> ValidBatch
      BY <2>1 DEF ValidBatch, ValidRow, Fill
    <3> QED
      BY <1>t, <2>1, <2>2, <3>1, <3>2 DEF TypeInv, Busy
  <2>4. Clean => files.trades \subseteq Marks(files)
    <3>1. files.trades \subseteq 1..offered
      BY <1>t DEF TypeInv, FilesOf
    <3> QED
      BY <3>1 DEF Clean, Unmarked, Processed, Marks, InterruptedFillEvidence
  <2>5. MarkInv'
    BY <2>1, <2>2, <2>4 DEF IInv, MarkInv, Writing
  <2>6. CoverInv'
    BY <2>1 DEF IInv, CoverInv, SalesPay, Fill, NetCash, Gross
  <2>7. BookInv'
    BY <2>1, <2>2 DEF IInv, BookInv, Busy, Writing
  <2> QED
    BY <2>3, <2>5, <2>6, <2>7 DEF IInv
<1>3. CASE Kill
  <2>1. UNCHANGED <<input, offered, files, backup, cur, state, run>> /\ pc' = "idle"
    BY <1>3 DEF Kill
  <2>2. pc \in Busy
    BY <1>t, <1>3 DEF TypeInv, Kill
  <2>3. TypeInv'
    BY <1>t, <2>1 DEF TypeInv
  <2>4. MarkInv'
    BY <2>1, <2>2 DEF IInv, MarkInv, Writing, Busy, Now
  <2>5. CoverInv'
    BY <2>1 DEF IInv, CoverInv, SalesPay, Fill, NetCash, Gross
  <2>6. BookInv'
    BY <2>1 DEF IInv, BookInv, Busy, Writing
  <2> QED
    BY <2>3, <2>4, <2>5, <2>6 DEF IInv
<1> QED
  BY <1>1, <1>2, <1>3

\* A step that leaves the money, the positions and the input alone: files differ
\* in the trades, the marks and the events only.
SameBooks ==
  /\ UNCHANGED <<input, offered, backup, state>>
  /\ files'.cash = files.cash /\ files'.ledger = files.ledger
  /\ files'.portfolio = files.portfolio

\* Such a step keeps the balances, covered or not.
LEMMA BooksStay ==
  ASSUME IInv, SameBooks
  PROVE  /\ CoverInv'
         /\ pc \in Busy \ {"ledger"} /\ pc' # "ledger" => BookInv'
<1>1. CoverInv'
  BY DEF IInv, CoverInv, SalesPay, SameBooks, Fill, NetCash, Gross
<1>2. ASSUME pc \in Busy \ {"ledger"}, pc' # "ledger" PROVE BookInv'
  BY <1>2 DEF IInv, BookInv, SameBooks
<1> QED
  BY <1>1, <1>2

\* ... and the validity of the input.
LEMMA BatchStays == UNCHANGED <<input, offered>> => (ValidBatch' <=> ValidBatch)
BY DEF ValidBatch, ValidRow, Fill

\* The fill is in trade_fills.csv before it is booked, or refused with the
\* money as it was.
LEMMA TradeKeeps == IInv /\ AppendTradeFill => IInv'
<1> SUFFICES ASSUME IInv, AppendTradeFill PROVE IInv'
  OBVIOUS
<1> DEFINE k == Min(Unmarked)
<1>t. TypeInv /\ pc = "next" /\ pc \in Busy \ {"ledger"} /\ ValidBatch
  BY DEF IInv, TypeInv, AppendTradeFill, Busy
<1>k. k \in 1..offered /\ k \notin Marks(files)
  <2>1. Unmarked \in SUBSET Nat /\ Unmarked # {}
    BY <1>t DEF AppendTradeFill, Unmarked, TypeInv
  <2>2. k \in Unmarked
    BY <2>1, MinIn
  <2> QED
    BY <2>2 DEF Unmarked, Processed, Marks
<1>u. UNCHANGED <<input, offered, backup, state, run>>
  BY DEF AppendTradeFill, Raise, Goto
<1>1. \/ pc' = "idle" /\ UNCHANGED <<files, cur>>
      \/ /\ pc' = "apply" /\ cur' = [fill |-> k, booking |-> NoBooking]
         /\ files' = [files EXCEPT !.trades = @ \cup {k}]
  BY DEF AppendTradeFill, Raise, Goto
<1> HIDE DEF k
<1>2. CASE pc' = "idle" /\ UNCHANGED <<files, cur>>
  <2>1. TypeInv'
    BY <1>t, <1>u, <1>2 DEF TypeInv
  <2>2. MarkInv'
    BY <1>t, <1>u, <1>2 DEF IInv, MarkInv, Writing
  <2>3. SameBooks
    BY <1>u, <1>2 DEF SameBooks
  <2> QED
    BY <1>t, <1>2, <2>1, <2>2, <2>3, BooksStay DEF IInv
<1>3. CASE /\ pc' = "apply" /\ cur' = [fill |-> k, booking |-> NoBooking]
           /\ files' = [files EXCEPT !.trades = @ \cup {k}]
  <2>1. /\ files' \in FilesOf(offered) /\ files'.trades = files.trades \cup {k}
        /\ files'.cash = files.cash /\ files'.ledger = files.ledger
        /\ files'.portfolio = files.portfolio /\ files'.processed = files.processed
    BY ZenonT(30), <1>t, <1>k, <1>3 DEF TypeInv, FilesOf
  <2>2. cur' \in [fill : 0..offered, booking : Bookings] /\ cur'.fill = k
    <3>1. NoBooking \in Bookings
      BY DEF Bookings, NoBooking, Types, Events
    <3>2. k \in 0..offered
      BY <1>k, <1>t DEF TypeInv
    <3> QED
      BY <1>3, <3>1, <3>2
  <2>3. TypeInv'
    BY <1>t, <1>u, <1>3, <2>1, <2>2, BatchStays DEF TypeInv, Busy, Writing
  <2>4. Marks(files') = Marks(files)
    BY <2>1 DEF Marks
  <2>5. Consistent(input, files) /\ Consistent(input, backup)
    BY <1>t DEF IInv, MarkInv
  <2>6. Consistent(input, files')
    BY <2>1, <2>4, <2>5, SameMoney DEF Consistent
  <2>7. MarkInv'
    BY <1>k, <1>u, <1>3, <2>1, <2>2, <2>4, <2>5, <2>6 DEF MarkInv, Writing, Now
  <2>8. SameBooks
    BY <1>u, <2>1 DEF SameBooks
  <2> QED
    BY <1>t, <1>3, <2>3, <2>7, <2>8, BooksStay DEF IInv
<1> QED
  BY <1>1, <1>2, <1>3

\* An entry in the event log changes nothing else.
LEMMA LogKeeps == IInv /\ (LogPositionEvent \/ LogCashEvent \/ LogFillEvent) => IInv'
<1> SUFFICES ASSUME IInv, LogPositionEvent \/ LogCashEvent \/ LogFillEvent PROVE IInv'
  OBVIOUS
<1>t. TypeInv
  BY DEF IInv
<1>1. /\ \/ pc = "event" /\ pc' = "cash_event"
         \/ pc = "cash_event" /\ pc' = "mark"
         \/ pc = "fill_event" /\ pc' = "next"
      /\ UNCHANGED <<input, offered, backup, cur, state, run>>
      /\ \E type \in Events : files' = [files EXCEPT !.events =
                                @ \cup {[fill |-> cur.fill, type |-> type, run |-> run]}]
  <2>1. cur.booking.event \in Events
    BY <1>t DEF TypeInv, Bookings
  <2> QED
    BY Zenon, <2>1
       DEF LogPositionEvent, LogCashEvent, LogFillEvent, LogEvent, Goto, Events
<1>2. /\ files' \in FilesOf(offered) /\ files'.trades = files.trades
      /\ files'.cash = files.cash /\ files'.ledger = files.ledger
      /\ files'.portfolio = files.portfolio /\ files'.processed = files.processed
  <2>1. PICK type \in Events : files' = [files EXCEPT !.events =
                                 @ \cup {[fill |-> cur.fill, type |-> type, run |-> run]}]
    BY <1>1
  <2> DEFINE more == files.events \cup {[fill |-> cur.fill, type |-> type, run |-> run]}
  <2>2. files' = [files EXCEPT !.events = more]
    BY <2>1, <1>t DEF TypeInv, FilesOf
  <2>3. more \in SUBSET [fill : 0..offered, type : Events, run : Nat]
    BY <1>t DEF TypeInv, FilesOf
  <2> HIDE DEF more
  <2> QED
    BY ZenonT(30), <1>t, <2>2, <2>3 DEF TypeInv, FilesOf
<1>3. TypeInv'
  BY <1>t, <1>1, <1>2, BatchStays DEF TypeInv, Busy, Writing
<1>4. Marks(files') = Marks(files) /\ Now' = Now
  BY <1>1, <1>2 DEF Marks, Now
<1>5. \A A, B : Explains(input, files, A, B) => Explains(input, files', A, B)
  BY <1>2, SameMoney
<1>6. MarkInv'
  <2>1. Consistent(input, backup)'
    BY <1>1 DEF IInv, MarkInv
  <2>2. CASE pc = "fill_event" /\ pc' = "next"
    BY <1>1, <1>4, <1>5, <2>1, <2>2 DEF IInv, MarkInv, Consistent, Writing
  <2>3. CASE pc \in {"event", "cash_event"} /\ pc' \in {"cash_event", "mark"}
    <3>1. /\ Now \in files.trades /\ Now \notin Marks(files)
          /\ Explains(input, files, Marks(files) \cup {Now}, Marks(files) \cup {Now})
      BY <2>3 DEF IInv, MarkInv, Writing
    <3>2. Explains(input', files', Marks(files') \cup {Now'}, Marks(files') \cup {Now'})
      BY <1>1, <1>4, <1>5, <3>1
    <3> QED
      BY <1>2, <1>4, <2>1, <2>3, <3>1, <3>2 DEF MarkInv, Writing
  <2> QED
    BY <1>1, <2>2, <2>3
<1>7. SameBooks /\ pc \in Busy \ {"ledger"} /\ pc' # "ledger"
  BY <1>1, <1>2 DEF SameBooks, Busy, Writing
<1> QED
  BY <1>3, <1>6, <1>7, BooksStay DEF IInv

\* The mark makes the fill one of those the cash and the ledger have.
LEMMA MarkKeeps == IInv /\ AppendProcessedFill => IInv'
<1> SUFFICES ASSUME IInv, AppendProcessedFill PROVE IInv'
  OBVIOUS
<1>t. TypeInv /\ pc = "mark" /\ pc \in Writing
  BY DEF IInv, AppendProcessedFill, Writing
<1>1. /\ pc' = "fill_event" /\ UNCHANGED <<input, offered, backup, cur, state, run>>
      /\ files' = [files EXCEPT !.processed = @ \cup {[fill |-> Now, run |-> run]}]
  BY DEF AppendProcessedFill, Goto, Now
<1>2. Now \in files.trades /\ Now \in 1..offered
  BY <1>t DEF IInv, MarkInv, TypeInv, FilesOf
<1>3. /\ files' \in FilesOf(offered)
      /\ files'.cash = files.cash /\ files'.ledger = files.ledger
      /\ files'.portfolio = files.portfolio
      /\ files'.processed = files.processed \cup {[fill |-> Now, run |-> run]}
  <2> DEFINE more == files.processed \cup {[fill |-> Now, run |-> run]}
  <2>1. files' = [files EXCEPT !.processed = more]
    BY <1>1, <1>t DEF TypeInv, FilesOf
  <2>2. more \in SUBSET [fill : 1..offered, run : Nat]
    BY <1>t, <1>2 DEF TypeInv, FilesOf
  <2>3. files' \in FilesOf(offered) /\ files'.processed = more
    <3> HIDE DEF more
    <3> QED
      BY Zenon, <1>t, <2>1, <2>2 DEF TypeInv, FilesOf
  <2>4. /\ files'.cash = files.cash /\ files'.ledger = files.ledger
        /\ files'.portfolio = files.portfolio
    BY <1>t, <2>1 DEF TypeInv, FilesOf
  <2> QED
    BY <2>3, <2>4
<1>4. TypeInv'
  BY <1>t, <1>1, <1>3, BatchStays DEF TypeInv, Busy, Writing
<1>5. Marks(files') = Marks(files) \cup {Now}
  <2> DEFINE m == [fill |-> Now, run |-> run]
  <2>1. m.fill = Now /\ files'.processed = files.processed \cup {m}
    BY <1>3
  <2> HIDE DEF m
  <2> QED
    BY <2>1 DEF Marks
<1>6. Consistent(input, files')
  <2>1. Explains(input, files, Marks(files) \cup {Now}, Marks(files) \cup {Now})
    BY <1>t DEF IInv, MarkInv
  <2> QED
    BY <1>3, <1>5, <2>1, SameMoney DEF Consistent
<1>7. MarkInv'
  BY <1>1, <1>6 DEF IInv, MarkInv, Writing
<1>8. SameBooks /\ pc \in Busy \ {"ledger"} /\ pc' # "ledger"
  BY <1>t, <1>1, <1>3 DEF SameBooks, Busy, Writing
<1> QED
  BY <1>4, <1>7, <1>8, BooksStay DEF IInv

\* The run ends: the positions in memory are balanced and become the file.
LEMMA StateKeeps == IInv /\ WriteState => IInv'
<1> SUFFICES ASSUME IInv, WriteState PROVE IInv'
  OBVIOUS
<1>t. TypeInv /\ pc = "next"
  BY DEF IInv, WriteState
<1>1. /\ pc' = "idle" /\ UNCHANGED <<input, offered, cur, state, run>>
      /\ files' = [files EXCEPT !.portfolio = state] /\ backup' = files'
  BY DEF WriteState
<1>3. /\ files' \in FilesOf(offered)
      /\ files'.cash = files.cash /\ files'.ledger = files.ledger
      /\ files'.portfolio = state /\ files'.processed = files.processed
  BY Zenon, <1>t, <1>1 DEF TypeInv, FilesOf
<1>4. TypeInv'
  BY <1>t, <1>1, <1>3 DEF TypeInv
<1>5. Consistent(input, files')
  <2>1. Consistent(input, files) /\ Marks(files') = Marks(files)
    BY <1>t, <1>3 DEF IInv, MarkInv, Marks
  <2> QED
    BY <1>3, <2>1, SameMoney DEF Consistent
<1>6. MarkInv'
  BY <1>1, <1>5 DEF MarkInv, Writing
<1>7. CoverInv'
  BY <1>1, <1>3 DEF IInv, CoverInv, SalesPay, Fill, NetCash, Gross
<1>8. BookInv'
  <2>1. Balanced(state, files.ledger)
    BY <1>t DEF IInv, BookInv, Busy
  <2> QED
    BY <1>1, <1>3, <2>1 DEF BookInv, Busy, Writing
<1> QED
  BY <1>4, <1>6, <1>7, <1>8 DEF IInv

\* The last completed run left a consistent set of files.
LEMMA RestoreKeeps == IInv /\ RestoreBackup => IInv'
<1> SUFFICES ASSUME IInv, RestoreBackup PROVE IInv'
  OBVIOUS
<1>1. /\ pc = "idle" /\ pc' = "idle"
      /\ UNCHANGED <<input, offered, cur, state, run, backup>> /\ files' = backup
  BY DEF RestoreBackup
<1>2. TypeInv'
  BY <1>1 DEF IInv, TypeInv
<1>3. MarkInv'
  BY <1>1 DEF IInv, MarkInv, Writing
<1>4. CoverInv'
  BY <1>1 DEF IInv, CoverInv, SalesPay, Fill, NetCash, Gross
<1>5. BookInv'
  BY <1>1 DEF IInv, BookInv, Busy, Writing
<1> QED
  BY <1>2, <1>3, <1>4, <1>5 DEF IInv

----------------------------------------------------------------------------
(* The ledger row *)

\* A ledger with one more row.
LEMMA LedgerAppend ==
  ASSUME NEW ledger \in Seq(LedgerRows), NEW row \in LedgerRows
  PROVE  /\ Append(ledger, row) \in Seq(LedgerRows)
         /\ LedgerFills(Append(ledger, row)) = LedgerFills(ledger) \cup {row.fill}
         /\ Len(Append(ledger, row)) = Len(ledger) + 1
         /\ Append(ledger, row)[Len(ledger) + 1] = row
<1> DEFINE more == Append(ledger, row)
           m == Len(ledger) + 1
<1>1. /\ more \in Seq(LedgerRows) /\ Len(more) = m /\ DOMAIN more = 1..m
      /\ DOMAIN ledger = 1..(m - 1) /\ m \in Nat \ {0} /\ more[m] = row
      /\ \A n \in 1..(m - 1) : more[n] = ledger[n]
  OBVIOUS
<1> HIDE DEF more, m
<1>2. LedgerFills(more) = LedgerFills(ledger) \cup {row.fill}
  BY <1>1 DEF LedgerFills
<1> QED
  BY <1>1, <1>2 DEF more, m

\* Rows that lack the fill of a ledger row balance with it.
LEMMA AlmostThenBalanced ==
  ASSUME NEW ledger \in Seq(LedgerRows), NEW row \in LedgerRows, NEW rows,
         Almost(rows, ledger, row.fill, Paid(row))
  PROVE  Balanced(rows, Append(ledger, row))
BY LedgerAppend, FlowWith DEF Almost, Balanced

\* Rows without the fill of a new ledger row stay balanced.
LEMMA BalancedStays ==
  ASSUME NEW ledger \in Seq(LedgerRows), NEW row \in LedgerRows, NEW rows,
         Balanced(rows, ledger), row.fill \notin LedgerFills(ledger)
  PROVE  Balanced(rows, Append(ledger, row))
<1> SUFFICES ASSUME NEW n \in DOMAIN rows
             PROVE  /\ rows[n].fills \subseteq LedgerFills(Append(ledger, row))
                    /\ Booked(rows[n]) = FlowOf(Append(ledger, row), rows[n].fills)
  BY DEF Balanced
<1>1. rows[n].fills \subseteq LedgerFills(ledger) /\ row.fill \notin rows[n].fills
  BY DEF Balanced
<1>2. FlowOf(ledger, rows[n].fills) \in Int
  BY FlowWithout
<1>3. FlowOf(Append(ledger, row), rows[n].fills) = FlowOf(ledger, rows[n].fills)
  BY <1>1, <1>2, FlowWith
<1> QED
  BY <1>1, <1>3, LedgerAppend DEF Balanced

\* The ledger gets the fill whose money has moved.
LEMMA LedgerKeeps == IInv /\ AppendCashLedgerRow => IInv'
<1> SUFFICES ASSUME IInv, AppendCashLedgerRow PROVE IInv'
  OBVIOUS
<1> DEFINE row == [fill |-> cur.fill, position |-> cur.booking.position,
                   ticker |-> Fill(cur.fill).ticker, type |-> cur.booking.type,
                   amount |-> IF Fill(cur.fill).action = "buy"
                                THEN -Gross(cur.fill) ELSE NetCash(cur.fill),
                   fees |-> Fill(cur.fill).fees, after |-> files.cash]
           P == Marks(files)
<1>t. TypeInv /\ pc = "ledger" /\ pc \in Writing
  BY DEF IInv, AppendCashLedgerRow, Writing
<1>1. /\ pc' = "event" /\ UNCHANGED <<input, offered, backup, cur, state, run>>
      /\ files' = [files EXCEPT !.ledger = Append(@, row)]
  BY DEF AppendCashLedgerRow, Goto
<1>2. /\ Now \in files.trades /\ Now \notin P /\ Now \in 1..offered /\ Now \in 1..MaxFills
      /\ P \in SUBSET (1..MaxFills) /\ files.ledger \in Seq(LedgerRows)
  <2>1. P \in SUBSET (1..offered)
    BY <1>t, MarksTyped DEF TypeInv
  <2>2. offered \in 0..MaxFills /\ files.trades \in SUBSET (1..offered)
    BY <1>t DEF TypeInv, FilesOf
  <2>3. 1..offered \subseteq 1..MaxFills
    BY <2>2, FillAssumption
  <2> QED
    BY <1>t, <2>1, <2>2, <2>3 DEF IInv, MarkInv, TypeInv, FilesOf
<1>3. row \in LedgerRows /\ row.fill = Now /\ row.after = files.cash
      /\ Paid(row) = Net(input[Now])
  <2>1. input[Now] \in FillKinds
    BY <1>t, <1>2 DEF TypeInv
  <2>2. /\ input[Now].quantity \in Int /\ input[Now].price \in Int /\ input[Now].fees \in Int
        /\ input[Now].ticker \in Tickers
    BY <2>1, FillAssumption DEF Tickers
  <2>3. Gross(Now) \in Int /\ NetCash(Now) \in Int /\ Fill(Now) = input[Now]
        /\ NetCash(Now) = Net(input[Now])
        /\ (input[Now].action = "buy" =>
              NetCash(Now) = -Gross(Now) - input[Now].fees /\ Fill(Now).action = "buy")
    BY <2>2 DEF Gross, NetCash, Fill, Net
  <2>4. cur.booking.type \in Types /\ cur.booking.position \in Nat /\ files.cash \in Int
    BY <1>t DEF TypeInv, Bookings, FilesOf
  <2>5. cur.booking.type = "position_open" <=> input[Now].action = "buy"
    BY <1>t DEF IInv, BookInv
  <2>6. row \in LedgerRows
    BY <1>2, <2>2, <2>3, <2>4 DEF LedgerRows, Now
  <2>7. /\ row.fill = Now /\ row.after = files.cash /\ row.type = cur.booking.type
        /\ row.fees = input[Now].fees
        /\ row.amount = IF input[Now].action = "buy" THEN -Gross(Now) ELSE NetCash(Now)
    BY <2>3 DEF Now
  <2> HIDE DEF row
  <2>8. Paid(row) = Net(input[Now])
    BY <2>2, <2>3, <2>5, <2>7 DEF Paid
  <2> QED
    BY <2>6, <2>7, <2>8
<1> HIDE DEF row
<1>4. /\ Append(files.ledger, row) \in Seq(LedgerRows)
      /\ LedgerFills(Append(files.ledger, row)) = LedgerFills(files.ledger) \cup {Now}
      /\ Len(Append(files.ledger, row)) = Len(files.ledger) + 1
      /\ Append(files.ledger, row)[Len(files.ledger) + 1] = row
  BY <1>2, <1>3, LedgerAppend
<1>5. /\ files' \in FilesOf(offered) /\ files'.ledger = Append(files.ledger, row)
      /\ files'.cash = files.cash /\ files'.trades = files.trades
      /\ files'.portfolio = files.portfolio /\ files'.processed = files.processed
  BY Zenon, <1>t, <1>1, <1>4 DEF TypeInv, FilesOf
<1>6. TypeInv'
  BY <1>t, <1>1, <1>5, BatchStays DEF TypeInv, Busy, Writing
<1>7. Marks(files') = P /\ Now' = Now
  BY <1>1, <1>5 DEF Marks, Now
<1>e. Explains(input, files, P \cup {Now}, P)
  BY <1>t DEF IInv, MarkInv
<1> HIDE DEF P
<1>8. Explains(input, files', P \cup {Now}, P \cup {Now})
  <2>1. IsFiniteSet(P)
    BY Zenon, <1>t, <1>2, NetSumWith DEF TypeInv
  <2>2. Cardinality(P \cup {Now}) = Cardinality(P) + 1
    BY Zenon, <1>2, <2>1, FS_AddElement
  <2> QED
    BY <1>3, <1>4, <1>5, <1>e, <2>2 DEF Explains
<1>9. MarkInv'
  BY ZenonT(30), <1>1, <1>2, <1>5, <1>7, <1>8 DEF IInv, MarkInv, Writing
<1>10. CoverInv'
  BY <1>1, <1>5 DEF IInv, CoverInv, SalesPay, Fill, NetCash, Gross
<1>11. BookInv'
  <2>1. Now \notin LedgerFills(files.ledger)
    BY <1>2, <1>e DEF Explains
  <2>2. /\ Balanced(files.portfolio, files.ledger) /\ Balanced(backup.portfolio, backup.ledger)
        /\ Almost(state, files.ledger, Now, Net(input[Now]))
    BY <1>t DEF IInv, BookInv
  <2>3. Balanced(files.portfolio, Append(files.ledger, row))
    BY <1>2, <1>3, <2>1, <2>2, BalancedStays
  <2>4. Balanced(state, Append(files.ledger, row))
    BY <1>2, <1>3, <2>2, AlmostThenBalanced
  <2> QED
    BY <1>1, <1>5, <2>2, <2>3, <2>4 DEF BookInv, Busy, Writing
<1> QED
  BY <1>6, <1>9, <1>10, <1>11 DEF IInv

----------------------------------------------------------------------------
(* The booking *)

\* A row of the input, as the agent has checked it.
ValidKind(f) == /\ f.quantity \in Nat \ {0} /\ f.price \in Int /\ f.fees \in Int
                /\ f.ticker \in Tickers /\ f.action \in {"buy", "sell"}

\* A position that is opened has cost what its fill moves.
LEMMA OpenedRow ==
  ASSUME NEW k \in Nat, ValidKind(Fill(k)), Fill(k).action = "buy",
         state \in Seq(Rows), NEW ledger \in Seq(LedgerRows), Balanced(state, ledger),
         k \notin LedgerFills(ledger)
  PROVE  Opened(k) \in Seq(Rows) /\ Almost(Opened(k), ledger, k, Net(Fill(k)))
<1> DEFINE new == [ticker |-> Fill(k).ticker, status |-> "open",
                   quantity |-> Fill(k).quantity, price |-> Fill(k).price,
                   feesLeft |-> Fill(k).fees, realised |-> 0,
                   opened |-> k, closed |-> 0, fills |-> {k}]
           rows == Append(state, new)
           m == Len(state) + 1
<1>1. Opened(k) = rows
  BY DEF Opened
<1>2. new \in Rows
  BY DEF Rows, ValidKind
<1>3. new.fills = {k} /\ Booked(new) = Net(Fill(k)) /\ Net(Fill(k)) \in Int
  <2>1. Booked(new) = 0 - Fill(k).fees - Fill(k).quantity * Fill(k).price
    BY DEF Booked
  <2>2. Net(Fill(k)) = -(Fill(k).quantity * Fill(k).price + Fill(k).fees)
    BY DEF Net
  <2>3. Fill(k).fees \in Int /\ Fill(k).quantity * Fill(k).price \in Int
    BY DEF ValidKind
  <2> QED
    BY <2>1, <2>2, <2>3
<1> HIDE DEF new
<1>4. /\ rows \in Seq(Rows) /\ DOMAIN rows = 1..m /\ DOMAIN state = 1..(m - 1)
      /\ m \in Nat \ {0} /\ rows[m] = new /\ \A n \in 1..(m - 1) : rows[n] = state[n]
  BY <1>2
<1> HIDE DEF rows, m
<1>5. FlowOf(ledger, {k}) = 0
  BY FlowWithout
<1>6. ASSUME NEW n \in DOMAIN rows
      PROVE  /\ rows[n].fills \subseteq LedgerFills(ledger) \cup {k}
             /\ Booked(rows[n]) = FlowOf(ledger, rows[n].fills)
                                    + (IF k \in rows[n].fills THEN Net(Fill(k)) ELSE 0)
  <2>1. CASE n = m
    <3>1. rows[n].fills = {k} /\ k \in {k} /\ Booked(rows[n]) = Net(Fill(k))
      BY <1>3, <1>4, <2>1
    <3>2. FlowOf(ledger, {k}) + Net(Fill(k)) = Net(Fill(k))
      BY <1>3, <1>5
    <3> QED
      BY <3>1, <3>2
  <2>2. CASE n # m
    <3>1. n \in DOMAIN state /\ rows[n] = state[n]
      BY <1>4, <2>2
    <3>2. /\ state[n].fills \subseteq LedgerFills(ledger) \cup {k}
          /\ Booked(state[n]) = FlowOf(ledger, state[n].fills)
                                  + (IF k \in state[n].fills THEN Net(Fill(k)) ELSE 0)
      <4>1. state[n].fills \subseteq LedgerFills(ledger) /\ k \notin state[n].fills
        BY <3>1 DEF Balanced
      <4>2. FlowOf(ledger, state[n].fills) \in Int
        BY FlowWithout
      <4> QED
        BY <3>1, <4>1, <4>2 DEF Balanced
    <3> QED
      BY <3>1, <3>2
  <2> QED
    BY <2>1, <2>2
<1>7. Almost(rows, ledger, k, Net(Fill(k)))
  BY <1>6 DEF Almost
<1> QED
  BY <1>1, <1>4, <1>7

\* What a sale of q at a net amount makes of an open row.
Reduced(p, k, q, net, fee) ==
  [p EXCEPT !.status   = IF q = p.quantity THEN "closed" ELSE @,
            !.quantity = IF q = p.quantity THEN @ ELSE @ - q,
            !.feesLeft = IF q = p.quantity THEN 0 ELSE @ - fee,
            !.realised = @ + (net - q * p.price - fee),
            !.closed   = IF q = p.quantity THEN k ELSE @,
            !.fills    = @ \cup {k}]

\* A product over a difference.
LEMMA Distributes == \A a, b, c \in Int : (a - b) * c = a * c - b * c
OBVIOUS

\* The row then says that the net amount more went through it, whatever share of
\* the entry fee the sale was given.
LEMMA ReducedRow ==
  ASSUME NEW p \in Rows, p.status = "open", NEW k \in Nat, NEW q \in Nat \ {0},
         q <= p.quantity, NEW net \in Int
  PROVE  LET fee == AllocateEntryFee(p.feesLeft, q, p.quantity) IN
         /\ Reduced(p, k, q, net, fee) \in Rows
         /\ Reduced(p, k, q, net, fee).fills = p.fills \cup {k}
         /\ Booked(Reduced(p, k, q, net, fee)) = Booked(p) + net
<1> DEFINE fee == AllocateEntryFee(p.feesLeft, q, p.quantity)
           r == Reduced(p, k, q, net, fee)
           cost == q * p.price
<1>1. /\ p.quantity \in Nat \ {0} /\ p.price \in Int /\ p.feesLeft \in Int
      /\ p.realised \in Int /\ p.fills \in SUBSET Nat
  BY DEF Rows
<1>2. fee \in Int /\ cost \in Int
  BY <1>1 DEF AllocateEntryFee
<1>3. q = p.quantity => fee = p.feesLeft
  BY DEF AllocateEntryFee
<1> HIDE DEF fee, cost
<1>4. /\ r.fills = p.fills \cup {k} /\ r.price = p.price
      /\ r.status = IF q = p.quantity THEN "closed" ELSE "open"
      /\ r.quantity = IF q = p.quantity THEN p.quantity ELSE p.quantity - q
      /\ r.feesLeft = IF q = p.quantity THEN 0 ELSE p.feesLeft - fee
      /\ r.realised = p.realised + (net - cost - fee)
  BY DEF Reduced, Rows, cost
<1>5. r \in Rows
  <2>1. /\ r.quantity \in Nat \ {0} /\ r.feesLeft \in Int /\ r.realised \in Int
        /\ r.fills \in SUBSET Nat
    BY <1>1, <1>2, <1>4
  <2>2. (IF q = p.quantity THEN p.quantity ELSE p.quantity - q) \in Nat \ {0}
    BY <1>1
  <2>3. (IF q = p.quantity THEN 0 ELSE p.feesLeft - fee) \in Int
    BY <1>1, <1>2
  <2>4. p.realised + (net - q * p.price - fee) \in Int
    BY <1>1, <1>2
  <2> QED
    BY ZenonT(30), <2>2, <2>3, <2>4 DEF Reduced, Rows
<1> HIDE DEF r
<1>6. Booked(r) = Booked(p) + net
  <2> DEFINE worth == p.quantity * p.price
  <2>1. Booked(p) = p.realised - p.feesLeft - worth /\ worth \in Int
    BY <1>1 DEF Booked
  <2>2. CASE q = p.quantity
    <3>0. r.status # "open" /\ r.feesLeft = 0 /\ r.realised = p.realised + (net - cost - fee)
      BY <1>4, <2>2
    <3>1. Booked(r) = r.realised - 0 - 0
      BY <3>0 DEF Booked
    <3>2. cost = worth /\ fee = p.feesLeft
      BY <1>3, <2>2 DEF cost
    <3> HIDE DEF worth
    <3> QED
      BY <1>1, <1>2, <2>1, <3>0, <3>1, <3>2
  <2>3. CASE q # p.quantity
    <3>0. /\ r.status = "open" /\ r.feesLeft = p.feesLeft - fee
          /\ r.quantity = p.quantity - q /\ r.price = p.price
          /\ r.realised = p.realised + (net - cost - fee)
      BY <1>4, <2>3
    <3>1. Booked(r) = r.realised - (p.feesLeft - fee) - (p.quantity - q) * p.price
      BY <3>0 DEF Booked
    <3>2. (p.quantity - q) * p.price = worth - cost
      BY <1>1, Distributes DEF cost
    <3> HIDE DEF worth
    <3> QED
      BY <1>1, <1>2, <2>1, <3>0, <3>1, <3>2
  <2> QED
    BY <2>2, <2>3
<1> QED
  BY <1>4, <1>5, <1>6 DEF fee, r

\* The row that is sold from.
LEMMA HeldIsOpen ==
  ASSUME NEW k, ~Rejected(k), Fill(k).action # "buy"
  PROVE  /\ HeldRow(k) \in DOMAIN state /\ state[HeldRow(k)].status = "open"
         /\ ~(Fill(k).quantity > state[HeldRow(k)].quantity)
<1>1. Cardinality(Active(state, Fill(k).ticker)) = 1
  BY DEF Rejected
<1>2. Active(state, Fill(k).ticker) # {}
  BY <1>1, FS_EmptySet
<1>3. HeldRow(k) \in Active(state, Fill(k).ticker)
  BY <1>2 DEF HeldRow
<1> QED
  BY <1>3 DEF Active, Rejected

\* A position that is sold from balances once the ledger has the sale.
LEMMA SoldRow ==
  ASSUME NEW k \in Nat, ValidKind(Fill(k)), Fill(k).action # "buy", ~Rejected(k),
         state \in Seq(Rows), NEW ledger \in Seq(LedgerRows), Balanced(state, ledger),
         k \notin LedgerFills(ledger)
  PROVE  Sold(k) \in Seq(Rows) /\ Almost(Sold(k), ledger, k, Net(Fill(k)))
<1> DEFINE h == HeldRow(k)
           p == state[h]
           q == Fill(k).quantity
           net == Net(Fill(k))
           fee == AllocateEntryFee(p.feesLeft, q, p.quantity)
           r == Reduced(p, k, q, net, fee)
           rows == Sold(k)
<1>1. h \in DOMAIN state /\ p.status = "open" /\ ~(q > p.quantity)
  BY HeldIsOpen
<1>2. p \in Rows /\ DOMAIN state = 1..Len(state) /\ p.quantity \in Nat \ {0}
  <2>1. p \in Rows /\ DOMAIN state = 1..Len(state)
    BY <1>1
  <2> QED
    BY Zenon, <2>1 DEF Rows
<1>3. q \in Nat \ {0} /\ q <= p.quantity /\ net \in Int
  <2>1. q \in Nat \ {0} /\ Fill(k).price \in Int /\ Fill(k).fees \in Int
    BY DEF ValidKind
  <2> QED
    BY <1>1, <1>2, <2>1 DEF Net
<1>4. NetCash(k) = net
  BY DEF NetCash, Gross, Net
<1>5. rows = [state EXCEPT ![h] = r]
  BY <1>4 DEF Sold, Reduced, Closes
<1> HIDE DEF h, q, net, rows
<1>6. r \in Rows /\ r.fills = p.fills \cup {k} /\ Booked(r) = Booked(p) + net
  BY <1>1, <1>2, <1>3, ReducedRow
<1> HIDE DEF r
<1>7. /\ rows \in Seq(Rows) /\ DOMAIN rows = DOMAIN state /\ rows[h] = r
      /\ \A n \in DOMAIN state : n # h => rows[n] = state[n]
  BY <1>1, <1>5, <1>6
<1>8. p.fills \subseteq LedgerFills(ledger) /\ Booked(p) = FlowOf(ledger, p.fills)
  BY <1>1 DEF Balanced
<1>9. FlowOf(ledger, p.fills \cup {k}) = FlowOf(ledger, p.fills)
  BY FlowWithout
<1>10. ASSUME NEW n \in DOMAIN rows
       PROVE  /\ rows[n].fills \subseteq LedgerFills(ledger) \cup {k}
              /\ Booked(rows[n]) = FlowOf(ledger, rows[n].fills)
                                     + (IF k \in rows[n].fills THEN net ELSE 0)
  <2>1. CASE n = h
    <3>1. rows[n] = r /\ k \in rows[n].fills /\ rows[n].fills = p.fills \cup {k}
      BY <1>6, <1>7, <2>1
    <3>2. Booked(rows[n]) = FlowOf(ledger, rows[n].fills) + net
      BY Zenon, <1>6, <1>8, <1>9, <3>1
    <3> QED
      BY <1>8, <3>1, <3>2
  <2>2. CASE n # h
    <3>1. n \in DOMAIN state /\ rows[n] = state[n]
      BY <1>7, <2>2
    <3>2. state[n].fills \subseteq LedgerFills(ledger) /\ k \notin state[n].fills
      BY <3>1 DEF Balanced
    <3>3. FlowOf(ledger, state[n].fills) \in Int
      BY FlowWithout
    <3>4. Booked(state[n]) = FlowOf(ledger, state[n].fills)
      BY <3>1 DEF Balanced
    <3> QED
      BY <3>1, <3>2, <3>3, <3>4
  <2> QED
    BY <2>1, <2>2
<1>11. Almost(rows, ledger, k, net)
  BY <1>10 DEF Almost
<1> QED
  BY <1>7, <1>11 DEF rows, net

\* The position and the cash move, and the ledger does not have it yet.
LEMMA ApplyKeeps == IInv /\ ApplyFill => IInv'
<1> SUFFICES ASSUME IInv, ApplyFill PROVE IInv'
  OBVIOUS
<1> DEFINE k == cur.fill
           P == Marks(files)
           after == IF Fill(k).action = "buy" THEN Opened(k) ELSE Sold(k)
           position == IF Fill(k).action = "buy" THEN k ELSE state[HeldRow(k)].opened
           booking == [type |-> Booking(k).type, event |-> Booking(k).event,
                       position |-> position]
<1>t. TypeInv /\ pc = "apply" /\ pc \in Writing /\ ValidBatch
  BY DEF IInv, TypeInv, ApplyFill, Writing
<1>u. UNCHANGED <<input, offered, backup, run>>
  BY DEF ApplyFill, Raise, Goto
<1>1. \/ pc' = "idle" /\ UNCHANGED <<files, cur, state>>
      \/ /\ ~Rejected(k) /\ state' = after /\ pc' = "ledger"
         /\ files' = [files EXCEPT !.cash = @ + NetCash(k)]
         /\ cur' = [fill |-> k, booking |-> booking]
  BY DEF ApplyFill, Raise, Goto
<1>2. /\ k \in files.trades /\ k \notin P /\ k \in 1..offered /\ k \in 1..MaxFills
      /\ P \in SUBSET (1..MaxFills) /\ files.ledger \in Seq(LedgerRows)
  <2>1. P \in SUBSET (1..offered)
    BY <1>t, MarksTyped DEF TypeInv
  <2>2. offered \in 0..MaxFills /\ files.trades \in SUBSET (1..offered)
    BY <1>t DEF TypeInv, FilesOf
  <2>3. 1..offered \subseteq 1..MaxFills
    BY <2>2, FillAssumption
  <2> QED
    BY <1>t, <2>1, <2>2, <2>3 DEF IInv, MarkInv, TypeInv, FilesOf, Now
<1>3. CASE pc' = "idle" /\ UNCHANGED <<files, cur, state>>
  <2>1. TypeInv'
    BY <1>t, <1>u, <1>3 DEF TypeInv
  <2>2. MarkInv'
    BY <1>2, <1>u, <1>3 DEF IInv, MarkInv, Writing
  <2>3. SameBooks
    BY <1>u, <1>3 DEF SameBooks
  <2>4. pc \in Busy \ {"ledger"}
    BY <1>t DEF Busy, Writing
  <2> QED
    BY <1>3, <2>1, <2>2, <2>3, <2>4, BooksStay DEF IInv
<1>4. CASE /\ ~Rejected(k) /\ state' = after /\ pc' = "ledger"
           /\ files' = [files EXCEPT !.cash = @ + NetCash(k)]
           /\ cur' = [fill |-> k, booking |-> booking]
  <2>1. Fill(k) = input[k] /\ ValidKind(Fill(k)) /\ NetCash(k) = Net(input[k])
    <3>1. input[k] \in FillKinds /\ Fill(k) = input[k] /\ ValidRow(k)
      BY <1>t, <1>2 DEF TypeInv, Fill, ValidBatch
    <3>2. /\ input[k].quantity \in Int /\ input[k].price \in Int /\ input[k].fees \in Int
          /\ input[k].ticker \in Tickers /\ input[k].action \in {"buy", "sell"}
      BY <3>1, FillAssumption DEF Tickers
    <3>3. input[k].quantity \in Nat \ {0}
      BY <3>1, <3>2 DEF ValidRow
    <3> QED
      BY <3>1, <3>2, <3>3 DEF ValidKind, NetCash, Gross, Net
  <2>2. NetCash(k) \in Int /\ files.cash \in Int /\ k \in Nat
    <3>1. input \in [1..MaxFills -> FillKinds] /\ files.cash \in Int
      BY <1>t DEF TypeInv, FilesOf
    <3>2. Net(input[k]) \in Int
      BY Zenon, <1>2, <3>1, NetTyped
    <3> QED
      BY <1>2, <2>1, <3>1, <3>2
  <2>3. /\ files' \in FilesOf(offered) /\ files'.cash = files.cash + NetCash(k)
        /\ files'.ledger = files.ledger /\ files'.trades = files.trades
        /\ files'.portfolio = files.portfolio /\ files'.processed = files.processed
    <3> DEFINE balance == files.cash + NetCash(k)
    <3>1. files' = [files EXCEPT !.cash = balance] /\ balance \in Int
      BY <1>4, <2>2
    <3>2. files \in FilesOf(offered)
      BY <1>t DEF TypeInv
    <3> HIDE DEF balance
    <3>3. /\ files' \in FilesOf(offered) /\ files'.cash = balance
          /\ files'.ledger = files.ledger /\ files'.trades = files.trades
          /\ files'.portfolio = files.portfolio /\ files'.processed = files.processed
      BY Zenon, <3>1, <3>2 DEF FilesOf
    <3> QED
      BY <3>3 DEF balance
  <2>e. /\ Explains(input, files, P, P) /\ Consistent(input, backup)
        /\ LedgerFills(files.ledger) = P /\ k \notin LedgerFills(files.ledger)
    BY <1>t, <1>2 DEF IInv, MarkInv, Consistent, Explains
  <2>b. /\ Balanced(files.portfolio, files.ledger) /\ Balanced(backup.portfolio, backup.ledger)
        /\ Balanced(state, files.ledger) /\ state \in Seq(Rows)
    BY <1>t DEF IInv, BookInv, TypeInv, Busy
  <2>4. after \in Seq(Rows) /\ Almost(after, files.ledger, k, Net(Fill(k)))
    BY <1>2, <1>4, <2>1, <2>2, <2>e, <2>b, OpenedRow, SoldRow
  <2>5. /\ booking \in Bookings
        /\ booking.type = "position_open" <=> Fill(k).action = "buy"
    <3>1. position \in Nat
      <4>1. Fill(k).action # "buy" => state[HeldRow(k)] \in Rows
        BY <1>4, <2>b, HeldIsOpen
      <4> QED
        BY <2>2, <4>1 DEF Rows
    <3>2. /\ Booking(k).type \in Types /\ Booking(k).event \in Events
          /\ Booking(k).type = "position_open" <=> Fill(k).action = "buy"
      BY DEF Booking, Types, Events
    <3> HIDE DEF position
    <3> QED
      BY <3>1, <3>2 DEF Bookings
  <2>6. cur' \in [fill : 0..offered, booking : Bookings] /\ Now' = k
        /\ cur'.booking = booking
    <3>1. k \in 0..offered
      BY <1>2, <1>t DEF TypeInv
    <3> HIDE DEF booking
    <3> QED
      BY <1>4, <2>5, <3>1 DEF Now
  <2> HIDE DEF after, booking, position
  <2>7. TypeInv'
    BY <1>t, <1>u, <1>4, <2>3, <2>4, <2>6, BatchStays DEF TypeInv, Busy, Writing
  <2>8. Marks(files') = P
    BY <2>3 DEF Marks
  <2>n. NetSum(input, P \cup {k}) = NetSum(input, P) + NetCash(k) /\ NetSum(input, P) \in Int
    BY Zenon, <1>t, <1>2, <2>1, NetSumWith DEF TypeInv
  <2>9. Explains(input, files', P \cup {k}, P)
    <3>1. files.cash = StartingCash + NetSum(input, P) /\ StartingCash \in Nat
      BY <2>e, FillAssumption DEF Explains
    <3>2. files'.cash = StartingCash + NetSum(input, P \cup {k})
      BY <2>2, <2>3, <2>n, <3>1
    <3>3. P \cup {k} # P
      BY <1>2
    <3> QED
      BY <2>3, <2>e, <3>2, <3>3 DEF Explains
  <2>10. MarkInv'
    BY Zenon, <1>u, <1>2, <1>4, <2>3, <2>6, <2>8, <2>9, <2>e DEF MarkInv, Writing
  <2>11. CoverInv'
    <3> SUFFICES ASSUME SalesPay' PROVE files'.cash >= 0 /\ backup'.cash >= 0
      BY DEF CoverInv
    <3>1. SalesPay
      BY <1>u DEF SalesPay, Fill, NetCash, Gross
    <3>2. files.cash >= 0 /\ backup.cash >= 0
      BY <3>1 DEF IInv, CoverInv
    <3>3. CASE Fill(k).action = "buy"
      <4>1. ~(files.cash < Gross(k) + Fill(k).fees)
        BY <1>4, <3>3 DEF Rejected
      <4>2. NetCash(k) = -(Gross(k) + Fill(k).fees) /\ Gross(k) + Fill(k).fees \in Int
        BY <2>1, <3>3 DEF NetCash, Gross, ValidKind
      <4> QED
        BY <1>u, <2>2, <2>3, <3>2, <4>1, <4>2
    <3>4. CASE Fill(k).action # "buy"
      <4>1. NetCash(k) >= 0
        BY <1>2, <2>1, <3>1, <3>4 DEF SalesPay, ValidKind
      <4> QED
        BY SMTT(30), <1>u, <2>2, <2>3, <3>2, <4>1
    <3> QED
      BY <3>3, <3>4
  <2>12. BookInv'
    BY <1>u, <1>4, <2>1, <2>3, <2>4, <2>5, <2>6, <2>b DEF BookInv, Busy, Writing
  <2> QED
    BY <2>7, <2>10, <2>11, <2>12 DEF IInv
<1> QED
  BY <1>1, <1>3, <1>4

----------------------------------------------------------------------------
(* The theorems *)

\* Every step keeps the invariant.
LEMMA FillStep == IInv /\ [Next]_vars => IInv'
<1> SUFFICES ASSUME IInv, [Next]_vars PROVE IInv'
  BY Zenon
<1>1. CASE UNCHANGED vars
  BY ZenonT(30), <1>1
     DEF vars, IInv, TypeInv, MarkInv, CoverInv, SalesPay, BookInv, Now, ValidBatch,
              ValidRow, Fill, NetCash, Gross
<1>2. CASE Next
  BY <1>2, QuietKeeps, TradeKeeps, ApplyKeeps, LedgerKeeps, LogKeeps, MarkKeeps,
     StateKeeps, RestoreKeeps DEF Next
<1> QED
  BY <1>1, <1>2

\* The inductive invariant holds in every state of the agent.
THEOREM FillInvariant == Spec => []IInv
BY FillInit, FillStep, PTL DEF Spec

\* The cash balance is the starting balance plus each marked fill once, and the
\* ledger explains it, whenever the recovery guard would let a run of main()
\* start: for any input, after any number of kills, refusals and restores.
THEOREM CashExplained == Spec => []CashMatchesMarks
<1>1. IInv => CashMatchesMarks
  <2> SUFFICES ASSUME IInv PROVE CashMatchesMarks
    OBVIOUS
  <2>1. SalesPay => files.cash >= 0
    BY DEF IInv, CoverInv
  <2>2. ASSUME pc = "idle", Clean PROVE Consistent(input, files)
    <3>1. files.trades \subseteq 1..offered
      BY DEF IInv, TypeInv, FilesOf
    <3>2. files.trades \subseteq Marks(files)
      BY <2>2, <3>1 DEF Clean, Unmarked, Processed, Marks, InterruptedFillEvidence
    <3> QED
      BY <2>2, <3>2 DEF IInv, MarkInv
  <2>3. MapThenSumSet(NetCash, Processed) = NetSum(input, Marks(files))
        /\ Processed = Marks(files)
    BY DEF NetSum, MapThenSumSet, MapThenFoldSet, NetCash, Gross, Fill, Net, Processed,
       Marks
  <2>4. ASSUME pc = "idle", Clean
        PROVE  /\ files.cash = StartingCash + MapThenSumSet(NetCash, Processed)
               /\ {files.ledger[n].fill : n \in DOMAIN files.ledger} = Processed
               /\ Len(files.ledger) = Cardinality(Processed)
               /\ Processed # {} => files.ledger[Len(files.ledger)].after = files.cash
    BY <2>2, <2>3, <2>4 DEF Consistent, Explains, LedgerFills
  <2> QED
    BY ZenonT(30), <2>1, <2>4 DEF CashMatchesMarks, SalesPay
<1> QED
  BY <1>1, FillInvariant, PTL

\* Every row of portfolio_state.csv balances with the cash ledger: over any
\* sequence of purchases, partial closes and floored shares of the entry fee,
\* what it says went through the position is what its fills moved.
THEOREM RowsBalance == Spec => []BooksBalance
<1>1. IInv => BooksBalance
  <2> SUFFICES ASSUME IInv, NEW n \in DOMAIN files.portfolio
               PROVE  Booked(files.portfolio[n]) = Flow(files.portfolio[n])
    BY DEF BooksBalance
  <2>1. Booked(files.portfolio[n]) = FlowOf(files.ledger, files.portfolio[n].fills)
    BY DEF IInv, BookInv, Balanced
  <2>2. Flow(files.portfolio[n]) = FlowOf(files.ledger, files.portfolio[n].fills)
    BY DEF Flow, FlowOf, Listed, Paid, MapThenSumSet, MapThenFoldSet
  <2> QED
    BY <2>1, <2>2
<1> QED
  BY <1>1, FillInvariant, PTL
============================================================================
