------------------------------ MODULE FillAgent ------------------------------
(***************************************************************************)
(* The Fill Agent, sole writer of holdings, cash, the cash ledger and the  *)
(* processed-fill markers.  A run walks the fills of the input files and   *)
(* makes each durable write a step of its own, so it can be killed between *)
(* any two; portfolio_state.csv is written once, after the last fill.      *)
(*                                                                         *)
(* Fill k is the k-th row of the input.  Its execution time is its own, so *)
(* entry_date and closed_at are modelled by the fill that set them; the    *)
(* field fills of a position is history, the fills booked in that row.     *)
(* Amounts are integers in units of the fee increment.  The SQLite copies, *)
(* written right after each CSV, are not modelled: trade_fills.csv is      *)
(* written before any of them and is evidence by itself.                   *)
(***************************************************************************)
EXTENDS Integers, Sequences, FiniteSets, FiniteSetsExt

CONSTANTS
    FillKinds,     \* [ticker, side, action, quantity, price, fees] a row may carry
    StartingCash,  \* DEFAULT_STARTING_CASH
    MaxFills,      \* rows the operator ever places in the input
    MaxRuns        \* bound on runs of the agent

ASSUME FillAssumption ==
    /\ StartingCash \in Nat /\ MaxFills \in Nat /\ MaxRuns \in Nat
    /\ \A f \in FillKinds : /\ f.side \in {"long", "short"}
                            /\ f.action \in {"buy", "sell"}
                            /\ {f.quantity, f.price, f.fees} \subseteq Int

VARIABLES
    input,      \* rows of manual_fills.csv, in the end
    offered,    \* how many of them are there yet
    files,      \* the files the agent owns, and event_log.csv
    backup,     \* those files as the last completed run left them
    pc,         \* the agent's next step
    cur,        \* the fill it is at
    state,      \* its in-memory copy of portfolio_state.csv
    run,        \* number of the current or last run
    outcome     \* how that run ended

vars == <<input, offered, files, backup, pc, cur, state, run, outcome>>

Fill(k) == input[k]

Gross(k) == Fill(k).quantity * Fill(k).price

\* Change of the cash balance by a fill.
NetCash(k) == IF Fill(k).action = "buy" THEN -(Gross(k) + Fill(k).fees)
                                        ELSE Gross(k) - Fill(k).fees

Processed == {m.fill : m \in files.processed}

Unmarked == {k \in 1..offered : k \notin Processed}

Goto(l) == pc' = l /\ UNCHANGED <<run, outcome>>

\* An exception leaves the agent: what is in memory is gone.
Raise == pc' = "idle" /\ outcome' = "raised" /\ UNCHANGED <<files, state, run>>

-----------------------------------------------------------------------------
(* The input as a whole, before anything is written *)

\* validate_fill_row, of the values the model tells apart.
ValidRow(k) == Fill(k).quantity > 0 /\ Fill(k).price > 0 /\ Fill(k).fees >= 0

\* validate_fill_batch looks at every row, the processed ones included.
ValidBatch == \A k \in 1..offered : ValidRow(k)

-----------------------------------------------------------------------------
(* The recovery guard *)

\* _event_row_mentions_fill: the entity, or a value of the metadata.
Mentions(e, k) == e.fill = k


LedgerMatches(row, k) ==
    \/ row.fill = k
    \/ /\ row.ticker = Fill(k).ticker
       /\ row.type = IF Fill(k).action = "buy" THEN "position_open"
                                               ELSE "position_close"
       /\ row.amount = IF Fill(k).action = "buy" THEN -Gross(k) ELSE NetCash(k)
       /\ row.fees = Fill(k).fees

PortfolioMatches(p, k) ==
    /\ p.ticker = Fill(k).ticker /\ p.quantity = Fill(k).quantity
    /\ IF Fill(k).action = "buy" THEN p.opened = k ELSE p.closed = k

InterruptedFillEvidence(k) ==
    \/ \E e \in files.events : Mentions(e, k)
    \/ \E n \in DOMAIN files.ledger : LedgerMatches(files.ledger[n], k)
    \/ \E n \in DOMAIN files.portfolio : PortfolioMatches(files.portfolio[n], k)
    \/ k \in files.trades

\* No unmarked fill of the input shows evidence of having been applied.
Clean == \A k \in Unmarked : ~InterruptedFillEvidence(k)

-----------------------------------------------------------------------------
(* Positions *)

Active(ps, t) == {n \in DOMAIN ps : ps[n].ticker = t /\ ps[n].status = "open"}

\* The closing slice takes the remainder, every other one a floored share.
AllocateEntryFee(remaining, quantity, original) ==
    IF quantity = original THEN remaining ELSE (remaining * quantity) \div original

\* The exceptions open_long_position and close_long_position raise.
Rejected(k) ==
    IF Fill(k).action = "buy"
      THEN files.cash < Gross(k) + Fill(k).fees \/ Active(state, Fill(k).ticker) # {}
      ELSE LET held == Active(state, Fill(k).ticker) IN
           \/ Cardinality(held) # 1
           \/ \E n \in held : Fill(k).quantity > state[n].quantity

Opened(k) ==
    Append(state, [ticker |-> Fill(k).ticker, status |-> "open",
                   quantity |-> Fill(k).quantity, price |-> Fill(k).price,
                   feesLeft |-> Fill(k).fees, realised |-> 0,
                   opened |-> k, closed |-> 0, fills |-> {k}])

\* The row that is sold from; a full close keeps its quantity.
HeldRow(k) == CHOOSE n \in Active(state, Fill(k).ticker) : TRUE

Closes(k) == Fill(k).quantity = state[HeldRow(k)].quantity

\* Mutant: a partial close leaves the entry fee it allocated on the position.
SoldKeepingFees(k) ==
    LET p   == state[HeldRow(k)]
        fee == AllocateEntryFee(p.feesLeft, Fill(k).quantity, p.quantity)
        gain == NetCash(k) - Fill(k).quantity * p.price - fee
    IN  [state EXCEPT ![HeldRow(k)] =
           [p EXCEPT !.status   = IF Closes(k) THEN "closed" ELSE @,
                     !.quantity = IF Closes(k) THEN @ ELSE @ - Fill(k).quantity,
                     !.feesLeft = IF Closes(k) THEN 0 ELSE @,
                     !.realised = @ + gain,
                     !.closed   = IF Closes(k) THEN k ELSE @,
                     !.fills    = @ \cup {k}]]

Sold(k) ==
    LET p   == state[HeldRow(k)]
        fee == AllocateEntryFee(p.feesLeft, Fill(k).quantity, p.quantity)
        gain == NetCash(k) - Fill(k).quantity * p.price - fee
    IN  [state EXCEPT ![HeldRow(k)] =
           [p EXCEPT !.status   = IF Closes(k) THEN "closed" ELSE @,
                     !.quantity = IF Closes(k) THEN @ ELSE @ - Fill(k).quantity,
                     !.feesLeft = IF Closes(k) THEN 0 ELSE @ - fee,
                     !.realised = @ + gain,
                     !.closed   = IF Closes(k) THEN k ELSE @,
                     !.fills    = @ \cup {k}]]

\* How a fill is booked: ledger event type and event log entry.
Booking(k) == IF Fill(k).action = "buy"
                THEN [type |-> "position_open", event |-> "position_opened"]
              ELSE IF Closes(k)
                THEN [type |-> "position_close", event |-> "position_closed"]
                ELSE [type |-> "position_partial_close", event |-> "position_reduced"]

NoBooking == [type |-> "", event |-> "", position |-> 0]

-----------------------------------------------------------------------------
(* A run of the agent *)

Init ==
    /\ input \in [1..MaxFills -> FillKinds]
    /\ offered = 0
    /\ files = [portfolio |-> <<>>, cash |-> StartingCash, ledger |-> <<>>,
                trades |-> {}, processed |-> {}, events |-> {}]
    /\ backup = files
    /\ pc = "idle" /\ cur = [fill |-> 0, booking |-> NoBooking]
    /\ state = <<>> /\ run = 0 /\ outcome = "done"

\* The operator places the next row in the input between runs.
OfferFill ==
    /\ pc = "idle" /\ offered < MaxFills
    /\ offered' = offered + 1
    /\ UNCHANGED <<input, files, backup, pc, cur, state, run, outcome>>

\* Read the files; refuse the whole input if a row is malformed or an unmarked
\* fill has evidence.
Start ==
    /\ pc = "idle" /\ offered > 0 /\ run < MaxRuns
    /\ run' = run + 1
    /\ state' = files.portfolio
    /\ IF ValidBatch /\ Clean THEN pc' = "next" /\ UNCHANGED outcome
       ELSE outcome' = "raised" /\ UNCHANGED pc
    /\ UNCHANGED <<input, offered, files, backup, cur>>

\* Mutant: the agent records the accepted identity after the money, not before.
SkipTradeFill ==
    /\ pc = "next" /\ Unmarked # {}
    /\ cur' = [fill |-> Min(Unmarked), booking |-> NoBooking]
    /\ Goto("apply")
    /\ UNCHANGED <<input, offered, files, backup, state>>

\* A short fill is refused here, with the fills before it booked already.
AppendTradeFill ==
    /\ pc = "next" /\ Unmarked # {}
    /\ LET k == Min(Unmarked) IN
       IF Fill(k).side # "long" \/ k \in files.trades
         THEN Raise /\ UNCHANGED cur
         ELSE /\ cur' = [fill |-> k, booking |-> NoBooking]
              /\ files' = [files EXCEPT !.trades = @ \cup {k}]
              /\ Goto("apply") /\ UNCHANGED state
    /\ UNCHANGED <<input, offered, backup>>

\* Checks, the in-memory position and write_cash_balance.
ApplyFill ==
    /\ pc = "apply"
    /\ IF Rejected(cur.fill)
         THEN Raise /\ UNCHANGED cur
         ELSE LET k == cur.fill
                  after == IF Fill(k).action = "buy" THEN Opened(k) ELSE Sold(k)
                  position == IF Fill(k).action = "buy" THEN k
                                                        ELSE state[HeldRow(k)].opened
              IN /\ state' = after
                 /\ files' = [files EXCEPT !.cash = @ + NetCash(k)]
                 /\ cur' = [fill |-> k,
                            booking |-> [type |-> Booking(k).type,
                                         event |-> Booking(k).event,
                                         position |-> position]]
                 /\ Goto("ledger")
    /\ UNCHANGED <<input, offered, backup>>

AppendCashLedgerRow ==
    /\ pc = "ledger"
    /\ files' = [files EXCEPT !.ledger = Append(@,
                   [fill |-> cur.fill, position |-> cur.booking.position,
                    ticker |-> Fill(cur.fill).ticker, type |-> cur.booking.type,
                    amount |-> IF Fill(cur.fill).action = "buy"
                                 THEN -Gross(cur.fill) ELSE NetCash(cur.fill),
                    fees |-> Fill(cur.fill).fees, after |-> files.cash])]
    /\ Goto("event")
    /\ UNCHANGED <<input, offered, backup, cur, state>>

LogEvent(here, type, next) ==
    /\ pc = here
    /\ files' = [files EXCEPT !.events =
                   @ \cup {[fill |-> cur.fill, type |-> type, run |-> run]}]
    /\ Goto(next)
    /\ UNCHANGED <<input, offered, backup, cur, state>>

LogPositionEvent == LogEvent("event", cur.booking.event, "cash_event")

LogCashEvent == LogEvent("cash_event", "cash_adjusted", "mark")

AppendProcessedFill ==
    /\ pc = "mark"
    /\ files' = [files EXCEPT !.processed = @ \cup {[fill |-> cur.fill, run |-> run]}]
    /\ Goto("fill_event")
    /\ UNCHANGED <<input, offered, backup, cur, state>>

LogFillEvent == LogEvent("fill_event", "fill_processed", "next")

\* After the last fill: portfolio_state.csv.
WriteState ==
    /\ pc = "next" /\ Unmarked = {}
    /\ files' = [files EXCEPT !.portfolio = state]
    /\ backup' = files'
    /\ pc' = "idle" /\ outcome' = "done"
    /\ UNCHANGED <<input, offered, cur, state, run>>

Kill ==
    /\ pc # "idle"
    /\ pc' = "idle" /\ outcome' = "killed"
    /\ UNCHANGED <<input, offered, files, backup, cur, state, run>>

\* The runbook's repair of an interrupted run.
RestoreBackup ==
    /\ pc = "idle" /\ outcome # "done"
    /\ files' = backup /\ outcome' = "done"
    /\ UNCHANGED <<input, offered, backup, pc, cur, state, run>>

Next ==
    \/ OfferFill \/ Start \/ AppendTradeFill \/ ApplyFill \/ AppendCashLedgerRow
    \/ LogPositionEvent \/ LogCashEvent \/ AppendProcessedFill \/ LogFillEvent
    \/ WriteState \/ Kill \/ RestoreBackup

Spec == Init /\ [][Next]_vars

-----------------------------------------------------------------------------
(* Properties *)

\* Cash is the starting balance plus each processed fill once, and the ledger
\* explains it, whenever no run is in progress and the recovery guard would let
\* one start: kills, refused fills, restores and replays apply no fill twice and
\* lose no cash movement.  It is not negative unless a sale was, because
\* open_long_position checks the balance it is about to debit; nothing checks
\* that the proceeds of a sale cover its fees.
CashMatchesMarks ==
    /\ (\A k \in 1..offered : Fill(k).action = "sell" => NetCash(k) >= 0)
         => files.cash >= 0
    /\ pc = "idle" /\ Clean =>
         /\ files.cash = StartingCash
              + MapThenSumSet(NetCash, Processed)
         /\ {files.ledger[n].fill : n \in DOMAIN files.ledger} = Processed
         /\ Len(files.ledger) = Cardinality(Processed)
         /\ Processed # {} => files.ledger[Len(files.ledger)].after = files.cash

\* Money that the fills booked in a position moved, read from the cash ledger.
Flow(p) ==
    LET Paid(n) == files.ledger[n].amount
                     - (IF files.ledger[n].type = "position_open"
                          THEN files.ledger[n].fees ELSE 0)
    IN  MapThenSumSet(Paid, {n \in DOMAIN files.ledger : files.ledger[n].fill \in p.fills})

\* What a row of portfolio_state.csv says went through the position.
Booked(p) == p.realised - p.feesLeft
               - (IF p.status = "open" THEN p.quantity * p.price ELSE 0)

\* Every row of portfolio_state.csv balances with the cash ledger: realised
\* profit less the cost and entry fees still carried is the cash its fills moved,
\* over any sequence of partial closes and floored fee shares.
BooksBalance ==
    \A n \in DOMAIN files.portfolio : Booked(files.portfolio[n]) = Flow(files.portfolio[n])
=============================================================================
