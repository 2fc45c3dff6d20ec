----------------------------- MODULE BrokerBook -----------------------------
(***************************************************************************)
(* What the Fill-owned broker economic runtime promises: one book that is   *)
(* opened once from a reconciled account and then only grows, each terminal *)
(* command posted in a single step, each execution debited exactly once.    *)
(* No files, journal, locks or crashes: those belong to BrokerRuntime, which *)
(* implements this specification.                                           *)
(***************************************************************************)
EXTENDS Integers, FiniteSetsExt

CONSTANTS Commands,    \* broker commands
          Positions,   \* broker position identifiers
          OrderAmount, \* the exact order amount of a command
          Fillings,    \* command -> set of sets of executions it may fill with
          NoBook       \* the runtime does not exist yet

VARIABLE book

\* An execution: its identity, position, principal and fees plus taxes.
Executions == UNION UNION {Fillings[c] : c \in Commands}

Principal(X) == MapThenSumSet(LAMBDA e : e.principal, X)
Debit(X) == MapThenSumSet(LAMBDA e : e.principal + e.cost, X)

\* The holdings after the executions of X: principal per position identifier.
AddHoldings(hold, X) ==
  [q \in Positions |-> hold[q] + Principal({e \in X : e.pos = q})]

\* The rows a terminal command adds to a book.  The six fields are the six
\* canonical files; coverage is a column of the cash row.
Posted(b, c, X, coverage) ==
  [hold      |-> AddHoldings(b.hold, X),
   cash      |-> [balance |-> b.cash.balance - Debit(X), coverage |-> coverage],
   fills     |-> b.fills \cup X,
   ledger    |-> b.ledger \cup {[id |-> e.id, debit |-> e.principal + e.cost] : e \in X},
   processed |-> b.processed \cup {[exec |-> e, cmd |-> c] : e \in X},
   evidence  |-> b.evidence + 1]

\* The first book is whatever account the initializer was given.
Open ==
  /\ book = NoBook /\ book' # NoBook
  /\ book' = [hold |-> book'.hold, cash |-> book'.cash,
              fills |-> {}, ledger |-> {}, processed |-> {}, evidence |-> 1]

Post(c) ==
  /\ book # NoBook
  /\ \E X \in UNION {SUBSET F : F \in Fillings[c]} :
       /\ X # {}
       /\ Principal(X) = OrderAmount[c]
       /\ \A r \in book.processed : r.cmd # c /\ r.exec \notin X
       /\ Debit(X) <= book.cash.balance
       /\ book'.cash.coverage > book.cash.coverage
       /\ book' = Posted(book, c, X, book'.cash.coverage)

Init == book = NoBook
Next == Open \/ \E c \in Commands : Post(c)
Spec == Init /\ [][Next]_book
=============================================================================
