----------------------------- MODULE PilotLedger -----------------------------
(***************************************************************************)
(* The economic ledger of the Demo pilot as a value and the transactions on  *)
(* it: claims, marks, holds, reconciliations and imports of third-party      *)
(* account activity.  Every operator from a ledger l to a ledger is one      *)
(* committed SQLite transaction; where the code raises and rolls back, the   *)
(* operator returns l.  Source: agents/fill_agent/pilot_ledger.py and        *)
(* external_lifecycle.py.                                                    *)
(*                                                                           *)
(* An account capture is [cash, held, pnl]: the principal of every position  *)
(* (0 when not held) and the profit, after opening costs, of the positions   *)
(* that did not exist at inception.  All orders have one size.               *)
(***************************************************************************)
EXTENDS Integers, FiniteSets, FiniteSetsExt

CONSTANTS Commands,   \* one order each, on an instrument of its own
          Externals,  \* positions a third party may open
          Baseline,   \* positions held at inception
          Amount, ExpectedCosts,
          OrderCap, CapitalCap, PositionCap, LossStop,  \* demo-pilot-v1
          MaxSubmissions, MaxPerDay, FiniteLossStop,    \* the finite scope
          CashShare,  \* one CashShare-th of the equity stays in cash
          Inception,  \* the account at inception
          NoClaim

ASSUME FiniteScopeIsNarrower == FiniteLossStop <= LossStop

Positions == Commands \cup Externals \cup Baseline

Finite == "finite"

HeldIn(a) == {p \in Positions : a.held[p] # 0}
Equity(a) == a.cash + MapThenSumSet(LAMBDA p : a.held[p], Positions) + a.pnl
CashReserveMet(cash, equity) == cash * CashShare >= equity

EmptyLedger ==
  [claim |-> [c \in Commands |-> NoClaim], settled |-> {}, journaled |-> {},
   opened |-> {}, imported |-> {}, capital |-> [p \in Positions |-> 0],
   importedOn |-> [p \in Positions |-> 0], retired |-> {},
   hold |-> FALSE, loss |-> FALSE, check |-> Inception,
   migrated |-> FALSE, imports |-> 0, importsJournaled |-> 0, importLow |-> 0,
   base |-> 0, explained |-> 0, receipt |-> [c \in Commands |-> NoClaim]]

-----------------------------------------------------------------------------
(* What replaying the events derives: _state.                               *)

Claimed(l) == {c \in Commands : l.claim[c] # NoClaim}
FiniteClaims(l) == {c \in Claimed(l) : l.claim[c].kind = Finite}
Pending(l) == Claimed(l) \ l.settled
Attributed(l) == l.opened \cup l.imported
Current(l) == (Baseline \ l.retired) \cup Attributed(l)

Capital(l) == MapThenSumSet(LAMBDA p : l.capital[p], Attributed(l))
              + Cardinality(Pending(l)) * (Amount + ExpectedCosts)
PositionCount(l) == Cardinality(Attributed(l)) + Cardinality(Pending(l))

OverCaps(l) == Capital(l) > CapitalCap \/ PositionCount(l) > PositionCap
Held(l) == l.hold \/ (l.imports > 0 /\ OverCaps(l))
JournalPending(l) == ~(FiniteClaims(l) \subseteq l.journaled)
                     \/ l.importsJournaled < l.imports
Unresolved(l) == Pending(l) # {} \/ Held(l) \/ JournalPending(l)

LossLimit(l) == IF FiniteClaims(l) = {} THEN LossStop ELSE FiniteLossStop

\* The latch, and every import measured against the limit of today's claims.
LossStopped(l) == l.loss \/ l.importLow <= -LossLimit(l)

OpeningsOn(l, day) ==
  Cardinality({c \in Claimed(l) : l.claim[c].day = day})
  + Cardinality({p \in l.imported : l.importedOn[p] = day})

-----------------------------------------------------------------------------
(* Marks.                                                                   *)

\* Mutant: cash movements are not compared once an import exists.
MarkMatchesHoldings(l, a) ==
  /\ HeldIn(a) = Current(l)
  /\ \A p \in Current(l) : a.held[p] = l.check.held[p]

\* _mark accepts an account.  Cash is compared only after the first import;
\* before it, cash is explained only across one order at a time.
MarkMatches(l, a) ==
  /\ l.imports > 0 => a.cash = l.check.cash
  /\ HeldIn(a) = Current(l)
  /\ \A p \in Current(l) : a.held[p] = l.check.held[p]

\* Mutant: the loss stop follows the last mark instead of latching.
MarkedUnlatched(l, a) == [l EXCEPT !.check = a, !.loss = a.pnl <= -LossLimit(l)]

Marked(l, a) == [l EXCEPT !.check = a, !.loss = @ \/ a.pnl <= -LossLimit(l)]

MarkOrHold(l, a) ==
  IF MarkMatches(l, a) THEN Marked(l, a) ELSE [l EXCEPT !.hold = TRUE]

\* refresh_marks: a mark that fails is committed as a hold.
RefreshMarks(l, a) == IF Pending(l) # {} THEN l ELSE MarkOrHold(l, a)

-----------------------------------------------------------------------------
(* Claims: reserve_and_claim and reserve_under_mandate.                     *)

\* The caps checked after the mark; a failure rolls the mark back as well.
WithinCaps(l, a) ==
  /\ Amount + ExpectedCosts <= OrderCap
  /\ Capital(l) + Amount + ExpectedCosts <= CapitalCap
  /\ PositionCount(l) < PositionCap
  /\ CashReserveMet(a.cash - Amount - ExpectedCosts, Equity(a))

\* One transaction: a failed mark commits a hold, a loss commits the latch.
Claim(l, c, claim, free, lost) ==
  LET m == MarkOrHold(l, claim.pre) IN
  CASE ~(free /\ l.claim[c] = NoClaim /\ ~Unresolved(l)) -> l
    [] ~MarkMatches(l, claim.pre)        -> m
    [] lost \/ LossStopped(m)            -> [m EXCEPT !.loss = TRUE]
    [] ~WithinCaps(m, claim.pre)         -> l
    [] OTHER                             -> [m EXCEPT !.claim[c] = claim]

\* One order a day, by hand or under the standing mandate.
ReserveAndClaim(l, c, kind, a, day) ==
  Claim(l, c, [kind |-> kind, day |-> day, pre |-> a], OpeningsOn(l, day) < 1, FALSE)

\* The finite scope bounds the attempts in number, in money and a day, whatever
\* became of them, and the loss.
AttemptsLeft(l, day) ==
  LET attempts == Cardinality(FiniteClaims(l)) IN
  /\ attempts < MaxSubmissions /\ OpeningsOn(l, day) < MaxPerDay
  /\ (attempts + 1) * (Amount + ExpectedCosts) <= CapitalCap

ReserveUnderMandate(l, c, a, day) ==
  Claim(l, c, [kind |-> Finite, day |-> day, pre |-> a],
        l.migrated /\ AttemptsLeft(l, day),
        a.pnl <= -FiniteLossStop)

-----------------------------------------------------------------------------
(* Reconciliation of a claim against a terminal order and two captures.     *)

\* reconcile_open accepts: the order's one position is the only change of the
\* holdings and its principal and costs are the whole change of the cash.
OpenMatches(l, c, order, post) ==
  LET pre == l.claim[c].pre IN
  /\ order.state \in {"filled", "partial"}
  /\ IF order.state = "filled" THEN order.principal = Amount
                               ELSE order.principal \in 1 .. Amount - 1
  /\ HeldIn(post) = HeldIn(pre) \cup {c}
  /\ c \notin HeldIn(pre)
  /\ \A p \in HeldIn(pre) : post.held[p] = pre.held[p]
  /\ post.held[c] = order.principal
  /\ pre.cash - order.principal - order.costs = post.cash

Breached(l, order, post) ==
  \/ order.principal + order.costs > OrderCap
  \/ OverCaps(l)
  \/ ~CashReserveMet(post.cash, Equity(post))

\* What reconciliation_receipt returns beside the claim.
Receipt(l, c, order, post) ==
  [l EXCEPT !.settled = @ \cup {c}, !.receipt[c] = [order |-> order, post |-> post]]

\* reconcile_open commits the position first and the breaches as holds with it.
ReconcileOpen(l, c, order, post) ==
  LET r == [Receipt(l, c, order, post) EXCEPT
               !.opened = @ \cup {c}, !.check = post,
               !.capital[c] = order.principal + order.costs]
  IN  [Marked(r, post) EXCEPT !.hold = @ \/ Breached(r, order, post)]

\* Mutant: an account without the position is taken for an order without a fill.
NoFillMatchesAccount(l, c, order, post) ==
  /\ l.claim[c].kind = Finite
  /\ post.held = l.claim[c].pre.held
  /\ post.cash = l.claim[c].pre.cash

\* reconcile_no_fill: finite claims only, an order that ended without a fill.
NoFillMatches(l, c, order, post) ==
  /\ l.claim[c].kind = Finite
  /\ order.state \in {"rejected", "cancelled"}
  /\ post.held = l.claim[c].pre.held
  /\ post.cash = l.claim[c].pre.cash

ReconcileNoFill(l, c, order, post) ==
  Marked([Receipt(l, c, order, post) EXCEPT !.check = post], post)

JournalComplete(l, c) == [l EXCEPT !.journaled = @ \cup {c}]

\* enable_finite_mandates: again with the same reference it changes nothing.
EnableFinite(l) ==
  IF Unresolved(l) \/ LossStopped(l) THEN l ELSE [l EXCEPT !.migrated = TRUE]

-----------------------------------------------------------------------------
(* Imports of third-party activity.                                         *)

\* A reviewed plan: the capture it was built against, the capture it ends at,
\* and the evidenced rows between the two.
PlanFor(l, a, days) ==
  [prior |-> l.check, post |-> a,
   closures |-> HeldIn(l.check) \ HeldIn(a),
   openings |-> HeldIn(a) \ HeldIn(l.check), days |-> days]

\* validate_record: only untouched baseline positions close, openings are new,
\* everything else is held unchanged.
RecordValid(l, plan) ==
  /\ plan.prior = l.check
  /\ HeldIn(plan.prior) = Current(l)
  /\ plan.closures \subseteq Baseline \ l.retired
  /\ plan.openings \cap (Baseline \cup Attributed(l)) = {}
  /\ \A p \in HeldIn(plan.prior) \cap HeldIn(plan.post) :
        plan.prior.held[p] = plan.post.held[p]
  /\ plan.closures \cup plan.openings # {} \/ plan.prior.cash # plan.post.cash

\* What the pilot's own orders have cost.
Spent(l) == MapThenSumSet(LAMBDA p : l.capital[p], l.opened)

\* The record replayed: what it retires, opens, explains and breaches.  base
\* and explained sum up the import events: the cash before any order of the
\* pilot that the first import implies, and the cash all imports account for.
Imported(l, plan) ==
  LET r == [l EXCEPT
              !.check = plan.post,
              !.imports = @ + 1, !.retired = @ \cup plan.closures,
              !.imported = @ \cup plan.openings,
              !.capital = [p \in Positions |->
                 IF p \in plan.openings THEN plan.post.held[p] ELSE @[p]],
              !.importedOn = [p \in Positions |->
                 IF p \in plan.openings THEN plan.days[p] ELSE @[p]],
              !.importLow = Min({@, plan.post.pnl}),
              !.base = IF l.imports > 0 THEN @
                       ELSE plan.prior.cash + Spent(l),
              !.explained = @ + plan.post.cash - plan.prior.cash]
  IN  [r EXCEPT !.hold = @ \/ OverCaps(r), !.loss = @ \/ plan.post.pnl <= -LossStop]

\* _apply_qualified: one transaction, refused while anything is unresolved.
ApplyImport(l, plan) ==
  IF ~Unresolved(l) /\ RecordValid(l, plan) THEN Imported(l, plan) ELSE l

ImportJournaled(l) == [l EXCEPT !.importsJournaled = l.imports]
=============================================================================
