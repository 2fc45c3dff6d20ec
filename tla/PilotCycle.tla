------------------------------ MODULE PilotCycle ------------------------------
(***************************************************************************)
(* The Demo pilot: the programs that place its orders and keep its books,    *)
(* against a broker account that a third party uses as well.                 *)
(*                                                                           *)
(* All programs take operator.lock without waiting and the system releases   *)
(* it when a program dies, so one program runs at a time; `w` is its control *)
(* state.  A program may die between any two durable steps, a request may    *)
(* arrive late or never, an answer may be lost, and the kill switch, the     *)
(* clock, the prices and the account move on while a program runs.           *)
(* Sources: scripts/run_{demo,autonomous_demo,finite_demo}_pilot.py,         *)
(* scripts/setup_finite_demo_pilot.py, execution/{pilot_operator,            *)
(* autonomous_pilot,finite_demo_operator,finite_demo_mandate}.py,            *)
(* agents/fill_agent/composite_import.py.                                    *)
(***************************************************************************)
EXTENDS PilotLedger

CONSTANTS Costs,      \* the opening costs the broker may charge
          ExternalPrincipal, Transfer,
          Scenarios,  \* bounds: [days, third, crashes, profits, kinds], where
                      \* profits are the values of acct.pnl; one of them holds
          NoCommand, NoPlan

VARIABLES led,       \* the ledger
          journal,   \* command -> the phases journaled
          imported,  \* imports with a row in the journal
          state,     \* command -> its state in the execution store
          started,   \* commands with a durable send_started attempt
          mandate,   \* the finite mandate: no file, a file, a file and catalog
          plan,      \* the reviewed import plan
          w,         \* the running program
          acct,      \* the broker's account
          order,     \* command -> the broker's order
          wire,      \* requests on their way to the broker
          sentOn,    \* command -> day of its request, 0 before
          openedOn,  \* external position -> day it was opened
          switch,    \* the kill switch is engaged
          day, third, crashes, scenario,
          lossSeen   \* the ledger has marked a loss at its limit

Store == INSTANCE ExecutionDomain
Journal == INSTANCE ExecutionJournal

ledgerVars == <<led, plan, lossSeen>>
storeVars == <<state, started>>
bookVars == <<journal, imported, mandate>>
brokerVars == <<acct, order, wire, sentOn, openedOn>>
worldVars == <<switch, day, third, crashes, scenario>>
vars == <<ledgerVars, storeVars, bookVars, w, brokerVars, worldVars>>

Kinds == {"manual", "standing", "finite"}
NoOrder == [state |-> "none", principal |-> 0, costs |-> 0]
Idle == [kind |-> "none", pc |-> "idle", c |-> NoCommand, a |-> Inception, day |-> 0]

Terminal == {"filled", "partial", "rejected", "cancelled"}

Init ==
  /\ led = EmptyLedger /\ plan = NoPlan /\ lossSeen = FALSE
  /\ journal = [c \in Commands |-> {}] /\ imported = 0 /\ mandate = "none"
  /\ state = [c \in Commands |-> "proposed"]
  /\ started = {}
  /\ w = Idle
  /\ acct = Inception /\ order = [c \in Commands |-> NoOrder]
  /\ wire = {} /\ sentOn = [c \in Commands |-> 0]
  /\ openedOn = [p \in Positions |-> 0]
  /\ switch = TRUE /\ day = 1 /\ third = 0 /\ crashes = 0
  /\ scenario \in Scenarios

-----------------------------------------------------------------------------
(* The broker, the third party and the world.                               *)

Broker == UNCHANGED <<ledgerVars, storeVars, bookVars, w>>

\* The control points at which a program is about to look at the world.  Moves
\* of the world between two of them commute with the steps taken there, so
\* they are taken at the next one.
Looking == w.pc \in {"idle", "submit", "reserve", "send", "filled?", "capture",
                     "import", "row"}
LookingAtAccount == w.pc \in {"idle", "submit", "capture"}

Receive(c) ==
  /\ c \in wire /\ wire' = wire \ {c}
  /\ order' = [order EXCEPT ![c].state = "working"]
  /\ Broker /\ UNCHANGED <<acct, sentOn, openedOn, worldVars>>

LoseRequest(c) ==
  /\ c \in wire /\ wire' = wire \ {c}
  /\ Broker /\ UNCHANGED <<acct, order, sentOn, openedOn, worldVars>>

Complete(c) ==
  /\ order[c].state = "working"
  /\ \E s \in Terminal, cost \in Costs :
       \E n \in CASE s = "filled"  -> {Amount}
                  [] s = "partial" -> 1 .. Amount - 1
                  [] OTHER         -> {0} :
         /\ n = 0 => cost = 0
         /\ order' = [order EXCEPT ![c] = [state |-> s, principal |-> n, costs |-> cost]]
         /\ acct' = [acct EXCEPT !.cash = @ - n - cost, !.held[c] = n]
  /\ Broker /\ UNCHANGED <<wire, sentOn, openedOn, worldVars>>

\* A third party opens or closes a position or moves cash.
ThirdParty ==
  /\ LookingAtAccount
  /\ third < scenario.third /\ third' = third + 1
  /\ \/ \E x \in Externals :
          /\ acct.held[x] = 0 /\ openedOn[x] = 0
          /\ acct' = [acct EXCEPT !.cash = @ - ExternalPrincipal, !.held[x] = ExternalPrincipal]
          /\ openedOn' = [openedOn EXCEPT ![x] = day]
     \/ \E p \in HeldIn(acct) :
          /\ acct' = [acct EXCEPT !.cash = @ + acct.held[p], !.held[p] = 0]
          /\ UNCHANGED openedOn
     \/ acct' = [acct EXCEPT !.cash = @ - Transfer] /\ UNCHANGED openedOn
  /\ Broker /\ UNCHANGED <<order, wire, sentOn, switch, day, crashes, scenario>>

PricesMove ==
  /\ LookingAtAccount /\ HeldIn(acct) \ Baseline # {}
  /\ \E v \in scenario.profits \ {acct.pnl} : acct' = [acct EXCEPT !.pnl = v]
  /\ Broker /\ UNCHANGED <<order, wire, sentOn, openedOn, worldVars>>

Midnight ==
  /\ Looking /\ day < scenario.days /\ day' = day + 1
  /\ Broker /\ UNCHANGED <<brokerVars, switch, third, crashes, scenario>>

TurnSwitch ==
  /\ Looking /\ switch' = ~switch
  /\ Broker /\ UNCHANGED <<brokerVars, day, third, crashes, scenario>>

\* The program dies; its lock goes with it and only durable state remains.
Crash ==
  /\ w # Idle /\ crashes < scenario.crashes
  /\ w' = Idle /\ crashes' = crashes + 1
  /\ UNCHANGED <<ledgerVars, storeVars, bookVars, brokerVars, switch, day, third, scenario>>

-----------------------------------------------------------------------------
(* A program's steps.                                                       *)

At(l) == w.pc = l
Goto(l) == w' = [w EXCEPT !.pc = l]
Stop == w' = Idle
GotoOrStop(ok, l) == IF ok THEN Goto(l) ELSE Stop

\* A new ledger.  A mark that is accepted replaces the checkpoint; an import
\* plan names the checkpoint it was built on by its hash, so the plan is void.
Write(l, marks) ==
  /\ led' = l
  /\ plan' = IF marks THEN NoPlan ELSE plan
  /\ lossSeen' = (lossSeen \/ (marks /\ l.check.pnl <= -LossLimit(l)))

Environment == UNCHANGED <<brokerVars, worldVars>>

\* An account capture is accepted only without orders at work.
Capturable == \A c \in Commands : order[c].state # "working"

\* What keeps a program from finishing anything else first: pending_claim.
Incomplete ==
  {c \in Claimed(led) : c \notin led.settled
     \/ (led.claim[c].kind = Finite /\ c \notin led.journaled)}

\* A program that has captured the account and goes on to a new order.
Begin(kind, c) ==
  /\ w = Idle /\ state[c] = "proposed" /\ Capturable
  /\ w' = [kind |-> kind, pc |-> "prepare", c |-> c, a |-> acct, day |-> day]
  /\ Environment /\ UNCHANGED <<ledgerVars, storeVars, bookVars>>

StartManual(c) == Begin("manual", c)

\* The standing mandate is for one order on a ledger without any.
StandingValid == ~Unresolved(led) /\ ~LossStopped(led) /\ ~switch
StartStanding(c) ==
  /\ Claimed(led) = {} /\ Attributed(led) = {} /\ StandingValid
  /\ Begin("standing", c)

\* The mandate file and its catalog entry, a ledger with nothing unresolved.
FiniteValid == ~Unresolved(led) /\ ~LossStopped(led) /\ ~switch
StartFinite(c) ==
  /\ mandate = "catalog" /\ Incomplete = {} /\ FiniteValid
  /\ Begin("finite", c)

\* The same programs when a claim is incomplete: lookups, never a new order.
Resume(kind, c, pc) ==
  /\ w = Idle /\ c \in Claimed(led) /\ led.claim[c].kind = kind
  /\ w' = [Idle EXCEPT !.kind = kind, !.c = c, !.pc = pc]
  /\ Environment /\ UNCHANGED <<ledgerVars, storeVars, bookVars>>

RecoverManual(c) == Resume("manual", c, "filled?")

\* existing_state: the ledger's single claim, while its command is not reconciled.
RecoverStanding(c) ==
  /\ Claimed(led) = {c} /\ state[c] # "reconciled"
  /\ Resume("standing", c, "filled?")

RecoverFinite(c) ==
  /\ Incomplete = {c}
  /\ Resume("finite", c, IF c \in led.settled THEN "finish" ELSE "capture")

Start(kind, c) ==
  \/ kind = "manual" /\ StartManual(c)
  \/ kind = "standing" /\ StartStanding(c)
  \/ kind = "finite" /\ StartFinite(c)
Recover(kind, c) ==
  \/ kind = "manual" /\ RecoverManual(c)
  \/ kind = "standing" /\ RecoverStanding(c)
  \/ kind = "finite" /\ RecoverFinite(c)

\* The admission of an order, on the ledger as just marked.
EvaluatePilot(l, a, d) ==
  /\ ~LossStopped(l) /\ ~Unresolved(l) /\ WithinCaps(l, a)
  /\ OpeningsOn(l, d) < 1

Admission(l, a, d) ==
  /\ ~LossStopped(l) /\ ~Unresolved(l) /\ WithinCaps(l, a)
  /\ AttemptsLeft(l, d) /\ a.pnl > -FiniteLossStop

\* Marks the account and, where the marked ledger admits the order, saves the
\* command; a mark or a hold stays whatever the admission says.
MarkThen(a, admits(_), commandState, nextW) ==
  LET l == RefreshMarks(led, a)
      ok == Pending(led) = {} /\ MarkMatches(led, a)
  IN /\ Write(l, ok)
     /\ IF ok /\ admits(l)
        THEN state' = [state EXCEPT ![w.c] = commandState] /\ w' = nextW
        ELSE Stop /\ UNCHANGED state
     /\ Environment /\ UNCHANGED <<started, bookVars>>

\* prepare of the three operators.
PrepareManual ==
  /\ At("prepare") /\ w.kind = "manual"
  /\ MarkThen(w.a, LAMBDA l : EvaluatePilot(l, w.a, w.day), "awaiting_approval",
              [w EXCEPT !.pc = "submit"])
PrepareStanding ==
  /\ At("prepare") /\ w.kind = "standing"
  /\ MarkThen(w.a, LAMBDA l : EvaluatePilot(l, w.a, w.day), "awaiting_approval",
              [w EXCEPT !.pc = "submit"])
PrepareFinite ==
  /\ At("prepare") /\ w.kind = "finite"
  /\ MarkThen(w.a, LAMBDA l : Admission(l, w.a, w.day), "awaiting_approval",
              [w EXCEPT !.pc = "intent"])

\* The record of a reconciliation is checked once more, from the claim and the
\* receipt the ledger keeps: the order that ended, its position and its money
\* are the whole difference of the two captures.
CompletionHolds(c) ==
  LET pre == led.claim[c].pre
      post == led.receipt[c].post
      done == led.receipt[c].order
      added == IF done.principal = 0 THEN {} ELSE {c}
  IN /\ state[c] = "reconciled" /\ c \in led.settled
     /\ done.state \in IF done.principal = 0 THEN {"rejected", "cancelled"}
                       ELSE {IF done.principal < Amount THEN "partial" ELSE "filled"}
     /\ done.principal <= Amount
     /\ pre.cash - done.principal - done.costs = post.cash
     /\ added \cap HeldIn(pre) = {} /\ HeldIn(post) = HeldIn(pre) \cup added
     /\ \A p \in HeldIn(pre) : post.held[p] = pre.held[p]
     /\ \A p \in added : post.held[p] = done.principal

\* A ledger that calls an import journaled finds its row.
ReceiptsHold == led.importsJournaled <= imported

\* ensure_ready, before anything is appended: every row still agrees with the
\* claim, the command and the receipt it was written from.
JournalReady ==
  /\ ReceiptsHold
  /\ \A c \in Commands : /\ "dispatch" \in journal[c] => c \in Claimed(led)
                         /\ Journal!Terminal(journal[c]) => CompletionHolds(c)

Journaled(phase, next) ==
  IF JournalReady
    THEN journal' = [journal EXCEPT ![w.c] = Journal!Append(@, phase)] /\ Goto(next)
    ELSE Stop /\ UNCHANGED journal

JournalIntent ==
  /\ At("intent") /\ Journaled("intent", "submit")
  /\ Environment /\ UNCHANGED <<ledgerVars, storeVars, imported, mandate>>

\* submit and submit_under_mandate up to the claim: marks and admission again,
\* the switch, the binding and the approval.  The day of the claim is the day of
\* this moment.  The manual program captures the account anew.
SubmitManual ==
  /\ At("submit") /\ w.kind = "manual"
  /\ MarkThen(acct, LAMBDA l : EvaluatePilot(l, acct, day) /\ ~switch, "approved",
              [w EXCEPT !.pc = "reserve", !.a = acct, !.day = day])
SubmitStanding ==
  /\ At("submit") /\ w.kind = "standing"
  /\ MarkThen(w.a, LAMBDA l : EvaluatePilot(l, w.a, day) /\ ~switch, "approved",
              [w EXCEPT !.pc = "reserve", !.day = day])
SubmitFinite ==
  /\ At("submit") /\ w.kind = "finite"
  /\ MarkThen(w.a, LAMBDA l : Admission(l, w.a, day) /\ ~switch, "approved",
              [w EXCEPT !.pc = "reserve", !.day = day])

\* The account/day claim, after a mandate and the switch are read again.
ClaimOrder ==
  /\ At("reserve")
  /\ LET l == IF w.kind = Finite THEN ReserveUnderMandate(led, w.c, w.a, w.day)
                                 ELSE ReserveAndClaim(led, w.c, w.kind, w.a, w.day)
         validated == CASE w.kind = "manual"   -> TRUE
                        [] w.kind = "standing" -> StandingValid
                        [] OTHER               -> FiniteValid
     IN IF validated
        THEN /\ Write(l, l # led /\ MarkMatches(led, w.a))
             /\ IF l.claim[w.c] = NoClaim THEN Stop
                ELSE w' = [w EXCEPT !.a = Inception,
                       !.pc = IF w.kind = Finite THEN "dispatch" ELSE "authorize"]
        ELSE Stop /\ UNCHANGED ledgerVars
  /\ Environment /\ UNCHANGED <<storeVars, bookVars>>

JournalDispatch ==
  /\ At("dispatch") /\ Journaled("dispatch", "authorize")
  /\ Environment /\ UNCHANGED <<ledgerVars, storeVars, imported, mandate>>

\* store.authorize_submission.
Authorize ==
  /\ At("authorize") /\ Goto("start")
  /\ state' = [state EXCEPT ![w.c] = "submission_pending"]
  /\ Environment /\ UNCHANGED <<ledgerVars, started, bookVars>>

\* submit_pending_command claims the one send attempt before the adapter runs.
StartSend ==
  /\ At("start") /\ Goto("send")
  /\ started' = started \cup {w.c}
  /\ Environment /\ UNCHANGED <<ledgerVars, state, bookVars>>

\* Mutant: the clock is not read again at the wire.
WireGuardAnyDay == w.kind = "manual" \/ ~switch

\* The guard at the wire: the authorization ends before the London day does,
\* and the direct adapters read the switch again.
WireGuard == day = w.day /\ (w.kind = "manual" \/ ~switch)

\* The adapter sends, or refuses because the guard or any shorter deadline
\* fails; either way the caller sees a result it records as unknown.
Send ==
  /\ At("send") /\ Goto("answer")
  /\ \/ /\ WireGuard
        /\ wire' = wire \cup {w.c} /\ sentOn' = [sentOn EXCEPT ![w.c] = day]
     \/ UNCHANGED <<wire, sentOn>>
  /\ UNCHANGED <<ledgerVars, storeVars, bookVars, acct, order,
                 openedOn, worldVars>>

\* The answer, if one comes, is stored; then the outcomes.
StoreAnswer ==
  /\ At("answer")
  /\ \/ /\ order[w.c].state # "none"
        /\ state' = [state EXCEPT ![w.c] = "acknowledged"]
     \/ state' = [state EXCEPT ![w.c] = "unknown"]
  /\ Goto(CASE w.kind = "finite"   -> "outcome"
            [] w.kind = "standing" -> "filled?"
            [] OTHER               -> "capture")
  /\ Environment /\ UNCHANGED <<ledgerVars, started, bookVars>>

JournalOutcome ==
  /\ At("outcome") /\ Journaled("outcome", "capture")
  /\ Environment /\ UNCHANGED <<ledgerVars, storeVars, imported, mandate>>

-----------------------------------------------------------------------------
(* Reconciliation and recovery.                                             *)

\* What a lookup through each adapter finds.  The connector's request identity
\* is the broker's own, so without an answer there is no handle to look up; the
\* direct adapter leaves a partial execution undecided, the batch adapter
\* accepts it once the order has ended.
ConnectorStatus(c) ==
  IF state[c] \in {"submission_pending", "unknown"} THEN "none" ELSE order[c].state
DirectStatus(c) == IF order[c].state = "partial" THEN "unknown" ELSE order[c].state
BatchStatus(c) == order[c].state

StatusOf(c) ==
  CASE w.kind = "manual"   -> ConnectorStatus(c)
    [] w.kind = "standing" -> DirectStatus(c)
    [] OTHER               -> BatchStatus(c)

\* The legacy programs ask for the fill before they capture the account.
AskForFill ==
  /\ At("filled?")
  /\ GotoOrStop(StatusOf(w.c) = "filled", "capture")
  /\ Environment /\ UNCHANGED <<ledgerVars, storeVars, bookVars>>

CapturePost ==
  /\ At("capture")
  /\ IF Capturable THEN w' = [w EXCEPT !.pc = "lookup", !.a = acct] ELSE Stop
  /\ Environment /\ UNCHANGED <<ledgerVars, storeVars, bookVars>>

\* An interrupted send becomes unknown before the lookup; a claim without a
\* send attempt is left to an operator.
NormalizeInterrupted ==
  /\ state[w.c] = "submission_pending" => w.c \in started
  /\ state' = [state EXCEPT ![w.c] = IF @ = "submission_pending" THEN "unknown" ELSE @]

CannotNormalize == state[w.c] = "submission_pending" /\ w.c \notin started

LookupManual ==
  /\ At("lookup") /\ w.kind = "manual"
  /\ GotoOrStop(ConnectorStatus(w.c) = "filled", "settle")
  /\ Environment /\ UNCHANGED <<ledgerVars, storeVars, bookVars>>

LookupStanding ==
  /\ At("lookup") /\ w.kind = "standing"
  /\ \/ NormalizeInterrupted /\ GotoOrStop(DirectStatus(w.c) = "filled", "settle")
     \/ CannotNormalize /\ Stop /\ UNCHANGED state
  /\ Environment /\ UNCHANGED <<ledgerVars, started, bookVars>>

\* An order still at work is journaled as such.
LookupFinite ==
  /\ At("lookup") /\ w.kind = "finite"
  /\ \/ /\ NormalizeInterrupted
        /\ journal' = IF BatchStatus(w.c) = "working"
                      THEN [journal EXCEPT ![w.c] = Journal!Append(@, "outcome")]
                      ELSE journal
        /\ GotoOrStop(BatchStatus(w.c) \in Terminal, "settle")
     \/ CannotNormalize /\ Stop /\ UNCHANGED <<state, journal>>
  /\ Environment /\ UNCHANGED <<ledgerVars, started, imported, mandate>>

\* The ledger's reconciliation.  A breach is committed and then raised, so the
\* program stops and the rest is left to the next one.
Settle(l, opens) ==
  /\ Write(l, l # led)
  /\ IF w.c \in l.settled /\ (opens => ~Breached(l, order[w.c], w.a))
     THEN w' = [Idle EXCEPT !.kind = w.kind, !.c = w.c, !.pc = "states"]
     ELSE Stop
  /\ Environment /\ UNCHANGED <<storeVars, bookVars>>

\* A claim that is settled already is not written again.
Opens(c) == c \notin led.settled /\ OpenMatches(led, c, order[c], w.a)
Ends(c) == c \notin led.settled /\ NoFillMatches(led, c, order[c], w.a)

SettlePilot ==
  /\ At("settle") /\ w.kind # "finite"
  /\ Settle(IF Opens(w.c) THEN ReconcileOpen(led, w.c, order[w.c], w.a) ELSE led,
            Opens(w.c))

SettleFinite ==
  /\ At("settle") /\ w.kind = "finite"
  /\ Settle(CASE Opens(w.c) -> ReconcileOpen(led, w.c, order[w.c], w.a)
              [] Ends(w.c)  -> ReconcileNoFill(led, w.c, order[w.c], w.a)
              [] OTHER      -> led,
            Opens(w.c))

\* recover_committed: no broker, only the terminal observation that was retained
\* before the ledger committed.
Finish ==
  /\ At("finish")
  /\ IF w.c \in started
     THEN /\ Goto("states")
          /\ state' = [state EXCEPT ![w.c] = IF @ = "submission_pending" THEN "unknown" ELSE @]
     ELSE Stop /\ UNCHANGED state
  /\ Environment /\ UNCHANGED <<ledgerVars, started, bookVars>>

TargetState(c) ==
  CASE order[c].state = "partial" -> "partially_filled"
    [] OTHER                      -> order[c].state

\* Mutant: an acknowledged order is moved to "cancelled" directly.
NextStateDirect(c) ==
  CASE state[c] = "unknown"      -> "reconciling"
    [] state[c] = TargetState(c) -> "reconciled"
    [] OTHER                     -> TargetState(c)

NextState(c) ==
  CASE state[c] = "unknown"        -> "reconciling"
    [] state[c] = TargetState(c)   -> "reconciled"
    [] state[c] = "acknowledged" /\ TargetState(c) = "cancelled" -> "cancel_pending"
    [] OTHER                       -> TargetState(c)

\* One transition of the command at a time, each of them durable.
MoveState ==
  /\ At("states")
  /\ IF state[w.c] = "reconciled"
     THEN (IF w.kind = Finite THEN Goto("journal") ELSE Stop) /\ UNCHANGED state
     ELSE IF NextState(w.c) \in Store!AllowedTransitions(state[w.c])
     THEN state' = [state EXCEPT ![w.c] = NextState(w.c)] /\ UNCHANGED w
     ELSE Stop /\ UNCHANGED state
  /\ Environment /\ UNCHANGED <<ledgerVars, started, bookVars>>

\* Mutant: completion is stated once an outcome is journaled.
JournalRestEarly ==
  /\ At("journal")
  /\ journal' = [journal EXCEPT ![w.c] = Journal!Append(@, Journal!NextPhase(@))]
  /\ GotoOrStop("outcome" \in journal'[w.c], "complete")
  /\ Environment /\ UNCHANGED <<ledgerVars, storeVars, imported, mandate>>

\* record_outcome and record_reconciliation, or reconstruct: the missing rows.
JournalRest ==
  /\ At("journal")
  /\ LET phase == Journal!NextPhase(journal[w.c]) IN
     IF phase # "reconciliation" THEN Journaled(phase, "journal")
     ELSE IF CompletionHolds(w.c) THEN Journaled(phase, "complete")
     ELSE Stop /\ UNCHANGED journal
  /\ Environment /\ UNCHANGED <<ledgerVars, storeVars, imported, mandate>>

\* mark_journal_complete.
CompleteJournal ==
  /\ At("complete") /\ Stop
  /\ Write(JournalComplete(led, w.c), FALSE)
  /\ Environment /\ UNCHANGED <<storeVars, bookVars>>

-----------------------------------------------------------------------------
(* Setting up the finite mandate, and imports.                              *)

\* setup under the lock: a mandate that exists is never replaced.
StartSetup ==
  /\ w = Idle /\ mandate = "none" /\ switch
  /\ ~Unresolved(led) /\ ~LossStopped(led)
  /\ w' = [Idle EXCEPT !.kind = "setup", !.pc = "mandate"]
  /\ Environment /\ UNCHANGED <<ledgerVars, storeVars, bookVars>>

SetupFiles ==
  /\ \/ At("mandate") /\ mandate' = "file" /\ Goto("catalog")
     \/ At("catalog") /\ mandate' = "catalog" /\ Goto("migrate")
  /\ Environment /\ UNCHANGED <<ledgerVars, storeVars, journal, imported>>

Migrate ==
  /\ At("migrate") /\ Stop
  /\ Write(EnableFinite(led), FALSE)
  /\ Environment /\ UNCHANGED <<storeVars, bookVars>>

\* What a plan for an import rests on: the ledger as created, the broker's history
\* closing the whole baseline, and the one position opened beside it.
OriginalState ==
  /\ Claimed(led) = {} /\ Attributed(led) = {} /\ led.imports = 0 /\ ~Unresolved(led)
History(a) == HeldIn(a) \cap Baseline = {}
Opening(a) == Cardinality(HeldIn(a) \ Baseline) = 1

\* A plan is built and reviewed while no program runs.
ReviewPlan ==
  /\ w = Idle /\ Capturable
  /\ OriginalState /\ History(acct) /\ Opening(acct)
  /\ RecordValid(led, PlanFor(led, acct, openedOn))
  /\ plan' = PlanFor(led, acct, openedOn)
  /\ Environment /\ UNCHANGED <<led, lossSeen, storeVars, bookVars, w>>

StartImport ==
  /\ w = Idle /\ switch /\ plan # NoPlan
  /\ w' = [Idle EXCEPT !.kind = "import", !.pc = "import"]
  /\ Environment /\ UNCHANGED <<ledgerVars, storeVars, bookVars>>

\* One transaction; the switch is read again before it commits.
CommitImport ==
  /\ At("import") /\ Stop
  /\ LET l == ApplyImport(led, plan)
     IN IF switch THEN Write(l, l # led) ELSE UNCHANGED ledgerVars
  /\ Environment /\ UNCHANGED <<storeVars, bookVars>>

\* The import's row, under a lock taken anew; recovery runs the same code.
StartImportJournal ==
  /\ w = Idle /\ switch /\ led.importsJournaled < led.imports
  /\ w' = [Idle EXCEPT !.kind = "import", !.pc = "row"]
  /\ Environment /\ UNCHANGED <<ledgerVars, storeVars, bookVars>>

JournalImport ==
  /\ \/ /\ At("row") /\ imported' = led.imports /\ Goto("rowed")
        /\ UNCHANGED ledgerVars
     \/ /\ At("rowed") /\ Write(ImportJournaled(led), FALSE) /\ Stop
        /\ UNCHANGED imported
  /\ Environment /\ UNCHANGED <<storeVars, journal, mandate>>

-----------------------------------------------------------------------------
ProgramStep ==
  \/ PrepareManual \/ PrepareStanding \/ PrepareFinite \/ JournalIntent
  \/ SubmitManual \/ SubmitStanding \/ SubmitFinite \/ ClaimOrder \/ JournalDispatch
  \/ Authorize \/ StartSend \/ Send \/ StoreAnswer \/ JournalOutcome
  \/ AskForFill \/ CapturePost \/ LookupManual \/ LookupStanding
  \/ LookupFinite \/ SettlePilot \/ SettleFinite \/ Finish \/ MoveState
  \/ JournalRest \/ CompleteJournal
  \/ SetupFiles \/ Migrate \/ CommitImport \/ JournalImport

Next ==
  \/ ProgramStep
  \/ \E c \in Commands : \E kind \in scenario.kinds[c] : Start(kind, c) \/ Recover(kind, c)
  \/ StartSetup \/ ReviewPlan \/ StartImport \/ StartImportJournal
  \/ \E c \in Commands : Receive(c) \/ LoseRequest(c) \/ Complete(c)
  \/ ThirdParty \/ PricesMove \/ Midnight \/ TurnSwitch \/ Crash

\* A started program runs on; the broker works off its orders; an operator who
\* has an incomplete claim runs its program again.
Fairness ==
  /\ WF_vars(ProgramStep)
  /\ WF_vars(\E c \in Commands : Complete(c))
  /\ \A c \in Commands : SF_vars(\E kind \in Kinds : Recover(kind, c))

Spec == Init /\ [][Next]_vars /\ Fairness

-----------------------------------------------------------------------------
(* Properties.                                                              *)

\* What the ledger attributes is what happened at the broker, whatever program
\* died where and whatever a third party did meanwhile: a position recorded as
\* the pilot's was opened by that command's order, at that cost; no order of the
\* pilot is booked as third-party activity; and a claim released without a fill
\* belongs to an order that ended without one.
AttributionIsTrue ==
  /\ \A p \in led.opened : /\ order[p].state \in {"filled", "partial"}
                           /\ led.capital[p] = order[p].principal + order[p].costs
  /\ led.imported \subseteq Externals
  /\ \A c \in led.settled \ led.opened : order[c].state \in {"rejected", "cancelled"}

\* Once an import exists, every change of the ledger's cash since the account
\* that import started from is an evidenced import or a reconciled order.
CashIsExplained ==
  led.imports > 0 => led.check.cash = led.base + led.explained - Spent(led)

\* At most one order is at risk at any time, every request the broker gets was
\* claimed in the ledger before (and journaled, for a finite mandate), and the
\* requests sent on one London day stay within the budget, across crashes, midnight and retries.
OrdersStayInBudget ==
  LET Sent == {c \in Commands : sentOn[c] # 0} IN
  /\ \A c \in Sent : /\ c \in Claimed(led)
                     /\ led.claim[c].kind = Finite => "dispatch" \in journal[c]
  /\ Cardinality(Sent \ led.settled) <= 1
  /\ \A d \in 1 .. scenario.days :
        Cardinality({c \in Sent : sentOn[c] = d}) <= Max({1, MaxPerDay})

\* A completed claim has its whole story in the journal, the command is
\* reconciled and the broker's order had ended.
CompletedMeansRecorded ==
  \A c \in led.journaled : /\ journal[c] = Journal!Phases
                           /\ state[c] = "reconciled" /\ order[c].state \in Terminal

\* Once the ledger has marked a loss at its limit, no further request is sent,
\* however the price recovers and whichever program runs.
LossStopsOrders == [][sentOn' # sentOn => ~lossSeen]_vars

ClaimedBy(c, kind) == led.claim[c] # NoClaim /\ led.claim[c].kind = kind

\* An order of a finite mandate that the broker received and nobody else's
\* activity disturbed is reconciled and journaled in the end, through crashes,
\* lost answers, breaches and an engaged switch; a filled order of the standing
\* mandate is at least reconciled.
ReceivedOrdersResolve ==
  \A c \in Commands :
    (order[c].state # "none") ~>
      \/ third > 0
      \/ c \in led.journaled
      \/ ClaimedBy(c, "manual")
      \/ ClaimedBy(c, "standing")
           /\ (order[c].state # "filled" \/ c \in led.settled)
=============================================================================
