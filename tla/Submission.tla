----------------------------- MODULE Submission ------------------------------
(***************************************************************************)
(* The at-most-once submission protocol of the Demo execution path.         *)
(*                                                                          *)
(* Several operator processes (Workers) share one SQLite execution store.   *)
(* Each store method is one BEGIN IMMEDIATE transaction, hence one action;  *)
(* everything a process reads before a transaction and uses inside it (the  *)
(* command snapshot, the caller's `now`, the captured lookup) is kept in    *)
(* its local record and may be stale.  The broker is external: a request    *)
(* may be lost, may arrive after the sender gave up, and its reply may be   *)
(* lost.  A process may crash between any two steps.                        *)
(*                                                                          *)
(* Sources: execution/store.py, execution/coordinator.py (the store and     *)
(* coordinator operations on one submit command), risk/approval.py and      *)
(* risk/submission_gate.py (issue and authorize).                           *)
(***************************************************************************)
EXTENDS ExecutionDomain, Integers, Sequences

CONSTANTS
  Intents,        \* order intents; each has at most one submit command
  Workers,        \* operator processes
  IntentExpiry,   \* OrderIntent.expires_at, per intent
  ApprovalTTL,    \* RiskLimits.approval_max_age_seconds
  EvidenceTTL,    \* the account and quote age limits of the gate
  MaxTime,        \* bound on the clock
  MaxDecisions    \* bound on the risk decisions recorded per intent

ASSUME SubmissionAssumption ==
  /\ Intents # {}
  /\ IntentExpiry \in [Intents -> Nat]
  /\ ApprovalTTL \in Nat /\ EvidenceTTL \in Nat
  /\ MaxTime \in Nat /\ MaxDecisions \in Nat

VARIABLES
  now,        \* the clock the callers read
  intents,    \* rows of order_intents
  decisions,  \* rows of risk_decisions per intent, in rowid order
  command,    \* the row of broker_commands per intent
  bound,      \* command_authorizations.risk_decision_id, 0 when absent
  approval,   \* the row of approvals bound to the command
  consumed,   \* approvals.consumed_at is set
  window,     \* command_authorizations.authorized_at and .valid_until
  claimedAt,  \* command_authorizations.submission_claimed_at
  worker,     \* local state of each process
  wire,       \* requests on their way to the broker (external)
  order,      \* the broker's record of the intent's order (external)
  sends       \* transport invocations so far, per intent

authVars == <<bound, approval, consumed, window, claimedAt>>
storeVars == <<intents, decisions, command, authVars>>
brokerVars == <<wire, order, sends>>
vars == <<now, storeVars, worker, brokerVars>>

NoTime == -1
Times == 0 .. MaxTime
MaxDeadline == MaxTime + EvidenceTTL

NoCommand == [state |-> "none", attempts |-> 0]
Commands == [state : CommandStates \cup {"none"}, attempts : 0 .. 1]

Decisions == [accepted : BOOLEAN, at : Times, freshUntil : 0 .. MaxDeadline]
Approvals == [issuedAt : Int, expiresAt : Int]
Windows == [from : Int, until : Int]
NoApproval == [issuedAt |-> NoTime, expiresAt |-> NoTime]
NoWindow == [from |-> NoTime, until |-> NoTime]

\* Lifecycle of an order at the broker.  "refused" is an answer that no
\* order was accepted; "partial_final" is a terminal partial fill.
OrderStates == {"none", "refused", "working", "partial", "cancel_pending",
                "filled", "rejected", "cancelled", "partial_final"}
TerminalOrders == {"refused", "filled", "rejected", "cancelled", "partial_final"}

\* What a lookup reports for an order: adapter status_map and terminal set.
Status(o) == CASE o = "working" -> "acknowledged"
               [] o \in {"partial", "partial_final"} -> "partially_filled"
               [] o \in {"refused", "rejected"} -> "rejected"
               [] OTHER -> o

NoResult == [state |-> "none", reconciled |-> FALSE]
Results == [state : {"none", "acknowledged", "partially_filled", "filled",
                     "rejected", "cancelled", "cancel_pending", "unknown"},
            reconciled : BOOLEAN]

Phases == {"idle", "approve", "authorize", "claim", "send", "await",
           "reconcile", "lookup", "apply", "finish"}
Local(pc, i, snap, at, result) ==
  [pc |-> pc, intent |-> i, snap |-> snap, at |-> at, result |-> result]
Idle(i) == Local("idle", i, NoCommand, 0, NoResult)
LocalStates == [pc : Phases, intent : Intents, snap : Commands, at : Times,
                result : Results]
AnIntent == CHOOSE i \in Intents : TRUE

\* Shapes of the store's rows, of each process's locals and of the broker's
\* record; a command is attempted at most once (attempts : 0 .. 1).
TypeOK ==
  /\ now \in Times
  /\ intents \subseteq Intents
  /\ decisions \in [Intents -> Seq(Decisions)]
  /\ command \in [Intents -> Commands]
  /\ bound \in [Intents -> Nat]
  /\ approval \in [Intents -> Approvals]
  /\ consumed \in [Intents -> BOOLEAN]
  /\ window \in [Intents -> Windows]
  /\ claimedAt \in [Intents -> Int]
  /\ worker \in [Workers -> LocalStates]
  /\ wire \subseteq Intents
  /\ order \in [Intents -> OrderStates]
  /\ sends \in [Intents -> Nat]

Init ==
  /\ now = 0
  /\ intents = {}
  /\ decisions = [i \in Intents |-> <<>>]
  /\ command = [i \in Intents |-> NoCommand]
  /\ bound = [i \in Intents |-> 0]
  /\ approval = [i \in Intents |-> NoApproval]
  /\ consumed = [i \in Intents |-> FALSE]
  /\ window = [i \in Intents |-> NoWindow]
  /\ claimedAt = [i \in Intents |-> NoTime]
  /\ worker = [w \in Workers |-> Idle(AnIntent)]
  /\ wire = {}
  /\ order = [i \in Intents |-> "none"]
  /\ sends = [i \in Intents |-> 0]
-----------------------------------------------------------------------------
(* Process-local bookkeeping *)

\* A call reads the command; `at` is the caller's `now` for the whole call.
Begin(w, pc, i, at) ==
  /\ worker[w].pc = "idle"
  /\ worker' = [worker EXCEPT ![w] = Local(pc, i, command[i], at, NoResult)]

At(w, pc) == worker[w].pc = pc
Goto(w, pc, snap, result) ==
  worker' = [worker EXCEPT ![w] =
               Local(pc, worker[w].intent, snap, worker[w].at, result)]
\* The call returns or raises; its locals are gone.
Return(w) == worker' = [worker EXCEPT ![w] = Idle(worker[w].intent)]

(* Store helpers *)

\* Mutant: a superseded decision still counts.
BoundRiskAccepted(i) ==
  /\ bound[i] \in 1 .. Len(decisions[i])
  /\ decisions[i][bound[i]].accepted

\* _bound_risk: the bound decision is accepted and is the latest recorded.
BoundRisk(i) ==
  /\ bound[i] \in 1 .. Len(decisions[i])
  /\ decisions[i][bound[i]].accepted
  /\ bound[i] = Len(decisions[i])

\* _validate_approval_binding, the time part; the ids match by construction.
ApprovalValid(i, at) ==
  /\ approval[i].issuedAt # NoTime
  /\ decisions[i][bound[i]].at <= approval[i].issuedAt
  /\ approval[i].issuedAt <= at
  /\ at < approval[i].expiresAt

\* transition_command reads the persisted row inside the transaction; an
\* illegal transition raises and rolls back.
CanMove(i, target) == target \in AllowedTransitions(command[i].state)
MoveTo(i, target) ==
  command' = [command EXCEPT ![i] =
                [state |-> target, attempts |-> command[i].attempts]]

Earlier(a, b) == IF a <= b THEN a ELSE b
-----------------------------------------------------------------------------
(* Preparation, approval and authorization *)

\* prepare_intent / save_intents: a second insert of the hash is refused.
SaveIntent(i) ==
  /\ i \notin intents
  /\ intents' = intents \cup {i}
  /\ UNCHANGED <<now, decisions, command, authVars, worker, brokerVars>>

Decision(accepted, fresh) ==
  [accepted |-> accepted, at |-> now, freshUntil |-> now + fresh]

\* save_risk_bound_command: decision, command and binding in one transaction.
RecordRiskDecision(i, accepted, fresh) ==
  /\ i \in intents
  /\ command[i].state = "none"
  /\ Len(decisions[i]) < MaxDecisions
  /\ decisions' = [decisions EXCEPT ![i] = Append(@, Decision(accepted, fresh))]
  /\ bound' = [bound EXCEPT ![i] = Len(decisions[i]) + 1]
  /\ MoveTo(i, IF accepted THEN "awaiting_approval" ELSE "risk_rejected")
  /\ UNCHANGED <<now, intents, approval, consumed, window, claimedAt, worker,
                 brokerVars>>

\* save_risk_decision: a later decision supersedes the bound one.
SaveRiskDecision(i, accepted, fresh) ==
  /\ i \in intents
  /\ Len(decisions[i]) < MaxDecisions
  /\ decisions' = [decisions EXCEPT ![i] = Append(@, Decision(accepted, fresh))]
  /\ UNCHANGED <<now, intents, command, authVars, worker, brokerVars>>

BeginApprove(w, i) ==
  /\ command[i].state = "awaiting_approval"
  /\ Begin(w, "approve", i, now)
  /\ UNCHANGED <<now, storeVars, brokerVars>>

\* ApprovalAuthority.issue followed by approve_command.
Approve(w) ==
  LET i == worker[w].intent
      at == worker[w].at
      expires == Earlier(IntentExpiry[i], at + ApprovalTTL)
      ok == /\ command[i] = worker[w].snap
            /\ command[i].state = "awaiting_approval"
            /\ BoundRisk(i)
            /\ decisions[i][bound[i]].at <= at
            /\ at < expires
            /\ approval[i].issuedAt = NoTime
  IN /\ At(w, "approve")
     /\ IF ok
          THEN /\ approval' = [approval EXCEPT ![i] =
                                [issuedAt |-> at, expiresAt |-> expires]]
               /\ MoveTo(i, "approved")
          ELSE UNCHANGED <<approval, command>>
     /\ Return(w)
     /\ UNCHANGED <<now, intents, decisions, bound, consumed, window, claimedAt,
                    brokerVars>>

BeginSubmit(w, i) ==
  /\ command[i].state = "approved"
  /\ Begin(w, "authorize", i, now)
  /\ UNCHANGED <<now, storeVars, brokerVars>>

\* Mutant: the deadline forgets the approval's own expiry.
DeadlineOfEvidence(i) ==
  Earlier(IntentExpiry[i], decisions[i][bound[i]].freshUntil)

\* valid_until: the earliest of the intent, approval and evidence limits.
Deadline(i) ==
  Earlier(Earlier(IntentExpiry[i], approval[i].expiresAt),
          decisions[i][bound[i]].freshUntil)

\* mark_submission_pending: SubmissionGate.authorize, then
\* authorize_submission, which consumes the approval.
Authorize(w) ==
  LET i == worker[w].intent
      at == worker[w].at
      ok == /\ command[i] = worker[w].snap
            /\ command[i].state = "approved"
            /\ BoundRisk(i)
            /\ ApprovalValid(i, at)
            /\ at < Deadline(i)
            /\ ~consumed[i]
  IN /\ At(w, "authorize")
     /\ IF ok
          THEN /\ consumed' = [consumed EXCEPT ![i] = TRUE]
               /\ window' = [window EXCEPT ![i] =
                              [from |-> at, until |-> Deadline(i)]]
               /\ MoveTo(i, "submission_pending")
               /\ Goto(w, "claim", command'[i], NoResult)
          ELSE /\ UNCHANGED <<consumed, window, command>>
               /\ Return(w)
     /\ UNCHANGED <<now, intents, decisions, bound, approval, claimedAt,
                    brokerVars>>

\* The gate refuses: kill switch, session, governance or configuration.
GateRefuses(w) ==
  /\ At(w, "authorize")
  /\ Return(w)
  /\ UNCHANGED <<now, storeVars, brokerVars>>
-----------------------------------------------------------------------------
(* The single send *)

\* submit_pending_command called on a command found pending.
BeginSubmitPending(w, i) ==
  /\ command[i].state = "submission_pending"
  /\ Begin(w, "claim", i, now)
  /\ UNCHANGED <<now, storeVars, brokerVars>>

\* Mutant: the claim does not look for an earlier claim.
ClaimableAgain(i, at) ==
  /\ BoundRisk(i)
  /\ window[i].from # NoTime
  /\ window[i].from <= at /\ at < window[i].until
  /\ consumed[i]
  /\ ApprovalValid(i, at)

\* The evidence claim_submission demands besides an unchanged pending row.
Claimable(i, at) ==
  /\ BoundRisk(i)
  /\ command[i].attempts = 0 /\ claimedAt[i] = NoTime
  /\ window[i].from # NoTime
  /\ window[i].from <= at /\ at < window[i].until
  /\ consumed[i]
  /\ ApprovalValid(i, at)

\* claim_submission: the durable claim precedes any transport invocation.
Claim(w) ==
  LET i == worker[w].intent
      at == worker[w].at
  IN /\ At(w, "claim")
     /\ IF /\ command[i] = worker[w].snap
           /\ command[i].state = "submission_pending"
           /\ Claimable(i, at)
          THEN /\ claimedAt' = [claimedAt EXCEPT ![i] = at]
               /\ command' = [command EXCEPT ![i] =
                    [state |-> command[i].state,
                     attempts |-> command[i].attempts + 1]]
               /\ Goto(w, "send", NoCommand, NoResult)
          ELSE /\ UNCHANGED <<claimedAt, command>>
               /\ Return(w)
     /\ UNCHANGED <<now, intents, decisions, bound, approval, consumed, window,
                    brokerVars>>

\* adapter.submit_order starts the one transport invocation.
Send(w) ==
  LET i == worker[w].intent
  IN /\ At(w, "send")
     /\ sends' = [sends EXCEPT ![i] = @ + 1]
     /\ wire' = wire \cup {i}
     /\ Goto(w, "await", NoCommand, NoResult)
     /\ UNCHANGED <<now, storeVars, order>>

\* Mutant: a transport exception is recorded as a broker rejection.
AnswersFailedAsRejected(i) ==
  {"rejected"} \cup (IF order[i] \notin {"none", "refused"}
                      THEN {"acknowledged"} ELSE {})

\* What submit_order may answer: an exception or an ambiguous result at any
\* time, the broker's own answer once it has one.
Answers(i) ==
  {"unknown"}
    \cup (IF order[i] = "refused" THEN {"rejected"} ELSE {})
    \cup (IF order[i] \notin {"none", "refused"} THEN {"acknowledged"} ELSE {})

\* The transition that records the answer; it raises when the row has moved on.
RecordAnswer(w, answer) ==
  LET i == worker[w].intent
  IN /\ At(w, "await")
     /\ answer \in Answers(i)
     /\ IF CanMove(i, answer) THEN MoveTo(i, answer) ELSE UNCHANGED command
     /\ Return(w)
     /\ UNCHANGED <<now, intents, decisions, authVars, brokerVars>>
-----------------------------------------------------------------------------
(* reconcile_command: recovery through reads only; it takes no `now` *)

BeginReconcile(w, i) ==
  /\ command[i].state # "none"
  /\ Begin(w, "reconcile", i, 0)
  /\ UNCHANGED <<now, storeVars, brokerVars>>

\* One transaction of the walk to "reconciling", driven by the local copy.
ReconcileStep(w) ==
  LET i == worker[w].intent
      local == worker[w].snap.state
      target == IF local \in InFlightStates THEN "unknown" ELSE "reconciling"
  IN /\ At(w, "reconcile")
     /\ CASE local = "reconciling" -> Goto(w, "lookup", NoCommand, NoResult) /\ UNCHANGED command
          [] local \in InFlightStates \cup {"unknown"} ->
               IF CanMove(i, target)
                 THEN /\ MoveTo(i, target)
                      /\ Goto(w, "reconcile", command'[i], NoResult)
                 ELSE Return(w) /\ UNCHANGED command
          [] OTHER -> Return(w) /\ UNCHANGED command
     /\ UNCHANGED <<now, intents, decisions, authVars, brokerVars>>

\* The authoritative read.  A missing order or a failed read raises and leaves
\* "reconciling"; an adapter may also report a missing order as "unknown".
Lookups(i) ==
  IF order[i] = "none" THEN {[state |-> "unknown", reconciled |-> FALSE]}
  ELSE {[state |-> Status(order[i]), reconciled |-> order[i] \in TerminalOrders]}

Lookup(w) ==
  LET i == worker[w].intent
  IN /\ At(w, "lookup")
     /\ \/ \E r \in Lookups(i) : Goto(w, "apply", NoCommand, r)
        \/ Return(w)
     /\ UNCHANGED <<now, storeVars, brokerVars>>

\* The first transition: to the state the lookup reported.
ApplyLookup(w) ==
  LET i == worker[w].intent
      r == worker[w].result
  IN /\ At(w, "apply")
     /\ IF CanMove(i, r.state)
          THEN /\ MoveTo(i, r.state)
               /\ IF r.reconciled THEN Goto(w, "finish", NoCommand, NoResult)
                                   ELSE Return(w)
          ELSE Return(w) /\ UNCHANGED command
     /\ UNCHANGED <<now, intents, decisions, authVars, brokerVars>>

\* The second, separate transition of a terminal lookup.
FinishReconcile(w) ==
  LET i == worker[w].intent
  IN /\ At(w, "finish")
     /\ IF CanMove(i, "reconciled") THEN MoveTo(i, "reconciled")
                                    ELSE UNCHANGED command
     /\ Return(w)
     /\ UNCHANGED <<now, intents, decisions, authVars, brokerVars>>

\* A process dies, or a transport or store error ends its call.
Crash(w) ==
  /\ worker[w].pc # "idle"
  /\ Return(w)
  /\ UNCHANGED <<now, storeVars, brokerVars>>
-----------------------------------------------------------------------------
(* Environment: the clock and the broker *)

Tick ==
  /\ now < MaxTime
  /\ now' = now + 1
  /\ UNCHANGED <<storeVars, worker, brokerVars>>

BrokerReceives(i) ==
  /\ i \in wire
  /\ order[i] = "none"
  /\ wire' = wire \ {i}
  /\ \E o \in {"working", "refused"} : order' = [order EXCEPT ![i] = o]
  /\ UNCHANGED <<now, storeVars, worker, sends>>

WireDrops(i) ==
  /\ i \in wire
  /\ wire' = wire \ {i}
  /\ UNCHANGED <<now, storeVars, worker, order, sends>>

OrderSteps(o) ==
  CASE o = "working" -> {"partial", "filled", "rejected", "cancel_pending"}
    [] o = "partial" -> {"filled", "partial_final"}
    [] o = "cancel_pending" -> {"cancelled", "filled"}
    [] OTHER -> {}

BrokerProgress(i) ==
  /\ \E o \in OrderSteps(order[i]) : order' = [order EXCEPT ![i] = o]
  /\ UNCHANGED <<now, storeVars, worker, wire, sends>>
-----------------------------------------------------------------------------
Operator(w) ==
  \/ \E i \in Intents :
       \/ BeginApprove(w, i) \/ BeginSubmit(w, i)
       \/ BeginSubmitPending(w, i) \/ BeginReconcile(w, i)
  \/ Approve(w) \/ Authorize(w) \/ GateRefuses(w)
  \/ Claim(w) \/ Send(w)
  \/ \E answer \in CommandStates : RecordAnswer(w, answer)
  \/ ReconcileStep(w) \/ Lookup(w) \/ ApplyLookup(w) \/ FinishReconcile(w)
  \/ Crash(w)

Risk(i) ==
  \/ SaveIntent(i)
  \/ \E accepted \in BOOLEAN, fresh \in 0 .. EvidenceTTL :
       \/ RecordRiskDecision(i, accepted, fresh)
       \/ SaveRiskDecision(i, accepted, fresh)

Broker(i) == BrokerReceives(i) \/ WireDrops(i) \/ BrokerProgress(i)

Next ==
  \/ \E w \in Workers : Operator(w)
  \/ \E i \in Intents : Risk(i) \/ Broker(i)
  \/ Tick

Spec == Init /\ [][Next]_vars
-----------------------------------------------------------------------------
(* Properties *)

Claimed(i) == claimedAt[i] # NoTime
Superseded(i) == bound[i] # Len(decisions[i])

PreSubmission == {"none", "proposed", "risk_rejected", "awaiting_approval",
                  "approved"}

\* However processes interleave, crash and retry, submit_order is invoked at
\* most once for an intent: claim_submission is the only way to the transport.
AtMostOneSend == \A i \in Intents : sends[i] <= 1

\* Whatever reached the transport was claimed under a consumed approval of an
\* accepted decision, at a caller time inside a window that neither the intent
\* nor the approval outlives, and its command records the attempt and never
\* looks unsubmitted again.
SendBacked ==
  \A i \in Intents : sends[i] > 0 =>
    /\ command[i].attempts = 1
    /\ command[i].state \notin PreSubmission
    /\ consumed[i]
    /\ decisions[i][bound[i]].accepted
    /\ window[i].from <= claimedAt[i]
    /\ claimedAt[i] < window[i].until
    /\ window[i].until <= Earlier(IntentExpiry[i], approval[i].expiresAt)

\* A terminal state on the row is the broker's own final outcome, whichever of
\* a late sender and several reconcilers with captured lookups wrote it.
RecordedOutcomeTrue ==
  \A i \in Intents :
    /\ command[i].state \in {"filled", "rejected", "cancelled"}
         => order[i] \in TerminalOrders /\ Status(order[i]) = command[i].state
    /\ command[i].state = "reconciled" => order[i] \in TerminalOrders
    /\ command[i].state \in {"acknowledged", "partially_filled"}
         => order[i] \notin {"none", "refused"}

\* Inductive strengthenings of the three invariants above, used by the proofs.
SendInv ==
  /\ \A i \in Intents :
       /\ sends[i] \in 0 .. 1
       /\ Claimed(i) => command[i].attempts = 1
       /\ ~Claimed(i) => command[i].attempts = 0 /\ sends[i] = 0
       /\ sends[i] = 0 => order[i] = "none" /\ i \notin wire
  /\ \A w \in Workers : At(w, "send") =>
       Claimed(worker[w].intent) /\ sends[worker[w].intent] = 0
  /\ \A v, w \in Workers :
       At(v, "send") /\ At(w, "send") /\ worker[v].intent = worker[w].intent
         => v = w

BackingInv ==
  \A i \in Intents :
    /\ consumed[i] =>
         /\ command[i].state \notin PreSubmission
         /\ bound[i] \in 1 .. Len(decisions[i])
         /\ decisions[i][bound[i]].accepted
         /\ window[i].until <= Earlier(IntentExpiry[i], approval[i].expiresAt)
    /\ Claimed(i) =>
         /\ consumed[i]
         /\ window[i].from <= claimedAt[i] /\ claimedAt[i] < window[i].until

OutcomeInv ==
  /\ RecordedOutcomeTrue
  /\ \A w \in Workers :
       LET o == order[worker[w].intent]
           r == worker[w].result
       IN /\ At(w, "apply") =>
               /\ r.reconciled => o \in TerminalOrders
               /\ r.state \in {"filled", "rejected", "cancelled"}
                    => o \in TerminalOrders /\ Status(o) = r.state
               /\ r.state \in {"acknowledged", "partially_filled"}
                    => o \notin {"none", "refused"}
          /\ At(w, "finish") => o \in TerminalOrders

\* Where the submission of an intent stands, as an outside observer sees it.
SendPhase(i) ==
  CASE command[i].state = "reconciled" -> "resolved"
    [] sends[i] > 0 /\ command[i].state # "reconciled" -> "sent"
    [] Claimed(i) /\ sends[i] = 0 /\ command[i].state # "reconciled" -> "claimed"
    [] OTHER ->
         IF \/ command[i].state \notin {"none", "awaiting_approval", "approved",
                                       "submission_pending"}
            \/ command[i].state # "none" /\ Superseded(i)
         THEN "forfeited" ELSE "open"

Abstract == INSTANCE SendOnce
              WITH phase <- [i \in Intents |-> SendPhase(i)]

\* The protocol implements SendOnce: an intent is claimed before it is sent,
\* is sent once, is resolved only after a send, and once superseded, rejected
\* or overtaken by a reconciliation while unclaimed it is never sent.
ImplementsSendOnce == Abstract!Spec
=============================================================================
