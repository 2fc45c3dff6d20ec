---------------------------- MODULE OrderEvidence ----------------------------
(***************************************************************************)
(* The clocks of one order, of the pilot's programs or of the connector's    *)
(* operator: what is read, when it is checked how old that is, and when the  *)
(* request leaves.  Nothing read is read again before the request, so every  *)
(* check is a check of something that has aged.                              *)
(*                                                                           *)
(* A program is a sequence of steps; time passes between and inside them.    *)
(* A source has the start of its request (start) and the time the broker     *)
(* puts on its content (asOf).  The ledger's and the broker's side of the    *)
(* order is PilotCycle.                                                      *)
(* Sources: brokers/etoro/{pilot_account,pilot_reads,batch_reads,            *)
(* autonomous_api,batch_api,connector}.py, execution/{pilot_assessment,      *)
(* batch_assessment,usage_reserve,pilot_operator,autonomous_pilot,           *)
(* finite_demo_operator,pilot_mandate,connector_operator,operator,           *)
(* account_source}.py, risk/pretrade.py.                                     *)
(***************************************************************************)
EXTENDS Integers, FiniteSetsExt, Sequences

CONSTANTS Horizon,     \* bound on the clock
          Midnight,    \* the moment the London day changes
          MandateEnd,  \* the finite mandate expires
          Lags,        \* how much older than its receipt a source's content may be
          MaxRequest, MaxCapture, MaxAge, FiniteMargin, StateAge, Handoff,
          UsageAge, PreviewLife, IntentLife, ApprovalAge, DecisionAge

ASSUME LimitsAreDurations ==
  /\ {Horizon, Midnight, MandateEnd, MaxRequest, MaxCapture, MaxAge, FiniteMargin, StateAge,
      Handoff, UsageAge, PreviewLife, IntentLife, ApprovalAge, DecisionAge} \subseteq Nat
  /\ Lags \subseteq Nat

ASSUME LimitsAreOrdered ==
  Handoff <= StateAge /\ StateAge <= MaxAge /\ MaxAge <= UsageAge /\ FiniteMargin < MaxAge

VARIABLES now, kind, n,
          start, asOf,  \* of the read of each source that is still to be used
          received,     \* when the last rate arrived
          intentAt, preparedAt, approvedAt,
          authorizedAt, \* the durable authorization of the one dispatch ...
          until,        \* ... and its end, which is also the binding's
          claimedAt, sentAt

times == <<intentAt, preparedAt, approvedAt, authorizedAt, until, claimedAt, sentAt>>
reads == <<start, asOf, received>>
orderVars == <<now, kind, n, reads, times>>

Never == -1
Kinds == {"connector", "manual", "standing", "finite"}
Approved == {"connector", "manual"}   \* a person approves a preview of the order
Sources == {"eligibility", "cost", "preview", "profile", "first", "pnl", "last",
            "state", "rate", "usage", "identity"}
Untimed == {"pnl", "last", "identity"}   \* nothing asks when these requests began
Stamped == {"pnl", "cost", "rate", "preview"}
Nothing == [s \in Sources \cup {"account"} |-> Never]

AccountReads == <<"profile", "first", "pnl", "last", "account">>
MarketReads == <<"state", "rate", "market">>

\* The steps of the operator and of the three programs up to the request.
ConnectorSteps ==
  <<"intent", "components", "rate", "evaluate", "eligibility", "preview", "bind", "approve">>
  \o <<"usage", "components">> \o MarketReads \o <<"submit", "identity", "claim", "place">>
ManualSteps ==
  <<"eligibility", "preview">> \o AccountReads \o MarketReads \o <<"prepare", "bind", "approve">>
  \o <<"usage">> \o AccountReads \o MarketReads \o <<"submit", "identity", "claim", "place">>
StandingSteps ==
  <<"eligibility", "cost">> \o AccountReads \o MarketReads \o <<"usage", "assess", "prepare">>
  \o <<"submit", "identity", "claim", "hook">>
FiniteSteps ==
  <<"eligibility", "cost">> \o AccountReads \o <<"usage">> \o MarketReads
  \o <<"assess", "prepare", "submit", "identity", "claim", "hook">>

Steps ==
  CASE kind = "connector" -> ConnectorSteps
    [] kind = "manual"    -> ManualSteps
    [] kind = "standing"  -> StandingSteps
    [] OTHER              -> FiniteSteps

Running == n \in 1 .. Len(Steps)
AtStep(s) == Running /\ Steps[n] = s
Advance == n' = n + 1
Stop == n' = 0

OrderInit ==
  /\ now = 0 /\ kind \in Kinds /\ n = 1 /\ start = Nothing /\ asOf = Nothing
  /\ received = Never
  /\ intentAt = Never /\ preparedAt = Never /\ approvedAt = Never
  /\ authorizedAt = Never /\ until = Never /\ claimedAt = Never /\ sentAt = Never

Tick ==
  /\ Running /\ now < Horizon /\ now' = now + 1
  /\ UNCHANGED <<kind, n, reads, times>>

-----------------------------------------------------------------------------
(* Reads.                                                                   *)

\* The reads whose duration is checked.
Limited ==
  CASE kind = "connector" -> {}
    [] kind = "manual"    -> {"profile", "first", "pnl", "last", "state"}
    [] OTHER              -> {"profile", "first", "pnl", "last", "state",
                              "eligibility", "cost", "rate", "identity"}

\* A request takes some time; a response that took too long where that is
\* checked is not used, and ends the program.
Read ==
  /\ Running /\ Steps[n] \in Sources
  /\ LET s == Steps[n] IN
     \E took \in 0 .. MaxRequest + 1, lag \in IF Steps[n] \in Stamped THEN Lags ELSE {0} :
       /\ now + took <= Horizon /\ now + took >= lag
       /\ now' = now + took
       /\ IF took > MaxRequest /\ s \in Limited
          THEN Stop /\ UNCHANGED reads
          ELSE /\ Advance
               /\ start' = IF s \in Untimed THEN start ELSE [start EXCEPT ![s] = now]
               /\ asOf' = IF s \in Stamped THEN [asOf EXCEPT ![s] = now' - lag] ELSE asOf
               /\ received' = IF s = "rate" /\ kind = "finite" THEN now' ELSE received
  /\ intentAt' = IF AtStep("preview") /\ kind = "manual" THEN now ELSE intentAt
  /\ UNCHANGED <<kind, preparedAt, approvedAt, authorizedAt, until, claimedAt, sentAt>>

Check(step, ok) ==
  /\ AtStep(step)
  /\ IF ok THEN Advance ELSE Stop
  /\ UNCHANGED <<now, kind>>

\* The account is as old as the oldest of what it was read from.
AccountTime == Min({start["profile"], start["first"], asOf["pnl"]})
AccountDeadline == start["account"] + MaxAge
AccountFresh == now <= AccountDeadline

\* The four reads in order, the last three of them within MaxCapture.
BuildAccount ==
  /\ Check("account", now - start["first"] <= MaxCapture /\ now <= AccountTime + MaxAge)
  /\ start' = [start EXCEPT !["account"] = AccountTime, !["profile"] = Never, !["first"] = Never]
  /\ asOf' = [asOf EXCEPT !["pnl"] = Never]
  /\ UNCHANGED <<received, times>>

\* The connector's operator is handed an account whose oldest component was
\* observed before the last one was: RiskAccountSource, with its deadline.
CaptureComponents ==
  /\ AtStep("components") /\ Advance
  /\ \E took \in 0 .. MaxRequest + 1 : now + took <= Horizon /\ now' = now + took
  /\ start' = [start EXCEPT !["account"] = now]
  /\ UNCHANGED <<kind, asOf, received, times>>

QuoteFresh == now - asOf["rate"] <= MaxAge
StateFresh == now - start["state"] <= StateAge
HandoffMet == now - received <= Handoff

\* Host.market of the older programs leaves every age to what follows.
BatchMarket == QuoteFresh /\ StateFresh /\ now - start["rate"] <= MaxAge

ReadMarket ==
  /\ Check("market", kind = "finite" => BatchMarket)
  /\ UNCHANGED <<reads, times>>

UsageFresh == now - start["usage"] <= UsageAge

-----------------------------------------------------------------------------
(* Assessment and preparation.                                              *)

AssessmentDeadline ==
  Min({start["cost"], start["eligibility"], asOf["cost"], asOf["rate"]}) + MaxAge
AssessOrder == now <= AssessmentDeadline
AssessBatchOrder == now <= AssessmentDeadline /\ UsageFresh

Assess ==
  /\ Check("assess", IF kind = "finite" THEN AssessBatchOrder ELSE AssessOrder)
  /\ intentAt' = now
  /\ UNCHANGED <<reads, preparedAt, approvedAt, authorizedAt, until, claimedAt, sentAt>>

\* The intent the operator brings; its expiry is part of it.
CreateIntent ==
  /\ Check("intent", TRUE)
  /\ intentAt' = now
  /\ UNCHANGED <<reads, preparedAt, approvedAt, authorizedAt, until, claimedAt, sentAt>>

\* The pre-trade evaluator's checks of time.  Its checks of exposure, cash and
\* loss may refuse as well; such an operator never takes its next step.
RiskAccepts == now < intentAt + IntentLife /\ QuoteFresh /\ AccountFresh

EvaluateRisk ==
  /\ Check("evaluate", RiskAccepts)
  /\ preparedAt' = now
  /\ UNCHANGED <<reads, intentAt, approvedAt, authorizedAt, until, claimedAt, sentAt>>

\* The finite worker keeps a margin off the account's life.
FiniteAccountFresh == now < AccountDeadline - FiniteMargin

MayPrepare ==
  CASE kind = "manual"   -> AccountFresh /\ QuoteFresh
    [] kind = "standing" -> AccountFresh /\ QuoteFresh /\ AssessOrder
    [] OTHER             -> FiniteAccountFresh /\ BatchMarket /\ now <= AssessmentDeadline

Prepare ==
  /\ Check("prepare", MayPrepare)
  /\ preparedAt' = now
  /\ UNCHANGED <<reads, intentAt, approvedAt, authorizedAt, until, claimedAt, sentAt>>

\* The connector's preview is bound while it and its quote live; the pilot's
\* program looks at its own evidence once more.
PreviewEnd == start["preview"] + PreviewLife
PreviewBindable == now < PreviewEnd /\ now - asOf["preview"] <= MaxAge
BindPreview ==
  /\ Check("bind", /\ PreviewBindable
                   /\ kind = "manual" => AccountFresh /\ QuoteFresh /\ StateFresh)
  /\ UNCHANGED <<reads, times>>

\* A person approves the exact preview, after any time; all else is read again.
IntentEnd ==
  IF kind = "finite" THEN Min({intentAt + IntentLife, MandateEnd}) ELSE intentAt + IntentLife
ApprovalEnd == Min({IntentEnd, approvedAt + ApprovalAge, PreviewEnd})

Approve ==
  /\ Check("approve", now < PreviewEnd /\ now < IntentEnd)
  /\ approvedAt' = now
  /\ start' = [Nothing EXCEPT !["preview"] = start["preview"]] /\ asOf' = Nothing
  /\ UNCHANGED <<received, intentAt, preparedAt, authorizedAt, until, claimedAt, sentAt>>

-----------------------------------------------------------------------------
(* The authorization: the earliest end of everything it rests on.           *)

EndOfDay == IF now < Midnight THEN Midnight ELSE Horizon + 1
MarketEnd == Min({asOf["rate"] + MaxAge, start["state"] + StateAge})

\* The operator's deadline knows no end of the day.
DeadlineConnector ==
  Min({IntentEnd, ApprovalEnd, PreviewEnd, AccountDeadline, MarketEnd, start["usage"] + UsageAge})

\* Mutant: the usage snapshot is checked but does not bound the authorization.
DeadlineManualNoUsage ==
  Min({EndOfDay, IntentEnd, ApprovalEnd, PreviewEnd, AccountDeadline, MarketEnd})

DeadlineManual ==
  Min({EndOfDay, IntentEnd, ApprovalEnd, PreviewEnd, AccountDeadline, MarketEnd,
       start["usage"] + UsageAge})

\* issue_approval: the standing mandate's approval ends with its evidence.
StandingApprovalEnd ==
  Min({IntentEnd, AccountDeadline, preparedAt + DecisionAge, asOf["rate"] + MaxAge,
       start["usage"] + UsageAge})
DeadlineStanding ==
  Min({EndOfDay, IntentEnd, StandingApprovalEnd, AccountDeadline, AssessmentDeadline,
       MarketEnd, start["usage"] + UsageAge})

DeadlineFinite ==
  Min({EndOfDay, IntentEnd, MandateEnd, AccountDeadline - FiniteMargin,
       AssessmentDeadline, MarketEnd, received + Handoff, start["usage"] + UsageAge,
       preparedAt + DecisionAge})

Deadline ==
  CASE kind = "connector" -> DeadlineConnector
    [] kind = "manual"    -> DeadlineManual
    [] kind = "standing"  -> DeadlineStanding
    [] OTHER              -> DeadlineFinite

\* The risk is evaluated again, on the account and the quote of this submission.
SubmitConnectorChecks ==
  now < PreviewEnd /\ now < ApprovalEnd /\ UsageFresh /\ StateFresh /\ RiskAccepts
SubmitManualChecks ==
  /\ now < PreviewEnd /\ now < ApprovalEnd
  /\ UsageFresh /\ AccountFresh /\ StateFresh /\ QuoteFresh
SubmitStandingChecks ==
  /\ AssessOrder /\ UsageFresh /\ AccountFresh /\ StateFresh /\ QuoteFresh
  /\ now - preparedAt <= Min({MaxAge, DecisionAge})
SubmitFiniteChecks ==
  /\ now <= AssessmentDeadline /\ UsageFresh /\ FiniteAccountFresh
  /\ BatchMarket /\ HandoffMet /\ now < MandateEnd

MaySubmit ==
  CASE kind = "connector" -> SubmitConnectorChecks
    [] kind = "manual"    -> SubmitManualChecks
    [] kind = "standing"  -> SubmitStandingChecks
    [] OTHER              -> SubmitFiniteChecks

\* submit and submit_under_mandate: the checks, the binding, the authorization.
Submit ==
  /\ Check("submit", MaySubmit /\ now < Deadline)
  /\ authorizedAt' = now /\ until' = Deadline
  /\ UNCHANGED <<reads, intentAt, preparedAt, approvedAt, claimedAt, sentAt>>

-----------------------------------------------------------------------------
(* The adapters.                                                            *)

SameDay(t) == (t < Midnight) = (now < Midnight)

\* The direct adapters' binding has the authorization's end; the connector's
\* has the preview's.
DirectBindingValid == now < until /\ now < IntentEnd /\ SameDay(authorizedAt)
ConnectorBindingValid == now < PreviewEnd

WithinAuthorization == authorizedAt <= now /\ now < until

\* submit_order after its identity read: the binding again, then the dispatch
\* is claimed, once, while the authorization lives.
ClaimDispatch ==
  /\ Check("claim", /\ claimedAt = Never
                    /\ IF kind \in Approved THEN ConnectorBindingValid ELSE DirectBindingValid
                    /\ WithinAuthorization)
  /\ claimedAt' = IF n' = 0 THEN Never ELSE now
  /\ UNCHANGED <<reads, intentAt, preparedAt, approvedAt, authorizedAt, until, sentAt>>

\* Mutant: the hook trusts the claim.
WireGuardTrusting == TRUE

\* At the request hook, after the request's receipt is on disk: binding and
\* authorization once more, with a clock read after all parsing.
WireGuard == DirectBindingValid /\ WithinAuthorization

\* The batch adapter's own hook also checks the market's clocks.
BatchWireGuard ==
  /\ BatchMarket /\ HandoffMet /\ UsageFresh
  /\ DirectBindingValid /\ WithinAuthorization

SendDirect ==
  /\ Check("hook", IF kind = "finite" THEN BatchWireGuard ELSE WireGuard)
  /\ sentAt' = IF n' = 0 THEN Never ELSE now
  /\ UNCHANGED <<reads, intentAt, preparedAt, approvedAt, authorizedAt, until, claimedAt>>

\* The connector's placement follows its claim without another look.
PlaceTrade ==
  /\ Check("place", TRUE)
  /\ sentAt' = now
  /\ UNCHANGED <<reads, intentAt, preparedAt, approvedAt, authorizedAt, until, claimedAt>>

OrderNext ==
  \/ Tick \/ Read \/ BuildAccount \/ CaptureComponents \/ ReadMarket
  \/ CreateIntent \/ EvaluateRisk \/ Assess \/ Prepare \/ BindPreview
  \/ Approve \/ Submit \/ ClaimDispatch \/ SendDirect \/ PlaceTrade

OrderSpec == OrderInit /\ [][OrderNext]_orderVars

-----------------------------------------------------------------------------
(* Properties.                                                              *)

\* The moment that counts: the hook of the direct adapters; the claim of the
\* connector's, whose placement is not guarded.
Dispatched == IF kind \in Approved THEN claimedAt ELSE sentAt

\* However the reads, the checks, a person and the identity read spread over
\* time, an order is dispatched only on evidence that is within every limit at
\* that moment: account, position marks, quote, market state, usage and, where
\* they apply, costs, eligibility and the handoff from quote to request.
FreshWhenDispatched ==
  Dispatched # Never =>
    LET age(t) == Dispatched - t IN
    /\ age(start["account"])
         <= IF kind = "finite" THEN MaxAge - FiniteMargin ELSE MaxAge
    /\ age(asOf["rate"]) <= MaxAge /\ age(start["state"]) <= StateAge
    /\ age(start["usage"]) <= UsageAge
    /\ kind \notin Approved => age(Min({start["cost"], start["eligibility"], asOf["cost"]})) <= MaxAge
    /\ kind = "finite" => age(received) <= Handoff

\* Every dispatch has its authority at that moment: the authorization has not
\* ended, nor have intent, preview, approval or mandate, and for a pilot order it
\* is still the London day it was authorized on.
DispatchedInAuthority ==
  Dispatched # Never =>
    /\ authorizedAt <= Dispatched /\ Dispatched < intentAt + IntentLife
    /\ kind # "connector" => (authorizedAt < Midnight) = (Dispatched < Midnight)
    /\ kind = "finite" => Dispatched < MandateEnd
    /\ kind \in Approved => /\ Dispatched < start["preview"] + PreviewLife
                            /\ Dispatched < approvedAt + ApprovalAge
=============================================================================
