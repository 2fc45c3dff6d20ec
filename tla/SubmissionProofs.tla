-------------------------- MODULE SubmissionProofs ---------------------------
(*****************************************************************************)
(* The submission protocol, for every number of intents and processes and    *)
(* every value of the bounds: its types, at most one transport invocation    *)
(* per intent and what stands behind it, the truth of recorded outcomes, and *)
(* that it implements SendOnce.                                              *)
(*****************************************************************************)
EXTENDS Submission, TLAPS

------------------------------------------------------------------------------
\* Type correctness.

\* An operator process that returns to its caller is idle again, a well-typed
\* local state.
LEMMA ReturnType ==
  ASSUME TypeOK, NEW w \in Workers, Return(w)
  PROVE  worker' \in [Workers -> LocalStates]
BY SubmissionAssumption
   DEF TypeOK, Return, Idle, Local, LocalStates, Phases, Commands, NoCommand,
       Results, NoResult, Times

\* A process that moves to its next step with a well-typed command snapshot
\* and result keeps its local state well typed.
LEMMA GotoType ==
  ASSUME TypeOK, NEW w \in Workers, NEW pc \in Phases, NEW s \in Commands,
         NEW r \in Results, Goto(w, pc, s, r)
  PROVE  worker' \in [Workers -> LocalStates]
BY DEF TypeOK, Goto, Local, LocalStates

\* A transition through the store's state table keeps the command rows well
\* typed.
LEMMA MoveType ==
  ASSUME TypeOK, NEW i \in Intents, NEW s \in CommandStates, MoveTo(i, s)
  PROVE  /\ command' \in [Intents -> Commands]
         /\ command'[i] \in Commands
BY DEF TypeOK, MoveTo, Commands

\* The initial values of rows, approvals, windows and results have their types.
LEMMA ConstTypes ==
  /\ NoCommand \in Commands
  /\ NoResult \in Results
  /\ NoApproval \in Approvals
  /\ NoWindow \in Windows
BY DEF NoCommand, Commands, NoResult, Results, NoApproval, Approvals, NoWindow,
       Windows, NoTime

\* The fields of a process's local state have the types TypeOK gives them.
LEMMA LocalTypes ==
  ASSUME TypeOK, NEW w \in Workers
  PROVE  /\ worker[w].intent \in Intents
         /\ worker[w].at \in Times
         /\ worker[w].result \in Results
         /\ command[worker[w].intent] \in Commands
BY DEF TypeOK, LocalStates

\* The clock, store and broker variables keep their types, and so does every
\* process's local state: no handler of the store or coordinator leaves them.
THEOREM TypeCorrect == Spec => []TypeOK
<1> USE SubmissionAssumption
<1>1. Init => TypeOK
  <2> SUFFICES ASSUME Init PROVE TypeOK
    OBVIOUS
  <2>1. AnIntent \in Intents
    BY DEF AnIntent
  <2>2. worker \in [Workers -> LocalStates]
    BY <2>1, ConstTypes
       DEF Init, Idle, Local, LocalStates, Phases, Times
  <2> QED
    BY <2>2, ConstTypes
       DEF Init, TypeOK, Times, NoApproval, NoWindow, NoTime,
           OrderStates
<1>2. TypeOK /\ [Next]_vars => TypeOK'
  <2> SUFFICES ASSUME TypeOK, [Next]_vars PROVE TypeOK'
    OBVIOUS
  <2>0. CASE UNCHANGED vars
    BY <2>0 DEF TypeOK, vars, storeVars, authVars, brokerVars
  <2>a. SUFFICES ASSUME Next PROVE TypeOK'
    BY <2>0
  <2>1. ASSUME NEW w \in Workers, Operator(w) PROVE TypeOK'
    <3>1. ASSUME NEW i \in Intents,
                 \/ BeginApprove(w, i) \/ BeginSubmit(w, i)
                 \/ BeginSubmitPending(w, i) \/ BeginReconcile(w, i)
          PROVE  TypeOK'
      <4>1. PICK pc \in Phases, t \in Times :
              worker' = [worker EXCEPT ![w] = Local(pc, i, command[i], t, NoResult)]
        BY <3>1 DEF BeginApprove, BeginSubmit, BeginSubmitPending,
                    BeginReconcile, Begin, Phases, Times, TypeOK
      <4>2. worker' \in [Workers -> LocalStates]
        BY <4>1, ConstTypes DEF TypeOK, Local, LocalStates
      <4> QED
        BY <3>1, <4>2 DEF TypeOK, BeginApprove, BeginSubmit, BeginSubmitPending,
                          BeginReconcile, storeVars, authVars, brokerVars
    <3>2. CASE Approve(w)
      <4> DEFINE i == worker[w].intent
      <4>1. i \in Intents /\ worker[w].at \in Times
        BY LocalTypes
      <4>2. command' \in [Intents -> Commands]
        BY Zenon, <3>2, <4>1, MoveType DEF Approve, CommandStates, TypeOK
      <4>3. approval' \in [Intents -> Approvals]
        <5>1. Earlier(IntentExpiry[i], worker[w].at + ApprovalTTL) \in Int
          BY <4>1 DEF Earlier, Times
        <5>2. [issuedAt |-> worker[w].at,
               expiresAt |-> Earlier(IntentExpiry[i], worker[w].at + ApprovalTTL)]
                \in Approvals
          BY <4>1, <5>1 DEF Approvals, Times
        <5> QED
          BY ZenonT(60), <3>2, <4>1, <5>2 DEF Approve, TypeOK
      <4> QED
        BY Zenon, <3>2, <4>2, <4>3, ReturnType DEF Approve, TypeOK, brokerVars
    <3>3. CASE Authorize(w)
      <4> DEFINE i == worker[w].intent
      <4>1. i \in Intents /\ worker[w].at \in Times
        BY LocalTypes
      <4>2. CASE UNCHANGED <<consumed, window, command>> /\ Return(w)
        BY <3>3, <4>2, ReturnType DEF Authorize, TypeOK, brokerVars
      <4>3. CASE /\ consumed' = [consumed EXCEPT ![i] = TRUE]
                 /\ window' = [window EXCEPT ![i] =
                               [from |-> worker[w].at, until |-> Deadline(i)]]
                 /\ MoveTo(i, "submission_pending")
                 /\ Goto(w, "claim", command'[i], NoResult)
                 /\ BoundRisk(i)
        <5>1. command' \in [Intents -> Commands] /\ command'[i] \in Commands
          BY <4>1, <4>3, MoveType DEF CommandStates
        <5>2. worker' \in [Workers -> LocalStates]
          BY <4>3, <5>1, GotoType, ConstTypes DEF Phases
        <5>3. Deadline(i) \in Int
          <6>1. decisions[i][bound[i]] \in Decisions
            BY <4>1, <4>3 DEF BoundRisk, TypeOK
          <6>2. approval[i] \in Approvals /\ IntentExpiry[i] \in Int
            BY <4>1 DEF TypeOK
          <6> QED
            BY <6>1, <6>2 DEF Deadline, Earlier, Decisions, Approvals,
                              MaxDeadline, Times
        <5>4. /\ window' \in [Intents -> Windows]
              /\ consumed' \in [Intents -> BOOLEAN]
          BY SMTT(60), <4>1, <4>3, <5>3 DEF TypeOK, Windows, Times
        <5> QED
          BY Zenon, <3>3, <4>3, <5>1, <5>2, <5>4 DEF Authorize, TypeOK, brokerVars
      <4> QED
        BY <3>3, <4>2, <4>3 DEF Authorize
    <3>4. CASE GateRefuses(w) \/ Crash(w)
      BY <3>4, ReturnType
         DEF GateRefuses, Crash, TypeOK, storeVars, authVars, brokerVars
    <3>5. CASE Claim(w)
      <4> DEFINE i == worker[w].intent
      <4>1. i \in Intents /\ worker[w].at \in Times
        BY LocalTypes
      <4>2. CASE UNCHANGED <<claimedAt, command>> /\ Return(w)
        BY ZenonT(60), <3>5, <4>2, ReturnType DEF Claim, TypeOK, brokerVars
      <4>3. CASE /\ claimedAt' = [claimedAt EXCEPT ![i] = worker[w].at]
                 /\ command' = [command EXCEPT ![i] =
                      [state |-> command[i].state,
                       attempts |-> command[i].attempts + 1]]
                 /\ Goto(w, "send", NoCommand, NoResult)
                 /\ command[i].attempts = 0
        <5>1. worker' \in [Workers -> LocalStates]
          BY <4>3, GotoType, ConstTypes DEF Phases
        <5>2. command' \in [Intents -> Commands]
          BY <4>1, <4>3 DEF TypeOK, Commands
        <5>3. claimedAt' \in [Intents -> Int]
          BY <4>1, <4>3 DEF TypeOK, Times
        <5> QED
          BY ZenonT(60), <3>5, <4>3, <5>1, <5>2, <5>3 DEF Claim, TypeOK, brokerVars
      <4> QED
        BY <3>5, <4>2, <4>3 DEF Claim, Claimable
    <3>6. CASE Send(w)
      <4>1. worker' \in [Workers -> LocalStates]
        BY <3>6, GotoType, ConstTypes DEF Send, Phases
      <4>2. sends' \in [Intents -> Nat] /\ wire' \subseteq Intents
        BY SMTT(60), <3>6, LocalTypes DEF Send, TypeOK
      <4> QED
        BY ZenonT(60), <3>6, <4>1, <4>2 DEF Send, TypeOK, storeVars, authVars
    <3>7. ASSUME NEW answer \in CommandStates, RecordAnswer(w, answer)
          PROVE  TypeOK'
      BY ZenonT(60), <3>7, LocalTypes, ReturnType, MoveType
         DEF RecordAnswer, TypeOK, authVars, brokerVars
    <3>8. CASE ReconcileStep(w)
      <4> DEFINE i == worker[w].intent
      <4>1. i \in Intents
        BY LocalTypes
      <4>2. CASE Return(w) /\ UNCHANGED command
        BY Zenon, <3>8, <4>2, ReturnType
           DEF ReconcileStep, TypeOK, authVars, brokerVars
      <4>3. CASE Goto(w, "lookup", NoCommand, NoResult) /\ UNCHANGED command
        BY Zenon, <3>8, <4>3, GotoType, ConstTypes
           DEF ReconcileStep, TypeOK, Phases, authVars, brokerVars
      <4>4. ASSUME NEW target \in CommandStates, MoveTo(i, target),
                   Goto(w, "reconcile", command'[i], NoResult)
            PROVE  TypeOK'
        <5>1. command' \in [Intents -> Commands] /\ command'[i] \in Commands
          BY <4>1, <4>4, MoveType
        <5>2. worker' \in [Workers -> LocalStates]
          BY <4>4, <5>1, GotoType, ConstTypes DEF Phases
        <5> QED
          BY Zenon, <3>8, <5>1, <5>2
             DEF ReconcileStep, TypeOK, authVars, brokerVars
      <4> QED
        BY <3>8, <4>2, <4>3, <4>4 DEF ReconcileStep, CommandStates, InFlightStates
    <3>9. CASE Lookup(w)
      <4>1. \A r \in Lookups(worker[w].intent) : r \in Results
        <5>1. order[worker[w].intent] \in OrderStates
          BY LocalTypes DEF TypeOK
        <5>2. ASSUME NEW o \in OrderStates, o # "none"
              PROVE  Status(o) \in {"acknowledged", "partially_filled", "filled",
                                    "rejected", "cancelled", "cancel_pending"}
          BY <5>2 DEF Status, OrderStates
        <5>3. ASSUME NEW s \in {"acknowledged", "partially_filled", "filled",
                                "rejected", "cancelled", "cancel_pending", "unknown"},
                     NEW b \in BOOLEAN
              PROVE  [state |-> s, reconciled |-> b] \in Results
          BY DEF Results
        <5>4. (order[worker[w].intent] \in TerminalOrders) \in BOOLEAN
          OBVIOUS
        <5> QED
          BY <5>1, <5>2, <5>3, <5>4, Zenon DEF Lookups
      <4>2. worker' \in [Workers -> LocalStates]
        BY <3>9, <4>1, ReturnType, GotoType, ConstTypes DEF Lookup, Phases
      <4> QED
        BY <3>9, <4>2
           DEF Lookup, TypeOK, storeVars, authVars, brokerVars
    <3>10. CASE ApplyLookup(w)
      <4> DEFINE i == worker[w].intent
      <4>1. i \in Intents
        BY LocalTypes
      <4>2. worker' \in [Workers -> LocalStates]
        BY <3>10, ReturnType, GotoType, ConstTypes DEF ApplyLookup, Phases
      <4>3. AllowedTransitions(command[i].state) \subseteq CommandStates
        BY ZenonT(30) DEF AllowedTransitions, CommandStates
      <4>4. command' \in [Intents -> Commands]
        BY Zenon, <3>10, <4>1, <4>3, MoveType DEF ApplyLookup, CanMove, TypeOK
      <4> QED
        BY Zenon, <3>10, <4>2, <4>4
           DEF ApplyLookup, TypeOK, authVars, brokerVars
    <3>11. CASE FinishReconcile(w)
      BY ZenonT(60), <3>11, LocalTypes, ReturnType, MoveType
         DEF FinishReconcile, TypeOK, CommandStates, authVars, brokerVars
    <3> QED
      BY <2>1, <3>1, <3>2, <3>3, <3>4, <3>5, <3>6, <3>7, <3>8, <3>9, <3>10, <3>11
         DEF Operator
  <2>2. ASSUME NEW i \in Intents, Risk(i) PROVE TypeOK'
    <3>1. CASE SaveIntent(i)
      BY <3>1 DEF SaveIntent, TypeOK, authVars, brokerVars
    <3>2. ASSUME NEW accepted \in BOOLEAN, NEW fresh \in 0 .. EvidenceTTL
          PROVE  Decision(accepted, fresh) \in Decisions
      BY DEF Decision, Decisions, TypeOK, Times, MaxDeadline
    <3>3. ASSUME NEW accepted \in BOOLEAN, NEW fresh \in 0 .. EvidenceTTL,
                 RecordRiskDecision(i, accepted, fresh)
          PROVE  TypeOK'
      <4>1. command' \in [Intents -> Commands]
        BY <3>3, MoveType DEF RecordRiskDecision, CommandStates
      <4>2. decisions' \in [Intents -> Seq(Decisions)]
        BY <3>2, <3>3 DEF RecordRiskDecision, TypeOK
      <4>3. bound' \in [Intents -> Nat]
        BY <3>3 DEF RecordRiskDecision, TypeOK
      <4> QED
        BY <3>3, <4>1, <4>2, <4>3 DEF RecordRiskDecision, TypeOK, brokerVars
    <3>4. ASSUME NEW accepted \in BOOLEAN, NEW fresh \in 0 .. EvidenceTTL,
                 SaveRiskDecision(i, accepted, fresh)
          PROVE  TypeOK'
      <4>1. decisions' \in [Intents -> Seq(Decisions)]
        BY <3>2, <3>4 DEF SaveRiskDecision, TypeOK
      <4> QED
        BY Zenon, <3>4, <4>1 DEF SaveRiskDecision, TypeOK, authVars, brokerVars
    <3> QED
      BY <2>2, <3>1, <3>3, <3>4 DEF Risk
  <2>3. ASSUME NEW i \in Intents, Broker(i) PROVE TypeOK'
    BY ZenonT(60), <2>3 DEF Broker, BrokerReceives, WireDrops, BrokerProgress, OrderSteps,
                OrderStates, TypeOK, storeVars, authVars
  <2>4. CASE Tick
    BY <2>4 DEF Tick, TypeOK, Times, storeVars, authVars, brokerVars
  <2> QED
    BY <2>a, <2>1, <2>2, <2>3, <2>4 DEF Next
<1> QED
  BY <1>1, <1>2, PTL DEF Spec

------------------------------------------------------------------------------
\* One transport invocation per intent, and what it rests on.

\* The local record a process holds after it returns or moves on.
LEMMA LocalEffect ==
  ASSUME TypeOK, NEW w \in Workers
  PROVE  /\ Return(w) => /\ \A v \in Workers \ {w} : worker'[v] = worker[v]
                         /\ worker'[w].pc = "idle"
         /\ \A pc, s, r : Goto(w, pc, s, r) =>
              /\ \A v \in Workers \ {w} : worker'[v] = worker[v]
              /\ worker'[w].pc = pc
              /\ worker'[w].intent = worker[w].intent
              /\ worker'[w].result = r
         /\ \A pc, i, t : Begin(w, pc, i, t) =>
              /\ \A v \in Workers \ {w} : worker'[v] = worker[v]
              /\ worker'[w].pc = pc
BY DEF TypeOK, Return, Goto, Begin, Idle, Local

\* A transition changes one row's state and no row's attempts.
LEMMA MoveEffect ==
  ASSUME TypeOK, NEW i \in Intents, NEW s, MoveTo(i, s)
  PROVE  /\ command'[i].state = s
         /\ \A j \in Intents : command'[j].attempts = command[j].attempts
         /\ \A j \in Intents \ {i} : command'[j] = command[j]
BY DEF TypeOK, MoveTo

\* Steps that neither claim nor touch the transport keep SendInv.
LEMMA SendQuiet ==
  ASSUME TypeOK, SendInv, UNCHANGED <<claimedAt, wire, order, sends>>,
         \A i \in Intents : command'[i].attempts = command[i].attempts,
         \A w \in Workers : worker'[w].pc = "send" =>
           worker[w].pc = "send" /\ worker'[w].intent = worker[w].intent
  PROVE  SendInv'
BY DEF SendInv, Claimed, At, NoTime

\* Every handler of the store, coordinator and broker preserves SendInv, the
\* strengthening behind at-most-once sending.
LEMMA SendInvStep == TypeOK /\ TypeOK' /\ SendInv /\ [Next]_vars => SendInv'
<1> SUFFICES ASSUME TypeOK, TypeOK', SendInv, [Next]_vars PROVE SendInv'
  OBVIOUS
<1>0. CASE UNCHANGED vars
  BY <1>0, SendQuiet DEF vars, storeVars, authVars, brokerVars
<1>1. ASSUME NEW w \in Workers, Operator(w) PROVE SendInv'
  <2> DEFINE i == worker[w].intent
  <2>i. i \in Intents
    BY Zenon, LocalTypes
  <2>1. ASSUME NEW j \in Intents,
               \/ BeginApprove(w, j) \/ BeginSubmit(w, j)
               \/ BeginSubmitPending(w, j) \/ BeginReconcile(w, j)
        PROVE  SendInv'
    BY ZenonT(30), <2>1, LocalEffect, SendQuiet
       DEF BeginApprove, BeginSubmit, BeginSubmitPending, BeginReconcile,
           storeVars, authVars, brokerVars
  <2>2. CASE Approve(w)
    BY Zenon, <2>2, <2>i, LocalEffect, MoveEffect, SendQuiet DEF Approve, brokerVars
  <2>3. CASE Authorize(w)
    BY SMTT(60), <2>3, <2>i, LocalEffect, MoveEffect, SendQuiet DEF Authorize, brokerVars
  <2>4. CASE GateRefuses(w) \/ Crash(w) \/ Lookup(w)
    BY <2>4, LocalEffect, SendQuiet
       DEF GateRefuses, Crash, Lookup, storeVars, authVars, brokerVars
  <2>5. CASE Claim(w)
    <3>1. CASE Return(w) /\ UNCHANGED <<claimedAt, command>>
      BY <2>5, <3>1, LocalEffect, SendQuiet DEF Claim, brokerVars
    <3>2. CASE /\ Claimable(i, worker[w].at)
               /\ claimedAt' = [claimedAt EXCEPT ![i] = worker[w].at]
               /\ command' = [command EXCEPT ![i] =
                    [state |-> command[i].state,
                     attempts |-> command[i].attempts + 1]]
               /\ Goto(w, "send", NoCommand, NoResult)
      <4>1. claimedAt[i] = NoTime /\ command[i].attempts = 0
        BY <3>2 DEF Claimable
      <4>2. claimedAt'[i] # NoTime /\ command'[i].attempts = 1
        BY <2>i, <3>2, <4>1, LocalTypes DEF TypeOK, Times, NoTime
      <4>3. sends[i] = 0 /\ \A v \in Workers : At(v, "send") => worker[v].intent # i
        BY <2>i, <4>1 DEF SendInv, Claimed
      <4>4. \A j \in Intents \ {i} : /\ claimedAt'[j] = claimedAt[j]
                                    /\ command'[j] = command[j]
        BY <2>i, <3>2 DEF TypeOK
      <4>5. UNCHANGED <<wire, order, sends>>
        BY <2>5 DEF Claim, brokerVars
      <4>6. /\ worker'[w].pc = "send" /\ worker'[w].intent = i
            /\ \A v \in Workers \ {w} : worker'[v] = worker[v]
        BY <3>2, LocalEffect
      <4>7. ASSUME NEW j \in Intents
            PROVE  /\ sends'[j] \in 0 .. 1
                   /\ claimedAt'[j] # NoTime => command'[j].attempts = 1
                   /\ claimedAt'[j] = NoTime =>
                        command'[j].attempts = 0 /\ sends'[j] = 0
                   /\ sends'[j] = 0 => order'[j] = "none" /\ j \notin wire'
        BY <4>2, <4>3, <4>4, <4>5 DEF SendInv, Claimed
      <4>8. ASSUME NEW v \in Workers, worker'[v].pc = "send"
            PROVE  /\ claimedAt'[worker'[v].intent] # NoTime
                   /\ sends'[worker'[v].intent] = 0
        BY <2>i, <4>2, <4>3, <4>4, <4>5, <4>6, <4>8, LocalTypes
           DEF SendInv, Claimed, At
      <4>9. ASSUME NEW v \in Workers, NEW u \in Workers,
                   worker'[v].pc = "send", worker'[u].pc = "send",
                   worker'[v].intent = worker'[u].intent
            PROVE  v = u
        BY <4>3, <4>6, <4>9 DEF SendInv, At
      <4> QED
        BY <4>7, <4>8, <4>9 DEF SendInv, Claimed, At, NoTime
    <3> QED
      BY <2>5, <3>1, <3>2 DEF Claim
  <2>6. CASE Send(w)
    <3>1. Claimed(i) /\ sends[i] = 0
      BY Zenon, <2>6 DEF Send, SendInv
    <3>2. /\ worker'[w].pc = "await"
          /\ \A v \in Workers \ {w} : worker'[v] = worker[v]
      BY <2>6, LocalEffect DEF Send
    <3>3. /\ sends'[i] = 1
          /\ \A j \in Intents \ {i} : sends'[j] = sends[j]
          /\ wire' = wire \cup {i}
          /\ UNCHANGED <<claimedAt, command, order>>
      BY <2>6, <2>i, <3>1 DEF Send, TypeOK, storeVars, authVars
    <3>4. \A v \in Workers \ {w} : At(v, "send") => worker[v].intent # i
      BY <2>6 DEF Send, SendInv
    <3>5. ASSUME NEW j \in Intents
          PROVE  /\ sends'[j] \in 0 .. 1
                 /\ claimedAt'[j] # NoTime => command'[j].attempts = 1
                 /\ claimedAt'[j] = NoTime =>
                      command'[j].attempts = 0 /\ sends'[j] = 0
                 /\ sends'[j] = 0 => order'[j] = "none" /\ j \notin wire'
      BY <3>1, <3>3 DEF SendInv, Claimed
    <3>6. ASSUME NEW v \in Workers, worker'[v].pc = "send"
          PROVE  /\ v # w
                 /\ claimedAt'[worker'[v].intent] # NoTime
                 /\ sends'[worker'[v].intent] = 0
      BY <3>2, <3>3, <3>4, <3>6, LocalTypes DEF SendInv, Claimed, At
    <3> QED
      BY <3>2, <3>5, <3>6 DEF SendInv, Claimed, At, NoTime
  <2>7. ASSUME NEW answer \in CommandStates, RecordAnswer(w, answer)
        PROVE  SendInv'
    BY <2>7, <2>i, LocalEffect, MoveEffect, SendQuiet
       DEF RecordAnswer, authVars, brokerVars
  <2>8. CASE ReconcileStep(w)
    BY <2>8, <2>i, LocalEffect, MoveEffect, SendQuiet
       DEF ReconcileStep, authVars, brokerVars
  <2>9. CASE ApplyLookup(w)
    BY <2>9, <2>i, LocalEffect, MoveEffect, SendQuiet
       DEF ApplyLookup, authVars, brokerVars
  <2>10. CASE FinishReconcile(w)
    BY <2>10, <2>i, LocalEffect, MoveEffect, SendQuiet
       DEF FinishReconcile, authVars, brokerVars
  <2> QED
    BY <1>1, <2>1, <2>2, <2>3, <2>4, <2>5, <2>6, <2>7, <2>8, <2>9, <2>10
       DEF Operator
<1>2. ASSUME NEW i \in Intents, Risk(i) PROVE SendInv'
  BY <1>2, MoveEffect, SendQuiet
     DEF Risk, SaveIntent, RecordRiskDecision, SaveRiskDecision, authVars, brokerVars
<1>3. ASSUME NEW i \in Intents, Broker(i) PROVE SendInv'
  <2>1. CASE BrokerReceives(i) \/ WireDrops(i)
    <3>1. i \in wire => sends[i] = 1
      BY DEF SendInv
    <3> QED
      BY <2>1, <3>1 DEF BrokerReceives, WireDrops, SendInv, Claimed, At, TypeOK,
                        storeVars, authVars
  <2>2. CASE BrokerProgress(i)
    <3>1. order[i] # "none"
      BY <2>2 DEF BrokerProgress, OrderSteps
    <3> QED
      BY <2>2, <3>1 DEF BrokerProgress, SendInv, Claimed, At, TypeOK,
                        storeVars, authVars
  <2> QED
    BY <1>3, <2>1, <2>2 DEF Broker
<1>4. CASE Tick
  BY <1>4, SendQuiet DEF Tick, storeVars, authVars, brokerVars
<1> QED
  BY <1>0, <1>1, <1>2, <1>3, <1>4 DEF Next

\* submit_order is invoked at most once per intent, for any number of operator
\* processes, crashes and retries: AtMostOneSend is an invariant.
THEOREM AtMostOnce == Spec => []AtMostOneSend
<1>1. Init => SendInv
  BY SMTT(30) DEF Init, SendInv, Claimed, At, Idle, Local, NoCommand
<1>2. SendInv => AtMostOneSend
  BY SMTT(60) DEF SendInv, AtMostOneSend
<1> QED
  BY <1>1, <1>2, TypeCorrect, SendInvStep, PTL DEF Spec
-----------------------------------------------------------------------------
(* What stands behind a send *)

\* Steps that leave authorisations, claims and sends alone keep BackingInv.
LEMMA BackingQuiet ==
  ASSUME TypeOK, BackingInv, UNCHANGED <<decisions, authVars>>,
         \A i \in Intents : command[i].state \notin PreSubmission
           => command'[i].state \notin PreSubmission
  PROVE  BackingInv'
BY DEF BackingInv, Claimed, authVars, NoTime, PreSubmission, Earlier

\* Every handler preserves BackingInv: what an authorisation and a claim
\* established stays true after later decisions, approvals and crashes.
LEMMA BackingInvStep ==
  TypeOK /\ TypeOK' /\ BackingInv /\ [Next]_vars => BackingInv'
<1> SUFFICES ASSUME TypeOK, TypeOK', BackingInv, [Next]_vars PROVE BackingInv'
  OBVIOUS
<1>0. CASE UNCHANGED vars
  BY <1>0, BackingQuiet DEF vars, storeVars
<1>1. ASSUME NEW w \in Workers, Operator(w) PROVE BackingInv'
  <2> DEFINE i == worker[w].intent
             at == worker[w].at
  <2>i. i \in Intents /\ at \in Times
    BY LocalTypes
  <2>m. ASSUME NEW s, s \notin PreSubmission, MoveTo(i, s), UNCHANGED <<decisions, authVars>>
        PROVE  BackingInv'
    BY <2>m, <2>i, MoveEffect, BackingQuiet
  <2>1. ASSUME NEW j \in Intents,
               \/ BeginApprove(w, j) \/ BeginSubmit(w, j)
               \/ BeginSubmitPending(w, j) \/ BeginReconcile(w, j)
        PROVE  BackingInv'
    BY Zenon, <2>1, BackingQuiet
       DEF BeginApprove, BeginSubmit, BeginSubmitPending, BeginReconcile, storeVars
  <2>2. CASE Approve(w)
    <3>1. CASE UNCHANGED <<approval, command>>
      BY Zenon, <2>2, <3>1, BackingQuiet DEF Approve, authVars
    <3>2. CASE /\ command[i].state = "awaiting_approval"
               /\ \E a : approval' = [approval EXCEPT ![i] = a]
               /\ MoveTo(i, "approved")
      <4>1. ~consumed[i]
        BY <2>i, <3>2 DEF BackingInv, PreSubmission
      <4>2. \A j \in Intents \ {i} : /\ approval'[j] = approval[j]
                                    /\ command'[j] = command[j]
        BY Zenon, <2>i, <3>2, MoveEffect DEF TypeOK
      <4>3. UNCHANGED <<decisions, bound, consumed, window, claimedAt>>
        BY <2>2 DEF Approve
      <4> QED
        BY <2>i, <4>1, <4>2, <4>3 DEF BackingInv, Claimed, PreSubmission, Earlier
    <3> QED
      BY Zenon, <2>2, <3>1, <3>2 DEF Approve
  <2>3. CASE Authorize(w)
    <3>1. CASE UNCHANGED <<consumed, window, command>>
      BY <2>3, <3>1, BackingQuiet DEF Authorize, authVars
    <3>2. CASE /\ BoundRisk(i) /\ ~consumed[i]
               /\ consumed' = [consumed EXCEPT ![i] = TRUE]
               /\ window' = [window EXCEPT ![i] = [from |-> at, until |-> Deadline(i)]]
               /\ MoveTo(i, "submission_pending")
      <4>1. /\ \A j \in Intents \ {i} :
                  /\ consumed'[j] = consumed[j] /\ window'[j] = window[j]
                  /\ command'[j] = command[j]
            /\ command'[i].state = "submission_pending"
            /\ window'[i].until = Deadline(i)
        BY ZenonT(60), <2>i, <3>2, MoveEffect DEF TypeOK
      <4>2. UNCHANGED <<decisions, bound, approval, claimedAt>>
        BY Zenon, <2>3 DEF Authorize
      <4>3. ~Claimed(i)
        BY Zenon, <2>i, <3>2 DEF BackingInv
      <4>4. Deadline(i) <= Earlier(IntentExpiry[i], approval[i].expiresAt)
        <5>1. decisions[i][bound[i]] \in Decisions
          BY <2>i, <3>2 DEF BoundRisk, TypeOK
        <5>2. approval[i] \in Approvals /\ IntentExpiry[i] \in Nat
          BY <2>i, SubmissionAssumption DEF TypeOK
        <5> QED
          BY SMTT(60), <5>1, <5>2, SubmissionAssumption
             DEF Deadline, Earlier, Decisions, Approvals, MaxDeadline
      <4>5. ASSUME NEW j \in Intents, consumed'[j]
            PROVE  /\ command'[j].state \notin PreSubmission
                   /\ bound'[j] \in 1 .. Len(decisions'[j])
                   /\ decisions'[j][bound'[j]].accepted
                   /\ window'[j].until <=
                        Earlier(IntentExpiry[j], approval'[j].expiresAt)
        BY ZenonT(60), <3>2, <4>1, <4>2, <4>4, <4>5
           DEF BackingInv, BoundRisk, PreSubmission
      <4>6. ASSUME NEW j \in Intents, claimedAt'[j] # NoTime
            PROVE  /\ consumed'[j]
                   /\ window'[j].from <= claimedAt'[j]
                   /\ claimedAt'[j] < window'[j].until
        BY <4>1, <4>2, <4>3, <4>6 DEF BackingInv, Claimed
      <4> QED
        BY <4>5, <4>6 DEF BackingInv, Claimed, PreSubmission, Earlier, NoTime
    <3> QED
      BY <2>3, <3>1, <3>2 DEF Authorize
  <2>4. CASE GateRefuses(w) \/ Crash(w) \/ Lookup(w) \/ Send(w)
    BY <2>4, BackingQuiet DEF GateRefuses, Crash, Lookup, Send, storeVars
  <2>5. CASE Claim(w)
    <3>1. CASE UNCHANGED <<claimedAt, command>>
      BY Zenon, <2>5, <3>1, BackingQuiet DEF Claim, authVars
    <3>2. CASE /\ Claimable(i, at)
               /\ claimedAt' = [claimedAt EXCEPT ![i] = at]
               /\ command' = [command EXCEPT ![i] =
                    [state |-> command[i].state,
                     attempts |-> command[i].attempts + 1]]
      <4>1. /\ \A j \in Intents : command'[j].state = command[j].state
            /\ \A j \in Intents \ {i} : claimedAt'[j] = claimedAt[j]
            /\ claimedAt'[i] = at
        BY <2>i, <3>2 DEF TypeOK
      <4>2. UNCHANGED <<decisions, bound, approval, consumed, window>>
        BY <2>5 DEF Claim
      <4> QED
        BY <2>i, <3>2, <4>1, <4>2
           DEF Claimable, BackingInv, Claimed, PreSubmission, Earlier
    <3> QED
      BY <2>5, <3>1, <3>2 DEF Claim
  <2>7. ASSUME NEW answer \in CommandStates, RecordAnswer(w, answer)
        PROVE  BackingInv'
    BY <2>7, <2>m, BackingQuiet DEF RecordAnswer, Answers, PreSubmission
  <2>8. CASE ReconcileStep(w)
    BY Zenon, <2>8, <2>m, BackingQuiet DEF ReconcileStep, PreSubmission
  <2>9. CASE ApplyLookup(w)
    <3>1. worker[w].result.state \in AllowedTransitions(command[i].state)
            => worker[w].result.state \notin PreSubmission
      BY Zenon, LocalTypes
         DEF Results, PreSubmission, AllowedTransitions
    <3> QED
      BY Zenon, <2>9, <2>m, <3>1, BackingQuiet DEF ApplyLookup, CanMove
  <2>10. CASE FinishReconcile(w)
    BY <2>10, <2>m, BackingQuiet DEF FinishReconcile, PreSubmission
  <2> QED
    BY <1>1, <2>1, <2>2, <2>3, <2>4, <2>5, <2>7, <2>8, <2>9, <2>10 DEF Operator
<1>2. ASSUME NEW i \in Intents, Risk(i) PROVE BackingInv'
  <2>1. CASE SaveIntent(i)
    BY <2>1, BackingQuiet DEF SaveIntent
  <2>2. ASSUME NEW d \in Decisions,
               decisions' = [decisions EXCEPT ![i] = Append(@, d)]
        PROVE  \A j \in Intents : bound[j] \in 1 .. Len(decisions[j]) =>
                 /\ bound[j] \in 1 .. Len(decisions'[j])
                 /\ decisions'[j][bound[j]] = decisions[j][bound[j]]
    BY SMTT(30), <2>2 DEF TypeOK
  <2>3. ASSUME NEW accepted \in BOOLEAN, NEW fresh \in 0 .. EvidenceTTL,
               \/ RecordRiskDecision(i, accepted, fresh)
               \/ SaveRiskDecision(i, accepted, fresh)
        PROVE  BackingInv'
    <3>1. Decision(accepted, fresh) \in Decisions
      BY SubmissionAssumption DEF Decision, Decisions, TypeOK, Times, MaxDeadline
    <3>2. \A j \in Intents : bound[j] \in 1 .. Len(decisions[j]) =>
                 /\ bound[j] \in 1 .. Len(decisions'[j])
                 /\ decisions'[j][bound[j]] = decisions[j][bound[j]]
      BY <2>2, <2>3, <3>1 DEF RecordRiskDecision, SaveRiskDecision
    <3>3. CASE SaveRiskDecision(i, accepted, fresh)
      BY <3>2, <3>3 DEF SaveRiskDecision, BackingInv, Claimed, authVars, Earlier
    <3>4. CASE RecordRiskDecision(i, accepted, fresh)
      <4>1. ~consumed[i]
        BY <3>4 DEF RecordRiskDecision, BackingInv, PreSubmission
      <4>2. \A j \in Intents \ {i} : /\ bound'[j] = bound[j]
                                    /\ command'[j] = command[j]
        BY Zenon, <3>4, MoveEffect DEF RecordRiskDecision, TypeOK
      <4>3. UNCHANGED <<approval, consumed, window, claimedAt>>
        BY <3>4 DEF RecordRiskDecision
      <4> QED
        BY <3>2, <4>1, <4>2, <4>3 DEF BackingInv, Claimed, Earlier
    <3> QED
      BY <2>3, <3>3, <3>4
  <2> QED
    BY <1>2, <2>1, <2>3 DEF Risk
<1>3. CASE Tick \/ \E i \in Intents : Broker(i)
  BY <1>3, BackingQuiet
     DEF Tick, Broker, BrokerReceives, WireDrops, BrokerProgress, storeVars
<1> QED
  BY <1>0, <1>1, <1>2, <1>3 DEF Next

\* Every order that reached the transport was claimed inside the window of a
\* consumed approval of an accepted decision: SendBacked is an invariant.
THEOREM SendsAreBacked == Spec => []SendBacked
<1>1. Init => SendInv /\ BackingInv
  BY SMTT(30) DEF Init, SendInv, BackingInv, Claimed, At, Idle, Local, NoCommand
<1>2. TypeOK /\ SendInv /\ BackingInv => SendBacked
  BY SMTT(60) DEF TypeOK, SendInv, BackingInv, SendBacked, Claimed
<1> QED
  BY <1>1, <1>2, TypeCorrect, SendInvStep, BackingInvStep, PTL DEF Spec

------------------------------------------------------------------------------
\* The recorded outcome of a command is the one the broker reached.

OutcomeStates == {"filled", "rejected", "cancelled", "reconciled",
                  "acknowledged", "partially_filled"}

\* Steps that record no outcome, capture no lookup and leave the broker alone.
LEMMA OutcomeQuiet ==
  ASSUME TypeOK, OutcomeInv, UNCHANGED order,
         \A i \in Intents : command'[i].state \in OutcomeStates
           => command'[i].state = command[i].state,
         \A w \in Workers : worker'[w].pc \in {"apply", "finish"}
           => worker'[w] = worker[w]
  PROVE  OutcomeInv'
<1>1. RecordedOutcomeTrue'
  BY DEF OutcomeInv, RecordedOutcomeTrue, OutcomeStates
<1> QED
  BY <1>1 DEF OutcomeInv, At

\* The broker never leaves a terminal status, nor forgets an order.
LEMMA BrokerMonotone ==
  ASSUME TypeOK, NEW i \in Intents, Broker(i)
  PROVE  \A j \in Intents :
           /\ order[j] \in TerminalOrders => order'[j] = order[j]
           /\ order[j] \notin {"none", "refused"}
                => order'[j] \notin {"none", "refused"}
BY DEF Broker, BrokerReceives, WireDrops, BrokerProgress, OrderSteps,
       TerminalOrders, TypeOK, OrderStates

\* Every handler preserves OutcomeInv: recorded outcomes and lookups held in
\* memory stay consistent with the broker's order.
LEMMA OutcomeInvStep ==
  TypeOK /\ TypeOK' /\ OutcomeInv /\ [Next]_vars => OutcomeInv'
<1> SUFFICES ASSUME TypeOK, TypeOK', OutcomeInv, [Next]_vars PROVE OutcomeInv'
  OBVIOUS
<1>0. CASE UNCHANGED vars
  BY <1>0, OutcomeQuiet DEF vars, storeVars, brokerVars
<1>1. ASSUME NEW w \in Workers, Operator(w) PROVE OutcomeInv'
  <2> DEFINE i == worker[w].intent
             o == order[i]
             r == worker[w].result
  <2>i. i \in Intents
    BY LocalTypes
  \* Recording a state that agrees with the broker, with no lookup captured.
  <2>m. ASSUME NEW s, MoveTo(i, s), UNCHANGED order,
               s \in {"filled", "rejected", "cancelled"}
                 => o \in TerminalOrders /\ Status(o) = s,
               s = "reconciled" => o \in TerminalOrders,
               s \in {"acknowledged", "partially_filled"}
                 => o \notin {"none", "refused"},
               \A v \in Workers \ {w} : worker'[v] = worker[v],
               worker'[w].pc # "apply",
               worker'[w].pc = "finish" =>
                 worker'[w].intent = i /\ o \in TerminalOrders
        PROVE  OutcomeInv'
    <3>1. RecordedOutcomeTrue'
      BY SMTT(60), <2>m, <2>i, MoveEffect DEF OutcomeInv, RecordedOutcomeTrue
    <3> QED
      BY <2>m, <3>1 DEF OutcomeInv, At
  <2>1. ASSUME NEW j \in Intents,
               \/ BeginApprove(w, j) \/ BeginSubmit(w, j)
               \/ BeginSubmitPending(w, j) \/ BeginReconcile(w, j)
        PROVE  OutcomeInv'
    BY ZenonT(30), <2>1, LocalEffect, OutcomeQuiet
       DEF BeginApprove, BeginSubmit, BeginSubmitPending, BeginReconcile,
           storeVars, brokerVars
  \* Recording a state that is no outcome, or none, with no lookup captured.
  <2>q. ASSUME NEW s, s \notin OutcomeStates, UNCHANGED command \/ MoveTo(i, s),
               UNCHANGED order,
               \A v \in Workers \ {w} : worker'[v] = worker[v],
               worker'[w].pc \notin {"apply", "finish"}
        PROVE  OutcomeInv'
    <3>1. \A j \in Intents : command'[j].state \in OutcomeStates
            => command'[j].state = command[j].state
      BY <2>q, <2>i, MoveEffect
    <3> QED
      BY <2>q, <3>1, OutcomeQuiet
  <2>2. CASE Approve(w)
    <3>1. UNCHANGED order /\ Return(w)
      BY Zenon, <2>2 DEF Approve, brokerVars
    <3>2. UNCHANGED command \/ MoveTo(i, "approved")
      BY <2>2 DEF Approve
    <3>3. "approved" \notin OutcomeStates
      BY Zenon DEF OutcomeStates
    <3>4. worker'[w].pc = "idle" /\ \A v \in Workers \ {w} : worker'[v] = worker[v]
      BY Zenon, <3>1, LocalEffect
    <3> QED
      BY Zenon, <3>1, <3>2, <3>3, <3>4, <2>q
  <2>3. CASE Authorize(w)
    <3>1. UNCHANGED order
      BY Zenon, <2>3 DEF Authorize, brokerVars
    <3>2. UNCHANGED command \/ MoveTo(i, "submission_pending")
      BY <2>3 DEF Authorize
    <3>3. "submission_pending" \notin OutcomeStates
      BY Zenon DEF OutcomeStates
    <3>4. Return(w) \/ Goto(w, "claim", command'[i], NoResult)
      BY Zenon, <2>3 DEF Authorize
    <3>5. /\ worker'[w].pc \in {"idle", "claim"}
          /\ \A v \in Workers \ {w} : worker'[v] = worker[v]
      BY Zenon, <3>4, LocalEffect
    <3> QED
      BY Zenon, <3>1, <3>2, <3>3, <3>5, <2>q
  <2>4. CASE GateRefuses(w) \/ Crash(w) \/ Send(w)
    BY ZenonT(30), <2>4, LocalEffect, OutcomeQuiet
       DEF GateRefuses, Crash, Send, storeVars, brokerVars
  <2>5. CASE Claim(w)
    <3>1. \A j \in Intents : command'[j].state = command[j].state
      <4>1. CASE UNCHANGED command
        BY <4>1
      <4>c. command \in [Intents -> Commands]
        BY DEF TypeOK
      <4>2. CASE command' = [command EXCEPT ![i] =
                    [state |-> command[i].state,
                     attempts |-> command[i].attempts + 1]]
        BY <2>i, <4>c, <4>2
      <4> QED
        BY <2>5, <4>1, <4>2 DEF Claim
    <3> QED
      BY <2>5, <3>1, LocalEffect, OutcomeQuiet DEF Claim, brokerVars
  <2>7. ASSUME NEW answer \in CommandStates, RecordAnswer(w, answer)
        PROVE  OutcomeInv'
    <3>1. CASE UNCHANGED command
      BY ZenonT(30), <2>7, <3>1, LocalEffect, OutcomeQuiet
         DEF RecordAnswer, brokerVars
    <3>2. CASE MoveTo(i, answer)
      <4>1. /\ answer \in {"unknown", "rejected", "acknowledged"}
            /\ answer = "rejected" => o = "refused"
            /\ answer = "acknowledged" => o \notin {"none", "refused"}
        BY Zenon, <2>7
           DEF RecordAnswer, Answers
      <4>2. answer = "rejected" => o \in TerminalOrders /\ Status(o) = "rejected"
        BY Zenon, <4>1 DEF TerminalOrders, Status
      <4>3. /\ UNCHANGED order /\ worker'[w].pc = "idle"
            /\ \A v \in Workers \ {w} : worker'[v] = worker[v]
        BY ZenonT(30), <2>7, LocalEffect
           DEF RecordAnswer, brokerVars
      <4> QED
        BY Zenon, <3>2, <4>1, <4>2, <4>3, <2>m
    <3> QED
      BY Zenon, <2>7, <3>1, <3>2 DEF RecordAnswer
  <2>8. CASE ReconcileStep(w)
    <3>1. UNCHANGED order
      BY <2>8 DEF ReconcileStep, brokerVars
    <3>2. PICK s \in {"unknown", "reconciling"} : UNCHANGED command \/ MoveTo(i, s)
      BY <2>8 DEF ReconcileStep
    <3>3. s \notin OutcomeStates
      BY DEF OutcomeStates
    <3>4. \/ Return(w) \/ Goto(w, "lookup", NoCommand, NoResult)
          \/ Goto(w, "reconcile", command'[i], NoResult)
      BY <2>8 DEF ReconcileStep
    <3>5. /\ worker'[w].pc \in {"idle", "lookup", "reconcile"}
          /\ \A v \in Workers \ {w} : worker'[v] = worker[v]
      BY <3>4, LocalEffect
    <3> QED
      BY <3>1, <3>2, <3>3, <3>5, <2>q
  <2>9. CASE Lookup(w)
    <3>0. UNCHANGED <<command, order>>
      BY Zenon, <2>9 DEF Lookup, storeVars, brokerVars
    <3>1. CASE Return(w)
      BY Zenon, <3>0, <3>1, LocalEffect, OutcomeQuiet
    <3>2. ASSUME NEW q \in Lookups(i), Goto(w, "apply", NoCommand, q)
          PROVE  OutcomeInv'
      <4>1. o \in OrderStates
        BY Zenon, <2>i DEF TypeOK
      <4>2. /\ q.reconciled => o \in TerminalOrders
            /\ q.state \in {"filled", "rejected", "cancelled"}
                 => o \in TerminalOrders /\ Status(o) = q.state
            /\ q.state \in {"acknowledged", "partially_filled"}
                 => o \notin {"none", "refused"}
        <5>1. CASE o = "none"
          BY <5>1 DEF Lookups
        <5>2. CASE o # "none"
          <6>0. q = [state |-> Status(o), reconciled |-> o \in TerminalOrders]
            BY <3>2, <5>2, Zenon DEF Lookups
          <6>1. q.state = Status(o) /\ q.reconciled = (o \in TerminalOrders)
            BY <6>0, Zenon
          <6> QED
            BY ZenonT(60), <4>1, <6>1 DEF Status, OrderStates, TerminalOrders
        <5> QED
          BY <5>1, <5>2
      <4>3. /\ worker'[w].intent = i /\ worker'[w].result = q
            /\ worker'[w].pc = "apply"
            /\ \A v \in Workers \ {w} : worker'[v] = worker[v]
        BY ZenonT(30), <3>2, LocalEffect
      <4>4. RecordedOutcomeTrue'
        BY <3>0 DEF OutcomeInv, RecordedOutcomeTrue
      <4> QED
        BY <3>0, <4>2, <4>3, <4>4 DEF OutcomeInv, At
    <3> QED
      BY <2>9, <3>1, <3>2 DEF Lookup
  <2>10. CASE ApplyLookup(w)
    <3>0. UNCHANGED order
      BY Zenon, <2>10 DEF ApplyLookup, brokerVars
    <3>1. /\ r.reconciled => o \in TerminalOrders
          /\ r.state \in {"filled", "rejected", "cancelled"}
               => o \in TerminalOrders /\ Status(o) = r.state
          /\ r.state \in {"acknowledged", "partially_filled"}
               => o \notin {"none", "refused"}
          /\ r.state # "reconciled"
      <4>1. At(w, "apply")
        BY Zenon, <2>10 DEF ApplyLookup
      <4>2. r \in Results
        BY Zenon, LocalTypes
      <4>3. r.state # "reconciled"
        BY <4>2 DEF Results
      <4> QED
        BY Zenon, <4>1, <4>3 DEF OutcomeInv
    <3>2. CASE Return(w) /\ UNCHANGED command
      BY Zenon, <3>0, <3>2, LocalEffect, OutcomeQuiet
    <3>3. CASE MoveTo(i, r.state) /\ Return(w)
      <4>1. worker'[w].pc = "idle" /\ \A v \in Workers \ {w} : worker'[v] = worker[v]
        BY Zenon, <3>3, LocalEffect
      <4> QED
        BY Zenon, <3>0, <3>1, <3>3, <4>1, <2>m
    <3>4. CASE /\ MoveTo(i, r.state) /\ r.reconciled
               /\ Goto(w, "finish", NoCommand, NoResult)
      <4>1. /\ worker'[w].pc = "finish" /\ worker'[w].intent = i
            /\ \A v \in Workers \ {w} : worker'[v] = worker[v]
        BY <3>4, LocalEffect
      <4> QED
        BY Zenon, <3>0, <3>1, <3>4, <4>1, <2>m
    <3> QED
      BY <2>10, <3>2, <3>3, <3>4 DEF ApplyLookup
  <2>11. CASE FinishReconcile(w)
    <3>1. o \in TerminalOrders
      BY <2>11 DEF FinishReconcile, OutcomeInv
    <3>2. UNCHANGED order /\ Return(w)
      BY <2>11 DEF FinishReconcile, brokerVars
    <3>5. worker'[w].pc = "idle" /\ \A v \in Workers \ {w} : worker'[v] = worker[v]
      BY <3>2, LocalEffect
    <3>3. CASE UNCHANGED command
      BY <3>2, <3>3, <3>5, OutcomeQuiet
    <3>4. CASE MoveTo(i, "reconciled")
      BY Zenon, <3>1, <3>2, <3>4, <3>5, <2>m
    <3> QED
      BY Zenon, <2>11, <3>3, <3>4 DEF FinishReconcile
  <2> QED
    BY <1>1, <2>1, <2>2, <2>3, <2>4, <2>5, <2>7, <2>8, <2>9, <2>10, <2>11
       DEF Operator
<1>2. ASSUME NEW i \in Intents, Risk(i) PROVE OutcomeInv'
  BY ZenonT(30), <1>2, MoveEffect, OutcomeQuiet
     DEF Risk, SaveIntent, RecordRiskDecision, SaveRiskDecision, OutcomeStates,
         brokerVars
<1>3. ASSUME NEW i \in Intents, Broker(i) PROVE OutcomeInv'
  <2>1. UNCHANGED <<command, worker>>
    BY <1>3 DEF Broker, BrokerReceives, WireDrops, BrokerProgress, storeVars
  <2>2. RecordedOutcomeTrue'
    BY <1>3, <2>1, BrokerMonotone DEF OutcomeInv, RecordedOutcomeTrue
  <2> QED
    BY <1>3, <2>1, <2>2, BrokerMonotone, LocalTypes DEF OutcomeInv, At
<1>4. CASE Tick
  BY <1>4, OutcomeQuiet DEF Tick, storeVars, brokerVars
<1> QED
  BY <1>0, <1>1, <1>2, <1>3, <1>4 DEF Next

\* A late sender and any number of reconcilers with stale lookups never record
\* an outcome the broker did not reach: RecordedOutcomeTrue is an invariant.
THEOREM OutcomeIsTrue == Spec => []RecordedOutcomeTrue
<1>1. Init => OutcomeInv
  BY SMTT(60) DEF Init, OutcomeInv, RecordedOutcomeTrue, At, Idle, Local, NoCommand
<1>2. OutcomeInv => RecordedOutcomeTrue
  BY ZenonT(30) DEF OutcomeInv
<1> QED
  BY <1>1, <1>2, TypeCorrect, OutcomeInvStep, PTL DEF Spec

------------------------------------------------------------------------------
\* The protocol implements SendOnce.

\* A binding never runs ahead of the recorded decisions.
BoundInv == \A i \in Intents : bound[i] <= Len(decisions[i])

\* The decision bound to an intent is always one that was recorded.
LEMMA BoundInvStep == TypeOK /\ BoundInv /\ [Next]_vars => BoundInv'
<1> SUFFICES ASSUME TypeOK, BoundInv, [Next]_vars PROVE BoundInv'
  OBVIOUS
<1>1. CASE UNCHANGED <<bound, decisions>>
  BY <1>1 DEF BoundInv
<1>2. ASSUME NEW i \in Intents, NEW accepted \in BOOLEAN,
             NEW fresh \in 0 .. EvidenceTTL,
             \/ RecordRiskDecision(i, accepted, fresh)
             \/ SaveRiskDecision(i, accepted, fresh)
      PROVE  BoundInv'
  <2>1. /\ Len(decisions'[i]) = Len(decisions[i]) + 1
        /\ \A j \in Intents \ {i} : decisions'[j] = decisions[j]
    BY <1>2 DEF RecordRiskDecision, SaveRiskDecision, TypeOK
  <2>2. CASE RecordRiskDecision(i, accepted, fresh)
    BY <2>1, <2>2 DEF RecordRiskDecision, BoundInv, TypeOK
  <2>3. CASE SaveRiskDecision(i, accepted, fresh)
    <3>1. UNCHANGED bound
      BY <2>3 DEF SaveRiskDecision, authVars
    <3>2. bound[i] \in Nat /\ Len(decisions[i]) \in Nat
      BY DEF TypeOK
    <3>3. bound'[i] <= Len(decisions'[i])
      BY <2>1, <3>1, <3>2 DEF BoundInv
    <3> QED
      BY <2>1, <3>1, <3>3 DEF BoundInv
  <2> QED
    BY <1>2, <2>2, <2>3
<1>3. CASE UNCHANGED vars \/ Tick \/ (\E i \in Intents : Broker(i) \/ SaveIntent(i))
  BY Zenon, <1>1, <1>3 DEF vars, Tick, Broker, BrokerReceives, WireDrops,
     BrokerProgress, SaveIntent, storeVars, authVars
<1>4. ASSUME NEW w \in Workers, Operator(w) PROVE BoundInv'
  BY ZenonT(30), <1>1, <1>4
     DEF Operator, BeginApprove, BeginSubmit, BeginSubmitPending, BeginReconcile,
         Approve, Authorize, GateRefuses, Claim, Send, RecordAnswer,
         ReconcileStep, Lookup, ApplyLookup, FinishReconcile, Crash,
         storeVars, authVars
<1> QED
  BY <1>2, <1>3, <1>4 DEF Next, Risk

IInv == TypeOK /\ SendInv /\ OutcomeInv /\ BoundInv

\* The steps SendOnce allows the phase of one intent.
PhaseMoves(from, to) ==
  \/ to = from
  \/ from = "open" /\ to \in {"claimed", "forfeited"}
  \/ from = "claimed" /\ to = "sent"
  \/ from = "sent" /\ to = "resolved"

\* A step that changes neither a row's state, its claim nor its sends leaves
\* its abstract phase alone.
LEMMA PhaseQuiet ==
  ASSUME NEW j \in Intents, command'[j].state = command[j].state,
         sends'[j] = sends[j], claimedAt'[j] = claimedAt[j],
         bound'[j] = bound[j], decisions'[j] = decisions[j]
  PROVE  SendPhase(j)' = SendPhase(j)
BY DEF SendPhase, Claimed, Superseded

\* What a transition of a submitted row does to its phase.
Settled == {"acknowledged", "rejected", "unknown", "reconciling",
            "partially_filled", "filled", "cancelled", "cancel_pending"}

\* A transition of a row outside the claim maps to an abstract step or a
\* stutter.
LEMMA PhaseMove ==
  ASSUME IInv, NEW i \in Intents, NEW s \in CommandStates,
         CanMove(i, s), MoveTo(i, s),
         s \in Settled \/ (s = "reconciled" /\ order[i] \in TerminalOrders),
         UNCHANGED <<sends, claimedAt, bound, decisions>>
  PROVE  \A j \in Intents : PhaseMoves(SendPhase(j), SendPhase(j)')
<1>1. ASSUME NEW j \in Intents, j # i PROVE SendPhase(j)' = SendPhase(j)
  BY <1>1, MoveEffect, PhaseQuiet DEF IInv
<1>2. command'[i].state = s
  BY MoveEffect DEF IInv
<1>3. command[i].state # "reconciled"
  BY DEF CanMove, AllowedTransitions
<1>4. sends[i] \in 0 .. 1 /\ (sends[i] = 1 => Claimed(i))
  BY SMTT(30) DEF IInv, SendInv
<1>5. s = "reconciled" => sends[i] = 1
  BY DEF IInv, SendInv, TerminalOrders, Settled
<1>6. PhaseMoves(SendPhase(i), SendPhase(i)')
  <2>1. CASE s = "reconciled"
    <3>1. SendPhase(i) = "sent"
      BY <2>1, <1>3, <1>5 DEF SendPhase
    <3>2. SendPhase(i)' = "resolved"
      BY <2>1, <1>2 DEF SendPhase
    <3> QED
      BY <3>1, <3>2 DEF PhaseMoves
  <2>2. CASE s \in Settled
    <3>1. CASE sends[i] = 1
      BY <3>1, <2>2, <1>2, <1>3 DEF SendPhase, PhaseMoves, Settled
    <3>2. CASE sends[i] = 0 /\ Claimed(i)
      BY <3>2, <2>2, <1>2, <1>3 DEF SendPhase, PhaseMoves, Settled, Claimed
    <3>3. CASE sends[i] = 0 /\ ~Claimed(i)
      <4>1. SendPhase(i)' = "forfeited"
        BY <3>3, <2>2, <1>2 DEF SendPhase, Settled, Claimed
      <4>2. SendPhase(i) \in {"open", "forfeited"}
        BY <3>3, <1>3 DEF SendPhase
      <4> QED
        BY <4>1, <4>2 DEF PhaseMoves
    <3> QED
      BY SMTT(60), <3>1, <3>2, <3>3, <1>4
  <2> QED
    BY <2>1, <2>2
<1> QED
  BY <1>1, <1>6 DEF PhaseMoves

\* A step of the whole system: one intent moves legally, the others rest.
PhaseStep ==
  /\ \A j \in Intents : PhaseMoves(SendPhase(j), SendPhase(j)')
  /\ \E i \in Intents : \A j \in Intents \ {i} : SendPhase(j)' = SendPhase(j)

\* A change of one intent's phase along PhaseMoves is an abstract step.
LEMMA PhaseStepBy ==
  ASSUME NEW i \in Intents, PhaseMoves(SendPhase(i), SendPhase(i)'),
         \A j \in Intents \ {i} : SendPhase(j)' = SendPhase(j)
  PROVE  PhaseStep
BY DEF PhaseStep, PhaseMoves

\* Every step of the protocol is a step of SendOnce or leaves the phases alone.
LEMMA RefinementStep ==
  IInv /\ IInv' /\ [Next]_vars
    => [Abstract!Next]_([i \in Intents |-> SendPhase(i)])
<1> SUFFICES ASSUME IInv, IInv', [Next]_vars
             PROVE  [Abstract!Next]_([i \in Intents |-> SendPhase(i)])
  OBVIOUS
<1>t. TypeOK /\ TypeOK'
  BY DEF IInv
<1>q. ASSUME UNCHANGED <<command, sends, claimedAt, bound, decisions>>
      PROVE  \A j \in Intents : SendPhase(j)' = SendPhase(j)
  BY <1>q, PhaseQuiet
<1>m. ASSUME NEW i \in Intents, NEW s \in CommandStates,
             CanMove(i, s), MoveTo(i, s),
             s \in Settled \/ (s = "reconciled" /\ order[i] \in TerminalOrders),
             UNCHANGED <<sends, claimedAt, bound, decisions>>
      PROVE  PhaseStep
  <2>1. \A j \in Intents \ {i} : SendPhase(j)' = SendPhase(j)
    BY <1>m, <1>t, MoveEffect, PhaseQuiet
  <2> QED
    BY <1>m, <2>1, PhaseMove, PhaseStepBy
<1>u. (\A j \in Intents : SendPhase(j)' = SendPhase(j)) => PhaseStep
  BY SubmissionAssumption DEF PhaseMoves, PhaseStep
<1>1. ASSUME NEW w \in Workers, Operator(w) PROVE PhaseStep
  <2>i. PICK i \in Intents : i = worker[w].intent
    BY <1>t, LocalTypes
  <2>s. sends[i] \in 0 .. 1 /\ (~Claimed(i) => sends[i] = 0)
    BY Zenon, <2>i DEF IInv, SendInv
  <2>1. CASE \/ GateRefuses(w) \/ Crash(w) \/ Lookup(w)
             \/ \E j \in Intents : \/ BeginApprove(w, j) \/ BeginSubmit(w, j)
                                   \/ BeginSubmitPending(w, j)
                                   \/ BeginReconcile(w, j)
    BY ZenonT(30), <2>1, <1>q, <1>u
       DEF GateRefuses, Crash, Lookup, BeginApprove, BeginSubmit,
           BeginSubmitPending, BeginReconcile, storeVars, authVars, brokerVars
  \* A row that moves between states of an open submission stays open.
  <2>2. ASSUME NEW s \in {"approved", "submission_pending"}, MoveTo(i, s),
               command[i].state \in {"awaiting_approval", "approved"},
               bound[i] = Len(decisions[i]),
               UNCHANGED <<sends, claimedAt, bound, decisions>>
        PROVE  PhaseStep
    <3>1. \A j \in Intents \ {i} : SendPhase(j)' = SendPhase(j)
      BY Zenon, <2>2, <2>i, <1>t, MoveEffect, PhaseQuiet
    <3>2. command'[i].state = s
      BY <2>2, <2>i, <1>t, MoveEffect
    <3>3. SendPhase(i)' = SendPhase(i)
      BY Zenon, <2>2, <2>s, <3>2 DEF SendPhase, Claimed, Superseded
    <3> QED
      BY Zenon, <1>u, <3>1, <3>3
  <2>3. CASE Approve(w)
    BY ZenonT(30), <2>i, <2>2, <2>3, <1>q, <1>u DEF Approve, BoundRisk, brokerVars
  <2>4. CASE Authorize(w)
    BY ZenonT(30), <2>i, <2>2, <2>4, <1>q, <1>u
       DEF Authorize, BoundRisk, brokerVars
  <2>5. CASE Claim(w)
    <3>1. UNCHANGED <<sends, bound, decisions>>
      BY <2>5 DEF Claim, brokerVars
    <3>2. CASE UNCHANGED <<claimedAt, command>>
      BY <3>1, <3>2, <1>q, <1>u
    <3>3. CASE /\ command[i].state = "submission_pending"
               /\ Claimable(i, worker[w].at)
               /\ claimedAt' = [claimedAt EXCEPT ![i] = worker[w].at]
               /\ command' = [command EXCEPT ![i] =
                    [state |-> command[i].state,
                     attempts |-> command[i].attempts + 1]]
      <4>1. /\ \A j \in Intents : command'[j].state = command[j].state
            /\ \A j \in Intents \ {i} : claimedAt'[j] = claimedAt[j]
            /\ claimedAt'[i] # NoTime
        <5>1. worker[w].at # NoTime
          BY SMTT(30), <1>t, LocalTypes, SubmissionAssumption DEF Times, NoTime
        <5>2. \A j \in Intents : command'[j].state = command[j].state
          BY ZenonT(30), <3>3, <1>t DEF TypeOK
        <5> QED
          BY Zenon, <3>3, <5>1, <5>2, <1>t
             DEF TypeOK
      <4>2. \A j \in Intents \ {i} : SendPhase(j)' = SendPhase(j)
        BY ZenonT(30), <3>1, <4>1, PhaseQuiet
      <4>3. ~Claimed(i) /\ bound[i] = Len(decisions[i])
        BY <3>3 DEF Claimable, Claimed, BoundRisk
      <4>4. SendPhase(i) = "open"
        BY <2>s, <3>3, <4>3 DEF SendPhase, Superseded
      <4>5. SendPhase(i)' = "claimed"
        BY <2>i, <2>s, <3>1, <3>3, <4>1, <4>3 DEF SendPhase, Claimed
      <4> QED
        BY Zenon, <4>2, <4>4, <4>5, PhaseStepBy DEF PhaseMoves
    <3> QED
      BY <2>5, <2>i, <3>2, <3>3 DEF Claim
  <2>6. CASE Send(w)
    <3>1. Claimed(i) /\ sends[i] = 0
      BY ZenonT(30), <2>6, <2>i DEF Send, IInv, SendInv
    <3>2. command[i].state # "reconciled"
      BY ZenonT(30), <2>i, <3>1
         DEF IInv, SendInv, OutcomeInv, RecordedOutcomeTrue, TerminalOrders
    <3>3. /\ sends'[i] = 1
          /\ \A j \in Intents \ {i} : sends'[j] = sends[j]
          /\ UNCHANGED <<command, claimedAt, bound, decisions>>
      BY <2>6, <2>i, <3>1, <1>t DEF Send, TypeOK, storeVars, authVars
    <3>4. \A j \in Intents \ {i} : SendPhase(j)' = SendPhase(j)
      BY <3>3, PhaseQuiet
    <3>5. SendPhase(i) = "claimed" /\ SendPhase(i)' = "sent"
      BY <3>1, <3>2, <3>3 DEF SendPhase
    <3> QED
      BY Zenon, <3>4, <3>5, PhaseStepBy DEF PhaseMoves
  <2>7. ASSUME NEW answer \in CommandStates, RecordAnswer(w, answer)
        PROVE  PhaseStep
    BY <2>7, <2>i, <1>m, <1>q, <1>u
       DEF RecordAnswer, Answers, Settled, authVars, brokerVars
  <2>8. CASE ReconcileStep(w)
    BY Zenon, <2>8, <2>i, <1>m, <1>q, <1>u
       DEF ReconcileStep, Settled, CommandStates, authVars, brokerVars
  <2>9. CASE ApplyLookup(w)
    <3>1. CanMove(i, worker[w].result.state) =>
            worker[w].result.state \in Settled \cap CommandStates
      BY ZenonT(30), <1>t, <2>i, LocalTypes
         DEF CanMove, AllowedTransitions, Results, Settled,
                              CommandStates
    <3> QED
      BY ZenonT(30), <2>9, <2>i, <3>1, <1>m, <1>q, <1>u
         DEF ApplyLookup, authVars, brokerVars
  <2>10. CASE FinishReconcile(w)
    <3>1. order[i] \in TerminalOrders
      BY Zenon, <2>10, <2>i
         DEF FinishReconcile, IInv, OutcomeInv
    <3> QED
      BY Zenon, <2>10, <2>i, <3>1, <1>m, <1>q, <1>u
         DEF FinishReconcile, CommandStates, authVars, brokerVars
  <2> QED
    BY <1>1, <2>1, <2>3, <2>4, <2>5, <2>6, <2>7, <2>8, <2>9, <2>10 DEF Operator
<1>2. ASSUME NEW i \in Intents, Risk(i) PROVE PhaseStep
  <2>1. CASE SaveIntent(i)
    BY <2>1, <1>q, <1>u DEF SaveIntent, authVars, brokerVars
  <2>2. ASSUME NEW accepted \in BOOLEAN, NEW fresh \in 0 .. EvidenceTTL,
               \/ RecordRiskDecision(i, accepted, fresh)
               \/ SaveRiskDecision(i, accepted, fresh)
        PROVE  PhaseStep
    <3>1. /\ UNCHANGED <<sends, claimedAt>>
          /\ Len(decisions'[i]) = Len(decisions[i]) + 1
          /\ \A j \in Intents \ {i} : decisions'[j] = decisions[j]
      BY <2>2, <1>t DEF RecordRiskDecision, SaveRiskDecision, TypeOK, authVars, brokerVars
    <3>2. \A j \in Intents \ {i} : command'[j] = command[j] /\ bound'[j] = bound[j]
      BY ZenonT(60), <2>2, <1>t, MoveEffect
         DEF RecordRiskDecision, SaveRiskDecision, TypeOK, authVars
    <3>3. \A j \in Intents \ {i} : SendPhase(j)' = SendPhase(j)
      BY Zenon, <3>1, <3>2, PhaseQuiet
    <3>4. sends[i] \in 0 .. 1 /\ (~Claimed(i) => sends[i] = 0)
      BY DEF IInv, SendInv
    <3>5. CASE SaveRiskDecision(i, accepted, fresh)
      <4>1. UNCHANGED <<command, bound>>
        BY <3>5 DEF SaveRiskDecision, authVars
      <4>2. bound[i] \in Nat /\ Len(decisions[i]) \in Nat
        BY <1>t DEF TypeOK
      <4>3. bound[i] <= Len(decisions[i])
        BY DEF IInv, BoundInv
      <4>4. Superseded(i)'
        BY <3>1, <4>1, <4>2, <4>3 DEF Superseded
      <4>5. PhaseMoves(SendPhase(i), SendPhase(i)')
        BY SMTT(30), <3>1, <4>1, <4>4 DEF SendPhase, Claimed, PhaseMoves
      <4> QED
        BY <3>3, <4>5, PhaseStepBy
    <3>6. CASE RecordRiskDecision(i, accepted, fresh)
      <4>1. /\ command[i].state = "none"
            /\ command'[i].state \in {"awaiting_approval", "risk_rejected"}
            /\ bound'[i] = Len(decisions'[i])
        BY Zenon, <3>6, <3>1, <1>t, MoveEffect DEF RecordRiskDecision, TypeOK
      <4>2. PhaseMoves(SendPhase(i), SendPhase(i)')
        BY <3>1, <3>4, <4>1 DEF SendPhase, Claimed, Superseded, PhaseMoves
      <4> QED
        BY <3>3, <4>2, PhaseStepBy
    <3> QED
      BY Zenon, <2>2, <3>5, <3>6
  <2> QED
    BY <1>2, <2>1, <2>2 DEF Risk
<1>3. ASSUME UNCHANGED vars \/ Tick \/ \E i \in Intents : Broker(i)
      PROVE  PhaseStep
  BY <1>3, <1>q, <1>u DEF vars, Tick, Broker, BrokerReceives, WireDrops,
     BrokerProgress, storeVars, authVars, brokerVars
<1>4. PhaseStep
  BY <1>1, <1>2, <1>3 DEF Next
<1>5. PICK i \in Intents : \A j \in Intents \ {i} : SendPhase(j)' = SendPhase(j)
  BY <1>4 DEF PhaseStep
<1>6. PhaseMoves(SendPhase(i), SendPhase(i)')
  BY <1>4 DEF PhaseStep
<1> DEFINE ph == [j \in Intents |-> SendPhase(j)]
           php == [j \in Intents |-> SendPhase(j)']
<1>7. php = [ph EXCEPT ![i] = SendPhase(i)']
  BY ZenonT(60), <1>5
<1>8. CASE SendPhase(i)' = SendPhase(i)
  <2>1. php = ph
    BY <1>5, <1>8
  <2> QED
    BY <2>1
<1>9. CASE SendPhase(i)' # SendPhase(i)
  <2>1. ph[i] = SendPhase(i)
    OBVIOUS
  <2> QED
    BY ZenonT(60), <1>6, <1>7, <1>9, <2>1
       DEF PhaseMoves, Abstract!Next, Abstract!Claim, Abstract!Forfeit,
           Abstract!Send, Abstract!Resolve, Abstract!Step
<1> QED
  BY <1>8, <1>9

\* Every behaviour of the store, the coordinator and the broker is one of
\* SendOnce: claimed once, sent at most once, never after being forfeited.
THEOREM SubmissionImplementsSendOnce == Spec => ImplementsSendOnce
<1>1. Init => SendInv /\ OutcomeInv /\ BoundInv
  <2> SUFFICES ASSUME Init PROVE SendInv /\ OutcomeInv /\ BoundInv
    OBVIOUS
  <2>1. SendInv
    BY DEF Init, SendInv, Claimed, At, Idle, Local, NoCommand
  <2>2. OutcomeInv
    BY DEF Init, OutcomeInv, RecordedOutcomeTrue, At, Idle, Local, NoCommand
  <2>3. BoundInv
    BY DEF Init, BoundInv
  <2> QED
    BY Zenon, <2>1, <2>2, <2>3
<1>2. Init => Abstract!Init
  <2> SUFFICES ASSUME Init PROVE \A i \in Intents : SendPhase(i) = "open"
    BY DEF Abstract!Init
  <2> QED
    BY DEF Init, SendPhase, Claimed, NoCommand
<1> QED
  BY <1>1, <1>2, TypeCorrect, SendInvStep, OutcomeInvStep, BoundInvStep,
     RefinementStep, PTL DEF Spec, IInv, ImplementsSendOnce, Abstract!Spec
==============================================================================
