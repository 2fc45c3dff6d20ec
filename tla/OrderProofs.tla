---------------------------- MODULE OrderProofs -----------------------------
(***************************************************************************)
(* Safety of an order around its request: the recovery that looks it up    *)
(* and stages its executions after it (OperatorRecovery), the kill switch  *)
(* that may forbid it (KillSwitch), and the clocks of its evidence and     *)
(* authority before it (OrderEvidence).                                    *)
(*                                                                         *)
(* The recovery, for any number of commands, operator processes,           *)
(* executions and kills. The lock file leaves at most one process away     *)
(* from idle (LockInv), so what that process has read of the command, of   *)
(* the ledger and of the staging CSV is still true when it writes (Holds). *)
(* Only the broker moves meanwhile, and its executions only grow until the *)
(* order ends, after which it does not move (LedgerInv).                   *)
(*                                                                         *)
(* The switch, for any number of callers and events. StatusIsConsistent is *)
(* not inductive: what a status() will answer depends on the state it has  *)
(* read and on the audit it has yet to read. ReadInv adds that a state     *)
(* file which still agrees with the audit was in force when it was read.   *)
(* It survives an append because no head points beyond the audit (TypeOK), *)
(* so that an append makes every earlier read disagree.                    *)
(*                                                                         *)
(* The clocks, for every choice of limits that are durations, of lags and  *)
(* of horizon. An authorization ends with the earliest of what it rests on *)
(* (BoundInv), nothing it rests on is read again once it is given          *)
(* (LateStep), no step after it is reached without it (PhaseInv), and the  *)
(* claim and the hook look at its end (DispatchInv). So the checks at      *)
(* submission need not be repeated, however long the identity read takes.  *)
(***************************************************************************)
EXTENDS OperatorRecovery, KillSwitch, OrderEvidence, TLAPS

\* What the variables of the recovery hold.

OrderStates ==
    {"none", "acknowledged", "partially_filled", "filled", "rejected", "cancelled"}

Jobs ==
    [pc : {"idle", "lookup", "observe", "transition", "settle", "stage_read",
           "stage_write", "release"},
     command : Commands \cup {"none"},
     from : CommandStates \cup {"none"},
     result : [state : OrderStates \cup {"unknown"}, count : Nat],
     rows : SUBSET (Commands \X Nat)]

RecoveryTypes ==
    /\ order \in [Commands -> [state : OrderStates, count : Nat]]
    /\ command \in [Commands -> CommandStates]
    /\ evidence \in [Commands -> [count : Nat,
                                  terminal : TerminalLookupStates \cup {"none"}]]
    /\ staged \in SUBSET (Commands \X Nat)
    /\ lock \in Operators \cup {"free"}
    /\ proc \in [Operators -> Jobs]
    /\ crashes \in Nat

\* Whoever is at work has the lock.
LockInv == \A p \in Operators : proc[p].pc # "idle" => lock = p

\* The ledger reports no more than the order has, and its end only as it is.
LedgerInv ==
    \A c \in Commands :
        /\ evidence[c].count <= order[c].count
        /\ evidence[c].terminal # "none" =>
             /\ evidence[c].terminal = order[c].state
             /\ evidence[c].count = order[c].count

\* A command's end is the one the ledger has for its order.
CommandInv ==
    \A c \in Commands :
        /\ command[c] \in TerminalLookupStates => evidence[c].terminal = command[c]
        /\ command[c] = "reconciled" => evidence[c].terminal # "none"

\* The rows are executions that the ledger reports.
Reported(rows) == \A e \in rows : e[2] <= evidence[e[1]].count

\* What an answer says of its order stays true.
AnswerTrue(c, result) ==
    /\ result.state # "none"
    /\ result.count <= order[c].count
    /\ result.state \in TerminalLookupStates =>
         result.state = order[c].state /\ result.count = order[c].count

\* The answer is in the ledger.
AnswerSaved(c, result) ==
    /\ result.state # "none"
    /\ evidence[c].count = result.count
    /\ result.state \in TerminalLookupStates => evidence[c].terminal = result.state

\* What a process knows, by the step it is at.
Holds(p) ==
    /\ proc[p].pc \in {"lookup", "observe", "transition", "settle", "stage_read"}
         => proc[p].command \in Commands
    /\ proc[p].pc = "observe" =>
         /\ AnswerTrue(proc[p].command, proc[p].result)
         /\ proc[p].from = command[proc[p].command]
         /\ proc[p].from \in Reconcilable
    /\ proc[p].pc \in {"transition", "settle", "stage_read"} =>
         AnswerSaved(proc[p].command, proc[p].result)
    /\ proc[p].pc = "transition" =>
         command[proc[p].command] \in InFlightStates \cup {"unknown", "reconciling"}
    /\ proc[p].pc = "settle" => proc[p].result.state \in TerminalLookupStates
    /\ proc[p].pc = "stage_write" => staged \subseteq proc[p].rows /\ Reported(proc[p].rows)

\* The inductive invariant of the recovery.
Inv ==
    /\ RecoveryTypes /\ LockInv /\ LedgerInv /\ CommandInv /\ Reported(staged)
    /\ \A p \in Operators : Holds(p)

-----------------------------------------------------------------------------
\* Only one process is away from idle (the lock file of reconcile).
LEMMA Alone ==
    ASSUME RecoveryTypes, LockInv, NEW p \in Operators, proc[p].pc # "idle",
           NEW q \in Operators, q # p
    PROVE  proc[q].pc = "idle"
BY DEF LockInv

\* A process that is idle knows nothing.
LEMMA IdleHolds ==
    ASSUME NEW p \in Operators, proc[p].pc = "idle"
    PROVE  Holds(p)
BY DEF Holds

\* The bootstrap of the operation satisfies the invariant.
LEMMA InitInv == Init => Inv
<1> SUFFICES ASSUME Init PROVE Inv
  OBVIOUS
<1>1. RecoveryTypes
  BY DEF Init, RecoveryTypes, OrderStates, CommandStates, TerminalLookupStates, Jobs, Job, Idle,
         NoAnswer
<1>2. LockInv
  BY DEF Init, LockInv, Idle, Job
<1>3. LedgerInv
  BY DEF Init, LedgerInv
<1>4. CommandInv
  BY DEF Init, CommandInv, TerminalLookupStates
<1>5. Reported(staged)
  BY DEF Init, Reported
<1>6. \A p \in Operators : Holds(p)
  BY IdleHolds DEF Init, Idle, Job
<1> QED
  BY <1>1, <1>2, <1>3, <1>4, <1>5, <1>6 DEF Inv

-----------------------------------------------------------------------------
\* The broker's step leaves every answer and every ledger entry true: an order
\* that has ended does not move, and executions are only added.
LEMMA BrokerInv ==
    ASSUME Inv, NEW c \in Commands, BrokerStep(c)
    PROVE  Inv'
<1> USE DEF Inv
<1>1. PICK s \in BrokerNext(order[c].state) :
        LET k == order[c].count + IF s \in FilledLookupStates THEN 1 ELSE 0
        IN  k <= MaxFills /\ order' = [order EXCEPT ![c] = [state |-> s, count |-> k]]
  BY Zenon DEF BrokerStep
<1>2. UNCHANGED <<command, evidence, staged, lock, proc, crashes>>
  BY DEF BrokerStep
<1>3. order[c].state \notin TerminalLookupStates /\ s \in OrderStates
  BY <1>1 DEF BrokerNext, TerminalLookupStates, OrderStates, RecoveryTypes
<1>4. order[c].count \in Nat /\ order[c].count <= order'[c].count
      /\ order' \in [Commands -> [state : OrderStates, count : Nat]]
  BY <1>1, <1>3 DEF RecoveryTypes
<1>5. \A d \in Commands : d # c => order'[d] = order[d]
  BY <1>1 DEF RecoveryTypes
<1>6. RecoveryTypes'
  BY <1>2, <1>4 DEF RecoveryTypes
<1>7. LockInv' /\ CommandInv' /\ Reported(staged)'
  BY <1>2 DEF LockInv, CommandInv, Reported
<1>8. LedgerInv'
  <2> SUFFICES ASSUME NEW d \in Commands
               PROVE  /\ evidence[d].count <= order'[d].count
                      /\ evidence[d].terminal # "none" =>
                           /\ evidence[d].terminal = order'[d].state
                           /\ evidence[d].count = order'[d].count
    BY <1>2 DEF LedgerInv
  <2>1. CASE d = c
    BY <2>1, <1>3, <1>4 DEF LedgerInv, RecoveryTypes
  <2>2. CASE d # c
    BY <2>2, <1>5 DEF LedgerInv
  <2> QED
    BY <2>1, <2>2
<1>9. ASSUME NEW p \in Operators PROVE Holds(p)'
  <2>1. Holds(p)
    OBVIOUS
  <2>2. ASSUME proc[p].pc = "observe"
        PROVE  AnswerTrue(proc[p].command, proc[p].result)'
    <3>1. proc[p].command \in Commands /\ AnswerTrue(proc[p].command, proc[p].result)
      BY <2>1, <2>2 DEF Holds
    <3>2. proc[p].result.count \in Nat
      BY DEF RecoveryTypes, Jobs
    <3>3. CASE proc[p].command = c
      BY <3>1, <3>2, <3>3, <1>2, <1>3, <1>4 DEF AnswerTrue
    <3>4. CASE proc[p].command # c
      BY <3>1, <3>4, <1>2, <1>5 DEF AnswerTrue
    <3> QED
      BY <3>3, <3>4
  <2> QED
    BY ZenonT(30), <2>1, <2>2, <1>2 DEF Holds, AnswerSaved, Reported
<1> QED
  BY <1>6, <1>7, <1>8, <1>9

-----------------------------------------------------------------------------
\* While one process works the others are idle, so its step cannot falsify
\* what they know, nor the ownership of the lock.
LEMMA Quiet ==
    ASSUME Inv, NEW p \in Operators, proc[p].pc # "idle",
           \A q \in Operators : q # p => proc'[q] = proc[q]
    PROVE  /\ \A q \in Operators : q # p => Holds(q)'
           /\ lock' = lock => LockInv'
<1>1. \A q \in Operators : q # p => proc'[q].pc = "idle"
  BY Alone DEF Inv
<1>2. \A q \in Operators : q # p => Holds(q)'
  BY <1>1 DEF Holds
<1>3. lock' = lock => LockInv'
  BY <1>1 DEF Inv, LockInv
<1> QED
  BY <1>2, <1>3

\* Moving the program counter keeps the rest of the process's record.
LEMMA GotoJob ==
    ASSUME RecoveryTypes, NEW p \in Operators,
           NEW l \in {"stage_read", "transition", "settle", "release"}, Goto(p, l)
    PROVE  /\ proc' \in [Operators -> Jobs]
           /\ proc'[p] = Job(l, proc[p].command, proc[p].from, proc[p].result, proc[p].rows)
           /\ \A q \in Operators : q # p => proc'[q] = proc[q]
<1>1. proc[p] \in Jobs
  BY DEF RecoveryTypes
<1>2. proc'[p] = [proc[p] EXCEPT !.pc = l]
  BY DEF RecoveryTypes, Goto
<1>3. proc'[p] = Job(l, proc[p].command, proc[p].from, proc[p].result, proc[p].rows)
  BY <1>1, <1>2 DEF Jobs, Job
<1>4. proc'[p] \in Jobs
  BY <1>1, <1>3 DEF Jobs, Job
<1>5. proc' = [proc EXCEPT ![p] = proc'[p]]
  BY <1>2 DEF RecoveryTypes, Goto
<1>6. \A q \in Operators : q # p => proc'[q] = proc[q]
  BY <1>5 DEF RecoveryTypes
<1>7. proc' \in [Operators -> Jobs]
  BY <1>4, <1>5 DEF RecoveryTypes
<1> QED
  BY <1>3, <1>6, <1>7

\* An operation that is refused goes on to remove its lock.
LEMMA GotoRelease ==
    ASSUME RecoveryTypes, NEW p \in Operators, Goto(p, "release")
    PROVE  /\ proc' \in [Operators -> Jobs] /\ proc'[p].pc = "release"
           /\ \A q \in Operators : q # p => proc'[q] = proc[q]
<1>1. "release" \in {"stage_read", "transition", "settle", "release"}
  OBVIOUS
<1>2. /\ proc' \in [Operators -> Jobs]
      /\ proc'[p] = Job("release", proc[p].command, proc[p].from, proc[p].result,
                        proc[p].rows)
      /\ \A q \in Operators : q # p => proc'[q] = proc[q]
  BY <1>1, GotoJob
<1> QED
  BY <1>2 DEF Job

\* The place of a process that has only the lock to give back.
LEMMA ReleasesLock == Job("release", "none", "none", NoAnswer, {}).pc = "release"
BY DEF Job

\* The same for a step that sets the whole record.
LEMMA SetJob ==
    ASSUME RecoveryTypes, NEW p \in Operators, NEW j \in Jobs, proc' = [proc EXCEPT ![p] = j]
    PROVE  /\ proc' \in [Operators -> Jobs]
           /\ proc'[p] = j
           /\ \A q \in Operators : q # p => proc'[q] = proc[q]
BY DEF RecoveryTypes

-----------------------------------------------------------------------------
\* A step that leaves the broker, the ledger, the commands and the staging CSV
\* alone preserves the invariant when what its process then knows holds.
LEMMA LocalStep ==
    ASSUME Inv, NEW p \in Operators, proc[p].pc # "idle",
           proc' \in [Operators -> Jobs],
           \A q \in Operators : q # p => proc'[q] = proc[q],
           UNCHANGED <<order, command, evidence, staged, crashes>>,
           lock' = lock, Holds(p)'
    PROVE  Inv'
<1>1. (\A q \in Operators : q # p => Holds(q)') /\ LockInv'
  BY Quiet
<1>2. RecoveryTypes'
  BY DEF Inv, RecoveryTypes
<1>3. LedgerInv' /\ CommandInv' /\ Reported(staged)'
  BY DEF Inv, LedgerInv, CommandInv, Reported
<1> QED
  BY <1>1, <1>2, <1>3 DEF Inv

\* A process that gets the lock knows nothing yet.
LEMMA AcquireInv ==
    ASSUME Inv, NEW p \in Operators, NEW c \in Commands, Acquire(p, c)
    PROVE  Inv'
<1>1. \A q \in Operators : proc[q].pc = "idle"
  BY RecoveryAssumption DEF Acquire, Inv, LockInv
<1>2. Job("lookup", c, "none", NoAnswer, {}) \in Jobs
  BY DEF Job, Jobs, NoAnswer, OrderStates
<1>3. /\ proc' \in [Operators -> Jobs]
      /\ proc'[p] = Job("lookup", c, "none", NoAnswer, {})
      /\ \A q \in Operators : q # p => proc'[q] = proc[q]
  BY Zenon, <1>2, SetJob DEF Acquire, Inv
<1>4. UNCHANGED <<order, command, evidence, staged, crashes>> /\ lock' = p
  BY DEF Acquire
<1>5. RecoveryTypes'
  BY <1>3, <1>4 DEF Inv, RecoveryTypes
<1>6. LockInv'
  BY <1>1, <1>3, <1>4 DEF LockInv
<1>7. LedgerInv' /\ CommandInv' /\ Reported(staged)'
  BY <1>4 DEF Inv, LedgerInv, CommandInv, Reported
<1>8. \A q \in Operators : q # p => Holds(q)'
  BY <1>1, <1>3 DEF Holds
<1>9. Holds(p)'
  BY <1>3 DEF Holds, Job
<1> QED
  BY <1>5, <1>6, <1>7, <1>8, <1>9 DEF Inv

\* The broker's answer is true of the order.
LEMMA LookupInv ==
    ASSUME Inv, NEW p \in Operators, Lookup(p)
    PROVE  Inv'
<1> DEFINE c == proc[p].command
<1>1. proc[p].pc = "lookup" /\ c \in Commands
  BY DEF Lookup, At, Inv, Holds
<1>2. UNCHANGED <<order, command, evidence, staged, crashes>> /\ lock' = lock
  BY DEF Lookup
<1>3. CASE command[c] \in Reconcilable
  <2>1. /\ LookupOf(c) \in [state : OrderStates \cup {"unknown"}, count : Nat]
        /\ LookupOf(c).state # "none"
        /\ LookupOf(c).count = order[c].count
        /\ LookupOf(c).state \in TerminalLookupStates => LookupOf(c).state = order[c].state
    BY <1>1 DEF LookupOf, Inv, RecoveryTypes, OrderStates, TerminalLookupStates
  <2>2. Job("observe", c, command[c], LookupOf(c), {}) \in Jobs
    BY <1>1, <2>1 DEF Job, Jobs, Inv, RecoveryTypes
  <2>3. /\ proc' \in [Operators -> Jobs]
        /\ proc'[p] = Job("observe", c, command[c], LookupOf(c), {})
        /\ \A q \in Operators : q # p => proc'[q] = proc[q]
    <3>1. proc' = [proc EXCEPT ![p] = Job("observe", c, command[c], LookupOf(c), {})]
      BY <1>3 DEF Lookup
    <3> HIDE DEF c
    <3> QED
      BY Zenon, <3>1, <2>2, SetJob DEF Inv
  <2>4. AnswerTrue(c, LookupOf(c))
    <3>1. order[c].count \in Nat
      BY Zenon, <1>1 DEF Inv, RecoveryTypes
    <3> QED
      BY <2>1, <3>1 DEF AnswerTrue
  <2>5. Holds(p)'
    <3> HIDE DEF c
    <3>1. /\ proc'[p].pc = "observe" /\ proc'[p].command = c
          /\ proc'[p].result = LookupOf(c) /\ proc'[p].from = command[c]
      BY <2>3 DEF Job
    <3>2. AnswerTrue(proc[p].command, proc[p].result)'
      BY <3>1, <2>4, <1>2 DEF AnswerTrue
    <3> QED
      BY <3>1, <3>2, <1>1, <1>2, <1>3 DEF Holds, Reconcilable
  <2> QED
    BY <1>1, <1>2, <2>3, <2>5, LocalStep
<1>4. CASE command[c] \notin Reconcilable
  <2>1. Goto(p, "release")
    BY <1>4 DEF Lookup
  <2>2. /\ proc' \in [Operators -> Jobs] /\ proc'[p].pc = "release"
        /\ \A q \in Operators : q # p => proc'[q] = proc[q]
    <3>1. RecoveryTypes
      BY DEF Inv
    <3> QED
      BY <2>1, <3>1, GotoRelease
  <2>3. Holds(p)'
    BY <2>2 DEF Holds
  <2> QED
    BY <1>1, <1>2, <2>2, <2>3, LocalStep
<1> QED
  BY <1>3, <1>4

-----------------------------------------------------------------------------
\* A refused answer changes nothing; an accepted one makes the ledger say what
\* the broker's order is.
LEMMA ObserveInv ==
    ASSUME Inv, NEW p \in Operators, Observe(p)
    PROVE  Inv'
<1> DEFINE c == proc[p].command
           result == proc[p].result
           from == proc[p].from
<1>0. RecoveryTypes /\ LedgerInv /\ CommandInv /\ Reported(staged) /\ Holds(p)
  BY DEF Inv
<1>1. /\ proc[p].pc = "observe" /\ c \in Commands
      /\ AnswerTrue(c, result) /\ from = command[c] /\ from \in Reconcilable
  BY <1>0 DEF Observe, At, Holds
<1>2. UNCHANGED <<order, command, staged, lock, crashes>>
  BY DEF Observe
<1>3. CASE ~ValidLookup(c, from, result)
  <2>1. Goto(p, "release") /\ evidence' = evidence
    BY <1>3 DEF Observe
  <2>2. /\ proc' \in [Operators -> Jobs] /\ proc'[p].pc = "release"
        /\ \A q \in Operators : q # p => proc'[q] = proc[q]
    BY <2>1, <1>0, GotoRelease
  <2>3. Holds(p)'
    BY <2>2 DEF Holds
  <2> QED
    BY <1>1, <1>2, <2>1, <2>2, <2>3, LocalStep
<1>4. CASE ValidLookup(c, from, result)
  <2> DEFINE l == IF from = "reconciled" THEN "stage_read" ELSE "transition"
  <2>1. /\ evidence' = [evidence EXCEPT ![c] = Observed(c, result)]
        /\ Goto(p, l)
    BY <1>4 DEF Observe
  <2>2. l \in {"stage_read", "transition", "settle", "release"}
    OBVIOUS
  <2>3. /\ proc' \in [Operators -> Jobs]
        /\ proc'[p] = Job(l, c, from, result, proc[p].rows)
        /\ \A q \in Operators : q # p => proc'[q] = proc[q]
    <3> HIDE DEF l
    <3> QED
      BY <2>1, <2>2, <1>0, GotoJob
  <2>4. /\ proc'[p].pc = l /\ proc'[p].command = c /\ proc'[p].result = result
    BY <2>3 DEF Job
  <2>5. result \in [state : OrderStates \cup {"unknown"}, count : Nat]
    BY <1>0 DEF RecoveryTypes, Jobs
  <2>6. /\ order[c].count \in Nat /\ evidence[c].count \in Nat
        /\ evidence[c].terminal \in TerminalLookupStates \cup {"none"}
    BY Zenon, <1>0, <1>1 DEF RecoveryTypes
  <2> HIDE DEF c, result, from, l
  <2>7. /\ evidence'[c].count = result.count
        /\ evidence'[c].terminal = IF result.state \in TerminalLookupStates
                                     THEN result.state ELSE evidence[c].terminal
        /\ \A d \in Commands : d # c => evidence'[d] = evidence[d]
    BY <2>1, <1>0, <1>1 DEF RecoveryTypes, Observed
  <2>8. Observed(c, result) \in [count : Nat, terminal : TerminalLookupStates \cup {"none"}]
    BY <2>5, <2>6 DEF Observed
  <2>9. /\ evidence[c].count <= result.count
        /\ evidence[c].terminal \in {"none", result.state}
        /\ from = "reconciled" => result.state \in TerminalLookupStates
    BY <1>4 DEF ValidLookup
  <2>10. RecoveryTypes'
    BY Zenon, <1>0, <1>1, <1>2, <2>1, <2>3, <2>8 DEF RecoveryTypes
  <2>11. LedgerInv'
    <3> SUFFICES ASSUME NEW d \in Commands
                 PROVE  /\ evidence'[d].count <= order[d].count
                        /\ evidence'[d].terminal # "none" =>
                             /\ evidence'[d].terminal = order[d].state
                             /\ evidence'[d].count = order[d].count
      BY Zenon, <1>2 DEF LedgerInv
    <3>1. CASE d = c
      BY <3>1, <1>1, <2>6, <2>7, <2>9 DEF AnswerTrue
    <3>2. CASE d # c
      BY <3>2, <2>7, <1>0 DEF LedgerInv
    <3> QED
      BY <3>1, <3>2
  <2>12. CommandInv'
    <3> SUFFICES ASSUME NEW d \in Commands
                 PROVE  /\ command[d] \in TerminalLookupStates =>
                             evidence'[d].terminal = command[d]
                        /\ command[d] = "reconciled" => evidence'[d].terminal # "none"
      BY <1>2 DEF CommandInv
    <3>1. CASE d = c
      BY <3>1, <1>1, <2>7, <2>9
         DEF Reconcilable, InFlightStates, TerminalLookupStates
    <3>2. CASE d # c
      BY <3>2, <2>7, <1>0 DEF CommandInv
    <3> QED
      BY <3>1, <3>2
  <2>13. Reported(staged)'
    <3> SUFFICES ASSUME NEW e \in staged PROVE e[2] <= evidence'[e[1]].count
      BY <1>2 DEF Reported
    <3>1. e[1] \in Commands /\ e[2] \in Nat /\ e[2] <= evidence[e[1]].count
      BY <1>0 DEF Reported, RecoveryTypes
    <3>2. CASE e[1] = c
      BY SMTT(30), <3>1, <3>2, <2>5, <2>6, <2>7, <2>9
    <3>3. CASE e[1] # c
      BY <3>1, <3>3, <2>7
    <3> QED
      BY <3>2, <3>3
  <2>14. AnswerSaved(proc[p].command, proc[p].result)'
    BY Zenon, <1>1, <2>4, <2>7 DEF AnswerSaved, AnswerTrue
  <2>15. Holds(p)'
    BY <1>1, <1>2, <2>4, <2>14 DEF Holds, l, Reconcilable
  <2>16. (\A q \in Operators : q # p => Holds(q)') /\ LockInv'
    BY Zenon, <1>1, <1>2, <2>3, Quiet
  <2> QED
    BY <2>10, <2>11, <2>12, <2>13, <2>15, <2>16 DEF Inv
<1> QED
  BY <1>3, <1>4

-----------------------------------------------------------------------------
\* A command reaches a looked-up end only with that end in the ledger.
LEMMA TransitionInv ==
    ASSUME Inv, NEW p \in Operators, Transition(p)
    PROVE  Inv'
<1> DEFINE c == proc[p].command
           result == proc[p].result
<1>0. RecoveryTypes /\ LedgerInv /\ CommandInv /\ Reported(staged) /\ Holds(p)
  BY DEF Inv
<1>1. /\ proc[p].pc = "transition" /\ c \in Commands /\ AnswerSaved(c, result)
      /\ command[c] \in InFlightStates \cup {"unknown", "reconciling"}
  BY Zenon, <1>0 DEF Transition, At, Holds
<1>2. UNCHANGED <<order, evidence, staged, lock, crashes>>
  BY DEF Transition
<1>3. result \in [state : OrderStates \cup {"unknown"}, count : Nat]
  BY <1>0 DEF RecoveryTypes, Jobs
<1>4. ASSUME NEW s \in CommandStates, command' = [command EXCEPT ![c] = s],
             s # "reconciled",
             s \in TerminalLookupStates => evidence[c].terminal = s
      PROVE  command' \in [Commands -> CommandStates] /\ CommandInv'
  <2> HIDE DEF c
  <2>1. command' \in [Commands -> CommandStates]
    BY Zenon, <1>0, <1>4 DEF RecoveryTypes
  <2>2. command'[c] = s /\ \A d \in Commands : d # c => command'[d] = command[d]
    BY <1>0, <1>1, <1>4 DEF RecoveryTypes
  <2> QED
    BY <1>0, <1>2, <1>4, <2>1, <2>2 DEF CommandInv
<1>5. CASE /\ command[c] \in InFlightStates \cup {"unknown"}
           /\ proc' = proc
           /\ \E s \in {"unknown", "reconciling"} : command' = [command EXCEPT ![c] = s]
  <2>1. PICK s \in {"unknown", "reconciling"} : command' = [command EXCEPT ![c] = s]
    BY Zenon, <1>5
  <2>2. s \in CommandStates /\ s # "reconciled" /\ s \notin TerminalLookupStates
    BY DEF CommandStates, TerminalLookupStates
  <2>3. command' \in [Commands -> CommandStates] /\ CommandInv'
    BY Zenon, <1>4, <2>1, <2>2
  <2>4. command'[c] \in {"unknown", "reconciling"}
    BY <1>0, <1>1, <2>1 DEF RecoveryTypes
  <2>5. RecoveryTypes'
    BY Zenon, <1>0, <1>2, <1>5, <2>3 DEF RecoveryTypes
  <2>6. LedgerInv' /\ Reported(staged)'
    BY Zenon, <1>0, <1>2 DEF LedgerInv, Reported
  <2>7. (\A q \in Operators : q # p => Holds(q)') /\ LockInv'
    BY ZenonT(30), <1>1, <1>2, <1>5, Quiet
  <2>8. AnswerSaved(proc[p].command, proc[p].result)'
    BY Zenon, <1>1, <1>2, <1>5 DEF AnswerSaved
  <2>9. Holds(p)'
    BY ZenonT(30), <1>1, <1>5, <2>4, <2>8 DEF Holds
  <2> QED
    BY <2>3, <2>5, <2>6, <2>7, <2>9 DEF Inv
<1>6. CASE /\ command[c] = "reconciling"
           /\ command' = [command EXCEPT ![c] = result.state]
           /\ Goto(p, IF result.state \in TerminalLookupStates THEN "settle"
                                                              ELSE "stage_read")
  <2> DEFINE l == IF result.state \in TerminalLookupStates THEN "settle" ELSE "stage_read"
  <2>1. l \in {"stage_read", "transition", "settle", "release"} /\ Goto(p, l)
    BY <1>6
  <2>2. /\ proc' \in [Operators -> Jobs]
        /\ proc'[p] = Job(l, c, proc[p].from, result, proc[p].rows)
        /\ \A q \in Operators : q # p => proc'[q] = proc[q]
    <3> HIDE DEF l
    <3> QED
      BY <2>1, <1>0, GotoJob
  <2>3. proc'[p].pc = l /\ proc'[p].command = c /\ proc'[p].result = result
    BY <2>2 DEF Job
  <2>4. /\ result.state \in CommandStates /\ result.state # "reconciled"
        /\ result.state \in TerminalLookupStates => evidence[c].terminal = result.state
    <3> HIDE DEF c, result
    <3> QED
      BY <1>1, <1>3 DEF AnswerSaved, OrderStates, CommandStates
  <2>5. command' \in [Commands -> CommandStates] /\ CommandInv'
    BY Zenon, <1>4, <1>6, <2>4
  <2>6. RecoveryTypes'
    BY <1>0, <1>2, <2>2, <2>5 DEF RecoveryTypes
  <2>7. LedgerInv' /\ Reported(staged)'
    BY ZenonT(30), <1>0, <1>2 DEF LedgerInv, Reported
  <2>8. (\A q \in Operators : q # p => Holds(q)') /\ LockInv'
    BY ZenonT(30), <1>1, <1>2, <2>2, Quiet
  <2>9. AnswerSaved(proc[p].command, proc[p].result)'
    BY ZenonT(30), <1>1, <1>2, <2>3 DEF AnswerSaved
  <2>10. Holds(p)'
    <3> HIDE DEF c, result
    <3> QED
      BY <1>1, <2>3, <2>9 DEF Holds
  <2> QED
    BY <2>5, <2>6, <2>7, <2>8, <2>10 DEF Inv
<1> QED
  BY Zenon, <1>5, <1>6 DEF Transition

\* Closing a command whose end is in the ledger.
LEMMA SettleInv ==
    ASSUME Inv, NEW p \in Operators, Settle(p)
    PROVE  Inv'
<1> DEFINE c == proc[p].command
           result == proc[p].result
<1>0. RecoveryTypes /\ LedgerInv /\ CommandInv /\ Reported(staged) /\ Holds(p)
  BY DEF Inv
<1>1. /\ proc[p].pc = "settle" /\ c \in Commands /\ AnswerSaved(c, result)
      /\ result.state \in TerminalLookupStates
  BY <1>0 DEF Settle, At, Holds
<1>2. UNCHANGED <<order, evidence, staged, lock, crashes>>
  BY DEF Settle
<1>3. command' = [command EXCEPT ![c] = "reconciled"] /\ Goto(p, "stage_read")
  BY DEF Settle
<1>4. "stage_read" \in {"stage_read", "transition", "settle", "release"}
  BY Zenon
<1>5. /\ proc' \in [Operators -> Jobs]
      /\ proc'[p] = Job("stage_read", c, proc[p].from, result, proc[p].rows)
      /\ \A q \in Operators : q # p => proc'[q] = proc[q]
  BY Zenon, <1>0, <1>3, <1>4, GotoJob
<1>6. proc'[p].pc = "stage_read" /\ proc'[p].command = c /\ proc'[p].result = result
  BY SMTT(30), <1>5 DEF Job
<1>7. /\ command' \in [Commands -> CommandStates] /\ command'[c] = "reconciled"
      /\ \A d \in Commands : d # c => command'[d] = command[d]
  <2> HIDE DEF c
  <2> QED
    BY <1>0, <1>1, <1>3 DEF RecoveryTypes, CommandStates
<1>8. RecoveryTypes'
  BY <1>0, <1>2, <1>5, <1>7 DEF RecoveryTypes
<1>9. CommandInv'
  <2> HIDE DEF c, result
  <2>1. evidence[c].terminal # "none" /\ "reconciled" \notin TerminalLookupStates
    BY <1>1 DEF AnswerSaved, TerminalLookupStates
  <2> QED
    BY <1>0, <1>2, <1>7, <2>1 DEF CommandInv
<1>10. LedgerInv' /\ Reported(staged)'
  BY ZenonT(30), <1>0, <1>2 DEF LedgerInv, Reported
<1>11. (\A q \in Operators : q # p => Holds(q)') /\ LockInv'
  BY Zenon, <1>1, <1>2, <1>5, Quiet
<1>12. AnswerSaved(proc[p].command, proc[p].result)'
  BY ZenonT(30), <1>1, <1>2, <1>6 DEF AnswerSaved
<1>13. Holds(p)'
  BY ZenonT(30), <1>1, <1>6, <1>12 DEF Holds
<1> QED
  BY <1>8, <1>9, <1>10, <1>11, <1>13 DEF Inv

\* The job of a process that is about to write rows.
LEMMA StageJob ==
    ASSUME NEW rows
    PROVE  /\ Job("stage_write", "none", "none", NoAnswer, rows).pc = "stage_write"
           /\ Job("stage_write", "none", "none", NoAnswer, rows).rows = rows
BY DEF Job

-----------------------------------------------------------------------------
\* The rows to write are those of the file and those of a saved answer.
LEMMA StageReadInv ==
    ASSUME Inv, NEW p \in Operators, StageRead(p)
    PROVE  Inv'
<1> DEFINE c == proc[p].command
           rows == staged \cup Executions(c, proc[p].result.count)
<1>0. RecoveryTypes /\ Reported(staged) /\ Holds(p)
  BY DEF Inv
<1>1. /\ proc[p].pc = "stage_read" /\ c \in Commands
      /\ evidence[c].count = proc[p].result.count /\ proc[p].result.count \in Nat
  BY Zenon, <1>0 DEF StageRead, At, Holds, AnswerSaved, RecoveryTypes, Jobs
<1>2. UNCHANGED <<order, command, evidence, staged, lock, crashes>>
  BY Zenon DEF StageRead
<1>3. rows \in SUBSET (Commands \X Nat)
  BY SMTT(30), <1>0, <1>1 DEF RecoveryTypes, Executions
<1>4. Reported(rows)
  BY <1>0, <1>1 DEF Reported, Executions
<1>5. Job("stage_write", "none", "none", NoAnswer, rows) \in Jobs
  <2> HIDE DEF rows
  <2> QED
    BY <1>3 DEF Job, Jobs, NoAnswer, OrderStates
<1>6. /\ proc' \in [Operators -> Jobs]
      /\ proc'[p] = Job("stage_write", "none", "none", NoAnswer, rows)
      /\ \A q \in Operators : q # p => proc'[q] = proc[q]
  <2>1. proc' = [proc EXCEPT ![p] = Job("stage_write", "none", "none", NoAnswer, rows)]
    BY DEF StageRead
  <2> HIDE DEF rows
  <2> QED
    BY Zenon, <1>0, <1>5, <2>1, SetJob
<1>7. Holds(p)'
  <2>1. staged \subseteq rows
    BY Zenon
  <2> HIDE DEF rows
  <2>2. proc'[p].pc = "stage_write" /\ proc'[p].rows = rows
    BY <1>6, StageJob
  <2>3. Reported(proc[p].rows)'
    BY Zenon, <1>2, <1>4, <2>2 DEF Reported
  <2> QED
    BY <1>2, <2>1, <2>2, <2>3 DEF Holds
<1> QED
  BY <1>1, <1>2, <1>6, <1>7, LocalStep

\* Under the lock the file is still the one that was read.
LEMMA StageWriteInv ==
    ASSUME Inv, NEW p \in Operators, StageWrite(p)
    PROVE  Inv' /\ staged \subseteq staged'
<1>0. RecoveryTypes /\ LedgerInv /\ CommandInv /\ Holds(p)
  BY Zenon DEF Inv
<1>1. proc[p].pc = "stage_write" /\ staged \subseteq proc[p].rows /\ Reported(proc[p].rows)
  BY ZenonT(30), <1>0 DEF StageWrite, At, Holds
<1>2. UNCHANGED <<order, command, evidence, lock, crashes>> /\ staged' = proc[p].rows
  BY DEF StageWrite
<1>3. Job("release", "none", "none", NoAnswer, {}) \in Jobs
  BY DEF Job, Jobs, NoAnswer, OrderStates
<1>4. /\ proc' \in [Operators -> Jobs]
      /\ proc'[p] = Job("release", "none", "none", NoAnswer, {})
      /\ \A q \in Operators : q # p => proc'[q] = proc[q]
  BY Zenon, <1>0, <1>3, SetJob DEF StageWrite
<1>5. staged' \in SUBSET (Commands \X Nat)
  BY Zenon, <1>0, <1>2 DEF RecoveryTypes, Jobs
<1>6. RecoveryTypes'
  BY <1>0, <1>2, <1>4, <1>5 DEF RecoveryTypes
<1>7. LedgerInv' /\ CommandInv'
  BY Zenon, <1>0, <1>2 DEF LedgerInv, CommandInv
<1>8. Reported(staged)'
  BY <1>1, <1>2 DEF Reported
<1>9. (\A q \in Operators : q # p => Holds(q)') /\ LockInv'
  BY Zenon, <1>1, <1>2, <1>4, Quiet
<1>10. Holds(p)'
  <2>1. proc'[p].pc = "release"
    BY Zenon, <1>4, ReleasesLock
  <2> QED
    BY Zenon, <2>1 DEF Holds
<1> QED
  BY ZenonT(30), <1>1, <1>2, <1>6, <1>7, <1>8, <1>9, <1>10 DEF Inv

\* A process that finishes, or is killed, forgets what it knew; only the first
\* removes the lock.
LEMMA EndInv ==
    ASSUME Inv, NEW p \in Operators, Release(p) \/ Crash(p)
    PROVE  Inv'
<1>0. RecoveryTypes /\ LedgerInv /\ CommandInv /\ Reported(staged)
  BY DEF Inv
<1>1. /\ proc[p].pc # "idle" /\ proc' = [proc EXCEPT ![p] = Idle]
      /\ UNCHANGED <<order, command, evidence, staged>>
  BY DEF Release, Crash, At
<1>2. lock' \in {lock, "free"} /\ crashes' \in Nat
  BY <1>0 DEF Release, Crash, RecoveryTypes
<1>3. Idle \in Jobs /\ Idle.pc = "idle"
  BY DEF Idle, Job, Jobs, NoAnswer, OrderStates
<1>4. /\ proc' \in [Operators -> Jobs] /\ proc'[p].pc = "idle"
      /\ \A q \in Operators : q # p => proc'[q] = proc[q]
  <2> HIDE DEF Idle
  <2> QED
    BY Zenon, <1>0, <1>1, <1>3, SetJob
<1>5. \A q \in Operators : proc'[q].pc = "idle"
  BY <1>1, <1>4, Alone DEF Inv
<1>6. RecoveryTypes'
  BY Zenon, <1>0, <1>1, <1>2, <1>4 DEF RecoveryTypes
<1>7. LockInv' /\ \A q \in Operators : Holds(q)'
  BY Zenon, <1>5 DEF LockInv, Holds
<1>8. LedgerInv' /\ CommandInv' /\ Reported(staged)'
  BY <1>0, <1>1 DEF LedgerInv, CommandInv, Reported
<1> QED
  BY <1>6, <1>7, <1>8 DEF Inv

\* An abandoned lock names a process that is gone, so nobody works under it.
LEMMA RecoverLockInv ==
    ASSUME Inv, RecoverLock
    PROVE  Inv'
<1>0. RecoveryTypes /\ LockInv /\ LedgerInv /\ CommandInv /\ Reported(staged)
  BY DEF Inv
<1>1. lock \in Operators /\ proc[lock].pc = "idle" /\ lock' = "free"
  BY <1>0 DEF RecoverLock, At, RecoveryTypes
<1>2. UNCHANGED <<order, command, evidence, staged, proc, crashes>>
  BY DEF RecoverLock
<1>3. \A q \in Operators : proc'[q].pc = "idle"
  BY ZenonT(30), <1>0, <1>1, <1>2 DEF LockInv
<1>4. RecoveryTypes'
  BY Zenon, <1>0, <1>1, <1>2 DEF RecoveryTypes
<1>5. LockInv' /\ \A q \in Operators : Holds(q)'
  BY ZenonT(30), <1>3 DEF LockInv, Holds
<1>6. LedgerInv' /\ CommandInv' /\ Reported(staged)'
  BY ZenonT(30), <1>0, <1>2 DEF LedgerInv, CommandInv, Reported
<1> QED
  BY <1>4, <1>5, <1>6 DEF Inv

-----------------------------------------------------------------------------
\* Every step preserves the invariant and only adds rows to the staging CSV.
LEMMA NextInv == Inv /\ [Next]_vars => Inv' /\ staged \subseteq staged'
<1> SUFFICES ASSUME Inv, [Next]_vars PROVE Inv' /\ staged \subseteq staged'
  OBVIOUS
<1>1. ASSUME NEW c \in Commands, BrokerStep(c) PROVE Inv' /\ staged \subseteq staged'
  BY Zenon, <1>1, BrokerInv DEF BrokerStep
<1>2. ASSUME NEW p \in Operators, NEW c \in Commands, Acquire(p, c)
      PROVE  Inv' /\ staged \subseteq staged'
  BY ZenonT(30), <1>2, AcquireInv DEF Acquire
<1>3. ASSUME NEW p \in Operators, Step(p) \/ Crash(p)
      PROVE  Inv' /\ staged \subseteq staged'
  <2>1. CASE Lookup(p)
    BY Zenon, <2>1, LookupInv DEF Lookup
  <2>2. CASE Observe(p)
    BY Zenon, <2>2, ObserveInv DEF Observe
  <2>3. CASE Transition(p)
    BY <2>3, TransitionInv DEF Transition
  <2>4. CASE Settle(p)
    BY Zenon, <2>4, SettleInv DEF Settle
  <2>5. CASE StageRead(p)
    BY Zenon, <2>5, StageReadInv DEF StageRead
  <2>6. CASE StageWrite(p)
    BY <2>6, StageWriteInv
  <2>7. CASE Release(p) \/ Crash(p)
    BY Zenon, <2>7, EndInv DEF Release, Crash
  <2> QED
    BY Zenon, <1>3, <2>1, <2>2, <2>3, <2>4, <2>5, <2>6, <2>7 DEF Step
<1>4. CASE RecoverLock
  BY Zenon, <1>4, RecoverLockInv DEF RecoverLock
<1>5. CASE UNCHANGED vars
  <2>1. UNCHANGED <<order, command, evidence, staged, lock, proc, crashes>>
    BY <1>5 DEF vars
  <2> QED
    BY ZenonT(30), <2>1 DEF Inv, RecoveryTypes, LockInv, LedgerInv, CommandInv, Reported, Holds,
                            AnswerTrue, AnswerSaved
<1> QED
  BY <1>1, <1>2, <1>3, <1>4, <1>5 DEF Next

\* The invariant holds in every reachable state of the recovery operation.
THEOREM RecoveryInvariant == Spec => []Inv
BY InitInv, NextInv, PTL DEF Spec

\* reconcile stages a row, and moves a command to a looked-up end, only after
\* the observation that reports it is in the evidence ledger, whichever process
\* is killed where.
THEOREM EvidenceFirst == Spec => []EvidenceComesFirst
<1>1. Inv => EvidenceComesFirst
  <2> SUFFICES ASSUME Inv PROVE EvidenceComesFirst
    OBVIOUS
  <2>1. ASSUME NEW e \in staged PROVE evidence[e[1]].count >= e[2]
    <3>1. e[1] \in Commands /\ e[2] \in Nat /\ e[2] <= evidence[e[1]].count
      BY DEF Inv, RecoveryTypes, Reported
    <3>2. evidence[e[1]].count \in Nat
      BY <3>1 DEF Inv, RecoveryTypes
    <3> QED
      BY <3>1, <3>2
  <2> QED
    BY <2>1 DEF Inv, CommandInv, EvidenceComesFirst
<1> QED
  BY <1>1, RecoveryInvariant, PTL

\* reconcile_command closes a command only when the broker's order has ended,
\* with that end and every execution of the order in the ledger.
THEOREM ClosedAtTheEnd == Spec => []ReconciledIsTerminal
<1>1. Inv => ReconciledIsTerminal
  <2> SUFFICES ASSUME Inv, NEW c \in Commands, command[c] = "reconciled"
               PROVE  Terminal(c) /\ evidence[c] = [count |-> order[c].count,
                                                    terminal |-> order[c].state]
    BY DEF ReconciledIsTerminal
  <2>1. /\ evidence[c].terminal # "none" /\ evidence[c].terminal = order[c].state
        /\ evidence[c].count = order[c].count
    BY DEF Inv, CommandInv, LedgerInv
  <2>2. evidence[c] \in [count : Nat, terminal : TerminalLookupStates \cup {"none"}]
    BY Zenon DEF Inv, RecoveryTypes
  <2>3. Terminal(c)
    BY <2>1, <2>2 DEF Terminal
  <2>4. evidence[c] = [count |-> evidence[c].count, terminal |-> evidence[c].terminal]
    BY <2>2
  <2> QED
    BY <2>1, <2>3, <2>4
<1> QED
  BY <1>1, RecoveryInvariant, PTL

\* stage_broker_executions never drops a row another process staged, because
\* the lock file covers both its read and its replacement of the CSV.
THEOREM StagingOnlyGrows == Spec => StagedRowsStay
<1>1. Inv /\ [Next]_vars => [staged \subseteq staged']_vars
  BY NextInv
<1> QED
  BY <1>1, RecoveryInvariant, PTL DEF Spec, StagedRowsStay

-----------------------------------------------------------------------------
(***************************************************************************)
(* The kill switch.                                                        *)
(***************************************************************************)
\* What a caller has read, and what it was told, was true when it read it.
ReadInv ==
    \A p \in Callers :
        /\ answer[p] = "open" => openAtRead[p]
        /\ pc[p] = "status" /\ StatusOf(snap[p]) = "open" => openAtRead[p]

\* The status of a state file is one of the answers of status().
LEMMA StatusType == ASSUME NEW s PROVE StatusOf(s) \in Answers
BY DEF StatusOf, Answers

\* An append to the audit keeps its type and makes it one event longer.
LEMMA AppendGrows ==
    ASSUME audit \in Seq(Events), NEW e \in Events, audit' = Append(audit, e)
    PROVE  audit' \in Seq(Events) /\ Len(audit') = Len(audit) + 1
OBVIOUS

\* The end of a call keeps the types of the locals it clears.
LEMMA ReturnType ==
    ASSUME TypeOK, NEW p \in Callers, Return(p)
    PROVE  /\ pc' \in [Callers -> {"idle", "status", "head", "append", "write", "verify"}]
           /\ op' \in [Callers -> Operations]
           /\ snap' \in [Callers -> States]
           /\ revision' \in [Callers -> Nat] /\ head' \in [Callers -> Nat]
           /\ \A q \in Callers : snap'[q].head <= Len(audit) /\ head'[q] <= Len(audit)
<1>1. NoState \in States /\ NoState.head = 0
  BY DEF NoState, States
<1>2. Len(audit) \in Nat
  BY DEF TypeOK
<1>3. /\ pc' \in [Callers -> {"idle", "status", "head", "append", "write", "verify"}]
      /\ op' \in [Callers -> Operations]
      /\ snap' \in [Callers -> States]
      /\ revision' \in [Callers -> Nat] /\ head' \in [Callers -> Nat]
  BY <1>1 DEF Return, MoveTo, TypeOK, Operations
<1>4. ASSUME NEW q \in Callers
      PROVE  snap'[q].head <= Len(audit) /\ head'[q] <= Len(audit)
  <2>1. CASE q = p
    BY <1>1, <1>2, <2>1 DEF Return, TypeOK
  <2>2. CASE q # p
    BY <2>2 DEF Return, TypeOK
  <2> QED BY <2>1, <2>2
<1> QED
  BY <1>3, <1>4

\* Init and every step of a caller keep the types, and no head points beyond
\* the audit: the append precedes every use of its hash.
LEMMA TypeStep == TypeOK /\ [SwitchNext]_switchVars => TypeOK'
<1> SUFFICES ASSUME TypeOK, [SwitchNext]_switchVars PROVE TypeOK'
  OBVIOUS
<1>l. Len(audit) \in Nat
  BY DEF TypeOK
<1>h. state.head \in Nat /\ \A q \in Callers : snap[q].head \in Nat
  BY DEF TypeOK, States
<1>1. ASSUME NEW p \in Callers, Initialize(p) PROVE TypeOK'
  BY Zenon, <1>1, <1>l DEF Initialize, TypeOK, MoveTo, files, Operations
<1>2. ASSUME NEW p \in Callers, NEW o \in Operations, ReadState(p, o) PROVE TypeOK'
  BY Zenon, <1>2, <1>l
     DEF ReadState, TypeOK, MoveTo, files, Answers, ResetInForce
<1>3. ASSUME NEW p \in Callers, ReadStatus(p) PROVE TypeOK'
  <2>1. answer' \in [Callers -> Answers]
    BY <1>3, StatusType DEF ReadStatus, TypeOK
  <2>2. CASE Return(p)
    BY Zenon, <1>3, <2>1, <2>2, <1>l, <1>h, ReturnType
       DEF ReadStatus, TypeOK, files
  <2>3. CASE Proceeds(p)
    <3>1. snap[p].revision \in Nat
      BY Zenon DEF TypeOK, States
    <3>2. CASE ~Return(p)
      BY Zenon, <1>3, <2>1, <2>3, <3>1, <3>2, <1>l
         DEF ReadStatus, TypeOK, MoveTo, files
    <3> QED BY <2>2, <3>2
  <2> QED BY ZenonT(30), <1>3, <2>2, <2>3 DEF ReadStatus
<1>4. ASSUME NEW p \in Callers, ReadHead(p) PROVE TypeOK'
  <2>1. CASE Return(p)
    BY Zenon, <1>4, <2>1, <1>l, <1>h, ReturnType DEF ReadHead, TypeOK, files
  <2>2. CASE /\ head' = [head EXCEPT ![p] = Len(audit)] /\ MoveTo(p, "append")
             /\ UNCHANGED <<op, snap, revision>>
    BY SMTT(30), <1>4, <2>2, <1>l DEF ReadHead, TypeOK, MoveTo, files
  <2> QED BY ZenonT(30), <1>4, <2>1, <2>2 DEF ReadHead
<1>5. ASSUME NEW p \in Callers, AppendAudit(p) PROVE TypeOK'
  <2>a. revision[p] + 1 \in Nat /\ head[p] \in Nat
    BY DEF TypeOK
  <2>b. [revision |-> revision[p] + 1, engaged |-> op[p] # "reset",
         prev |-> head[p]] \in Events
    BY <2>a, Zenon DEF Events
  <2>1. PICK e \in Events : audit' = Append(audit, e)
    BY <1>5, <2>b, Zenon DEF AppendAudit
  <2>2. audit' \in Seq(Events) /\ Len(audit') = Len(audit) + 1
    BY <2>1, AppendGrows DEF TypeOK
  <2> QED BY SMTT(30), <1>5, <2>2, <1>l, <1>h DEF AppendAudit, TypeOK, MoveTo
<1>6. ASSUME NEW p \in Callers, WriteState(p) PROVE TypeOK'
  <2>a. revision[p] + 1 \in Nat /\ head[p] \in Nat
    BY DEF TypeOK
  <2>b. [revision |-> revision[p] + 1, engaged |-> op[p] # "reset",
         head |-> head[p]] \in States
    BY <2>a, Zenon DEF States
  <2>1. state' \in States /\ state'.head = head[p]
    BY ZenonT(30), <1>6, <2>b DEF WriteState
  <2> QED BY Zenon, <1>6, <2>1 DEF WriteState, TypeOK, MoveTo
<1>7. ASSUME NEW p \in Callers, Verify(p) PROVE TypeOK'
  BY ZenonT(30), <1>7, <1>l DEF Verify, TypeOK, MoveTo, files, Answers, Operations,
                    ResetInForce
<1>8. ASSUME NEW p \in Callers, CallerDies(p) PROVE TypeOK'
  BY <1>8, <1>l, <1>h, ReturnType DEF CallerDies, TypeOK, files, Answers
<1>9. ASSUME NEW p \in Callers, TearAudit(p) PROVE TypeOK'
  <2>a. Len(audit) + 1 \in Nat /\ 0 \in Nat
    BY <1>l
  <2>b. [revision |-> 0, engaged |-> TRUE, prev |-> Len(audit) + 1] \in Events
    BY <2>a, Zenon DEF Events
  <2>1. PICK e \in Events : audit' = Append(audit, e)
    BY <1>9, <2>b, Zenon DEF TearAudit
  <2>2. audit' \in Seq(Events) /\ Len(audit') = Len(audit) + 1
    BY <2>1, AppendGrows DEF TypeOK
  <2>3. /\ pc' \in [Callers -> {"idle", "status", "head", "append", "write", "verify"}]
        /\ op' \in [Callers -> Operations]
        /\ snap' \in [Callers -> States]
        /\ revision' \in [Callers -> Nat] /\ head' \in [Callers -> Nat]
        /\ \A q \in Callers : snap'[q].head <= Len(audit) /\ head'[q] <= Len(audit)
    BY <1>9, ReturnType DEF TearAudit
  <2>4. \A q \in Callers : snap'[q].head \in Nat /\ head'[q] \in Nat
    BY <2>3 DEF States
  <2>5. /\ state' = state /\ state \in States
        /\ answer' \in [Callers -> Answers] /\ openAtRead' \in [Callers -> BOOLEAN]
    BY <1>9 DEF TearAudit, TypeOK, Answers
  <2>6. /\ state'.head <= Len(audit')
        /\ \A q \in Callers : snap'[q].head <= Len(audit') /\ head'[q] <= Len(audit')
    BY <2>2, <2>3, <2>4, <2>5, <1>l, <1>h DEF TypeOK
  <2> QED BY <2>2, <2>3, <2>5, <2>6 DEF TypeOK
<1>10. CASE UNCHANGED switchVars
  BY <1>10 DEF switchVars, files, locals, TypeOK
<1> QED
  BY <1>1, <1>2, <1>3, <1>4, <1>5, <1>6, <1>7, <1>8, <1>9, <1>10 DEF SwitchNext

\* The empty files and idle callers have the types.
LEMMA TypeInit == SwitchInit => TypeOK
BY DEF SwitchInit, TypeOK, NoState, States, Operations, Answers

\* Whatever the callers do, the two files and the locals keep their shapes and
\* no recorded head points beyond the audit.
THEOREM SwitchTypeCorrect == SwitchSpec => []TypeOK
BY TypeInit, TypeStep, PTL DEF SwitchSpec

-----------------------------------------------------------------------------

\* The comparisons of status() establish what they are there for.
LEMMA OpenIsInForce == StatusOf(state) = "open" => ResetInForce
BY Zenon DEF StatusOf, Agrees, ChainHolds, ResetInForce

\* A state that was read before an append disagrees with the audit after it.
LEMMA AppendOutdates ==
    ASSUME TypeOK, NEW q \in Callers, Len(audit') = Len(audit) + 1,
           snap'[q] = snap[q]
    PROVE  StatusOf(snap[q])' # "open"
BY DEF TypeOK, States, StatusOf, Agrees

\* A step that leaves the audit alone leaves the status of a state alone.
LEMMA StatusKept ==
    ASSUME NEW q \in Callers, audit' = audit, snap'[q] = snap[q]
    PROVE  StatusOf(snap[q])' = StatusOf(snap[q])
BY DEF StatusOf, Agrees, ChainHolds

\* Every step of a caller keeps what the callers have read true.
LEMMA ReadStep == TypeOK /\ ReadInv /\ [SwitchNext]_switchVars => ReadInv'
<1> SUFFICES ASSUME TypeOK, ReadInv, [SwitchNext]_switchVars PROVE ReadInv'
  BY Zenon
<1> DEFINE Good(q) == /\ answer[q] = "open" => openAtRead[q]
                      /\ pc[q] = "status" /\ StatusOf(snap[q]) = "open"
                            => openAtRead[q]
<1>g. ASSUME \A q \in Callers : Good(q)' PROVE ReadInv'
  BY <1>g DEF ReadInv
<1>k. ASSUME NEW q \in Callers, audit' = audit, snap'[q] = snap[q], pc'[q] = pc[q],
             answer'[q] = answer[q], openAtRead'[q] = openAtRead[q]
      PROVE  Good(q)'
  BY Zenon, <1>k, StatusKept DEF ReadInv
<1>1. ASSUME NEW p \in Callers, Initialize(p) PROVE ReadInv'
  <2>1. ASSUME NEW q \in Callers PROVE Good(q)'
    <3>1. CASE q = p
      BY Zenon, <1>1, <3>1 DEF Initialize, MoveTo, TypeOK, ReadInv
    <3>2. CASE q # p
      <4>1. /\ audit' = audit /\ snap'[q] = snap[q] /\ pc'[q] = pc[q]
            /\ answer'[q] = answer[q] /\ openAtRead'[q] = openAtRead[q]
        BY <1>1, <3>2 DEF Initialize, MoveTo, TypeOK, files
      <4> QED BY Zenon, <4>1, <1>k
    <3> QED BY Zenon, <3>1, <3>2
  <2> QED BY Zenon, <2>1, <1>g
<1>2. ASSUME NEW p \in Callers,
             \/ \E o \in Operations : ReadState(p, o)
             \/ Verify(p)
      PROVE  ReadInv'
  <2>1. /\ audit' = audit /\ snap'[p] = state /\ openAtRead'[p] = ResetInForce
        /\ answer'[p] = "none"
        /\ \A q \in Callers : q # p => /\ snap'[q] = snap[q] /\ pc'[q] = pc[q]
                                       /\ answer'[q] = answer[q]
                                       /\ openAtRead'[q] = openAtRead[q]
    BY Zenon, <1>2 DEF ReadState, Verify, MoveTo, TypeOK, files
  <2>2. StatusOf(snap[p])' = StatusOf(state)
    BY ZenonT(30), <2>1 DEF StatusOf, Agrees, ChainHolds
  <2>3. Good(p)'
    BY Zenon, <2>1, <2>2, OpenIsInForce
  <2>4. ASSUME NEW q \in Callers PROVE Good(q)'
    BY Zenon, <2>1, <2>3, <1>k
  <2> QED BY Zenon, <2>4, <1>g
<1>3. ASSUME NEW p \in Callers, ReadStatus(p) PROVE ReadInv'
  <2>1. ASSUME NEW q \in Callers PROVE Good(q)'
    <3>1. CASE q = p
      <4>1. /\ pc'[p] # "status" /\ answer'[p] = StatusOf(snap[p])
            /\ openAtRead'[p] = openAtRead[p] /\ pc[p] = "status"
        BY <1>3 DEF ReadStatus, Return, MoveTo, TypeOK
      <4> QED BY Zenon, <3>1, <4>1 DEF ReadInv
    <3>2. CASE q # p
      <4>1. /\ audit' = audit /\ snap'[q] = snap[q] /\ pc'[q] = pc[q]
            /\ answer'[q] = answer[q] /\ openAtRead'[q] = openAtRead[q]
        BY Zenon, <1>3, <3>2 DEF ReadStatus, Return, MoveTo, TypeOK, files
      <4> QED BY Zenon, <4>1, <1>k
    <3> QED BY Zenon, <3>1, <3>2
  <2> QED BY Zenon, <2>1, <1>g
<1>4. ASSUME NEW p \in Callers, ReadHead(p) \/ WriteState(p) \/ CallerDies(p)
      PROVE  ReadInv'
  <2>1. ASSUME NEW q \in Callers PROVE Good(q)'
    <3>1. CASE q = p
      <4>1. /\ pc'[p] # "status"
            /\ \/ answer'[p] = answer[p] /\ openAtRead'[p] = openAtRead[p]
               \/ answer'[p] = "none"
        BY Zenon, <1>4
           DEF ReadHead, WriteState, CallerDies, Return, MoveTo, TypeOK
      <4> QED BY Zenon, <3>1, <4>1 DEF ReadInv
    <3>2. CASE q # p
      <4>1. /\ audit' = audit /\ snap'[q] = snap[q] /\ pc'[q] = pc[q]
            /\ answer'[q] = answer[q] /\ openAtRead'[q] = openAtRead[q]
        BY Zenon, <1>4, <3>2
           DEF ReadHead, WriteState, CallerDies, Return, MoveTo, TypeOK,
               files
      <4> QED BY Zenon, <4>1, <1>k
    <3> QED BY Zenon, <3>1, <3>2
  <2> QED BY Zenon, <2>1, <1>g
<1>5. ASSUME NEW p \in Callers, AppendAudit(p) \/ TearAudit(p) PROVE ReadInv'
  <2>1. Len(audit') = Len(audit) + 1
    BY <1>5 DEF AppendAudit, TearAudit, TypeOK
  <2>2. ASSUME NEW q \in Callers PROVE Good(q)'
    <3>1. CASE q = p
      <4>1. /\ pc'[p] # "status"
            /\ \/ answer'[p] = answer[p] /\ openAtRead'[p] = openAtRead[p]
               \/ answer'[p] = "none"
        BY Zenon, <1>5 DEF AppendAudit, TearAudit, Return, MoveTo, TypeOK
      <4> QED BY Zenon, <3>1, <4>1 DEF ReadInv
    <3>2. CASE q # p
      <4>1. /\ snap'[q] = snap[q] /\ answer'[q] = answer[q]
            /\ openAtRead'[q] = openAtRead[q]
        BY <1>5, <3>2 DEF AppendAudit, TearAudit, Return, MoveTo, TypeOK
      <4>2. StatusOf(snap[q])' # "open"
        BY Zenon, <2>1, <4>1, AppendOutdates
      <4> QED BY Zenon, <4>1, <4>2 DEF ReadInv
    <3> QED BY Zenon, <3>1, <3>2
  <2> QED BY Zenon, <2>2, <1>g
<1>6. CASE UNCHANGED switchVars
  <2>1. ASSUME NEW q \in Callers PROVE Good(q)'
    BY ZenonT(30), <1>6, <1>k DEF switchVars, files, locals
  <2> QED BY Zenon, <2>1, <1>g
<1> QED
  BY <1>1, <1>2, <1>3, <1>4, <1>5, <1>6 DEF SwitchNext

\* A status() that reports writes allowed was right at the instant it read the
\* state file, for any number of callers and any length of the audit.
THEOREM StatusConsistent == SwitchSpec => []StatusIsConsistent
<1>1. SwitchInit => ReadInv
  BY Zenon DEF SwitchInit, ReadInv
<1>2. ReadInv => StatusIsConsistent
  BY DEF ReadInv, StatusIsConsistent
<1> QED
  BY <1>1, <1>2, SwitchTypeCorrect, ReadStep, PTL DEF SwitchSpec

-----------------------------------------------------------------------------

\* What a step that opens writes must have been: the state write of a reset
\* whose event is the last one.
OpeningStep ==
    ~Writable /\ Writable' =>
        \E p \in Callers : pc[p] = "write" /\ op[p] = "reset" /\ head[p] = Len(audit)

\* No other step opens writes: it leaves both files alone, or it appends to the
\* audit and no state file agrees with it any more.
LEMMA OpenStep == TypeOK /\ [SwitchNext]_switchVars => OpeningStep
<1> SUFFICES ASSUME TypeOK, [SwitchNext]_switchVars PROVE OpeningStep
  BY Zenon
<1>1. CASE audit' = audit /\ state' = state
  BY Zenon, <1>1 DEF OpeningStep, Writable, StatusOf, Agrees, ChainHolds
<1>2. ASSUME NEW p \in Callers, AppendAudit(p) \/ TearAudit(p) PROVE OpeningStep
  <2>1. Len(audit') = Len(audit) + 1 /\ state' = state
    BY <1>2 DEF AppendAudit, TearAudit, TypeOK
  <2>2. state.head <= Len(audit) /\ state.head \in Nat /\ Len(audit) \in Nat
    BY DEF TypeOK, States
  <2>3. ~Agrees(state)'
    BY SMTT(30), <2>1, <2>2 DEF Agrees
  <2> QED BY <2>3 DEF OpeningStep, Writable, StatusOf
<1>3. ASSUME NEW p \in Callers, WriteState(p) PROVE OpeningStep
  <2>1. /\ audit' = audit /\ state'.head = head[p] /\ pc[p] = "write"
        /\ state'.engaged = (op[p] # "reset")
    BY ZenonT(30), <1>3 DEF WriteState
  <2>2. Writable' => ~state'.engaged /\ state'.head = Len(audit')
    BY DEF Writable, StatusOf, Agrees
  <2> QED BY Zenon, <2>1, <2>2 DEF OpeningStep
<1>4. ASSUME NEW p \in Callers,
             \/ Initialize(p) \/ ReadStatus(p) \/ ReadHead(p)
             \/ Verify(p) \/ CallerDies(p)
             \/ \E o \in Operations : ReadState(p, o)
      PROVE  audit' = audit /\ state' = state
  BY <1>4 DEF Initialize, ReadStatus, ReadHead, Verify, CallerDies,
              ReadState, files
<1>5. CASE UNCHANGED switchVars
  BY <1>1, <1>5 DEF switchVars, files
<1> QED
  BY Zenon, <1>1, <1>2, <1>3, <1>4, <1>5 DEF SwitchNext

\* Writes open only through the state file of a reset that nobody overtook, for
\* any number of callers and crashes.
THEOREM OnlyResetOpens == SwitchSpec => OpensOnlyByReset
<1>1. TypeOK /\ [SwitchNext]_switchVars =>
        [~Writable /\ Writable' =>
           \E p \in Callers : /\ pc[p] = "write" /\ op[p] = "reset"
                              /\ head[p] = Len(audit)]_switchVars
  BY OpenStep DEF OpeningStep
<1> QED
  BY <1>1, SwitchTypeCorrect, PTL DEF SwitchSpec, OpensOnlyByReset

\* Writes are allowed only while the last reset was chained to every event that
\* came before it, for any number of callers and crashes.
THEOREM ResetSawAll == SwitchSpec => []ResetSawEveryEvent
<1>1. TypeOK => ResetSawEveryEvent
  <2> SUFFICES ASSUME TypeOK, Writable, NEW k \in 1..(Len(audit) - 1)
               PROVE  audit[Len(audit)].prev >= k
    BY Zenon DEF ResetSawEveryEvent
  <2>1. audit # <<>> /\ ChainHolds
    BY Zenon DEF Writable, StatusOf, Agrees
  <2>2. DOMAIN audit = 1..Len(audit) /\ Len(audit) \in Nat
    BY DEF TypeOK
  <2>3. Len(audit) # 0
    BY <2>1 DEF TypeOK
  <2>4. Len(audit) \in DOMAIN audit
    BY <2>2, <2>3
  <2>5. audit[Len(audit)].prev = Len(audit) - 1
    BY <2>1, <2>4 DEF ChainHolds
  <2>6. \A m \in Nat : \A i \in 1..(m - 1) : m - 1 >= i
    OBVIOUS
  <2> QED
    BY Zenon, <2>2, <2>5, <2>6
<1> QED
  BY <1>1, SwitchTypeCorrect, PTL

-----------------------------------------------------------------------------
(*****************************************************************************)
(* The clocks of an order.                                                   *)
(*****************************************************************************)

\* The least of a few numbers.

HasLeast(S) == S \subseteq Int /\ \E m \in S : \A y \in S : m <= y

LEMMA MinIsLeast ==
    ASSUME NEW S, HasLeast(S)
    PROVE  Min(S) \in S /\ Min(S) \in Int /\ \A y \in S : Min(S) <= y
BY Zenon DEF Min, HasLeast

LEMMA LeastOfOne == ASSUME NEW a \in Int PROVE HasLeast({a})
BY DEF HasLeast

LEMMA LeastOfMore ==
    ASSUME NEW S, HasLeast(S), NEW a \in Int
    PROVE  HasLeast(S \cup {a})
<1>1. S \cup {a} \subseteq Int
  BY DEF HasLeast
<1>2. PICK m \in S : m \in Int /\ \A y \in S : y \in Int /\ m <= y
  BY DEF HasLeast
<1>3. CASE m <= a
  BY <1>1, <1>2, <1>3 DEF HasLeast
<1>4. CASE ~(m <= a)
  <2>1. \A y \in S \cup {a} : a <= y
    BY <1>2, <1>4
  <2> QED
    BY <1>1, <2>1 DEF HasLeast
<1> QED
  BY <1>3, <1>4

LEMMA LeastOfTwo ==
    ASSUME NEW a \in Int, NEW b \in Int PROVE HasLeast({a, b})
<1>1. HasLeast({a} \cup {b})
  BY Zenon, LeastOfOne, LeastOfMore
<1>2. {a} \cup {b} = {a, b}
  OBVIOUS
<1> QED
  BY <1>1, <1>2

LEMMA LeastOfThree ==
    ASSUME NEW a \in Int, NEW b \in Int, NEW c \in Int PROVE HasLeast({a, b, c})
<1>1. HasLeast({a, b} \cup {c})
  BY Zenon, LeastOfTwo, LeastOfMore
<1>2. {a, b} \cup {c} = {a, b, c}
  OBVIOUS
<1> QED
  BY <1>1, <1>2

LEMMA LeastOfFour ==
    ASSUME NEW a \in Int, NEW b \in Int, NEW c \in Int, NEW d \in Int
    PROVE  HasLeast({a, b, c, d})
<1>1. HasLeast({a, b, c} \cup {d})
  BY Zenon, LeastOfThree, LeastOfMore
<1>2. {a, b, c} \cup {d} = {a, b, c, d}
  OBVIOUS
<1> QED
  BY <1>1, <1>2

LEMMA LeastOfFive ==
    ASSUME NEW a \in Int, NEW b \in Int, NEW c \in Int, NEW d \in Int, NEW e \in Int
    PROVE  HasLeast({a, b, c, d, e})
<1>1. HasLeast({a, b, c, d} \cup {e})
  BY Zenon, LeastOfFour, LeastOfMore
<1>2. {a, b, c, d} \cup {e} = {a, b, c, d, e}
  OBVIOUS
<1> QED
  BY <1>1, <1>2

LEMMA LeastOfSix ==
    ASSUME NEW a \in Int, NEW b \in Int, NEW c \in Int, NEW d \in Int, NEW e \in Int,
           NEW f \in Int
    PROVE  HasLeast({a, b, c, d, e, f})
<1>1. HasLeast({a, b, c, d, e} \cup {f})
  BY Zenon, LeastOfFive, LeastOfMore
<1>2. {a, b, c, d, e} \cup {f} = {a, b, c, d, e, f}
  OBVIOUS
<1> QED
  BY <1>1, <1>2

LEMMA LeastOfSeven ==
    ASSUME NEW a \in Int, NEW b \in Int, NEW c \in Int, NEW d \in Int, NEW e \in Int,
           NEW f \in Int, NEW g \in Int
    PROVE  HasLeast({a, b, c, d, e, f, g})
<1>1. HasLeast({a, b, c, d, e, f} \cup {g})
  BY Zenon, LeastOfSix, LeastOfMore
<1>2. {a, b, c, d, e, f} \cup {g} = {a, b, c, d, e, f, g}
  OBVIOUS
<1> QED
  BY <1>1, <1>2

LEMMA LeastOfNine ==
    ASSUME NEW a \in Int, NEW b \in Int, NEW c \in Int, NEW d \in Int, NEW e \in Int,
           NEW f \in Int, NEW g \in Int, NEW h \in Int, NEW i \in Int
    PROVE  HasLeast({a, b, c, d, e, f, g, h, i})
<1>1. HasLeast({a, b, c, d, e, f, g} \cup {h})
  BY Zenon, LeastOfSeven, LeastOfMore
<1>2. HasLeast(({a, b, c, d, e, f, g} \cup {h}) \cup {i})
  BY <1>1, LeastOfMore
<1>3. ({a, b, c, d, e, f, g} \cup {h}) \cup {i} = {a, b, c, d, e, f, g, h, i}
  OBVIOUS
<1> QED
  BY <1>2, <1>3

-----------------------------------------------------------------------------
\* Where in its program an order is authorized, and what is left to do then.

SubmitAt == IF kind = "manual" THEN 23 ELSE 14

Late == {"identity", "claim", "place", "hook"}

LEMMA StepsOfKind ==
    ASSUME kind \in Kinds
    PROVE  /\ kind = "connector" => Steps = ConnectorSteps
           /\ kind = "manual" => Steps = ManualSteps
           /\ kind = "standing" => Steps = StandingSteps
           /\ kind = "finite" => Steps = FiniteSteps
<1>1. ASSUME kind = "connector" PROVE Steps = ConnectorSteps
  BY <1>1 DEF Steps
<1>2. ASSUME kind = "manual" PROVE Steps = ManualSteps
  BY <1>2 DEF Steps
<1>3. ASSUME kind = "standing" PROVE Steps = StandingSteps
  BY <1>3 DEF Steps
<1>4. ASSUME kind = "finite" PROVE Steps = FiniteSteps
  BY <1>4 DEF Steps
<1> QED
  BY <1>1, <1>2, <1>3, <1>4

\* The submission has its place, what comes after it is in Late, and what comes
\* before it is not; only an approved order is placed without the hook.
LEMMA Places ==
    ASSUME kind \in Kinds, n \in Nat, Running
    PROVE  /\ n > SubmitAt => Steps[n] \in Late
           /\ n = SubmitAt <=> Steps[n] = "submit"
           /\ n < SubmitAt => Steps[n] \notin Late
           /\ Steps[n] = "place" => kind \in Approved
<1>1. CASE kind = "connector"
  <2>1. Steps = ConnectorSteps /\ SubmitAt = 14
    BY <1>1, StepsOfKind DEF SubmitAt
  <2> QED
    BY <1>1, <2>1 DEF Running, ConnectorSteps, MarketReads, Late, Approved
<1>2. CASE kind = "manual"
  <2>1. Steps = ManualSteps /\ SubmitAt = 23
    BY <1>2, StepsOfKind DEF SubmitAt
  <2> QED
    BY <1>2, <2>1
       DEF Running, ManualSteps, AccountReads, MarketReads, Late, Approved
<1>3. CASE kind = "standing"
  <2>1. Steps = StandingSteps /\ SubmitAt = 14
    BY <1>3, StepsOfKind DEF SubmitAt
  <2> QED
    BY <2>1 DEF Running, StandingSteps, AccountReads, MarketReads, Late
<1>4. CASE kind = "finite"
  <2>1. Steps = FiniteSteps /\ SubmitAt = 14
    BY <1>4, StepsOfKind DEF SubmitAt
  <2> QED
    BY <2>1 DEF Running, FiniteSteps, AccountReads, MarketReads, Late
<1> QED
  BY <1>1, <1>2, <1>3, <1>4 DEF Kinds

-----------------------------------------------------------------------------
\* The invariant.

Clocks == [Sources \cup {"account"} -> Int]

ClockTypes ==
    /\ now \in Nat /\ kind \in Kinds /\ n \in Nat
    /\ start \in Clocks /\ asOf \in Clocks /\ received \in Int
    /\ intentAt \in Int /\ preparedAt \in Int /\ approvedAt \in Int
    /\ authorizedAt \in Int /\ until \in Int /\ claimedAt \in Int /\ sentAt \in Int

\* Whoever is past the submission was authorized there.
PhaseInv ==
    /\ n > SubmitAt => authorizedAt # Never
    /\ authorizedAt # Never => n = 0 \/ n > SubmitAt

\* What an authorization that is given at t and ends at u rests on.
Within(t, u) ==
    /\ u <= start["account"] + MaxAge - (IF kind = "finite" THEN FiniteMargin ELSE 0)
    /\ u <= asOf["rate"] + MaxAge /\ u <= start["state"] + StateAge
    /\ u <= start["usage"] + UsageAge /\ u <= intentAt + IntentLife
    /\ kind \notin Approved => /\ u <= start["cost"] + MaxAge
                               /\ u <= start["eligibility"] + MaxAge
                               /\ u <= asOf["cost"] + MaxAge
    /\ kind = "finite" => u <= received + Handoff /\ u <= MandateEnd
    /\ kind \in Approved => /\ u <= start["preview"] + PreviewLife
                               /\ u <= approvedAt + ApprovalAge
    /\ kind # "connector" /\ t < Midnight => u <= Midnight

BoundInv == authorizedAt # Never => Within(authorizedAt, until)

\* A dispatch is claimed, and a direct request leaves, inside the authorization.
DispatchInv ==
    /\ claimedAt # Never =>
         authorizedAt # Never /\ authorizedAt <= claimedAt /\ claimedAt < until
    /\ sentAt # Never /\ kind \notin Approved =>
         authorizedAt # Never /\ authorizedAt <= sentAt /\ sentAt < until

ClockInv == ClockTypes /\ PhaseInv /\ BoundInv /\ DispatchInv

-----------------------------------------------------------------------------
\* The deadlines are bounded by what they are the earliest of.

LEMMA Limits ==
    /\ Horizon \in Nat /\ Midnight \in Nat /\ MandateEnd \in Nat
    /\ MaxAge \in Nat /\ FiniteMargin \in Nat /\ StateAge \in Nat /\ Handoff \in Nat
    /\ UsageAge \in Nat /\ PreviewLife \in Nat /\ IntentLife \in Nat
    /\ ApprovalAge \in Nat /\ DecisionAge \in Nat
BY LimitsAreDurations

LEMMA Ends ==
    ASSUME ClockTypes
    PROVE  /\ AccountDeadline \in Int /\ EndOfDay \in Int
           /\ AssessmentDeadline \in Int
           /\ AssessmentDeadline <= start["cost"] + MaxAge
           /\ AssessmentDeadline <= start["eligibility"] + MaxAge
           /\ AssessmentDeadline <= asOf["cost"] + MaxAge
           /\ MarketEnd \in Int
           /\ MarketEnd <= asOf["rate"] + MaxAge
           /\ MarketEnd <= start["state"] + StateAge
           /\ IntentEnd \in Int /\ IntentEnd <= intentAt + IntentLife
           /\ ApprovalEnd \in Int /\ ApprovalEnd <= approvedAt + ApprovalAge
           /\ PreviewEnd \in Int
<1>0. /\ {start["account"], start["cost"], start["eligibility"], asOf["cost"],
          asOf["rate"], start["state"], start["preview"]} \subseteq Int
      /\ intentAt \in Int /\ approvedAt \in Int
  BY DEF ClockTypes, Clocks, Sources
<1>1. AccountDeadline \in Int /\ EndOfDay \in Int /\ PreviewEnd \in Int
  BY <1>0, Limits DEF AccountDeadline, EndOfDay, PreviewEnd
<1>2. /\ AssessmentDeadline \in Int
      /\ AssessmentDeadline <= start["cost"] + MaxAge
      /\ AssessmentDeadline <= start["eligibility"] + MaxAge
      /\ AssessmentDeadline <= asOf["cost"] + MaxAge
  <2> DEFINE S == {start["cost"], start["eligibility"], asOf["cost"], asOf["rate"]}
  <2>1. HasLeast(S)
    BY Zenon, <1>0, LeastOfFour
  <2>2. /\ Min(S) \in Int /\ Min(S) <= start["cost"]
        /\ Min(S) <= start["eligibility"] /\ Min(S) <= asOf["cost"]
    BY <2>1, MinIsLeast
  <2>3. AssessmentDeadline = Min(S) + MaxAge
    BY DEF AssessmentDeadline
  <2> HIDE DEF S
  <2> QED
    BY <1>0, <2>2, <2>3, Limits
<1>3. /\ MarketEnd \in Int
      /\ MarketEnd <= asOf["rate"] + MaxAge /\ MarketEnd <= start["state"] + StateAge
  <2>1. HasLeast({asOf["rate"] + MaxAge, start["state"] + StateAge})
    BY <1>0, LeastOfTwo, Limits
  <2> QED
    BY <2>1, MinIsLeast DEF MarketEnd
<1>4. IntentEnd \in Int /\ IntentEnd <= intentAt + IntentLife
  <2>1. HasLeast({intentAt + IntentLife, MandateEnd})
    BY <1>0, LeastOfTwo, Limits
  <2>2. /\ Min({intentAt + IntentLife, MandateEnd}) \in Int
        /\ Min({intentAt + IntentLife, MandateEnd}) <= intentAt + IntentLife
    BY <2>1, MinIsLeast
  <2>3. intentAt + IntentLife \in Int /\ intentAt + IntentLife <= intentAt + IntentLife
    BY <1>0, Limits
  <2> QED
    BY <2>2, <2>3 DEF IntentEnd
<1>5. ApprovalEnd \in Int /\ ApprovalEnd <= approvedAt + ApprovalAge
  <2>1. approvedAt + ApprovalAge \in Int
    BY SMTT(30), <1>0, Limits
  <2>2. HasLeast({IntentEnd, approvedAt + ApprovalAge, PreviewEnd})
    BY <1>1, <1>4, <2>1, LeastOfThree
  <2> QED
    BY <2>2, MinIsLeast DEF ApprovalEnd
<1> QED
  BY <1>1, <1>2, <1>3, <1>4, <1>5

\* What is before all the ends that count for its kind rests on all evidence.
LEMMA BeforeTheEnds ==
    ASSUME ClockTypes, NEW d \in Int,
           d <= IntentEnd, d <= MarketEnd, d <= start["usage"] + UsageAge,
           d <= AccountDeadline - (IF kind = "finite" THEN FiniteMargin ELSE 0),
           kind \in Approved => d <= ApprovalEnd /\ d <= PreviewEnd,
           kind \notin Approved => d <= AssessmentDeadline,
           kind = "finite" => d <= received + Handoff /\ d <= MandateEnd,
           kind # "connector" => d <= EndOfDay
    PROVE  Within(now, d)
<1>0. /\ start["account"] \in Int /\ start["cost"] \in Int /\ start["eligibility"] \in Int
      /\ asOf["cost"] \in Int /\ asOf["rate"] \in Int /\ start["state"] \in Int
      /\ start["preview"] \in Int /\ start["usage"] \in Int
      /\ intentAt \in Int /\ approvedAt \in Int
  BY DEF ClockTypes, Clocks, Sources
<1>1. d <= start["account"] + MaxAge - (IF kind = "finite" THEN FiniteMargin ELSE 0)
  BY SMTT(30), <1>0, Limits DEF AccountDeadline
<1>2. d <= asOf["rate"] + MaxAge /\ d <= start["state"] + StateAge
  BY <1>0, Ends, Limits
<1>3. d <= intentAt + IntentLife
  BY SMTT(30), <1>0, Ends, Limits
<1>4. kind \notin Approved => /\ d <= start["cost"] + MaxAge
                              /\ d <= start["eligibility"] + MaxAge
                              /\ d <= asOf["cost"] + MaxAge
  BY <1>0, Ends, Limits
<1>5. kind \in Approved => /\ d <= start["preview"] + PreviewLife
                              /\ d <= approvedAt + ApprovalAge
  <2>1. kind \in Approved => d <= start["preview"] + PreviewLife
    BY DEF PreviewEnd
  <2>2. kind \in Approved => d <= approvedAt + ApprovalAge
    BY <1>0, Ends, Limits
  <2> QED
    BY <2>1, <2>2
<1>6. kind # "connector" /\ now < Midnight => d <= Midnight
  BY DEF EndOfDay
<1> QED
  BY Zenon, <1>1, <1>2, <1>3, <1>4, <1>5, <1>6 DEF Within

LEMMA ConnectorDeadline ==
    ASSUME ClockTypes, kind = "connector"
    PROVE  Deadline \in Int /\ Within(now, Deadline)
<1> DEFINE u == start["usage"] + UsageAge
<1>1. u \in Int
  BY Limits DEF ClockTypes, Clocks, Sources
<1>2. Deadline = DeadlineConnector
  BY Zenon DEF Deadline
<1>3. HasLeast({IntentEnd, ApprovalEnd, PreviewEnd,
                AccountDeadline, MarketEnd, u})
  <2> HIDE DEF u
  <2> QED
    BY Zenon, <1>1, Ends, LeastOfSix
<1>4. /\ Deadline \in Int
      /\ Deadline <= IntentEnd /\ Deadline <= ApprovalEnd
      /\ Deadline <= PreviewEnd /\ Deadline <= AccountDeadline
      /\ Deadline <= MarketEnd /\ Deadline <= u
  BY ZenonT(30), <1>2, <1>3, MinIsLeast DEF DeadlineConnector
<1>5. Deadline <= AccountDeadline - (IF kind = "finite" THEN FiniteMargin ELSE 0)
  BY <1>4, Ends
<1>6. kind \in Approved /\ kind # "finite"
  BY Zenon DEF Approved
<1> QED
  BY <1>4, <1>5, <1>6, BeforeTheEnds

LEMMA ManualDeadline ==
    ASSUME ClockTypes, kind = "manual"
    PROVE  Deadline \in Int /\ Within(now, Deadline)
<1> DEFINE u == start["usage"] + UsageAge
<1>1. u \in Int
  BY Limits DEF ClockTypes, Clocks, Sources
<1>2. Deadline = DeadlineManual
  BY DEF Deadline
<1>3. HasLeast({EndOfDay, IntentEnd, ApprovalEnd, PreviewEnd,
                AccountDeadline, MarketEnd, u})
  <2> HIDE DEF u
  <2> QED
    BY Zenon, <1>1, Ends, LeastOfSeven
<1>4. /\ Deadline \in Int /\ Deadline <= EndOfDay
      /\ Deadline <= IntentEnd /\ Deadline <= ApprovalEnd
      /\ Deadline <= PreviewEnd /\ Deadline <= AccountDeadline
      /\ Deadline <= MarketEnd /\ Deadline <= u
  BY <1>2, <1>3, MinIsLeast DEF DeadlineManual
<1>5. Deadline <= AccountDeadline - (IF kind = "finite" THEN FiniteMargin ELSE 0)
  BY <1>4, Ends
<1>6. kind \in Approved /\ kind # "finite"
  BY DEF Approved
<1> QED
  BY <1>4, <1>5, <1>6, BeforeTheEnds

LEMMA StandingDeadline ==
    ASSUME ClockTypes, kind = "standing"
    PROVE  Deadline \in Int /\ Within(now, Deadline)
<1> DEFINE u == start["usage"] + UsageAge
<1>1. u \in Int /\ preparedAt + DecisionAge \in Int /\ asOf["rate"] + MaxAge \in Int
  BY Limits DEF ClockTypes, Clocks, Sources
<1>2. Deadline = DeadlineStanding
  BY DEF Deadline
<1>3. StandingApprovalEnd \in Int
  <2>1. HasLeast({IntentEnd, AccountDeadline, preparedAt + DecisionAge,
                  asOf["rate"] + MaxAge, u})
    <3> HIDE DEF u
    <3> QED
      BY Zenon, <1>1, Ends, LeastOfFive
  <2> QED
    BY <2>1, MinIsLeast DEF StandingApprovalEnd
<1>4. HasLeast({EndOfDay, IntentEnd, StandingApprovalEnd, AccountDeadline,
                AssessmentDeadline, MarketEnd, u})
  <2> HIDE DEF u
  <2> QED
    BY Zenon, <1>1, <1>3, Ends, LeastOfSeven
<1>5. /\ Deadline \in Int /\ Deadline <= EndOfDay
      /\ Deadline <= IntentEnd /\ Deadline <= AccountDeadline
      /\ Deadline <= AssessmentDeadline /\ Deadline <= MarketEnd
      /\ Deadline <= u
  BY <1>2, <1>4, MinIsLeast DEF DeadlineStanding
<1>6. Deadline <= AccountDeadline - (IF kind = "finite" THEN FiniteMargin ELSE 0)
  BY <1>5, Ends
<1>7. kind \notin Approved /\ kind # "finite"
  BY Zenon DEF Approved
<1> QED
  BY <1>5, <1>6, <1>7, BeforeTheEnds

LEMMA FiniteDeadline ==
    ASSUME ClockTypes, kind = "finite"
    PROVE  Deadline \in Int /\ Within(now, Deadline)
<1> DEFINE u == start["usage"] + UsageAge
           a == AccountDeadline - FiniteMargin
           h == received + Handoff
           p == preparedAt + DecisionAge
<1>1. u \in Int /\ a \in Int /\ h \in Int /\ p \in Int /\ MandateEnd \in Int
  BY Limits, Ends DEF ClockTypes, Clocks, Sources
<1>2. Deadline = DeadlineFinite
  BY DEF Deadline
<1>3. HasLeast({EndOfDay, IntentEnd, MandateEnd, a,
                AssessmentDeadline, MarketEnd, h, u, p})
  <2> HIDE DEF u, a, h, p
  <2> QED
    BY Zenon, <1>1, Ends, LeastOfNine
<1>4. /\ Deadline \in Int /\ Deadline <= EndOfDay
      /\ Deadline <= IntentEnd /\ Deadline <= MandateEnd /\ Deadline <= a
      /\ Deadline <= AssessmentDeadline /\ Deadline <= MarketEnd
      /\ Deadline <= h /\ Deadline <= u
  BY <1>2, <1>3, MinIsLeast DEF DeadlineFinite
<1>5. kind \notin Approved
  BY Zenon DEF Approved
<1> QED
  BY Zenon, <1>4, <1>5, BeforeTheEnds

LEMMA DeadlineIsWithin ==
    ASSUME ClockTypes PROVE Deadline \in Int /\ Within(now, Deadline)
BY ConnectorDeadline, ManualDeadline, StandingDeadline, FiniteDeadline
   DEF ClockTypes, Kinds

-----------------------------------------------------------------------------
\* The steps.

LEMMA ClockInit == OrderInit => ClockInv
<1> SUFFICES ASSUME OrderInit PROVE ClockInv
  OBVIOUS
<1>1. Nothing \in Clocks
  BY DEF Nothing, Never, Clocks
<1>2. ClockTypes
  BY <1>1 DEF OrderInit, ClockTypes, Never
<1>3. PhaseInv
  BY DEF OrderInit, PhaseInv, SubmitAt
<1>4. BoundInv /\ DispatchInv
  BY Zenon DEF OrderInit, BoundInv, DispatchInv
<1> QED
  BY <1>2, <1>3, <1>4 DEF ClockInv

LEMMA KindStays == ASSUME OrderNext PROVE kind' = kind
BY ZenonT(30)
   DEF OrderNext, Tick, Read, Check, BuildAccount, CaptureComponents,
       ReadMarket,
       CreateIntent, EvaluateRisk, Assess, Prepare, BindPreview,
       Approve, Submit,
       ClaimDispatch, SendDirect, PlaceTrade

\* A step leaves n, goes on by one or ends the program.
LEMMA OneStep ==
    ASSUME OrderNext
    PROVE  /\ Running
           /\ n' = n \/ n' = n + 1 \/ n' = 0
           /\ Steps[n] = "submit" => Submit \/ n' = n
<1>1. CASE Tick
  BY Zenon, <1>1 DEF Tick
<1>2. CASE Read
  <2>1. Steps[n] # "submit"
    BY Zenon, <1>2 DEF Read, Sources
  <2>2. Running /\ (n' = n + 1 \/ n' = 0)
    BY <1>2 DEF Read, Advance, Stop
  <2> QED
    BY <2>1, <2>2
<1>3. CASE CaptureComponents
  BY Zenon, <1>3 DEF CaptureComponents, AtStep, Advance
<1>4. CASE Submit
  BY <1>4 DEF Submit, Check, AtStep, Advance, Stop
<1>5. CASE BuildAccount
  BY Zenon, <1>5 DEF BuildAccount, Check, AtStep, Advance, Stop
<1>6. CASE ReadMarket
  BY <1>6 DEF ReadMarket, Check, AtStep, Advance, Stop
<1>7. CASE CreateIntent
  BY Zenon, <1>7 DEF CreateIntent, Check, AtStep, Advance, Stop
<1>8. CASE EvaluateRisk
  BY <1>8 DEF EvaluateRisk, Check, AtStep, Advance, Stop
<1>9. CASE Assess
  BY Zenon, <1>9 DEF Assess, Check, AtStep, Advance, Stop
<1>10. CASE Prepare
  BY <1>10 DEF Prepare, Check, AtStep, Advance, Stop
<1>11. CASE BindPreview
  BY Zenon, <1>11 DEF BindPreview, Check, AtStep, Advance, Stop
<1>12. CASE Approve
  BY <1>12 DEF Approve, Check, AtStep, Advance, Stop
<1>13. CASE ClaimDispatch
  BY Zenon, <1>13 DEF ClaimDispatch, Check, AtStep, Advance, Stop
<1>14. CASE SendDirect
  BY <1>14 DEF SendDirect, Check, AtStep, Advance, Stop
<1>15. CASE PlaceTrade
  BY Zenon, <1>15 DEF PlaceTrade, Check, AtStep, Advance, Stop
<1> QED
  BY ZenonT(30), <1>1, <1>2, <1>3, <1>4, <1>5, <1>6, <1>7, <1>8, <1>9, <1>10,
     <1>11, <1>12, <1>13, <1>14, <1>15 DEF OrderNext

\* Once an order is authorized, nothing the authorization rests on changes: the
\* one read that is left is that of the identity.
LEMMA LateStep ==
    ASSUME ClockTypes, OrderNext, Steps[n] \in Late
    PROVE  UNCHANGED <<start, asOf, received, intentAt, approvedAt, authorizedAt, until>>
<1>1. CASE Read
  <2>1. Steps[n] = "identity"
    BY <1>1 DEF Read, Late, Sources
  <2>2. "identity" \in Untimed /\ "identity" \notin Stamped /\ "identity" # "rate"
    BY Zenon DEF Untimed, Stamped
  <2>3. ~AtStep("preview")
    BY <2>1 DEF AtStep
  <2>4. UNCHANGED <<start, asOf, received>>
    BY <1>1, <2>1, <2>2 DEF Read, reads
  <2> QED
    BY Zenon, <1>1, <2>3, <2>4 DEF Read
<1>2. CASE Tick
  BY <1>2 DEF Tick, reads, times
<1>3. CASE ClaimDispatch \/ SendDirect \/ PlaceTrade
  BY Zenon, <1>3 DEF ClaimDispatch, SendDirect, PlaceTrade, reads
<1>4. /\ ~BuildAccount /\ ~CaptureComponents /\ ~ReadMarket
      /\ ~CreateIntent /\ ~EvaluateRisk
  BY DEF Late, AtStep, Check, BuildAccount, CaptureComponents, ReadMarket,
     CreateIntent,
         EvaluateRisk
<1>5. ~Assess /\ ~Prepare /\ ~BindPreview /\ ~Approve /\ ~Submit
  BY Zenon
     DEF Late, AtStep, Check, Assess, Prepare, BindPreview, Approve,
         Submit
<1> QED
  BY Zenon, <1>1, <1>2, <1>3, <1>4, <1>5 DEF OrderNext

\* Before that, only the submission authorizes.
LEMMA EarlyStep ==
    ASSUME OrderNext, ~Submit PROVE UNCHANGED <<authorizedAt, until>>
BY ZenonT(30)
   DEF OrderNext, Tick, Read, Check, BuildAccount, CaptureComponents,
       ReadMarket,
       CreateIntent, EvaluateRisk, Assess, Prepare, BindPreview, Approve,
       ClaimDispatch, SendDirect, PlaceTrade, times

\* Only the claim claims, and only the hook and the placement send.
LEMMA Dispatches ==
    ASSUME OrderNext
    PROVE  /\ ClaimDispatch \/ claimedAt' = claimedAt
           /\ SendDirect \/ PlaceTrade \/ sentAt' = sentAt
BY Zenon
   DEF OrderNext, Tick, Read, BuildAccount, CaptureComponents, ReadMarket,
       CreateIntent, EvaluateRisk, Assess, Prepare, BindPreview,
       Approve, Submit,
       ClaimDispatch, SendDirect, PlaceTrade, times

LEMMA ClockStep ==
    ASSUME ClockTypes, OrderNext PROVE ClockTypes'
<1>1. kind' \in Kinds /\ n' \in Nat
  BY SMTT(30), KindStays, OneStep DEF ClockTypes
<1>2. CASE Read
  <2>1. PICK took \in 0 .. MaxRequest + 1, lag \in Lags \cup {0} :
          /\ now' = now + took
          /\ \/ UNCHANGED reads
             \/ /\ start' = start \/ start' = [start EXCEPT ![Steps[n]] = now]
                /\ asOf' = asOf \/ asOf' = [asOf EXCEPT ![Steps[n]] = now' - lag]
                /\ received' = received \/ received' = now'
    BY Zenon, <1>2 DEF Read, reads
  <2>2. now' \in Nat /\ now' - lag \in Int
    <3>1. MaxRequest \in Nat /\ Lags \subseteq Nat
      BY LimitsAreDurations
    <3>2. now' = now + took /\ now \in Nat
      BY Zenon, <2>1 DEF ClockTypes
    <3>3. took \in Nat /\ lag \in Nat
      BY <3>1
    <3> QED
      BY <3>2, <3>3
  <2>3. start' \in Clocks /\ asOf' \in Clocks /\ received' \in Int
    BY SMTT(30), <2>1, <2>2 DEF ClockTypes, Clocks, reads
  <2>4. /\ intentAt' \in Int
        /\ UNCHANGED <<preparedAt, approvedAt, authorizedAt, until, claimedAt, sentAt>>
    BY <1>2 DEF Read, ClockTypes
  <2> QED
    BY Zenon, <1>1, <2>2, <2>3, <2>4 DEF ClockTypes
<1>3. CASE Tick
  BY SMTT(30), <1>1, <1>3 DEF Tick, ClockTypes, reads, times
<1>4. CASE BuildAccount
  <2>1. AccountTime \in Int
    <3>1. start["profile"] \in Int /\ start["first"] \in Int /\ asOf["pnl"] \in Int
      BY DEF ClockTypes, Clocks, Sources
    <3>2. HasLeast({start["profile"], start["first"], asOf["pnl"]})
      BY <3>1, LeastOfThree
    <3> QED
      BY <3>2, MinIsLeast DEF AccountTime
  <2>2. start' \in Clocks /\ asOf' \in Clocks
    <3>1. Never \in Int
      BY DEF Never
    <3>2. asOf' = [asOf EXCEPT !["pnl"] = Never]
      BY <1>4 DEF BuildAccount
    <3>3. start' = [start EXCEPT !["account"] = AccountTime, !["profile"] = Never,
                                 !["first"] = Never]
      BY <1>4 DEF BuildAccount
    <3>4. asOf' \in Clocks
      BY Zenon, <3>1, <3>2 DEF ClockTypes, Clocks
    <3>5. start' \in Clocks
      BY Zenon, <2>1, <3>1, <3>3 DEF ClockTypes, Clocks
    <3> QED
      BY <3>4, <3>5
  <2>3. UNCHANGED <<now, received, times>>
    BY <1>4 DEF BuildAccount, Check
  <2> QED
    BY <1>1, <2>2, <2>3 DEF ClockTypes, times
<1>5. CASE CaptureComponents
  <2>1. now' \in Nat
    BY SMTT(30), <1>5, Limits, LimitsAreDurations DEF CaptureComponents, ClockTypes
  <2>2. start' \in Clocks
    BY <1>5 DEF CaptureComponents, ClockTypes, Clocks
  <2> QED
    BY Zenon, <1>1, <1>5, <2>1, <2>2 DEF CaptureComponents, ClockTypes, times
<1>6. CASE ReadMarket \/ BindPreview
  BY Zenon, <1>1, <1>6
     DEF ReadMarket, BindPreview, Check, ClockTypes, reads, times
<1>7. CASE CreateIntent \/ Assess
  BY <1>1, <1>7 DEF CreateIntent, Assess, Check, ClockTypes, reads
<1>8. CASE EvaluateRisk \/ Prepare
  BY SMTT(30), <1>1, <1>8 DEF EvaluateRisk, Prepare, Check, ClockTypes, reads
<1>9. CASE Approve
  <2>1. start' \in Clocks /\ asOf' \in Clocks
    BY SMTT(30), <1>9 DEF Approve, ClockTypes, Clocks, Nothing, Never, Sources
  <2> QED
    BY <1>1, <1>9, <2>1 DEF Approve, Check, ClockTypes
<1>10. CASE Submit
  BY <1>1, <1>10, DeadlineIsWithin DEF Submit, Check, ClockTypes, reads
<1>11. CASE ClaimDispatch \/ SendDirect \/ PlaceTrade
  BY <1>1, <1>11
     DEF ClaimDispatch, SendDirect, PlaceTrade, Check, ClockTypes,
         reads, Never
<1> QED
  BY ZenonT(30), <1>2, <1>3, <1>4, <1>5, <1>6, <1>7, <1>8, <1>9, <1>10, <1>11 DEF OrderNext

\* The submission: its deadline is within everything it rests on.
LEMMA SubmitStep ==
    ASSUME ClockInv, Submit PROVE PhaseInv' /\ BoundInv' /\ DispatchInv'
<1>1. ClockTypes /\ Running /\ Steps[n] = "submit" /\ kind' = kind
  BY DEF ClockInv, Submit, Check, AtStep
<1>2. n = SubmitAt /\ n \in Nat
  BY <1>1, Places DEF ClockTypes
<1>3. /\ authorizedAt' = now /\ until' = Deadline
      /\ UNCHANGED <<start, asOf, received, intentAt, approvedAt, claimedAt, sentAt>>
  BY DEF Submit, reads
<1>4. n' = n + 1 \/ n' = 0
  BY DEF Submit, Check, Advance, Stop
<1>5. authorizedAt = Never
  BY SMTT(30), <1>2 DEF ClockInv, PhaseInv, SubmitAt
<1>6. PhaseInv'
  BY <1>1, <1>2, <1>3, <1>4 DEF PhaseInv, SubmitAt, Never, ClockTypes
<1>7. Within(now, Deadline)
  BY Zenon, <1>1, DeadlineIsWithin
<1>8. BoundInv'
  BY <1>1, <1>3, <1>7 DEF BoundInv, Within
<1>9. DispatchInv'
  BY Zenon, <1>1, <1>3, <1>5 DEF ClockInv, DispatchInv
<1> QED
  BY <1>6, <1>8, <1>9

\* Every other step keeps what an authorization was given on.
LEMMA OtherStep ==
    ASSUME ClockInv, OrderNext, ~Submit PROVE PhaseInv' /\ BoundInv'
<1>1. ClockTypes /\ Running /\ n \in Nat /\ kind' = kind /\ kind \in Kinds
  BY KindStays, OneStep DEF ClockInv, ClockTypes
<1>2. UNCHANGED <<authorizedAt, until>>
  BY EarlyStep
<1>3. SubmitAt' = SubmitAt /\ SubmitAt \in Nat
  BY <1>1 DEF SubmitAt
<1>4. n' = n \/ (n' = n + 1 /\ n # SubmitAt) \/ n' = 0
  BY <1>1, OneStep, Places
<1>5. PhaseInv'
  <2>1. authorizedAt # Never => n # 0 /\ n > SubmitAt
    BY <1>1 DEF ClockInv, PhaseInv, Running
  <2>2. n' > SubmitAt => n > SubmitAt
    BY SMTT(30), <1>1, <1>3, <1>4
  <2>3. n > SubmitAt => n' = 0 \/ n' > SubmitAt
    BY <1>1, <1>3, <1>4
  <2> QED
    BY <1>2, <1>3, <2>1, <2>2, <2>3 DEF ClockInv, PhaseInv
<1>6. BoundInv'
  <2> SUFFICES ASSUME authorizedAt # Never PROVE Within(authorizedAt, until)'
    BY <1>2 DEF BoundInv
  <2>1. n > SubmitAt
    BY <1>1 DEF ClockInv, PhaseInv, Running
  <2>2. Steps[n] \in Late
    BY <1>1, <2>1, Places
  <2>3. UNCHANGED <<start, asOf, received, intentAt, approvedAt, authorizedAt, until>>
    BY <1>1, <2>2, LateStep
  <2>4. Within(authorizedAt, until)
    BY DEF ClockInv, BoundInv
  <2> QED
    BY <1>1, <2>3, <2>4 DEF Within
<1> QED
  BY <1>5, <1>6

\* A dispatch looks at the authorization, which whoever gets there has.
LEMMA DispatchStep ==
    ASSUME ClockInv, OrderNext, ~Submit PROVE DispatchInv'
<1>1. ClockTypes /\ Running /\ n \in Nat /\ kind' = kind /\ kind \in Kinds
  BY KindStays, OneStep DEF ClockInv, ClockTypes
<1>2. UNCHANGED <<authorizedAt, until>>
  BY EarlyStep
<1>3. Steps[n] \in Late => authorizedAt # Never
  <2>1. SubmitAt \in Nat
    BY DEF SubmitAt
  <2>2. Steps[n] \in Late => n > SubmitAt
    BY <1>1, <2>1, Places DEF Late
  <2> QED
    BY <2>2 DEF ClockInv, PhaseInv
<1>4. claimedAt' # Never =>
        authorizedAt # Never /\ authorizedAt <= claimedAt' /\ claimedAt' < until
  <2>1. CASE claimedAt' = claimedAt
    BY <2>1 DEF ClockInv, DispatchInv
  <2>2. CASE ClaimDispatch
    <3> SUFFICES ASSUME claimedAt' # Never
                 PROVE  /\ authorizedAt # Never /\ authorizedAt <= claimedAt'
                        /\ claimedAt' < until
      OBVIOUS
    <3>1. Steps[n] = "claim" /\ claimedAt' = now /\ n' # 0
      BY <2>2 DEF ClaimDispatch, Check, AtStep
    <3>2. WithinAuthorization
      BY <2>2, <3>1 DEF ClaimDispatch, Check, Stop
    <3> QED
      BY <1>3, <3>1, <3>2 DEF WithinAuthorization, Late
  <2> QED
    BY <2>1, <2>2, Dispatches
<1>5. sentAt' # Never /\ kind \notin Approved =>
        authorizedAt # Never /\ authorizedAt <= sentAt' /\ sentAt' < until
  <2> SUFFICES ASSUME sentAt' # Never, kind \notin Approved
               PROVE  authorizedAt # Never /\ authorizedAt <= sentAt' /\ sentAt' < until
    OBVIOUS
  <2>1. CASE sentAt' = sentAt
    BY <2>1 DEF ClockInv, DispatchInv
  <2>2. CASE SendDirect
    <3>1. Steps[n] = "hook" /\ sentAt' = now /\ n' # 0
      BY <2>2 DEF SendDirect, Check, AtStep
    <3>2. BatchWireGuard \/ WireGuard
      BY <2>2, <3>1 DEF SendDirect, Check, Stop
    <3>3. WithinAuthorization
      BY <3>2 DEF BatchWireGuard, WireGuard
    <3> QED
      BY <1>3, <3>1, <3>3 DEF WithinAuthorization, Late
  <2>3. CASE PlaceTrade
    <3>1. Steps[n] = "place"
      BY <2>3 DEF PlaceTrade, Check, AtStep
    <3> QED
      BY <1>1, <3>1, Places
  <2> QED
    BY <2>1, <2>2, <2>3, Dispatches
<1> QED
  BY <1>1, <1>2, <1>4, <1>5 DEF DispatchInv

LEMMA StepInv ==
    ASSUME ClockInv, [OrderNext]_orderVars PROVE ClockInv'
<1>1. CASE OrderNext
  <2>1. ClockTypes'
    BY Zenon, <1>1, ClockStep DEF ClockInv
  <2> QED
    BY Zenon, <1>1, <2>1, SubmitStep, OtherStep, DispatchStep DEF ClockInv
<1>2. CASE UNCHANGED orderVars
  <2>1. UNCHANGED <<now, kind, n, start, asOf, received, intentAt, preparedAt, approvedAt,
                    authorizedAt, until, claimedAt, sentAt>>
    BY <1>2 DEF orderVars, reads, times
  <2> QED
    BY ZenonT(30), <2>1
       DEF ClockInv, ClockTypes, PhaseInv, SubmitAt, BoundInv, Within, DispatchInv
<1> QED
  BY <1>1, <1>2

\* The clocks of an order keep their invariant, for every choice of limits.
THEOREM OrderInvariant == OrderSpec => []ClockInv
<1>1. OrderInit => ClockInv
  BY ClockInit
<1>2. ClockInv /\ [OrderNext]_orderVars => ClockInv'
  BY StepInv
<1> QED
  BY <1>1, <1>2, PTL DEF OrderSpec

\* Dispatched is inside the authorization.
LEMMA DispatchedInside ==
    ASSUME ClockInv, Dispatched # Never
    PROVE  /\ /\ Dispatched \in Int /\ authorizedAt <= Dispatched
           /\ Dispatched < until
           /\ Within(authorizedAt, until)
BY DEF ClockInv, ClockTypes, Dispatched, DispatchInv, BoundInv

LEMMA FreshFromInv == ASSUME ClockInv PROVE FreshWhenDispatched
<1> SUFFICES ASSUME Dispatched # Never PROVE FreshWhenDispatched
  BY DEF FreshWhenDispatched
<1>1. PICK d \in Int : d = Dispatched
  BY Zenon, DispatchedInside
<1>2. d < until /\ until \in Int /\ Within(authorizedAt, until)
  BY <1>1, DispatchedInside DEF ClockInv, ClockTypes
<1>3. /\ start["account"] \in Int /\ start["cost"] \in Int /\ start["eligibility"] \in Int
      /\ asOf["cost"] \in Int /\ asOf["rate"] \in Int /\ start["state"] \in Int
      /\ start["usage"] \in Int /\ received \in Int
  BY Zenon DEF ClockInv, ClockTypes, Clocks, Sources
<1>4. d - start["account"] <= IF kind = "finite" THEN MaxAge - FiniteMargin ELSE MaxAge
  BY <1>2, <1>3, Limits DEF Within
<1>5. d - asOf["rate"] <= MaxAge /\ d - start["state"] <= StateAge
  BY SMTT(30), <1>2, <1>3, Limits DEF Within
<1>6. d - start["usage"] <= UsageAge
  BY <1>2, <1>3, Limits DEF Within
<1>7. kind = "finite" => d - received <= Handoff
  BY SMTT(30), <1>2, <1>3, Limits DEF Within
<1>8. kind \notin Approved
        => d - Min({start["cost"], start["eligibility"], asOf["cost"]}) <= MaxAge
  <2> DEFINE S == {start["cost"], start["eligibility"], asOf["cost"]}
  <2>1. HasLeast(S)
    BY Zenon, <1>3, LeastOfThree
  <2>2. Min(S) \in S
    BY <2>1, MinIsLeast
  <2>3. kind \notin Approved => /\ d - start["cost"] <= MaxAge
                                /\ d - start["eligibility"] <= MaxAge
                                /\ d - asOf["cost"] <= MaxAge
    BY SMTT(30), <1>2, <1>3, Limits DEF Within
  <2> QED
    BY <2>2, <2>3
<1> QED
  BY ZenonT(30), <1>1, <1>4, <1>5, <1>6, <1>7, <1>8 DEF FreshWhenDispatched

LEMMA AuthorityFromInv == ASSUME ClockInv PROVE DispatchedInAuthority
<1> SUFFICES ASSUME Dispatched # Never PROVE DispatchedInAuthority
  BY Zenon DEF DispatchedInAuthority
<1>1. PICK d \in Int : d = Dispatched
  BY DispatchedInside
<1>2. /\ authorizedAt <= d /\ d < until /\ until \in Int /\ authorizedAt \in Int
      /\ Within(authorizedAt, until)
  BY <1>1, DispatchedInside DEF ClockInv, ClockTypes
<1>3. start["preview"] \in Int /\ intentAt \in Int /\ approvedAt \in Int
  BY Zenon DEF ClockInv, ClockTypes, Clocks, Sources
<1>4. d < intentAt + IntentLife
  BY SMTT(30), <1>2, <1>3, Limits DEF Within
<1>5. kind # "connector" => (authorizedAt < Midnight) = (d < Midnight)
  BY SMTT(30), <1>2, Limits DEF Within
<1>6. kind = "finite" => d < MandateEnd
  BY <1>2, Limits DEF Within
<1>7. kind \in Approved => /\ d < start["preview"] + PreviewLife
                              /\ d < approvedAt + ApprovalAge
  BY <1>2, <1>3, Limits DEF Within
<1> QED
  BY <1>1, <1>2, <1>4, <1>5, <1>6, <1>7 DEF DispatchedInAuthority

\* An order is dispatched only on evidence that is within every limit at that
\* moment, however the reads, the checks, a person and the identity read of
\* the adapters spread over time.
THEOREM EvidenceIsFresh == OrderSpec => []FreshWhenDispatched
<1>1. ClockInv => FreshWhenDispatched
  BY FreshFromInv
<1> QED
  BY <1>1, OrderInvariant, PTL

\* An order is dispatched only while authorization, intent, preview, approval
\* and mandate last, a pilot order on the London day of its authorization.
THEOREM AuthorityHolds == OrderSpec => []DispatchedInAuthority
<1>1. ClockInv => DispatchedInAuthority
  BY AuthorityFromInv
<1> QED
  BY <1>1, OrderInvariant, PTL
=============================================================================
