-------------------------- MODULE OperatorRecovery --------------------------
(***************************************************************************)
(* Recovery of submitted orders by DemoOperator.reconcile: under the lock  *)
(* file of the staging CSV it looks an order up, appends the lookup to the *)
(* evidence ledger, moves the command through the lifecycle with           *)
(* ExecutionCoordinator.reconcile_command and stages the broker's          *)
(* executions for the Fill Agent.  The ledger, the command store and the   *)
(* CSV are three files; a process can be killed between any two writes,    *)
(* and then leaves its lock behind.                                        *)
(*                                                                         *)
(* An execution is <<command, n>>, the n-th execution of the order.  The   *)
(* append-only ledger is kept as the two things the code reads out of it:  *)
(* the executions observed and the terminal state, if one was.  Identity,  *)
(* currency and amount checks on an honest answer pass.                    *)
(***************************************************************************)
EXTENDS ExecutionDomain, Integers, FiniteSets

CONSTANTS
    Commands,     \* submitted commands
    Operators,    \* processes that run the reconcile operation
    MaxFills,     \* executions one order can have
    MaxCrashes    \* bound on kills

ASSUME RecoveryAssumption ==
    /\ MaxFills \in Nat \ {0} /\ MaxCrashes \in Nat
    /\ "free" \notin Operators

VARIABLES
    order,      \* the broker's view: [state, count] of each order
    command,    \* persisted lifecycle state of each command
    evidence,   \* what the ledger has observed: [count, terminal]
    staged,     \* executions in the staging CSV
    lock,       \* holder named in the lock file, or "free"
    proc,       \* local state of the operator processes
    crashes

vars == <<order, command, evidence, staged, lock, proc, crashes>>

\* Mutant: a partial fill ends the command.
LookupStatesWithPartial == {"partially_filled", "filled", "rejected", "cancelled"}

TerminalLookupStates == {"filled", "rejected", "cancelled"}

FilledLookupStates == {"filled", "partially_filled"}

\* Mutant: a reconciled command is not read again.
ReconcilableOpen == InFlightStates \cup {"unknown", "reconciling"}

\* The states _reconcile_locked accepts.
Reconcilable == InFlightStates \cup {"unknown", "reconciling", "reconciled"}

Executions(c, n) == {<<c, k>> : k \in 1..n}

\* A process: where it is, the command it was called for, the state it found
\* it in, what the lookup said and the rows it is about to write.
Job(l, c, from, result, rows) ==
    [pc |-> l, command |-> c, from |-> from, result |-> result, rows |-> rows]

NoAnswer == [state |-> "none", count |-> 0]

Idle == Job("idle", "none", "none", NoAnswer, {})

\* What a lookup of the order answers.
LookupOf(c) ==
    [state |-> IF order[c].state = "none" THEN "unknown" ELSE order[c].state,
     count |-> order[c].count]

\* A command was sent and its sender recorded the answer, or an ambiguous
\* one, or was killed; in the last two cases the order may yet arrive.
Init ==
    /\ command \in [Commands -> {"submission_pending", "unknown", "acknowledged"}]
    /\ order = [c \in Commands |->
         [state |-> IF command[c] = "acknowledged" THEN "acknowledged" ELSE "none",
          count |-> 0]]
    /\ evidence = [c \in Commands |-> [count |-> 0, terminal |-> "none"]]
    /\ staged = {}
    /\ lock = "free"
    /\ proc = [p \in Operators |-> Idle]
    /\ crashes = 0

-----------------------------------------------------------------------------
(***************************************************************************)
(* The broker (external).                                                  *)
(***************************************************************************)

BrokerNext(s) ==
    {t \in {"acknowledged", "partially_filled", "filled", "rejected", "cancelled"} :
       \/ s = "none" /\ t = "acknowledged"
       \/ s = "acknowledged" /\ t # "acknowledged"
       \/ s = "partially_filled" /\ t \in {"partially_filled", "filled", "cancelled"}}

BrokerStep(c) ==
    /\ \E s \in BrokerNext(order[c].state) :
         LET n == order[c].count + IF s \in FilledLookupStates THEN 1 ELSE 0
         IN  n <= MaxFills /\ order' = [order EXCEPT ![c] = [state |-> s, count |-> n]]
    /\ UNCHANGED <<command, evidence, staged, lock, proc, crashes>>

-----------------------------------------------------------------------------
(***************************************************************************)
(* DemoOperator.reconcile.                                                 *)
(***************************************************************************)

At(p, l) == proc[p].pc = l

Goto(p, l) == proc' = [proc EXCEPT ![p].pc = l]

\* An existing lock file refuses the operation, whoever left it.
Acquire(p, c) ==
    /\ At(p, "idle")
    /\ lock = "free"
    /\ lock' = p
    /\ proc' = [proc EXCEPT ![p] = Job("lookup", c, "none", NoAnswer, {})]
    /\ UNCHANGED <<order, command, evidence, staged, crashes>>

\* The command is read, refused or looked up.
Lookup(p) ==
    /\ At(p, "lookup")
    /\ LET c == proc[p].command
       IN  IF command[c] \in Reconcilable
             THEN proc' = [proc EXCEPT ![p] =
                    Job("observe", c, command[c], LookupOf(c), {})]
             ELSE Goto(p, "release")
    /\ UNCHANGED <<order, command, evidence, staged, lock, crashes>>

\* _validate_lookup against the observations of the command so far.
ValidLookup(c, from, result) ==
    /\ evidence[c].count <= result.count
    /\ evidence[c].terminal \in {"none", result.state}
    /\ result.state \in FilledLookupStates => result.count > 0
    /\ from = "reconciled" => result.state \in TerminalLookupStates

\* append_observation.
Observed(c, result) ==
    [count |-> result.count,
     terminal |-> IF result.state \in TerminalLookupStates THEN result.state
                                                          ELSE evidence[c].terminal]

\* Mutant: the lifecycle moves before the ledger has the lookup.
ObserveUnsaved(p) ==
    /\ At(p, "observe")
    /\ Goto(p, IF proc[p].from = "reconciled" THEN "stage_read" ELSE "transition")
    /\ UNCHANGED <<order, command, evidence, staged, lock, crashes>>

Observe(p) ==
    /\ At(p, "observe")
    /\ LET c == proc[p].command
           result == proc[p].result
       IN  IF ValidLookup(c, proc[p].from, result)
             THEN /\ evidence' = [evidence EXCEPT ![c] = Observed(c, result)]
                  /\ Goto(p, IF proc[p].from = "reconciled" THEN "stage_read"
                                                            ELSE "transition")
             ELSE Goto(p, "release") /\ UNCHANGED evidence
    /\ UNCHANGED <<order, command, staged, lock, crashes>>

\* One transaction of reconcile_command on the way to the looked-up state.
Transition(p) ==
    /\ At(p, "transition")
    /\ LET c == proc[p].command
           s == command[c]
           target == proc[p].result.state
       IN  \/ /\ s \in InFlightStates
              /\ command' = [command EXCEPT ![c] = "unknown"]
              /\ UNCHANGED proc
           \/ /\ s = "unknown"
              /\ command' = [command EXCEPT ![c] = "reconciling"]
              /\ UNCHANGED proc
           \/ /\ s = "reconciling"
              /\ target \in AllowedTransitions(s)
              /\ command' = [command EXCEPT ![c] = target]
              /\ Goto(p, IF target \in TerminalLookupStates THEN "settle"
                                                            ELSE "stage_read")
    /\ UNCHANGED <<order, evidence, staged, lock, crashes>>

\* A terminal order is closed in a transaction of its own.
Settle(p) ==
    /\ At(p, "settle")
    /\ command' = [command EXCEPT ![proc[p].command] = "reconciled"]
    /\ Goto(p, "stage_read")
    /\ UNCHANGED <<order, evidence, staged, lock, crashes>>

\* Mutant: the rows already in the file are not read.
StageReadAlone(p) ==
    /\ At(p, "stage_read")
    /\ proc' = [proc EXCEPT ![p] = Job("stage_write", "none", "none", NoAnswer,
         Executions(proc[p].command, proc[p].result.count))]
    /\ UNCHANGED <<order, command, evidence, staged, lock, crashes>>

\* stage_broker_executions reads the CSV, then replaces it.
StageRead(p) ==
    /\ At(p, "stage_read")
    /\ proc' = [proc EXCEPT ![p] = Job("stage_write", "none", "none", NoAnswer,
         staged \cup Executions(proc[p].command, proc[p].result.count))]
    /\ UNCHANGED <<order, command, evidence, staged, lock, crashes>>

StageWrite(p) ==
    /\ At(p, "stage_write")
    /\ staged' = proc[p].rows
    /\ proc' = [proc EXCEPT ![p] = Job("release", "none", "none", NoAnswer, {})]
    /\ UNCHANGED <<order, command, evidence, lock, crashes>>

Release(p) ==
    /\ At(p, "release")
    /\ lock' = "free"
    /\ proc' = [proc EXCEPT ![p] = Idle]
    /\ UNCHANGED <<order, command, evidence, staged, crashes>>

Crash(p) ==
    /\ ~At(p, "idle")
    /\ crashes < MaxCrashes
    /\ crashes' = crashes + 1
    /\ proc' = [proc EXCEPT ![p] = Idle]
    /\ UNCHANGED <<order, command, evidence, staged, lock>>

\* A person inspects a lock whose process is gone and removes the file.
RecoverLock ==
    /\ lock # "free"
    /\ At(lock, "idle")
    /\ lock' = "free"
    /\ UNCHANGED <<order, command, evidence, staged, proc, crashes>>

-----------------------------------------------------------------------------
Step(p) ==
    \/ Lookup(p) \/ Observe(p) \/ Transition(p) \/ Settle(p)
    \/ StageRead(p) \/ StageWrite(p) \/ Release(p)

Next ==
    \/ \E c \in Commands : BrokerStep(c)
    \/ \E p \in Operators, c \in Commands : Acquire(p, c)
    \/ \E p \in Operators : Step(p) \/ Crash(p)
    \/ RecoverLock

Spec == Init /\ [][Next]_vars

\* A process that is not killed goes on, abandoned locks are recovered, and
\* every command is reconciled again and again.
FairSpec ==
    /\ Spec
    /\ \A p \in Operators : WF_vars(Step(p))
    /\ \A c \in Commands : SF_vars(\E p \in Operators : Acquire(p, c))
    /\ WF_vars(RecoverLock)

-----------------------------------------------------------------------------
(***************************************************************************)
(* Properties.                                                             *)
(***************************************************************************)

Terminal(c) == order[c].state \in TerminalLookupStates

AllStaged(c) == Executions(c, order[c].count) \subseteq staged

\* "Durable lookup evidence precedes lifecycle transitions and staging": no
\* row reaches the staging CSV, and no command a looked-up state, that an
\* observation in the ledger does not report, whichever process dies where.
EvidenceComesFirst ==
    /\ \A e \in staged : evidence[e[1]].count >= e[2]
    /\ \A c \in Commands : command[c] \in TerminalLookupStates =>
         evidence[c].terminal = command[c]

\* A command is closed only when the broker's order is terminal, with the
\* terminal state and every execution of it in the ledger.
ReconciledIsTerminal ==
    \A c \in Commands : command[c] = "reconciled" =>
        Terminal(c) /\ evidence[c] = [count |-> order[c].count,
                                      terminal |-> order[c].state]

\* The staging CSV only grows: a writer that read it before another writer
\* replaced it would drop rows, and the lock file rules that out, also when
\* an abandoned lock has been removed.
StagedRowsStay == [][staged \subseteq staged']_vars

\* A closed order whose process died before staging is still staged: the
\* lookup of a reconciled command is repeated, never the send.
ReconciledIsStaged ==
    \A c \in Commands : command[c] = "reconciled" ~> AllStaged(c)
=============================================================================
