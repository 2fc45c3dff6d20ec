---------------------------- MODULE BrokerRuntime ----------------------------
(***************************************************************************)
(* The Fill-owned exact Demo economic runtime (fill-broker-csv-v2): six      *)
(* canonical files, a checkpoint of their digests, a transaction journal and *)
(* one exclusive file lock.  Several programs capture the broker account and *)
(* call initialize, snapshot, recover and apply_confirmed; the broker fills  *)
(* orders meanwhile; a program may die between any two durable writes, and a *)
(* file may be edited by hand.  Source: agents/fill_agent/broker_runtime.py. *)
(* A digest is modelled by the contents it digests.                          *)
(***************************************************************************)
EXTENDS Integers, Sequences, FiniteSets, FiniteSetsExt

CONSTANTS Procs, Commands, Positions, OrderAmount, Fillings,
          OpeningCash, OpeningHold,  \* the broker account before any order
          MaxAge,                    \* capture age and skew limit, in ticks
          EditedFiles,               \* files edited by hand, out of the six
          LaggingMarks,              \* positions whose mark may lag its read
          MaxClock, MaxCrashes, MaxEdits, MaxTransfers,  \* bounds
          NoBook, NoJournal, NoProc, NoCapture, Edited

VARIABLES past,      \* the broker account at every tick so far
          filled,    \* command -> the executions it filled with, {} before
          filledAt,  \* command -> tick of the fill
          transfers, \* withdrawals the runtime has no record of
          exists,    \* the destination directory holds a runtime
          files,     \* the six canonical files
          checkpoint, \* the digests the checkpoint file states
          journal,   \* broker_transaction.json
          lock,      \* holder of .broker-runtime.lock
          pc, op,    \* per program: control point, call in progress
          k,         \* the next file the lock's holder rewrites
          cap, stage, \* the account capture, and how far its collection is
          crashes, edits

brokerVars == <<past, filled, filledAt, transfers>>
diskVars == <<exists, files, checkpoint, journal>>
procVars == <<lock, pc, op, k>>
capVars == <<cap, stage>>
faultVars == <<crashes, edits>>
vars == <<brokerVars, diskVars, procVars, capVars, faultVars>>

Account == INSTANCE AccountEvidence

\* The book a reader is entitled to: the pending transaction once its journal
\* is durable, the checkpointed contents otherwise.
Committed ==
  CASE ~exists             -> NoBook
    [] journal # NoJournal -> journal.outputs
    [] OTHER               -> checkpoint

Book == INSTANCE BrokerBook WITH book <- Committed

\* What a book holds: the contents of the six files.
Books ==
  [hold : [Positions -> Int], cash : [balance : Int, coverage : Nat],
   fills : SUBSET Book!Executions,
   ledger : SUBSET [id : {e.id : e \in Book!Executions}, debit : Int],
   processed : SUBSET [exec : Book!Executions, cmd : Commands],
   evidence : Nat]

\* The markers are none of the things they mark the absence of, and an order
\* fills with finitely many executions of exact amounts in known positions.
ASSUME RuntimeAssumption ==
  /\ NoProc \notin Procs
  /\ NoBook \notin Books
  /\ NoJournal \notin [before : Books, outputs : Books]
  /\ OpeningCash \in Nat /\ OpeningHold \in [Positions -> Int]
  /\ \A c \in Commands : \A F \in Fillings[c] :
       /\ IsFiniteSet(F)
       /\ \A e \in F : e.pos \in Positions /\ e.principal \in Int /\ e.cost \in Int

Clock == Len(past)
Now == past[Clock]

\* The order _recover_locked rewrites the files in: the journal is stored with
\* sorted keys.
RuntimeFiles == <<"evidence", "ledger", "cash", "hold", "processed", "fills">>

NoOp == [kind |-> "none"]

Goto(p, l) == pc' = [pc EXCEPT ![p] = l]

-----------------------------------------------------------------------------
(* The broker.                                                              *)

Tick(acct) == Clock < MaxClock /\ past' = Append(past, acct)

Fill(c) ==
  /\ filled[c] = {}
  /\ \E X \in Fillings[c] :
       /\ Book!Debit(X) <= Now.cash
       /\ Tick([cash |-> Now.cash - Book!Debit(X), hold |-> Book!AddHoldings(Now.hold, X)])
       /\ filled' = [filled EXCEPT ![c] = X]
       /\ filledAt' = [filledAt EXCEPT ![c] = Clock + 1]
  /\ UNCHANGED <<transfers, diskVars, procVars, capVars, faultVars>>

\* Money leaves the account without an order: a withdrawal or a fee.
Transfer ==
  /\ transfers < MaxTransfers
  /\ Now.cash > 0 /\ Tick([Now EXCEPT !.cash = @ - 1])
  /\ transfers' = transfers + 1
  /\ UNCHANGED <<filled, filledAt, diskVars, procVars, capVars, faultVars>>

TimePasses ==
  /\ Tick(Now)
  /\ UNCHANGED <<filled, filledAt, transfers, diskVars, procVars, capVars, faultVars>>

-----------------------------------------------------------------------------
(* capture_pnl_account_evidence: the first read, the others, the completion.*)
(* The programs share the latest capture; a new one is begun when no call     *)
(* that uses it is under way.                                                *)

Abandon == cap' = NoCapture /\ stage' = "none"

BeginCapture ==
  /\ stage \in {"none", "ready"}
  /\ \A p \in Procs : op[p].kind \notin {"initialize", "apply"}
  /\ Account!CaptureMayStart(Now)
  /\ cap' = [acct |-> Now, started |-> Clock, completed |-> 0,
             marks |-> [q \in Positions |-> 0], cashAt |-> 0, cashValue |-> 0]
  /\ stage' = "opened"
  /\ UNCHANGED <<brokerVars, diskVars, procVars, faultVars>>

\* Mutant: the closing read's cash replaces the opening one, uncompared.
ReadRestUncompared ==
  /\ stage = "opened"
  /\ cap' = [cap EXCEPT !.marks = [q \in Positions |-> Clock], !.acct.cash = Now.cash]
  /\ stage' = "closed"
  /\ UNCHANGED <<brokerVars, diskVars, procVars, faultVars>>

\* The P&L read and the closing detailed read, taken at one tick: a change
\* between them ends like a change before them.  Each position the broker
\* marks has a source time of its own, which may lag the read.
ReadRest ==
  /\ stage = "opened"
  /\ IF Account!SameStructure(Now, cap.acct)
     THEN /\ \E lag \in SUBSET (LaggingMarks \cap Account!Held(Now.hold)) :
               cap' = [cap EXCEPT !.marks = [q \in Positions |->
                         IF Now.hold[q] = 0 THEN 0 ELSE IF q \in lag THEN Clock - 1 ELSE Clock]]
          /\ stage' = "closed"
     ELSE Abandon
  /\ UNCHANGED <<brokerVars, diskVars, procVars, faultVars>>

\* The completion clock is read after the last response arrived; the cash
\* observation comes from a source of its own, at a time of its own.
CompleteCapture ==
  /\ stage = "closed"
  /\ \E t \in {Clock - 1, Clock} \ {0} :
       LET c == [cap EXCEPT !.completed = Clock, !.cashAt = t, !.cashValue = past[t].cash]
       IN IF Account!ValidateAt(c, Clock) THEN cap' = c /\ stage' = "ready" ELSE Abandon
  /\ UNCHANGED <<brokerVars, diskVars, procVars, faultVars>>

CaptureUsable == stage = "ready" /\ Account!ValidateAt(cap, Clock)

-----------------------------------------------------------------------------
(* initialize: everything is written in a private staging directory, which   *)
(* one rename then makes visible.                                            *)

InitialFiles ==
  [hold |-> cap.acct.hold,
   cash |-> [balance |-> cap.acct.cash, coverage |-> cap.completed],
   fills |-> {}, ledger |-> {}, processed |-> {}, evidence |-> 1]

InitializeStage(p) ==
  /\ pc[p] = "idle" /\ CaptureUsable
  /\ ~exists
  /\ op' = [op EXCEPT ![p] = [kind |-> "initialize"]]
  /\ Goto(p, "rename")
  /\ UNCHANGED <<brokerVars, diskVars, lock, k, capVars, faultVars>>

\* The rename replaces an empty destination and fails on a non-empty one.
InitializeRename(p) ==
  /\ pc[p] = "rename"
  /\ IF exists
     THEN UNCHANGED diskVars
     ELSE /\ exists' = TRUE
          /\ files' = InitialFiles
          /\ checkpoint' = InitialFiles
          /\ UNCHANGED journal
  /\ Goto(p, "idle") /\ op' = [op EXCEPT ![p] = NoOp]
  /\ UNCHANGED <<brokerVars, lock, k, capVars, faultVars>>

-----------------------------------------------------------------------------
(* Calls under the lock.                                                     *)

\* Checks of apply_confirmed made before the lock is taken.  An execution
\* later than the capture is refused.
PreconditionsHold(c, X) ==
  /\ CaptureUsable
  /\ X # {} /\ X \subseteq filled[c]
  /\ filledAt[c] <= cap.completed

Call(p, call) ==
  /\ pc[p] = "idle" /\ exists
  /\ op' = [op EXCEPT ![p] = call]
  /\ Goto(p, "waiting")
  /\ UNCHANGED <<brokerVars, diskVars, lock, k, capVars, faultVars>>

\* recover and snapshot differ in what they return, not in what they do.
CallRead(p) == Call(p, [kind |-> "read"])

\* The executions come from a broker lookup, which may not list them all.
CallApply(p, c) ==
  \E X \in SUBSET filled[c] :
    /\ PreconditionsHold(c, X)
    /\ Call(p, [kind |-> "apply", cmd |-> c, execs |-> X])

\* flock: the call waits, with a capture validated before.
Acquire(p) ==
  /\ pc[p] = "waiting" /\ lock = NoProc
  /\ lock' = p
  /\ Goto(p, IF journal = NoJournal THEN "read" ELSE "check")
  /\ UNCHANGED <<brokerVars, diskVars, op, k, capVars, faultVars>>

Leave(p) ==
  /\ lock' = NoProc /\ Goto(p, "idle")
  /\ op' = [op EXCEPT ![p] = NoOp]

\* Mutant: recovery insists on the files as they were before.
FilesUnstarted == \A f \in DOMAIN files : files[f] = journal.before[f]

\* _recover_locked, the check: every file is what it was before the
\* transaction or already what the transaction makes it.
FilesUntouched ==
  \A f \in DOMAIN files : files[f] \in {journal.before[f], journal.outputs[f]}

RecoverCheck(p) ==
  /\ pc[p] = "check"
  /\ IF FilesUntouched
     THEN Goto(p, "write") /\ k' = 1 /\ UNCHANGED <<lock, op>>
     ELSE Leave(p) /\ UNCHANGED k
  /\ UNCHANGED <<brokerVars, diskVars, capVars, faultVars>>

\* One _atomic_write: a temporary file, then a rename.
WriteFile(p) ==
  /\ pc[p] = "write"
  /\ LET f == RuntimeFiles[k] IN files' = [files EXCEPT ![f] = journal.outputs[f]]
  /\ k' = IF k = Len(RuntimeFiles) THEN 0 ELSE k + 1
  /\ Goto(p, IF k = Len(RuntimeFiles) THEN "checkpoint" ELSE "write")
  /\ UNCHANGED <<brokerVars, exists, checkpoint, journal, lock, op, capVars, faultVars>>

\* Mutant: the journal is removed with the checkpoint still the old one.
WriteNoCheckpoint(p) ==
  /\ pc[p] = "checkpoint"
  /\ Goto(p, "unlink")
  /\ UNCHANGED <<brokerVars, diskVars, lock, op, k, capVars, faultVars>>

WriteCheckpoint(p) ==
  /\ pc[p] = "checkpoint"
  /\ checkpoint' = journal.outputs
  /\ Goto(p, "unlink")
  /\ UNCHANGED <<brokerVars, exists, files, journal, lock, op, k, capVars, faultVars>>

\* The journal is removed last.  A recovery goes on to read; a commit of
\* apply_confirmed returns its receipt.
UnlinkJournal(p) ==
  /\ pc[p] = "unlink"
  /\ journal' = NoJournal
  /\ IF op[p].kind = "commit"
     THEN Leave(p)
     ELSE Goto(p, "read") /\ UNCHANGED <<lock, op>>
  /\ UNCHANGED <<brokerVars, exists, files, checkpoint, k, capVars, faultVars>>

\* apply_confirmed between the read and the commit: the outcome for the
\* executions X of command c, given the verified book b and the capture a.
NewOf(b, X) == {e \in X : \A r \in b.processed : r.exec.id # e.id}

ApplyOutcome(b, c, X, a) ==
  LET mine == {r.exec.id : r \in {r \in b.processed : r.cmd = c}}
      new  == NewOf(b, X)
      late(t) == t < filledAt[c]
  IN IF \/ mine # {} /\ mine # {e.id : e \in X}
        \/ \E e \in X, r \in b.processed :
             r.exec.id = e.id /\ (r.exec # e \/ r.cmd # c)
        \/ new # {} /\ new # X
        \/ Book!AddHoldings(b.hold, new) # a.acct.hold
        \/ b.cash.balance - Book!Debit(new) # a.acct.cash
     THEN "refused"
     ELSE IF new = {} THEN "replay"
     ELSE IF \/ Book!Principal(new) # OrderAmount[c]
             \/ filledAt[c] <= b.cash.coverage
             \/ late(a.cashAt)
             \/ \E e \in new : late(a.marks[e.pos])
     THEN "refused" ELSE "commit"

\* The six outputs: the account's own cash and holdings rows, and the rows of
\* the new executions appended to the histories.
ApplyOutputs(b, c, X, a) ==
  [hold      |-> a.acct.hold,
   cash      |-> [balance |-> a.acct.cash, coverage |-> a.completed],
   fills     |-> b.fills \cup X,
   ledger    |-> b.ledger \cup {[id |-> e.id, debit |-> e.principal + e.cost] : e \in X},
   processed |-> b.processed \cup {[exec |-> e, cmd |-> c] : e \in X},
   evidence  |-> b.evidence + 1]

\* _read_locked: the checkpoint's digests match all six files, or the call
\* fails without looking at them.
DigestsMatch == files = checkpoint

ReadFiles(p) ==
  /\ pc[p] = "read"
  /\ LET o == op[p]
         outcome == IF ~DigestsMatch THEN "refused"
                    ELSE IF o.kind # "apply" THEN o.kind
                    ELSE ApplyOutcome(files, o.cmd, o.execs, cap)
     IN CASE outcome = "commit" ->
               /\ op' = [op EXCEPT ![p] = [kind |-> "commit",
                            outputs |-> ApplyOutputs(files, o.cmd, o.execs, cap)]]
               /\ Goto(p, "commit")
               /\ UNCHANGED lock
          [] OTHER -> Leave(p)   \* returns what it read, a replay receipt, or fails
  /\ UNCHANGED <<brokerVars, diskVars, k, capVars, faultVars>>

\* _commit: the journal holds the digests the files have now, and the outputs.
CommitJournal(p) ==
  /\ pc[p] = "commit"
  /\ journal' = [before |-> files, outputs |-> op[p].outputs]
  /\ op' = [op EXCEPT ![p] = [kind |-> "commit"]]
  /\ Goto(p, "check")
  /\ UNCHANGED <<brokerVars, exists, files, checkpoint, lock, k, capVars, faultVars>>

-----------------------------------------------------------------------------
(* Faults.                                                                   *)

\* A program dies: its lock and memory are gone, the disk stays as it is.
Crash(p) ==
  /\ pc[p] # "idle" /\ crashes < MaxCrashes
  /\ crashes' = crashes + 1
  /\ lock' = IF lock = p THEN NoProc ELSE lock
  /\ Goto(p, "idle") /\ op' = [op EXCEPT ![p] = NoOp] /\ k' = IF lock = p THEN 0 ELSE k
  /\ UNCHANGED <<brokerVars, diskVars, capVars, edits>>

\* Someone edits a canonical file while no program is at work on them.
HandEdit ==
  /\ exists /\ lock = NoProc /\ edits < MaxEdits
  /\ edits' = edits + 1
  /\ \E f \in EditedFiles : files' = [files EXCEPT ![f] = Edited]
  /\ UNCHANGED <<brokerVars, exists, checkpoint, journal, procVars, capVars, crashes>>

-----------------------------------------------------------------------------
Init ==
  /\ past = <<[cash |-> OpeningCash, hold |-> OpeningHold]>>
  /\ filled = [c \in Commands |-> {}] /\ filledAt = [c \in Commands |-> 0]
  /\ transfers = 0
  /\ exists = FALSE /\ files = NoBook /\ checkpoint = NoBook /\ journal = NoJournal
  /\ lock = NoProc
  /\ pc = [p \in Procs |-> "idle"] /\ op = [p \in Procs |-> NoOp]
  /\ k = 0 /\ cap = NoCapture /\ stage = "none"
  /\ crashes = 0 /\ edits = 0

\* The steps a running program takes by itself once a call is under way.
Proceed(p) ==
  \/ InitializeRename(p) \/ Acquire(p)
  \/ RecoverCheck(p) \/ WriteFile(p) \/ WriteCheckpoint(p) \/ UnlinkJournal(p)
  \/ ReadFiles(p) \/ CommitJournal(p)

Next ==
  \/ \E c \in Commands : Fill(c)
  \/ Transfer \/ TimePasses \/ HandEdit
  \/ BeginCapture \/ ReadRest \/ CompleteCapture
  \/ \E p \in Procs : \/ Proceed(p) \/ InitializeStage(p)
                      \/ CallRead(p) \/ Crash(p)
                      \/ \E c \in Commands : CallApply(p, c)

\* A call that was entered is carried on unless its program dies, and some
\* program keeps coming back to the runtime.
Fairness ==
  /\ \A p \in Procs : WF_vars(Proceed(p))
  /\ SF_vars(\E p \in Procs : CallRead(p))

Spec == Init /\ [][Next]_vars /\ Fairness

-----------------------------------------------------------------------------
\* The files of the runtime implement the atomic book: whatever is interrupted,
\* edited or raced, the book only ever moves by opening once and by posting a
\* whole terminal command whose executions were never debited before
\* (_commit, _recover_locked and apply_confirmed together).
ImplementsBook == Book!Spec

\* The committed book is an account the broker really had, at or before the
\* time the book claims to cover: cash and every holding together, never a mix
\* of two moments (the bracketed capture and the checks of apply_confirmed).
BookIsAPastAccount ==
  Committed # NoBook =>
    \E t \in 1..Committed.cash.coverage :
      /\ past[t].hold = Committed.hold
      /\ past[t].cash = Committed.cash.balance

\* A transaction whose journal became durable is carried through to the end,
\* however often its programs die, unless a file was edited by hand: recovery
\* then refuses and waits for a person (_recover_locked).
TransactionsComplete ==
  journal # NoJournal ~> journal = NoJournal \/ edits > 0
=============================================================================
