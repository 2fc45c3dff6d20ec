----------------------------- MODULE KillSwitch ------------------------------
(***************************************************************************)
(* The persistent kill switch: a state file that is replaced atomically    *)
(* and an append-only audit whose events are chained by hash.  No lock     *)
(* guards them, so the reads and writes of several callers interleave, and *)
(* a caller may die between any two.                                       *)
(*                                                                         *)
(* The hash of an event stands for the whole audit up to it, so it is      *)
(* modelled by the event's position, and "" by 0.  A file that does not    *)
(* exist is the empty audit, or a state file with head 0.                  *)
(***************************************************************************)
EXTENDS Integers, Sequences

CONSTANTS
    Callers,    \* processes that use the switch
    MaxEvents   \* bound on the events in the audit

ASSUME SwitchAssumption == MaxEvents \in Nat

VARIABLES
    audit,      \* kill_switch_audit.jsonl
    state,      \* kill_switch.json
    pc,         \* next step of each caller
    op,         \* the operation it is in
    snap,       \* the state file as its status() read it
    revision,   \* prior_revision, from that status()
    head,       \* previous_hash, and after the append head_hash
    answer,     \* what its status() returned, "none" while it reads
    openAtRead  \* history: writes were allowed when it read the state file

files == <<audit, state>>

locals == <<pc, op, snap, revision, head, answer, openAtRead>>

switchVars == <<files, locals>>

Operations == {"status", "initialize", "engage", "reset"}

States == [revision : Nat, engaged : BOOLEAN, head : Nat]

Events == [revision : Nat, engaged : BOOLEAN, prev : Nat]

NoState == [revision |-> 0, engaged |-> TRUE, head |-> 0]

Answers == {"none", "failsafe", "engaged", "open"}

\* Mutant: _read_audit without the comparison of previous_hash.
ChainUnchecked == \A k \in DOMAIN audit : audit[k].prev < k

\* _read_audit accepts the file.
ChainHolds == \A k \in DOMAIN audit : audit[k].prev = k - 1

\* Mutant: status() compares the outcomes and not the heads.
AgreesOnOutcome(s) ==
    /\ s.head # 0 /\ audit # <<>> /\ ChainHolds
    /\ audit[Len(audit)].revision = s.revision
    /\ audit[Len(audit)].engaged = s.engaged

\* The comparisons of status() between a state it read and the audit.
Agrees(s) ==
    /\ s.head # 0 /\ audit # <<>> /\ ChainHolds
    /\ s.head = Len(audit)
    /\ audit[Len(audit)].revision = s.revision
    /\ audit[Len(audit)].engaged = s.engaged

\* KillSwitchStatus of a state against the audit.
StatusOf(s) == IF ~Agrees(s) THEN "failsafe"
               ELSE IF s.engaged THEN "engaged" ELSE "open"

\* A status() on the files as they are would allow broker writes.
Writable == StatusOf(state) = "open"

\* What the two files are meant to say when writes are allowed: the audit is
\* intact, its last event is a reset, and the state file is that event's.
ResetInForce ==
    /\ audit # <<>> /\ \A k \in DOMAIN audit : audit[k].prev = k - 1
    /\ state.head = Len(audit) /\ ~audit[Len(audit)].engaged

SwitchInit ==
    /\ audit = <<>> /\ state = NoState
    /\ pc = [p \in Callers |-> "idle"]
    /\ op = [p \in Callers |-> "status"]
    /\ snap = [p \in Callers |-> NoState]
    /\ revision = [p \in Callers |-> 0]
    /\ head = [p \in Callers |-> 0]
    /\ answer = [p \in Callers |-> "none"]
    /\ openAtRead = [p \in Callers |-> FALSE]

MoveTo(p, l) == pc' = [pc EXCEPT ![p] = l]

\* The call ends and its locals with it.
Return(p) ==
    /\ MoveTo(p, "idle")
    /\ op' = [op EXCEPT ![p] = "status"]
    /\ snap' = [snap EXCEPT ![p] = NoState]
    /\ revision' = [revision EXCEPT ![p] = 0]
    /\ head' = [head EXCEPT ![p] = 0]

-----------------------------------------------------------------------------

\* initialize_engaged: neither file may exist.
Initialize(p) ==
    /\ pc[p] = "idle" /\ audit = <<>> /\ state.head = 0
    /\ op' = [op EXCEPT ![p] = "initialize"]
    /\ revision' = [revision EXCEPT ![p] = 0]
    /\ head' = [head EXCEPT ![p] = 0]
    /\ MoveTo(p, "append")
    /\ UNCHANGED <<files, snap, answer, openAtRead>>

\* status(), engage() or reset() reads the state file.
ReadState(p, o) ==
    /\ pc[p] = "idle"
    /\ op' = [op EXCEPT ![p] = o]
    /\ snap' = [snap EXCEPT ![p] = state]
    /\ openAtRead' = [openAtRead EXCEPT ![p] = ResetInForce]
    /\ answer' = [answer EXCEPT ![p] = "none"]
    /\ MoveTo(p, "status")
    /\ UNCHANGED <<files, revision, head>>

\* engage() and reset() go on from the status they found, or raise.
Proceeds(p) == \/ op[p] = "engage" /\ StatusOf(snap[p]) # "failsafe"
               \/ op[p] = "reset" /\ StatusOf(snap[p]) = "engaged"

\* It reads the audit and compares.
ReadStatus(p) ==
    /\ pc[p] = "status"
    /\ answer' = [answer EXCEPT ![p] = StatusOf(snap[p])]
    /\ \/ /\ Proceeds(p)
          /\ revision' = [revision EXCEPT ![p] = snap[p].revision]
          /\ MoveTo(p, "head")
          /\ UNCHANGED <<op, snap, head>>
       \/ ~Proceeds(p) /\ Return(p)
    /\ UNCHANGED <<files, openAtRead>>

\* The second _read_audit, for the head; a broken chain raises.
ReadHead(p) ==
    /\ pc[p] = "head"
    /\ \/ /\ ChainHolds
          /\ head' = [head EXCEPT ![p] = Len(audit)]
          /\ MoveTo(p, "append")
          /\ UNCHANGED <<op, snap, revision>>
       \/ ~ChainHolds /\ Return(p)
    /\ UNCHANGED <<files, answer, openAtRead>>

\* Mutant: the append never reaches the file.
AppendLost(p) ==
    /\ pc[p] = "append" /\ Len(audit) < MaxEvents
    /\ head' = [head EXCEPT ![p] = Len(audit) + 1]
    /\ MoveTo(p, "write")
    /\ UNCHANGED <<files, op, snap, revision, answer, openAtRead>>

\* _append_audit, on whatever is there by now.
AppendAudit(p) ==
    /\ pc[p] = "append" /\ Len(audit) < MaxEvents
    /\ audit' = Append(audit, [revision |-> revision[p] + 1,
                               engaged |-> op[p] # "reset", prev |-> head[p]])
    /\ head' = [head EXCEPT ![p] = Len(audit) + 1]
    /\ MoveTo(p, "write")
    /\ UNCHANGED <<state, op, snap, revision, answer, openAtRead>>

\* _atomic_write_state; then status() again, to verify.
WriteState(p) ==
    /\ pc[p] = "write"
    /\ state' = [revision |-> revision[p] + 1, engaged |-> op[p] # "reset",
                 head |-> head[p]]
    /\ MoveTo(p, "verify")
    /\ UNCHANGED <<audit, op, snap, revision, head, answer, openAtRead>>

\* The verification reads the state file like any status(); it returns the
\* status to the caller, or raises, and changes nothing.
Verify(p) ==
    /\ pc[p] = "verify"
    /\ op' = [op EXCEPT ![p] = "status"]
    /\ snap' = [snap EXCEPT ![p] = state]
    /\ openAtRead' = [openAtRead EXCEPT ![p] = ResetInForce]
    /\ answer' = [answer EXCEPT ![p] = "none"]
    /\ MoveTo(p, "status")
    /\ UNCHANGED <<files, revision, head>>

\* The caller dies, and loses what its status() told it.
CallerDies(p) ==
    /\ pc[p] # "idle"
    /\ Return(p)
    /\ answer' = [answer EXCEPT ![p] = "none"]
    /\ openAtRead' = [openAtRead EXCEPT ![p] = FALSE]
    /\ UNCHANGED files

\* It dies inside the append: the line is cut short, no reader can parse it,
\* and its hash is no event's predecessor.
TearAudit(p) ==
    /\ pc[p] = "append" /\ Len(audit) < MaxEvents
    /\ audit' = Append(audit, [revision |-> 0, engaged |-> TRUE,
                               prev |-> Len(audit) + 1])
    /\ Return(p)
    /\ answer' = [answer EXCEPT ![p] = "none"]
    /\ openAtRead' = [openAtRead EXCEPT ![p] = FALSE]
    /\ UNCHANGED state

SwitchNext == \E p \in Callers :
    \/ Initialize(p) \/ ReadStatus(p) \/ ReadHead(p) \/ AppendAudit(p)
    \/ WriteState(p) \/ Verify(p) \/ CallerDies(p) \/ TearAudit(p)
    \/ \E o \in Operations \ {"initialize"} : ReadState(p, o)

SwitchSpec == SwitchInit /\ [][SwitchNext]_switchVars

-----------------------------------------------------------------------------

\* The files and the callers' locals have the shapes the code writes, and no
\* head points beyond the audit.
TypeOK ==
    /\ audit \in Seq(Events) /\ state \in States
    /\ pc \in [Callers -> {"idle", "status", "head", "append", "write", "verify"}]
    /\ op \in [Callers -> Operations]
    /\ snap \in [Callers -> States]
    /\ revision \in [Callers -> Nat] /\ head \in [Callers -> Nat]
    /\ answer \in [Callers -> Answers] /\ openAtRead \in [Callers -> BOOLEAN]
    /\ state.head <= Len(audit)
    /\ \A p \in Callers : snap[p].head <= Len(audit) /\ head[p] <= Len(audit)

\* A status() that reports writes allowed is true of the two files at one
\* instant, the read of the state file, although it reads them one after the
\* other while others change both: it never pairs an old state with a new audit.
StatusIsConsistent ==
    \A p \in Callers : answer[p] = "open" => openAtRead[p]

\* Writes open only through the state file of a reset, written while its event
\* is still the last one: no crash, engage, initialisation or verification, and
\* no late write of a caller that was overtaken, opens them.
OpensOnlyByReset ==
    [][~Writable /\ Writable' =>
         \E p \in Callers : /\ pc[p] = "write" /\ op[p] = "reset"
                            /\ head[p] = Len(audit)]_switchVars

\* While writes are allowed, the last reset was chained to an audit that held
\* every event before it: an engage whose event was appended after the reset
\* had looked keeps writes disabled, whichever of the two writes its state last.
ResetSawEveryEvent ==
    Writable => \A k \in 1..(Len(audit) - 1) : audit[Len(audit)].prev >= k
=============================================================================
