------------------------- MODULE BrokerRuntimeProofs -------------------------
(*****************************************************************************)
(* Safety of the broker runtime for any number of programs, commands,        *)
(* crashes and edits: the book that is read is one the account backed        *)
(* (BookIsPast), and the files, the journal, the checkpoint and the lock     *)
(* implement the atomic book of BrokerBook (RuntimeImplementsBook).          *)
(*                                                                           *)
(* The lock leaves one program inside (LockInv), so what it has read of the  *)
(* files is still there when it commits (DiskInv). Its call was made with    *)
(* one capture, which is not replaced while the call is pending (CallInv),   *)
(* and which is the account of one moment although it is read in two         *)
(* requests (CapInv). The book of the journal, like the checkpoint, is       *)
(* therefore one whose holdings and cash the broker had, and it follows      *)
(* from the checkpoint by posting one command (Posts), whichever of the      *)
(* writes a crash leaves out.                                                *)
(*                                                                           *)
(* Cash is a sum over executions. SumTheorems defines it by its recursion;   *)
(* here the sum of a part of an order's executions is shown to be no more    *)
(* than what the order moved.                                                *)
(*****************************************************************************)
EXTENDS BrokerRuntime, SumTheorems

\* What the variables hold.
Accounts == [cash : Nat, hold : [Positions -> Int]]
Captures == [acct : Accounts, started : Nat, completed : Nat,
             marks : [Positions -> Int], cashAt : Nat, cashValue : Nat]
Applies == [kind : {"apply"}, cmd : Commands, execs : SUBSET Book!Executions]
Commits == [kind : {"commit"}, outputs : Books]
Calls == [kind : {"none", "initialize", "read", "commit"}] \cup Applies \cup Commits
Locked == {"check", "write", "checkpoint", "unlink", "read", "commit"}
Points == Locked \cup {"idle", "rename", "waiting"}

\* The past is never empty, and a filled command has one of its fillings.
TypeInv ==
  /\ past \in Seq(Accounts) /\ past # <<>>
  /\ filled \in [Commands -> SUBSET Book!Executions]
  /\ \A c \in Commands : filled[c] # {} => filled[c] \in Fillings[c]
  /\ filledAt \in [Commands -> Nat]
  /\ exists \in BOOLEAN
  /\ pc \in [Procs -> Points] /\ op \in [Procs -> Calls]
  /\ lock \in Procs \cup {NoProc}

\* The account a book states is one the broker had at or before its coverage.
AccountIn(h, b) ==
  /\ b.cash.coverage \in 1..Len(h)
  /\ \E t \in 1..b.cash.coverage :
       h[t].hold = b.hold /\ h[t].cash = b.cash.balance

\* The capture is the account at the tick of its first read.
CapInv ==
  stage # "none" =>
    /\ cap \in Captures
    /\ cap.started \in 1..Clock
    /\ cap.acct = past[cap.started]
    /\ stage = "ready" => cap.completed \in cap.started..Clock

\* One program at a time is inside, where there is a runtime.
LockAt(p) ==
  /\ pc[p] \in Locked => lock = p
  /\ pc[p] \in Locked \cup {"waiting"} => exists

LockInv == \A p \in Procs : LockAt(p)

\* A call keeps the capture it was checked with.
CallAt(p) ==
  /\ pc[p] = "rename" => op[p].kind = "initialize"
  /\ pc[p] = "commit" => op[p] \in Commits
  /\ pc[p] \in {"waiting", "read"} => op[p].kind \in {"read", "apply"}
  /\ pc[p] \in Locked => op[p].kind \in {"read", "apply", "commit"}
  /\ op[p].kind \in {"initialize", "apply"} => stage = "ready"
  /\ op[p].kind = "apply" =>
       /\ op[p] \in Applies
       /\ op[p].execs # {} /\ op[p].execs \subseteq filled[op[p].cmd]
       /\ filledAt[op[p].cmd] <= cap.completed

CallInv == \A p \in Procs : CallAt(p)

\* new follows from book by posting the executions of one command.
Posts(b, new) ==
  \E c \in Commands : \E X \in UNION {SUBSET F : F \in Fillings[c]} :
    /\ X # {} /\ Book!Principal(X) = OrderAmount[c]
    /\ \A r \in b.processed : r.cmd # c /\ r.exec \notin X
    /\ Book!Debit(X) <= b.cash.balance
    /\ new.cash.coverage > b.cash.coverage
    /\ new = Book!Posted(b, c, X, new.cash.coverage)

\* The files, the checkpoint and the journal at each control point.
DiskAt(p) ==
  /\ pc[p] \in {"read", "commit"} => journal = NoJournal
  /\ pc[p] \in {"check", "write", "checkpoint", "unlink"} => journal # NoJournal
  /\ pc[p] = "unlink" => checkpoint = journal.outputs
  /\ pc[p] = "commit" => /\ files = checkpoint
                         /\ AccountIn(past, op[p].outputs)
                         /\ Posts(checkpoint, op[p].outputs)

\* A runtime that exists has a book which the account backs, and so has a
\* journal.
DiskInv ==
  /\ ~exists => journal = NoJournal
  /\ exists => checkpoint \in Books /\ AccountIn(past, checkpoint)
  /\ journal # NoJournal => /\ journal \in [before : Books, outputs : Books]
                            /\ AccountIn(past, journal.outputs)
  /\ \A p \in Procs : DiskAt(p)

\* The inductive invariant.
IInv == TypeInv /\ CapInv /\ LockInv /\ CallInv /\ DiskInv

\* The principal of finitely many executions is the sum of their principals.
LEMMA PrincipalSums ==
  ASSUME NEW X, IsFiniteSet(X)
  PROVE  \E g : Sums(g, [e \in X |-> e.principal], X) /\ Book!Principal(X) = g[X]
<1> DEFINE G(g) == g = [s \in SUBSET X |->
                      IF s = {} THEN 0 ELSE Pick(s).principal + g[s \ {Pick(s)}]]
           it == CHOOSE g : G(g)
           w == [e \in X |-> e.principal]
<1>1. Book!Principal(X) = it[X]
  BY DEF Book!Principal, Book!MapThenSumSet, Book!MapThenFoldSet, Pick
<1>2. \A s \in SUBSET X : s # {} => w[Pick(s)] = Pick(s).principal
  BY DEF Pick
<1> HIDE DEF w
<1>3. \A g : Sums(g, w, X) <=> G(g)
  BY ZenonT(30), <1>2 DEF Sums
<1>4. G(it)
  BY Zenon, <1>3, SumExists
<1> HIDE DEF G, it
<1>5. Sums(it, w, X)
  BY <1>3, <1>4
<1> QED
  BY <1>1, <1>5 DEF w

\* The same for what they take from the cash: principal and cost.
LEMMA DebitSums ==
  ASSUME NEW X, IsFiniteSet(X)
  PROVE  \E g : Sums(g, [e \in X |-> e.principal + e.cost], X) /\ Book!Debit(X) = g[X]
<1> DEFINE G(g) == g = [s \in SUBSET X |->
             IF s = {} THEN 0
             ELSE (Pick(s).principal + Pick(s).cost) + g[s \ {Pick(s)}]]
           it == CHOOSE g : G(g)
           w == [e \in X |-> e.principal + e.cost]
<1>1. Book!Debit(X) = it[X]
  BY DEF Book!Debit, Book!MapThenSumSet, Book!MapThenFoldSet, Pick
<1>2. \A s \in SUBSET X : s # {} => w[Pick(s)] = Pick(s).principal + Pick(s).cost
  BY DEF Pick
<1> HIDE DEF w
<1>3. \A g : Sums(g, w, X) <=> G(g)
  BY Zenon, <1>2 DEF Sums
<1>4. G(it)
  BY Zenon, <1>3, SumExists
<1> HIDE DEF G, it
<1>5. Sums(it, w, X)
  BY <1>3, <1>4
<1> QED
  BY <1>1, <1>5 DEF w

\* What the executions of a command add up to is an amount.
LEMMA AmountTypes ==
  ASSUME NEW c \in Commands, NEW F \in Fillings[c], NEW X \in SUBSET F
  PROVE  Book!Principal(X) \in Int /\ Book!Debit(X) \in Int
<1>1. IsFiniteSet(X)
  BY RuntimeAssumption, FS_Subset
<1>2. /\ [e \in X |-> e.principal] \in [X -> Int]
      /\ [e \in X |-> e.principal + e.cost] \in [X -> Int]
  BY RuntimeAssumption
<1>3. Book!Principal(X) \in Int
  <2> DEFINE w == [e \in X |-> e.principal]
  <2>1. PICK g : Sums(g, w, X) /\ Book!Principal(X) = g[X]
    BY <1>1, PrincipalSums
  <2> HIDE DEF w
  <2>2. g[X] \in Int
    BY <1>1, <1>2, <2>1, SumIsInt DEF w
  <2> QED
    BY <2>1, <2>2
<1>4. Book!Debit(X) \in Int
  <2> DEFINE w == [e \in X |-> e.principal + e.cost]
  <2>1. PICK g : Sums(g, w, X) /\ Book!Debit(X) = g[X]
    BY <1>1, DebitSums
  <2> HIDE DEF w
  <2>2. g[X] \in Int
    BY <1>1, <1>2, <2>1, SumIsInt DEF w
  <2> QED
    BY <2>1, <2>2
<1> QED
  BY <1>3, <1>4

\* Holdings stay holdings.
LEMMA HoldingsType ==
  ASSUME NEW c \in Commands, NEW F \in Fillings[c], NEW X \in SUBSET F,
         NEW hold \in [Positions -> Int]
  PROVE  Book!AddHoldings(hold, X) \in [Positions -> Int]
<1>1. ASSUME NEW q \in Positions
      PROVE  Book!Principal({e \in X : e.pos = q}) \in Int
  <2>1. {e \in X : e.pos = q} \in SUBSET F
    OBVIOUS
  <2> QED
    BY <2>1, AmountTypes
<1> QED
  BY <1>1 DEF Book!AddHoldings

-----------------------------------------------------------------------------
\* The committed book, case by case.
LEMMA CommittedCases ==
  /\ ~exists /\ journal = NoJournal => Committed = NoBook
  /\ exists /\ journal # NoJournal => Committed = journal.outputs
  /\ exists /\ journal = NoJournal => Committed = checkpoint
BY Zenon DEF Committed

\* The same after a step.
LEMMA CommittedCasesNext ==
  /\ ~exists' /\ journal' = NoJournal => Committed' = NoBook
  /\ exists' /\ journal' # NoJournal => Committed' = journal'.outputs
  /\ exists' /\ journal' = NoJournal => Committed' = checkpoint'
BY Zenon DEF Committed

\* A program that moves on leaves the others where they are.
LEMMA GotoEffect ==
  ASSUME TypeInv, NEW p \in Procs, NEW l \in Points, Goto(p, l)
  PROVE  /\ pc' \in [Procs -> Points] /\ pc'[p] = l
         /\ \A q \in Procs : q # p => pc'[q] = pc[q]
BY DEF TypeInv, Goto

\* The same for the call a program is in.
LEMMA OpEffect ==
  ASSUME TypeInv, NEW p \in Procs, NEW c \in Calls, op' = [op EXCEPT ![p] = c]
  PROVE  /\ op' \in [Procs -> Calls] /\ op'[p] = c
         /\ \A q \in Procs : q # p => op'[q] = op[q]
BY DEF TypeInv

\* The kinds of call that carry nothing.
LEMMA PlainCalls ==
  /\ NoOp \in Calls /\ NoOp.kind = "none"
  /\ \A x \in {"none", "initialize", "read", "commit"} :
       [kind |-> x] \in Calls /\ [kind |-> x].kind = x
BY DEF Calls, NoOp

\* What a step of the broker does to its history.
LEMMA TickEffect ==
  ASSUME TypeInv, NEW a \in Accounts, Tick(a)
  PROVE  /\ past' \in Seq(Accounts) /\ past' # <<>>
         /\ Len(past') = Len(past) + 1
         /\ \A t \in 1..Len(past) : past'[t] = past[t]
BY DEF TypeInv, Tick, Clock

\* The account the broker has now is an account.
LEMMA NowType == TypeInv => Now \in Accounts /\ Clock \in Nat \ {0} /\ Now = past[Clock]
BY DEF TypeInv, Now, Clock

-----------------------------------------------------------------------------
\* A longer history takes no account back.
Extends(h, g) == Len(h) <= Len(g) /\ \A t \in 1..Len(h) : g[t] = h[t]

\* A book the account backed is one it has backed ever after.
LEMMA AccountsStay ==
  ASSUME NEW h \in Seq(Accounts), NEW g \in Seq(Accounts), Extends(h, g),
         NEW b, AccountIn(h, b)
  PROVE  AccountIn(g, b)
BY DEF AccountIn, Extends

\* The broker fills an order, money leaves, or nothing happens: the history
\* grows by one account, and a filled command stays as it is.
LEMMA BrokerEffect ==
  ASSUME TypeInv, (\E c \in Commands : Fill(c)) \/ Transfer \/ TimePasses
  PROVE  /\ past' \in Seq(Accounts) /\ past' # <<>> /\ Extends(past, past')
         /\ filled' \in [Commands -> SUBSET Book!Executions]
         /\ filledAt' \in [Commands -> Nat]
         /\ \A c \in Commands : filled'[c] # {} => filled'[c] \in Fillings[c]
         /\ \A c \in Commands : filled[c] # {} =>
              filled'[c] = filled[c] /\ filledAt'[c] = filledAt[c]
         /\ UNCHANGED <<diskVars, procVars, capVars>>
<1>n. Now \in Accounts /\ Clock \in Nat \ {0}
  BY NowType
<1>1. CASE Transfer
  <2> DEFINE a == [Now EXCEPT !.cash = @ - 1]
  <2>1. a \in Accounts
    BY <1>1, <1>n DEF Transfer, Accounts
  <2>2. Tick(a)
    BY <1>1 DEF Transfer
  <2> QED
    BY <1>1, <2>1, <2>2, TickEffect DEF Transfer, Extends, TypeInv
<1>2. CASE TimePasses
  BY <1>2, <1>n, TickEffect DEF TimePasses, Extends, TypeInv
<1>3. ASSUME NEW c \in Commands, Fill(c)
      PROVE  /\ past' \in Seq(Accounts) /\ past' # <<>> /\ Extends(past, past')
             /\ filled' \in [Commands -> SUBSET Book!Executions]
             /\ filledAt' \in [Commands -> Nat]
             /\ \A d \in Commands : filled'[d] # {} => filled'[d] \in Fillings[d]
             /\ \A d \in Commands : filled[d] # {} =>
                  filled'[d] = filled[d] /\ filledAt'[d] = filledAt[d]
             /\ UNCHANGED <<diskVars, procVars, capVars>>
  <2>1. PICK X \in Fillings[c] :
          /\ Book!Debit(X) <= Now.cash
          /\ Tick([cash |-> Now.cash - Book!Debit(X),
                   hold |-> Book!AddHoldings(Now.hold, X)])
          /\ filled' = [filled EXCEPT ![c] = X]
          /\ filledAt' = [filledAt EXCEPT ![c] = Clock + 1]
    BY ZenonT(30), <1>3 DEF Fill
  <2> DEFINE a == [cash |-> Now.cash - Book!Debit(X),
                   hold |-> Book!AddHoldings(Now.hold, X)]
  <2>2. a \in Accounts
    <3>1. Book!Debit(X) \in Int /\ Book!AddHoldings(Now.hold, X) \in [Positions -> Int]
      BY <1>n, AmountTypes, HoldingsType DEF Accounts
    <3> QED
      BY <1>n, <2>1, <3>1 DEF Accounts
  <2>3. past' \in Seq(Accounts) /\ past' # <<>> /\ Extends(past, past')
    <3> HIDE DEF a
    <3>1. Tick(a)
      BY <2>1 DEF a
    <3> QED
      BY <2>2, <3>1, TickEffect DEF Extends, TypeInv
  <2>4. X \in SUBSET Book!Executions
    BY DEF Book!Executions
  <2>5. filled[c] = {} /\ UNCHANGED <<diskVars, procVars, capVars>>
    BY <1>3 DEF Fill
  <2>6. /\ filled' \in [Commands -> SUBSET Book!Executions]
        /\ filledAt' \in [Commands -> Nat]
    BY <1>n, <2>1, <2>4 DEF TypeInv
  <2>7. /\ filled'[c] = X
        /\ \A d \in Commands : d # c => filled'[d] = filled[d] /\ filledAt'[d] = filledAt[d]
    BY <2>1 DEF TypeInv
  <2> QED
    BY Zenon, <2>3, <2>5, <2>6, <2>7 DEF TypeInv
<1> QED
  BY <1>1, <1>2, <1>3

\* Hence a step of the broker keeps the invariant.
LEMMA BrokerKeeps ==
  ASSUME IInv, (\E c \in Commands : Fill(c)) \/ Transfer \/ TimePasses
  PROVE  IInv'
<1>t. TypeInv
  BY DEF IInv
<1>e. /\ past' \in Seq(Accounts) /\ past' # <<>> /\ Extends(past, past')
      /\ filled' \in [Commands -> SUBSET Book!Executions]
      /\ filledAt' \in [Commands -> Nat]
      /\ \A c \in Commands : filled'[c] # {} => filled'[c] \in Fillings[c]
      /\ \A c \in Commands : filled[c] # {} =>
           filled'[c] = filled[c] /\ filledAt'[c] = filledAt[c]
  BY <1>t, BrokerEffect
<1>u. /\ exists' = exists /\ files' = files /\ checkpoint' = checkpoint
      /\ journal' = journal /\ lock' = lock /\ pc' = pc /\ op' = op
      /\ cap' = cap /\ stage' = stage
  BY <1>t, BrokerEffect DEF diskVars, procVars, capVars
<1>1. TypeInv'
  BY <1>t, <1>e, <1>u DEF TypeInv
<1>2. CapInv'
  BY <1>t, <1>e, <1>u DEF IInv, TypeInv, CapInv, Clock, Extends
<1>3. LockInv'
  BY <1>u DEF IInv, LockInv, LockAt
<1>4. CallInv'
  <2> SUFFICES ASSUME NEW p \in Procs, op[p].kind = "apply"
               PROVE  /\ op[p].execs \subseteq filled'[op[p].cmd]
                      /\ filledAt'[op[p].cmd] <= cap.completed
    BY <1>u DEF IInv, CallInv, CallAt
  <2>1. /\ op[p].cmd \in Commands /\ op[p].execs # {}
        /\ op[p].execs \subseteq filled[op[p].cmd]
        /\ filledAt[op[p].cmd] <= cap.completed
    BY DEF IInv, CallInv, CallAt, Applies
  <2> QED
    BY <1>e, <2>1
<1>5. DiskInv'
  <2>1. \A b : AccountIn(past, b) => AccountIn(past', b)
    BY <1>t, <1>e, AccountsStay DEF TypeInv
  <2> QED
    BY <1>u, <2>1 DEF IInv, DiskInv, DiskAt
<1> QED
  BY <1>1, <1>2, <1>3, <1>4, <1>5 DEF IInv

-----------------------------------------------------------------------------
\* A capture in the making is the account at the tick of its first read, and no
\* call that relies on a capture is under way meanwhile.
LEMMA CaptureKeeps ==
  ASSUME IInv, BeginCapture \/ ReadRest \/ CompleteCapture
  PROVE  IInv'
<1>t. TypeInv /\ CapInv /\ CallInv
  BY DEF IInv
<1>n. Now \in Accounts /\ Clock \in Nat \ {0} /\ Now = past[Clock]
  BY Zenon, <1>t, NowType
<1>u. /\ past' = past /\ filled' = filled /\ filledAt' = filledAt
      /\ exists' = exists /\ files' = files /\ checkpoint' = checkpoint
      /\ journal' = journal /\ lock' = lock /\ pc' = pc /\ op' = op
  BY ZenonT(30)
     DEF BeginCapture, ReadRest, CompleteCapture, brokerVars, diskVars, procVars
<1>1. \A p \in Procs : op[p].kind \notin {"initialize", "apply"}
  BY Zenon, <1>t DEF BeginCapture, ReadRest, CompleteCapture, CallInv, CallAt
<1>2. CapInv'
  <2>1. CASE BeginCapture
    <3>1. /\ cap' = [acct |-> Now, started |-> Clock, completed |-> 0,
                     marks |-> [q \in Positions |-> 0], cashAt |-> 0, cashValue |-> 0]
          /\ stage' = "opened"
      BY <2>1 DEF BeginCapture
    <3> QED
      BY <1>n, <1>u, <3>1 DEF CapInv, Captures, Clock
  <2>2. CASE Abandon
    BY <2>2 DEF Abandon, CapInv
  <2>3. CASE ReadRest /\ ~Abandon
    <3>1. stage = "opened" /\ stage' = "closed"
      BY <2>3 DEF ReadRest
    <3>2. PICK lag \in SUBSET (LaggingMarks \cap Account!Held(Now.hold)) :
            cap' = [cap EXCEPT !.marks = [q \in Positions |->
                     IF Now.hold[q] = 0 THEN 0 ELSE IF q \in lag THEN Clock - 1 ELSE Clock]]
      BY <2>3 DEF ReadRest
    <3> DEFINE m == [q \in Positions |->
                     IF Now.hold[q] = 0 THEN 0 ELSE IF q \in lag THEN Clock - 1 ELSE Clock]
    <3>3. m \in [Positions -> Int]
      BY <1>n
    <3> HIDE DEF m
    <3>4. cap' = [cap EXCEPT !.marks = m]
      BY <3>2 DEF m
    <3>5. cap \in Captures
      BY <1>t, <3>1 DEF CapInv
    <3>6. cap' \in Captures /\ cap'.acct = cap.acct /\ cap'.started = cap.started
      BY <3>3, <3>4, <3>5 DEF Captures
    <3> QED
      BY <1>t, <1>u, <3>1, <3>6 DEF CapInv, Clock
  <2>4. CASE CompleteCapture /\ ~Abandon
    <3>1. PICK t \in {Clock - 1, Clock} \ {0} :
            LET c == [cap EXCEPT !.completed = Clock, !.cashAt = t,
                                 !.cashValue = past[t].cash]
            IN Account!ValidateAt(c, Clock) /\ cap' = c /\ stage' = "ready"
      BY ZenonT(30), <2>4 DEF CompleteCapture
    <3>2. stage = "closed" /\ stage' = "ready"
      BY Zenon, <2>4, <3>1 DEF CompleteCapture
    <3>3. cap \in Captures
      BY <1>t, <3>2 DEF CapInv
    <3>4. t \in Nat /\ past[t].cash \in Nat
      <4>1. t \in 1..Clock
        BY <1>n
      <4>2. past[t] \in Accounts
        BY <1>t, <4>1 DEF TypeInv, Clock
      <4> QED
        BY <1>n, <4>1, <4>2 DEF Accounts
    <3>5. /\ cap' \in Captures /\ cap'.acct = cap.acct /\ cap'.started = cap.started
          /\ cap'.completed = Clock
      BY ZenonT(30), <1>n, <3>1, <3>3, <3>4 DEF Captures
    <3>6. cap'.completed >= cap'.started
      BY <3>1 DEF Account!ValidateAt
    <3> QED
      BY SMTT(30), <1>t, <1>n, <1>u, <3>2, <3>5, <3>6 DEF CapInv, Captures, Clock
  <2> QED
    BY <2>1, <2>2, <2>3, <2>4
<1>3. TypeInv' /\ LockInv' /\ DiskInv'
  BY <1>t, <1>u DEF IInv, TypeInv, LockInv, LockAt, DiskInv, DiskAt
<1>4. CallInv'
  BY <1>t, <1>1, <1>u DEF CallInv, CallAt
<1> QED
  BY <1>2, <1>3, <1>4 DEF IInv

\* An edit by hand happens while no program is inside, so no program relies on
\* the files it found.
LEMMA HandEditKeeps ==
  ASSUME IInv, HandEdit
  PROVE  IInv'
<1>u. /\ past' = past /\ filled' = filled /\ filledAt' = filledAt
      /\ exists' = exists /\ checkpoint' = checkpoint
      /\ journal' = journal /\ lock' = lock /\ pc' = pc /\ op' = op
      /\ cap' = cap /\ stage' = stage
  BY DEF HandEdit, brokerVars, procVars, capVars
<1>1. \A p \in Procs : pc[p] \notin Locked
  BY RuntimeAssumption DEF HandEdit, IInv, LockInv, LockAt
<1>2. DiskInv'
  BY <1>u, <1>1 DEF IInv, DiskInv, DiskAt, Locked
<1>3. TypeInv' /\ CapInv' /\ LockInv' /\ CallInv'
  BY <1>u DEF IInv, TypeInv, CapInv, LockInv, LockAt, CallInv, CallAt, Clock
<1> QED
  BY <1>2, <1>3 DEF IInv

-----------------------------------------------------------------------------
\* A step of one program: what it must establish about itself and the disk.
LEMMA ProcFrame ==
  ASSUME IInv, NEW p \in Procs,
         UNCHANGED <<brokerVars, capVars>>,
         pc' \in [Procs -> Points], op' \in [Procs -> Calls],
         \A q \in Procs : q # p => pc'[q] = pc[q] /\ op'[q] = op[q],
         lock' \in Procs \cup {NoProc}, exists' \in BOOLEAN, exists => exists',
         CallAt(p)', LockAt(p)', DiskAt(p)',
         lock' = lock \/ \A q \in Procs : q # p => pc[q] \notin Locked,
         ~exists' => journal' = NoJournal,
         exists' => checkpoint' \in Books /\ AccountIn(past, checkpoint'),
         journal' # NoJournal => /\ journal' \in [before : Books, outputs : Books]
                                 /\ AccountIn(past, journal'.outputs),
         \/ UNCHANGED <<files, checkpoint, journal>>
         \/ \A q \in Procs : q # p => pc[q] \notin Locked
  PROVE  IInv'
<1>u. /\ past' = past /\ filled' = filled /\ filledAt' = filledAt
      /\ cap' = cap /\ stage' = stage
  BY DEF brokerVars, capVars
<1>1. TypeInv'
  BY <1>u DEF IInv, TypeInv
<1>2. CapInv'
  BY Zenon, <1>u DEF IInv, CapInv, Clock
<1>3. CallInv'
  BY <1>u DEF IInv, CallInv, CallAt
<1>4. LockInv'
  BY Zenon DEF IInv, LockInv, LockAt
<1>5. \A q \in Procs : DiskAt(q)'
  BY <1>u DEF IInv, DiskInv, DiskAt, Locked
<1>6. DiskInv'
  BY <1>u, <1>5 DEF DiskInv
<1> QED
  BY ZenonT(30), <1>1, <1>2, <1>3, <1>4, <1>6 DEF IInv

\* While one program is inside, no other is.
LEMMA Alone ==
  ASSUME IInv, NEW p \in Procs, pc[p] \in Locked \/ lock = NoProc
  PROVE  \A q \in Procs : q # p => pc[q] \notin Locked
BY RuntimeAssumption DEF IInv, LockInv, LockAt

-----------------------------------------------------------------------------
\* The checks of apply_confirmed, once passed, say that the outputs post one
\* whole command to the book that was read: none of its executions is in it, the
\* account's cash and holdings are the book's after exactly these executions,
\* and the coverage advances.
LEMMA ApplyPosts ==
  ASSUME IInv, NEW b \in Books, NEW c \in Commands,
         NEW X \in SUBSET Book!Executions,
         stage = "ready", X # {}, X \subseteq filled[c], filledAt[c] <= cap.completed,
         ApplyOutcome(b, c, X, cap) = "commit"
  PROVE  /\ ApplyOutputs(b, c, X, cap) \in Books
         /\ AccountIn(past, ApplyOutputs(b, c, X, cap))
         /\ Posts(b, ApplyOutputs(b, c, X, cap))
<1> DEFINE out == ApplyOutputs(b, c, X, cap)
           mine == {r.exec.id : r \in {r \in b.processed : r.cmd = c}}
           new == NewOf(b, X)
<1>t. /\ filled[c] \in Fillings[c] /\ filledAt[c] \in Nat
      /\ cap \in Captures /\ cap.acct \in Accounts /\ cap.completed \in Nat
      /\ cap.started \in 1..Len(past) /\ cap.acct = past[cap.started]
      /\ cap.completed \in cap.started..Len(past)
  BY DEF IInv, TypeInv, CapInv, Captures, Clock
<1>s. PICK F \in Fillings[c] : X \in SUBSET F
  BY <1>t
<1>a. Book!Debit(X) \in Int /\ Book!Principal(X) \in Int
  BY <1>s, AmountTypes
<1>1. /\ mine = {} \/ mine = {e.id : e \in X}
      /\ new = {} \/ new = X
      /\ Book!AddHoldings(b.hold, new) = cap.acct.hold
      /\ b.cash.balance - Book!Debit(new) = cap.acct.cash
      /\ new # {}
      /\ Book!Principal(new) = OrderAmount[c]
      /\ ~(filledAt[c] <= b.cash.coverage)
  BY ZenonT(30) DEF ApplyOutcome
<1>2. new = X
  BY <1>1
<1>3. \A r \in b.processed : r.cmd # c /\ r.exec \notin X
  <2>1. \A r \in b.processed : \A e \in X : r.exec.id # e.id
    BY <1>2 DEF NewOf
  <2>2. ASSUME NEW r \in b.processed, r.cmd = c PROVE FALSE
    <3>1. r.exec.id \in mine
      BY <2>2
    <3> QED
      BY ZenonT(30), <1>1, <2>1, <3>1
  <2> QED
    BY <2>1, <2>2
<1> HIDE DEF mine, new
<1>4. /\ b.hold \in [Positions -> Int] /\ b.cash \in [balance : Int, coverage : Nat]
      /\ b.fills \in SUBSET Book!Executions /\ b.evidence \in Nat
      /\ b.ledger \in SUBSET [id : {e.id : e \in Book!Executions}, debit : Int]
      /\ b.processed \in SUBSET [exec : Book!Executions, cmd : Commands]
  BY DEF Books
<1>5. Book!Debit(X) <= b.cash.balance
  BY SMTT(30), <1>1, <1>2, <1>4, <1>a, <1>t DEF Accounts
<1>6. /\ out.hold = cap.acct.hold
      /\ out.cash = [balance |-> cap.acct.cash, coverage |-> cap.completed]
  BY DEF ApplyOutputs
<1>7. out.cash.coverage > b.cash.coverage
  BY SMTT(30), <1>1, <1>4, <1>6, <1>t
<1>8. out = Book!Posted(b, c, X, out.cash.coverage)
  BY Zenon, <1>1, <1>2, <1>6 DEF ApplyOutputs, Book!Posted
<1>9. out \in Books
  <2>1. cap.acct.hold \in [Positions -> Int] /\ cap.acct.cash \in Int
    BY <1>t DEF Accounts
  <2>2. \A e \in X : e.principal + e.cost \in Int
    BY <1>s, RuntimeAssumption
  <2>3. {[id |-> e.id, debit |-> e.principal + e.cost] : e \in X}
          \in SUBSET [id : {e.id : e \in Book!Executions}, debit : Int]
    BY <2>2
  <2>4. {[exec |-> e, cmd |-> c] : e \in X}
          \in SUBSET [exec : Book!Executions, cmd : Commands]
    OBVIOUS
  <2> QED
    BY SMTT(30), <1>4, <1>t, <2>1, <2>3, <2>4 DEF ApplyOutputs, Books
<1>10. AccountIn(past, out)
  BY SMTT(30), <1>6, <1>t DEF AccountIn
<1>11. Posts(b, out)
  BY <1>2, <1>1, <1>s, <1>3, <1>5, <1>7, <1>8 DEF Posts
<1> QED
  BY <1>9, <1>10, <1>11

-----------------------------------------------------------------------------
\* What the disk holds now, in the form the frame asks for.
LEMMA DiskNow ==
  ASSUME IInv
  PROVE  /\ exists \in BOOLEAN /\ lock \in Procs \cup {NoProc}
         /\ ~exists => journal = NoJournal
         /\ exists => checkpoint \in Books /\ AccountIn(past, checkpoint)
         /\ journal # NoJournal => /\ journal \in [before : Books, outputs : Books]
                                   /\ AccountIn(past, journal.outputs)
BY DEF IInv, TypeInv, DiskInv

\* initialize stages its files, and a program enters a call.
LEMMA EnterKeeps ==
  ASSUME IInv, NEW p \in Procs,
         InitializeStage(p) \/ CallRead(p) \/ \E c \in Commands : CallApply(p, c)
  PROVE  IInv'
<1>t. TypeInv
  BY Zenon DEF IInv
<1>1. CASE InitializeStage(p)
  <2>1. /\ pc' \in [Procs -> Points] /\ pc'[p] = "rename"
        /\ \A q \in Procs : q # p => pc'[q] = pc[q]
    BY <1>1, <1>t, GotoEffect DEF InitializeStage, Points
  <2>2. /\ op' \in [Procs -> Calls] /\ op'[p].kind = "initialize"
        /\ \A q \in Procs : q # p => op'[q] = op[q]
    BY ZenonT(30), <1>1, <1>t, OpEffect, PlainCalls DEF InitializeStage
  <2>3. UNCHANGED <<brokerVars, capVars, diskVars, lock>> /\ stage = "ready"
    BY <1>1 DEF InitializeStage, CaptureUsable
  <2>4. CallAt(p)' /\ LockAt(p)' /\ DiskAt(p)'
    BY <2>1, <2>2, <2>3 DEF CallAt, LockAt, DiskAt, Locked, capVars
  <2> QED
    BY <2>1, <2>2, <2>3, <2>4, ProcFrame, DiskNow DEF diskVars
<1>2. ASSUME NEW call \in Calls, Call(p, call), call.kind \in {"read", "apply"},
             call.kind = "apply" =>
               /\ call \in Applies /\ stage = "ready"
               /\ call.execs # {} /\ call.execs \subseteq filled[call.cmd]
               /\ filledAt[call.cmd] <= cap.completed
      PROVE  IInv'
  <2>1. /\ pc' \in [Procs -> Points] /\ pc'[p] = "waiting"
        /\ \A q \in Procs : q # p => pc'[q] = pc[q]
    BY ZenonT(30), <1>2, <1>t, GotoEffect DEF Call, Points
  <2>2. /\ op' \in [Procs -> Calls] /\ op'[p] = call
        /\ \A q \in Procs : q # p => op'[q] = op[q]
    BY ZenonT(30), <1>2, <1>t, OpEffect DEF Call
  <2>3. UNCHANGED <<brokerVars, capVars, diskVars, lock>> /\ exists
    BY ZenonT(30), <1>2 DEF Call
  <2>4. CallAt(p)' /\ LockAt(p)' /\ DiskAt(p)'
    BY ZenonT(30), <1>2, <2>1, <2>2, <2>3
       DEF CallAt, LockAt, DiskAt, Locked, capVars, brokerVars, diskVars
  <2> QED
    BY ZenonT(30), <2>1, <2>2, <2>3, <2>4, ProcFrame, DiskNow DEF diskVars
<1>3. CASE CallRead(p)
  BY <1>3, <1>2, PlainCalls DEF CallRead
<1>4. ASSUME NEW c \in Commands, CallApply(p, c) PROVE IInv'
  <2>1. PICK X \in SUBSET filled[c] :
          /\ PreconditionsHold(c, X)
          /\ Call(p, [kind |-> "apply", cmd |-> c, execs |-> X])
    BY <1>4 DEF CallApply
  <2>2. X \in SUBSET Book!Executions
    BY <1>t DEF TypeInv
  <2>3. [kind |-> "apply", cmd |-> c, execs |-> X] \in Applies
    BY <2>2 DEF Applies
  <2> QED
    BY ZenonT(30), <1>2, <2>1, <2>3 DEF PreconditionsHold, CaptureUsable, Calls
<1> QED
  BY <1>1, <1>3, <1>4

\* The first book is the captured account.
LEMMA InitialFilesFit ==
  ASSUME IInv, stage = "ready"
  PROVE  InitialFiles \in Books /\ AccountIn(past, InitialFiles)
<1>1. /\ cap \in Captures /\ cap.acct \in Accounts /\ cap.completed \in Nat
      /\ cap.started \in 1..Len(past) /\ cap.acct = past[cap.started]
      /\ cap.completed \in cap.started..Len(past)
  BY DEF IInv, CapInv, Captures, Clock
<1>2. InitialFiles \in Books
  BY <1>1 DEF InitialFiles, Books, Accounts
<1>3. /\ InitialFiles.hold = cap.acct.hold
      /\ InitialFiles.cash = [balance |-> cap.acct.cash, coverage |-> cap.completed]
  BY DEF InitialFiles
<1>4. AccountIn(past, InitialFiles)
  BY <1>1, <1>3 DEF AccountIn
<1> QED
  BY <1>2, <1>4

\* The rename makes the staged files visible, or fails on a runtime that exists.
LEMMA RenameKeeps ==
  ASSUME IInv, NEW p \in Procs, InitializeRename(p)
  PROVE  IInv'
<1>t. TypeInv /\ CallAt(p)
  BY DEF IInv, CallInv
<1>1. /\ pc' \in [Procs -> Points] /\ pc'[p] = "idle"
      /\ \A q \in Procs : q # p => pc'[q] = pc[q]
  BY Zenon, <1>t, GotoEffect DEF InitializeRename, Points
<1>2. /\ op' \in [Procs -> Calls] /\ op'[p].kind = "none"
      /\ \A q \in Procs : q # p => op'[q] = op[q]
  BY ZenonT(30), <1>t, OpEffect, PlainCalls DEF InitializeRename
<1>3. UNCHANGED <<brokerVars, capVars, lock>>
  BY DEF InitializeRename
<1>4. CallAt(p)' /\ LockAt(p)' /\ DiskAt(p)'
  BY ZenonT(30), <1>1, <1>2 DEF CallAt, LockAt, DiskAt, Locked
<1>5. CASE exists
  BY ZenonT(30), <1>1, <1>2, <1>3, <1>4, <1>5, ProcFrame, DiskNow
     DEF InitializeRename, diskVars
<1>6. CASE ~exists
  <2>1. stage = "ready"
    BY ZenonT(30), <1>t DEF InitializeRename, CallAt
  <2>2. exists' = TRUE /\ checkpoint' = InitialFiles /\ journal' = journal
    BY <1>6 DEF InitializeRename
  <2>3. \A q \in Procs : pc[q] \notin Locked
    BY <1>6 DEF IInv, LockInv, LockAt
  <2>4. journal = NoJournal
    BY <1>6, DiskNow
  <2>5. checkpoint' \in Books /\ AccountIn(past, checkpoint')
    BY ZenonT(30), <2>1, <2>2, InitialFilesFit
  <2> QED
    BY ZenonT(30), <1>1, <1>2, <1>3, <1>4, <2>2, <2>3, <2>4, <2>5, ProcFrame, DiskNow
<1> QED
  BY <1>5, <1>6

\* A program takes the lock, or returns and gives it up.
LEMMA AcquireKeeps ==
  ASSUME IInv, NEW p \in Procs, Acquire(p)
  PROVE  IInv'
<1>t. TypeInv /\ CallAt(p) /\ LockAt(p)
  BY DEF IInv, CallInv, LockInv
<1>1. /\ pc' \in [Procs -> Points]
      /\ pc'[p] = IF journal = NoJournal THEN "read" ELSE "check"
      /\ \A q \in Procs : q # p => pc'[q] = pc[q]
  BY <1>t, GotoEffect DEF Acquire, Points, Locked
<1>2. UNCHANGED <<brokerVars, capVars, diskVars, op>> /\ lock = NoProc /\ lock' = p
  BY DEF Acquire
<1>3. \A q \in Procs : q # p => pc[q] \notin Locked
  BY Zenon, <1>2, Alone
<1>4. CallAt(p)'
  BY ZenonT(30), <1>t, <1>1, <1>2
     DEF Acquire, CallAt, Locked, brokerVars, capVars, diskVars
<1>5. LockAt(p)' /\ DiskAt(p)'
  BY <1>t, <1>1, <1>2 DEF Acquire, LockAt, DiskAt, Locked, brokerVars, capVars, diskVars
<1> QED
  BY ZenonT(30), <1>t, <1>1, <1>2, <1>3, <1>4, <1>5, ProcFrame, DiskNow
     DEF diskVars, TypeInv

\* A program leaves the lock, with the journal removed or left to the next one.
LEMMA LeaveKeeps ==
  ASSUME IInv, NEW p \in Procs, pc[p] \in Locked, Leave(p),
         UNCHANGED <<brokerVars, capVars, exists, files, checkpoint>>,
         \/ journal' = journal
         \/ journal' = NoJournal
  PROVE  IInv'
<1>t. TypeInv
  BY DEF IInv
<1>1. /\ pc' \in [Procs -> Points] /\ pc'[p] = "idle"
      /\ \A q \in Procs : q # p => pc'[q] = pc[q]
  BY <1>t, GotoEffect DEF Leave, Points
<1>2. /\ op' \in [Procs -> Calls] /\ op'[p].kind = "none"
      /\ \A q \in Procs : q # p => op'[q] = op[q]
  BY ZenonT(30), <1>t, OpEffect, PlainCalls DEF Leave
<1>3. \A q \in Procs : q # p => pc[q] \notin Locked
  BY Alone
<1>4. CallAt(p)' /\ LockAt(p)' /\ DiskAt(p)'
  BY Zenon, <1>1, <1>2 DEF CallAt, LockAt, DiskAt, Locked
<1>5. lock' = NoProc
  BY Zenon DEF Leave
<1> QED
  BY ZenonT(30), <1>1, <1>2, <1>3, <1>4, <1>5, ProcFrame, DiskNow

\* A program dies: its place is idle, the disk is as it was.
LEMMA CrashKeeps ==
  ASSUME IInv, NEW p \in Procs, Crash(p)
  PROVE  IInv'
<1>t. TypeInv
  BY DEF IInv
<1>1. /\ pc' \in [Procs -> Points] /\ pc'[p] = "idle"
      /\ \A q \in Procs : q # p => pc'[q] = pc[q]
  BY <1>t, GotoEffect DEF Crash, Points
<1>2. /\ op' \in [Procs -> Calls] /\ op'[p].kind = "none"
      /\ \A q \in Procs : q # p => op'[q] = op[q]
  BY Zenon, <1>t, OpEffect, PlainCalls DEF Crash
<1>3. lock' = lock \/ \A q \in Procs : q # p => pc[q] \notin Locked
  BY DEF Crash, IInv, LockInv, LockAt
<1>4. CallAt(p)' /\ LockAt(p)' /\ DiskAt(p)'
  BY <1>1, <1>2 DEF CallAt, LockAt, DiskAt, Locked
<1>5. lock' \in Procs \cup {NoProc} /\ UNCHANGED <<brokerVars, capVars, diskVars>>
  BY <1>t DEF Crash, TypeInv
<1> QED
  BY <1>1, <1>2, <1>3, <1>4, <1>5, ProcFrame, DiskNow DEF diskVars

\* The steps of _recover_locked: check, rewrite each file, checkpoint, unlink.
LEMMA RecoverKeeps ==
  ASSUME IInv, NEW p \in Procs,
         RecoverCheck(p) \/ WriteFile(p) \/ WriteCheckpoint(p) \/ UnlinkJournal(p)
  PROVE  IInv'
<1>t. TypeInv /\ CallAt(p) /\ LockAt(p) /\ DiskAt(p)
  BY DEF IInv, CallInv, LockInv, DiskInv
<1>l. pc[p] \in {"check", "write", "checkpoint", "unlink"} /\ pc[p] \in Locked
  BY DEF RecoverCheck, WriteFile, WriteCheckpoint, UnlinkJournal, Locked
<1>a. \A q \in Procs : q # p => pc[q] \notin Locked
  BY Zenon, <1>l, Alone
<1>j. /\ journal # NoJournal /\ journal \in [before : Books, outputs : Books]
      /\ AccountIn(past, journal.outputs)
  BY <1>t, <1>l, DiskNow DEF DiskAt
<1>x. exists /\ lock = p
  BY Zenon, <1>t, <1>l DEF LockAt
<1>1. ASSUME NEW l \in {"write", "checkpoint", "unlink", "read"}, Goto(p, l),
             UNCHANGED <<brokerVars, capVars, exists, lock, op>>,
             checkpoint' \in Books, AccountIn(past, checkpoint'),
             journal' \in {journal, NoJournal},
             l = "read" <=> journal' = NoJournal,
             l = "unlink" => checkpoint' = journal.outputs,
             l = "read" => op[p].kind # "commit"
      PROVE  IInv'
  <2>1. /\ pc' \in [Procs -> Points] /\ pc'[p] = l
        /\ \A q \in Procs : q # p => pc'[q] = pc[q]
    BY ZenonT(30), <1>1, <1>t, GotoEffect DEF Points, Locked
  <2>2. CallAt(p)'
    BY ZenonT(30), <1>1, <1>l, <1>t, <2>1 DEF CallAt, Locked, brokerVars, capVars
  <2>3. LockAt(p)'
    BY ZenonT(30), <1>1, <1>x, <2>1 DEF LockAt
  <2>4. DiskAt(p)'
    BY ZenonT(30), <1>1, <1>j, <2>1 DEF DiskAt
  <2> QED
    BY ZenonT(30), <1>1, <1>a, <1>j, <1>t, <1>x, <2>1, <2>2, <2>3, <2>4, ProcFrame
       DEF TypeInv
<1>c. checkpoint \in Books /\ AccountIn(past, checkpoint)
  BY <1>x, DiskNow
<1>2. CASE RecoverCheck(p)
  <2>1. CASE FilesUntouched
    BY <1>1, <1>2, <1>c, <1>j, <2>1 DEF RecoverCheck, diskVars
  <2>2. CASE ~FilesUntouched
    BY ZenonT(30), <1>2, <1>l, <2>2, LeaveKeeps DEF RecoverCheck, diskVars
  <2> QED
    BY <2>1, <2>2
<1>3. CASE WriteFile(p)
  BY ZenonT(30), <1>1, <1>3, <1>c, <1>j DEF WriteFile
<1>4. CASE WriteCheckpoint(p)
  BY <1>1, <1>4, <1>j DEF WriteCheckpoint
<1>5. CASE UnlinkJournal(p)
  <2>1. CASE op[p].kind = "commit"
    BY ZenonT(30), <1>5, <1>l, <2>1, LeaveKeeps DEF UnlinkJournal
  <2>2. CASE op[p].kind # "commit"
    BY <1>1, <1>5, <1>c, <2>2 DEF UnlinkJournal
  <2> QED
    BY <2>1, <2>2
<1> QED
  BY <1>2, <1>3, <1>4, <1>5

\* A read under the lock returns, fails, or goes on to commit a posting.
ReadOutcome(p) ==
  IF ~DigestsMatch THEN "refused"
  ELSE IF op[p].kind # "apply" THEN op[p].kind
  ELSE ApplyOutcome(files, op[p].cmd, op[p].execs, cap)

\* The program that has read the files leaves, or goes on to commit.
LEMMA ReadCases ==
  ASSUME NEW p \in Procs, ReadFiles(p)
  PROVE  \/ Leave(p)
         \/ /\ ReadOutcome(p) = "commit"
            /\ op' = [op EXCEPT ![p] = [kind |-> "commit",
                        outputs |-> ApplyOutputs(files, op[p].cmd, op[p].execs, cap)]]
            /\ Goto(p, "commit")
            /\ UNCHANGED lock
BY Zenon DEF ReadFiles, ReadOutcome

\* What apply computes from the files it has read is a posting of its command.
LEMMA ReadKeeps ==
  ASSUME IInv, NEW p \in Procs, ReadFiles(p)
  PROVE  IInv'
<1>t. TypeInv /\ CallAt(p) /\ LockAt(p) /\ DiskAt(p)
  BY DEF IInv, CallInv, LockInv, DiskInv
<1>u. pc[p] = "read" /\ pc[p] \in Locked /\ UNCHANGED <<brokerVars, diskVars, capVars>>
  BY Zenon DEF ReadFiles, Locked
<1>x. exists /\ lock = p /\ journal = NoJournal
  BY ZenonT(30), <1>t, <1>u DEF LockAt, DiskAt
<1>1. CASE Leave(p)
  BY ZenonT(30), <1>u, <1>1, LeaveKeeps DEF diskVars
<1>2. CASE ~Leave(p)
  <2> DEFINE b == files  c == op[p].cmd  X == op[p].execs
             out == ApplyOutputs(b, c, X, cap)
  <2>1. /\ ReadOutcome(p) = "commit"
        /\ op' = [op EXCEPT ![p] = [kind |-> "commit", outputs |-> out]]
        /\ Goto(p, "commit")
        /\ UNCHANGED lock
    BY Zenon, <1>2, ReadCases
  <2>2. /\ files = checkpoint /\ op[p].kind = "apply"
        /\ ApplyOutcome(b, c, X, cap) = "commit"
    BY ZenonT(30), <1>t, <1>u, <2>1 DEF ReadOutcome, DigestsMatch, CallAt
  <2>3. /\ stage = "ready" /\ c \in Commands /\ X \in SUBSET Book!Executions
        /\ X # {} /\ X \subseteq filled[c] /\ filledAt[c] <= cap.completed
    BY ZenonT(30), <1>t, <2>2 DEF CallAt, Applies
  <2>4. b \in Books
    BY ZenonT(30), <1>x, <2>2, DiskNow
  <2> HIDE DEF b, c, X, out
  <2>5. out \in Books /\ AccountIn(past, out) /\ Posts(b, out)
    BY <2>2, <2>3, <2>4, ApplyPosts DEF out
  <2>6. [kind |-> "commit", outputs |-> out] \in Commits
    BY Zenon, <2>5 DEF Commits
  <2>7. /\ op' \in [Procs -> Calls] /\ op'[p] = [kind |-> "commit", outputs |-> out]
        /\ \A q \in Procs : q # p => op'[q] = op[q]
    BY ZenonT(30), <1>t, <2>1, <2>6, OpEffect DEF Calls
  <2>8. /\ pc' \in [Procs -> Points] /\ pc'[p] = "commit"
        /\ \A q \in Procs : q # p => pc'[q] = pc[q]
    BY <1>t, <2>1, GotoEffect DEF Points, Locked
  <2>9. CallAt(p)'
    BY ZenonT(30), <1>u, <1>x, <2>1, <2>6, <2>7, <2>8 DEF CallAt, Locked, diskVars
  <2>11. LockAt(p)'
    BY <1>u, <1>x, <2>1, <2>7, <2>8 DEF LockAt, Locked, diskVars
  <2>10. DiskAt(p)'
    <3>1. journal' = NoJournal /\ files' = checkpoint' /\ checkpoint' = b /\ past' = past
      BY Zenon, <1>u, <1>x, <2>2 DEF diskVars, brokerVars, b
    <3>2. op'[p].outputs = out
      BY <2>7
    <3> QED
      BY Zenon, <2>5, <2>8, <3>1, <3>2 DEF DiskAt
  <2> QED
    BY ZenonT(30), <1>u, <2>1, <2>7, <2>8, <2>9, <2>10, <2>11, ProcFrame, DiskNow
       DEF diskVars
<1> QED
  BY <1>1, <1>2

\* The journal becomes durable with the files untouched since they were read.
LEMMA CommitKeeps ==
  ASSUME IInv, NEW p \in Procs, CommitJournal(p)
  PROVE  IInv'
<1>t. TypeInv /\ CallAt(p) /\ LockAt(p) /\ DiskAt(p)
  BY DEF IInv, CallInv, LockInv, DiskInv
<1>u. /\ pc[p] = "commit" /\ pc[p] \in Locked
      /\ UNCHANGED <<brokerVars, capVars, exists, files, checkpoint, lock>>
  BY DEF CommitJournal, Locked
<1>x. exists /\ lock = p /\ files = checkpoint /\ AccountIn(past, op[p].outputs)
  BY ZenonT(30), <1>t, <1>u DEF LockAt, DiskAt
<1>1. /\ pc' \in [Procs -> Points] /\ pc'[p] = "check"
      /\ \A q \in Procs : q # p => pc'[q] = pc[q]
  BY <1>t, GotoEffect DEF CommitJournal, Points, Locked
<1>2. /\ op' \in [Procs -> Calls] /\ op'[p].kind = "commit"
      /\ \A q \in Procs : q # p => op'[q] = op[q]
  BY ZenonT(30), <1>t, OpEffect, PlainCalls DEF CommitJournal
<1>3. checkpoint \in Books /\ op[p].outputs \in Books
  BY Zenon, <1>t, <1>u, <1>x, DiskNow DEF CallAt, Commits
<1>4. /\ journal' \in [before : Books, outputs : Books]
      /\ journal'.outputs = op[p].outputs /\ journal' # NoJournal
  <2>1. journal' = [before |-> files, outputs |-> op[p].outputs]
    BY Zenon DEF CommitJournal
  <2>2. /\ journal' \in [before : Books, outputs : Books]
        /\ journal'.outputs = op[p].outputs
    BY <1>x, <1>3, <2>1
  <2> QED
    BY <2>2, RuntimeAssumption
<1>5. CallAt(p)' /\ LockAt(p)' /\ DiskAt(p)'
  BY ZenonT(30), <1>u, <1>x, <1>1, <1>2, <1>4 DEF CallAt, LockAt, DiskAt
<1>6. \A q \in Procs : q # p => pc[q] \notin Locked
  BY <1>u, Alone
<1> QED
  BY ZenonT(30), <1>u, <1>x, <1>1, <1>2, <1>4, <1>5, <1>6, ProcFrame, DiskNow

\* The invariant holds at the start and is kept by every step.
LEMMA IInvInit == Init => IInv
<1> SUFFICES ASSUME Init PROVE IInv
  BY Zenon
<1>1. TypeInv
  <2>1. [cash |-> OpeningCash, hold |-> OpeningHold] \in Accounts
    BY RuntimeAssumption DEF Accounts
  <2>2. past \in Seq(Accounts) /\ past # <<>>
    BY <2>1 DEF Init
  <2>3. /\ filled \in [Commands -> SUBSET Book!Executions]
        /\ \A c \in Commands : filled[c] = {}
        /\ filledAt \in [Commands -> Nat]
    BY DEF Init
  <2>4. pc \in [Procs -> Points] /\ op \in [Procs -> Calls]
    BY PlainCalls DEF Init, Points
  <2> QED
    BY ZenonT(30), <2>2, <2>3, <2>4 DEF Init, TypeInv
<1>2. CapInv
  BY DEF Init, CapInv
<1>3. LockInv /\ CallInv
  BY PlainCalls DEF Init, LockInv, LockAt, CallInv, CallAt, Locked
<1>4. DiskInv
  BY DEF Init, DiskInv, DiskAt
<1> QED
  BY <1>1, <1>2, <1>3, <1>4 DEF IInv

\* Every step keeps the invariant.
LEMMA IInvStep == IInv /\ [Next]_vars => IInv'
<1> SUFFICES ASSUME IInv, [Next]_vars PROVE IInv'
  BY Zenon
<1>1. CASE UNCHANGED vars
  BY Zenon, <1>1 DEF vars, brokerVars, diskVars, procVars, capVars, IInv, TypeInv, CapInv,
              LockInv, LockAt, CallInv, CallAt, DiskInv, DiskAt, Clock
<1>2. CASE (\E c \in Commands : Fill(c)) \/ Transfer \/ TimePasses
  BY <1>2, BrokerKeeps
<1>3. CASE HandEdit
  BY <1>3, HandEditKeeps
<1>4. CASE BeginCapture \/ ReadRest \/ CompleteCapture
  BY <1>4, CaptureKeeps
<1>5. ASSUME NEW p \in Procs,
             \/ Proceed(p) \/ InitializeStage(p) \/ CallRead(p) \/ Crash(p)
             \/ \E c \in Commands : CallApply(p, c)
      PROVE  IInv'
  BY <1>5, RenameKeeps, AcquireKeeps, RecoverKeeps, ReadKeeps, CommitKeeps,
     EnterKeeps, CrashKeeps DEF Proceed
<1> QED
  BY <1>1, <1>2, <1>3, <1>4, <1>5 DEF Next

\* The invariant holds in every reachable state.
THEOREM RuntimeInvariant == Spec => []IInv
<1>1. Init => IInv
  BY IInvInit
<1>2. IInv /\ [Next]_vars => IInv'
  BY IInvStep
<1> QED
  BY <1>1, <1>2, PTL DEF Spec

\* The committed book is always an account the broker really had at or before
\* the time the book claims to cover: cash and holdings of one moment.
THEOREM BookIsPast == Spec => []BookIsAPastAccount
<1>1. IInv => BookIsAPastAccount
  <2> SUFFICES ASSUME IInv, Committed # NoBook PROVE BookIsAPastAccount
    BY DEF BookIsAPastAccount
  <2>1. exists /\ AccountIn(past, Committed)
    BY CommittedCases, DiskNow
  <2> QED
    BY <2>1 DEF AccountIn, BookIsAPastAccount
<1> QED
  BY <1>1, RuntimeInvariant, PTL

-----------------------------------------------------------------------------
\* The refinement: what is committed moves only when the staged directory is
\* renamed into place and when a journal becomes durable.
LEMMA CommittedStays ==
  ASSUME IInv, UNCHANGED <<exists, checkpoint, journal>>
  PROVE  Committed' = Committed
<1>1. ~exists => journal = NoJournal
  BY DiskNow
<1>2. CASE ~exists
  BY <1>1, <1>2, CommittedCases, CommittedCasesNext
<1>3. CASE exists /\ journal = NoJournal
  BY <1>3, CommittedCases, CommittedCasesNext
<1>4. CASE exists /\ journal # NoJournal
  BY <1>4, CommittedCases, CommittedCasesNext
<1> QED
  BY DiskNow, <1>2, <1>3, <1>4

\* The rename opens the book; a second one changes nothing.
LEMMA RenameOpens ==
  ASSUME IInv, NEW p \in Procs, InitializeRename(p)
  PROVE  Book!Open \/ Committed' = Committed
<1>1. CASE exists
  BY <1>1, CommittedStays DEF InitializeRename, diskVars
<1>2. CASE ~exists
  <2>1. pc[p] = "rename" /\ CallAt(p)
    BY DEF InitializeRename, IInv, CallInv
  <2>2. stage = "ready"
    BY <2>1 DEF CallAt
  <2>3. journal = NoJournal
    BY <1>2, DiskNow
  <2>4. Committed = NoBook
    BY <1>2, <2>3, CommittedCases
  <2>5. exists' /\ checkpoint' = InitialFiles /\ journal' = NoJournal
    BY <1>2, <2>3 DEF InitializeRename
  <2>6. Committed' = InitialFiles
    BY <2>5, CommittedCasesNext
  <2>7. InitialFiles # NoBook
    BY ZenonT(30), <2>2, InitialFilesFit, RuntimeAssumption
  <2>8. InitialFiles = [hold |-> InitialFiles.hold, cash |-> InitialFiles.cash,
                        fills |-> {}, ledger |-> {}, processed |-> {}, evidence |-> 1]
    BY ZenonT(30) DEF InitialFiles
  <2> QED
    BY <2>4, <2>6, <2>7, <2>8 DEF Book!Open
<1> QED
  BY <1>1, <1>2

\* A durable journal posts one command.
LEMMA CommitPosts ==
  ASSUME IInv, NEW p \in Procs, CommitJournal(p)
  PROVE  \E c \in Commands : Book!Post(c)
<1>t. CallAt(p) /\ LockAt(p) /\ DiskAt(p)
  BY DEF IInv, CallInv, LockInv, DiskInv
<1>u. pc[p] = "commit" /\ pc[p] \in Locked /\ UNCHANGED <<exists, checkpoint>>
  BY Zenon DEF CommitJournal, Locked
<1>x. /\ exists /\ files = checkpoint /\ journal = NoJournal
      /\ Posts(checkpoint, op[p].outputs)
  BY ZenonT(30), <1>t, <1>u DEF LockAt, DiskAt
<1>1. checkpoint \in Books /\ op[p].outputs \in Books
  BY ZenonT(30), <1>t, <1>u, <1>x, DiskNow DEF CallAt, Commits
<1>2. journal'.outputs = op[p].outputs /\ journal' # NoJournal
  <2>1. journal' = [before |-> files, outputs |-> op[p].outputs]
    BY Zenon DEF CommitJournal
  <2>2. /\ journal' \in [before : Books, outputs : Books]
        /\ journal'.outputs = op[p].outputs
    BY <1>x, <1>1, <2>1
  <2> QED
    BY <2>2, RuntimeAssumption
<1>3. Committed = checkpoint /\ Committed # NoBook
  BY <1>x, <1>1, CommittedCases, RuntimeAssumption
<1>4. Committed' = op[p].outputs
  BY ZenonT(30), <1>u, <1>x, <1>2, CommittedCasesNext
<1>5. PICK c \in Commands : \E X \in UNION {SUBSET F : F \in Fillings[c]} :
        /\ X # {} /\ Book!Principal(X) = OrderAmount[c]
        /\ \A r \in Committed.processed : r.cmd # c /\ r.exec \notin X
        /\ Book!Debit(X) <= Committed.cash.balance
        /\ Committed'.cash.coverage > Committed.cash.coverage
        /\ Committed' = Book!Posted(Committed, c, X, Committed'.cash.coverage)
  BY ZenonT(30), <1>x, <1>3, <1>4 DEF Posts
<1>6. Book!Post(c)
  BY <1>3, <1>5 DEF Book!Post
<1> QED
  BY <1>6

\* Recovery replaces the checkpoint by the journal's outputs before it removes
\* the journal, so what is committed stays the same throughout.
LEMMA RecoveryInvisible ==
  ASSUME IInv, NEW p \in Procs, WriteCheckpoint(p) \/ UnlinkJournal(p)
  PROVE  Committed' = Committed
<1>t. LockAt(p) /\ DiskAt(p)
  BY Zenon DEF IInv, LockInv, DiskInv
<1>1. exists /\ exists' /\ journal # NoJournal
  BY ZenonT(30), <1>t DEF WriteCheckpoint, UnlinkJournal, LockAt, DiskAt, Locked
<1>2. CASE WriteCheckpoint(p)
  BY <1>1, <1>2, CommittedCases, CommittedCasesNext DEF WriteCheckpoint
<1>3. CASE UnlinkJournal(p)
  <2>1. journal' = NoJournal /\ checkpoint' = checkpoint /\ checkpoint = journal.outputs
    BY <1>t, <1>3 DEF UnlinkJournal, DiskAt
  <2> QED
    BY ZenonT(30), <1>1, <2>1, CommittedCases, CommittedCasesNext
<1> QED
  BY <1>2, <1>3

\* Every step of the runtime opens the book, posts a command or leaves it alone.
LEMMA BookStep == IInv /\ [Next]_vars => [Book!Next]_Committed
<1> SUFFICES ASSUME IInv, [Next]_vars PROVE Book!Next \/ Committed' = Committed
  OBVIOUS
<1>1. CASE UNCHANGED <<exists, checkpoint, journal>>
  BY <1>1, CommittedStays
<1>2. ASSUME NEW p \in Procs, InitializeRename(p)
      PROVE  Book!Next \/ Committed' = Committed
  BY <1>2, RenameOpens DEF Book!Next
<1>3. ASSUME NEW p \in Procs, CommitJournal(p)
      PROVE  Book!Next
  BY <1>3, CommitPosts DEF Book!Next
<1>4. ASSUME NEW p \in Procs, WriteCheckpoint(p) \/ UnlinkJournal(p)
      PROVE  Committed' = Committed
  BY <1>4, RecoveryInvisible
<1>5. ASSUME NEW p \in Procs,
             \/ Acquire(p) \/ RecoverCheck(p) \/ WriteFile(p) \/ ReadFiles(p)
             \/ InitializeStage(p) \/ CallRead(p) \/ Crash(p)
             \/ \E c \in Commands : CallApply(p, c)
      PROVE  UNCHANGED <<exists, checkpoint, journal>>
  BY <1>5 DEF Acquire, RecoverCheck, WriteFile, ReadFiles, InitializeStage, CallRead,
              Crash, CallApply, Call, diskVars
<1>6. CASE \/ UNCHANGED vars \/ HandEdit \/ BeginCapture \/ ReadRest \/ CompleteCapture
           \/ Transfer \/ TimePasses \/ \E c \in Commands : Fill(c)
  <2>1. UNCHANGED <<exists, checkpoint, journal>>
    BY Zenon, <1>6 DEF HandEdit, BeginCapture, ReadRest, CompleteCapture, Transfer,
                TimePasses, Fill, vars, diskVars
  <2> QED
    BY Zenon, <1>1, <2>1
<1> QED
  BY ZenonT(30), <1>1, <1>2, <1>3, <1>4, <1>5, <1>6 DEF Next, Proceed

\* The files, checkpoint, journal and lock of the runtime implement the atomic
\* book: every run of _commit, _recover_locked and initialize, interrupted or
\* not, moves the committed book by one Open, one Post or not at all.
THEOREM RuntimeImplementsBook == Spec => ImplementsBook
<1>1. Init => Book!Init
  BY CommittedCases DEF Init, Book!Init
<1>2. IInv /\ [Next]_vars => [Book!Next]_Committed
  BY BookStep
<1> QED
  BY <1>1, <1>2, RuntimeInvariant, PTL DEF Spec, ImplementsBook, Book!Spec
=============================================================================
