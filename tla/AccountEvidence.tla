--------------------------- MODULE AccountEvidence ---------------------------
(***************************************************************************)
(* The bracketed account capture of brokers/etoro/account_evidence.py and    *)
(* the checks the Fill-owned runtime repeats on it.  A capture is three      *)
(* reads of the broker (detailed portfolio, P&L, detailed portfolio) between *)
(* two local clock readings, plus one separately sourced cash observation.   *)
(* Each read sees the account the broker has at that tick.                   *)
(***************************************************************************)
EXTENDS Integers, FiniteSetsExt

CONSTANTS Positions, MaxAge  \* MAX_CAPTURE_SECONDS in ticks; also the skew limit

\* A capture: the structure the first read returned, the local bracket, the
\* source time of each position's mark and of the cash observation, and the
\* amount that observation states.
Held(hold) == {q \in Positions : hold[q] > 0}

\* _structural_state of two reads agree: cash and every holding.
SameStructure(a, b) == a.cash = b.cash /\ a.hold = b.hold

\* capture_pnl_account_evidence refuses an account without positions.
CaptureMayStart(acct) == Held(acct.hold) # {}

\* validate_at: every component clock is at most MaxAge old, at completion
\* and now, none lies after the completion, and the components do not spread
\* over more than the skew limit.
ValidateAt(cap, now) ==
  LET stamps == {cap.marks[q] : q \in Held(cap.acct.hold)} \cup {cap.cashAt}
      times  == stamps \cup {cap.started, cap.completed}
  IN /\ cap.completed >= cap.started
     /\ cap.completed - cap.started <= MaxAge
     /\ now >= cap.completed
     /\ now - cap.started <= MaxAge
     /\ Held(cap.acct.hold) # {}
     /\ \A s \in stamps : /\ 0 <= cap.completed - s /\ cap.completed - s <= MaxAge
                          /\ now - s <= MaxAge
     /\ cap.cashValue = cap.acct.cash
     /\ Max(times) - Min(times) <= MaxAge
=============================================================================
