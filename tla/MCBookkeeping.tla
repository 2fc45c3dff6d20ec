--------------------------- MODULE MCBookkeeping ---------------------------
EXTENDS Bookkeeping

\* The journal reads nothing of the books and the books nothing of the journal,
\* so the two need not be explored in each other's every state: behaviours with
\* positions or changed books are those of an empty journal nobody migrates.
OneHalfAtATime ==
  \/ fills = {} /\ edits = 0
  \/ reviews = 0 /\ ~historyDir /\ journal = {}
============================================================================
