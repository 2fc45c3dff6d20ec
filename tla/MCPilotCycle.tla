----------------------------- MODULE MCPilotCycle -----------------------------
(* Two orders of two units, one position held at inception and one that a     *)
(* third party may open.  A cost of one breaches the order cap.  Either a     *)
(* program dies once, or the first order is placed by hand, or the third      *)
(* party acts three times around one order of the finite mandate.        *)
EXTENDS PilotCycle, TLC

CONSTANTS c1, c2, x1, b1

MCCommands == {c1, c2}
MCExternals == {x1}
MCBaseline == {b1}
MCInception ==
  [cash |-> 10, held |-> c1 :> 0 @@ c2 :> 0 @@ x1 :> 0 @@ b1 :> 1, pnl |-> 0]
MCScenarios ==
  { [days |-> 2, third |-> 0, crashes |-> 1, profits |-> {0},
     kinds |-> c1 :> Kinds @@ c2 :> {"finite"}],
    [days |-> 2, third |-> 0, crashes |-> 0, profits |-> {0, -1},
     kinds |-> c1 :> {"manual"} @@ c2 :> {"finite"}],
    [days |-> 1, third |-> 3, crashes |-> 0, profits |-> {0, -1},
     kinds |-> c1 :> {"finite"} @@ c2 :> {}] }
===============================================================================
