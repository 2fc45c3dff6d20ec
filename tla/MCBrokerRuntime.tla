--------------------------- MODULE MCBrokerRuntime ---------------------------
(* Two programs, two commands, one held position.  The first command fills in *)
(* full or one unit short, the second fills in two executions, one of which   *)
(* adds to the position the first opened.                                     *)
EXTENDS BrokerRuntime, TLC

CONSTANTS p1, p2, c1, c2, q0, q1, q2

MCProcs == {p1, p2}
MCCommands == {c1, c2}
MCPositions == {q0, q1, q2}
MCOrderAmount == c1 :> 2 @@ c2 :> 2
MCFillings ==
  c1 :> { {[id |-> 1, pos |-> q1, principal |-> 2, cost |-> 1]},
          {[id |-> 1, pos |-> q1, principal |-> 1, cost |-> 1]} } @@
  c2 :> { {[id |-> 2, pos |-> q1, principal |-> 1, cost |-> 0],
           [id |-> 3, pos |-> q2, principal |-> 1, cost |-> 1]} }
MCOpeningHold == q0 :> 1 @@ q1 :> 0 @@ q2 :> 0
=============================================================================
