------------------------------ MODULE SendOnce -------------------------------
(***************************************************************************)
(* What the execution store promises about the submission of an order       *)
(* intent, without saying how: the right to send is claimed once, used at   *)
(* most once, and an unclaimed intent that was overtaken forfeits it.       *)
(***************************************************************************)
CONSTANT Intents
VARIABLE phase

Init == phase = [i \in Intents |-> "open"]

Step(i, from, to) == phase[i] = from /\ phase' = [phase EXCEPT ![i] = to]

Claim(i) == Step(i, "open", "claimed")
Forfeit(i) == Step(i, "open", "forfeited")
Send(i) == Step(i, "claimed", "sent")
Resolve(i) == Step(i, "sent", "resolved")

Next == \E i \in Intents : Claim(i) \/ Forfeit(i) \/ Send(i) \/ Resolve(i)

Spec == Init /\ [][Next]_phase
=============================================================================
